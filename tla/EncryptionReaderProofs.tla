------------------------ MODULE EncryptionReaderProofs ------------------------
(***************************************************************************)
(* Proofs about EncryptionWriter, for every size of chunk, tag, head and   *)
(* buffer, and for any writes that fail.                                   *)
(*                                                                         *)
(* KeystreamOnce is not inductive: that the next byte uses a fresh place   *)
(* of the keystream depends on all places of the current nonce having been *)
(* used in order, and on no greater nonce having been used yet.            *)
(***************************************************************************)
EXTENDS EncryptionReader, SequenceTheorems, DataInduction

Place == (Nat \ {0}) \X (Nat \ {0})

Distinct(places) ==
    /\ \A i, j \in 1..Len(places) : places[i] = places[j] => i = j
    /\ \A i \in 1..Len(places) : places[i][1] # 0

(***************************************************************************)
(* Only nonces below ctr were used, and of ctr the places up to used.      *)
(***************************************************************************)
UsedSoFar(places, ctr, used) ==
    \A i \in 1..Len(places) :
        \/ places[i][1] < ctr
        \/ places[i][1] = ctr /\ places[i][2] <= used

KeystreamInv ==
    /\ WriterTypeOK
    /\ Distinct(keystream)
    /\ UsedSoFar(keystream, current_ctr, Len(encrypted))

-----------------------------------------------------------------------------
(***************************************************************************)
(* write takes at least one byte, and no more than the chunk has room for. *)
(***************************************************************************)
LEMMA SizeTakenFits ==
    ASSUME NEW length \in WriteSizes, WriterTypeOK
    PROVE  /\ SizeTaken(length) \in Nat \ {0}
           /\ Offset + SizeTaken(length) \in 0..NORMAL_CHUNK_PT_SIZE
           /\ Offset \in 0..NORMAL_CHUNK_PT_SIZE
<1> DEFINE room == NORMAL_CHUNK_PT_SIZE - Offset
           fits == {length, CIPHER_BUF_SIZE, room}
<1>1. /\ length \in Nat \ {0} /\ CIPHER_BUF_SIZE \in Nat \ {0}
      /\ room \in Nat \ {0} /\ Offset \in 0..NORMAL_CHUNK_PT_SIZE
  BY WriterAssumption DEF WriterTypeOK, Offset, ChunkFull
<1> HIDE DEF room
<1>2. \E size \in fits : \A other \in fits : size <= other
  <2>1. CASE length <= CIPHER_BUF_SIZE /\ length <= room
    BY <1>1, <2>1
  <2>2. CASE CIPHER_BUF_SIZE <= length /\ CIPHER_BUF_SIZE <= room
    BY <1>1, <2>2
  <2>3. CASE room <= length /\ room <= CIPHER_BUF_SIZE
    BY <1>1, <2>3
  <2> QED
    BY <1>1, <2>1, <2>2, <2>3
<1>3. SizeTaken(length) = (CHOOSE size \in fits : \A other \in fits : size <= other)
  BY DEF SizeTaken, room
<1>4. SizeTaken(length) \in fits /\ SizeTaken(length) <= room
  BY <1>2, <1>3
<1>5. SizeTaken(length) \in Nat \ {0} /\ SizeTaken(length) <= room
  BY <1>1, <1>4
<1> QED
  BY <1>1, <1>5, WriterAssumption DEF room

(***************************************************************************)
(* The ciphertext of a write, and the places of the keystream it uses.     *)
(***************************************************************************)
LEMMA EncryptedText ==
    ASSUME NEW ctr \in Nat \ {0}, NEW used \in Nat, NEW size \in Nat,
           written \in Nat
    PROVE  /\ Encrypt(ctr, used, size) \in Seq(CipherCell)
           /\ Len(Encrypt(ctr, used, size)) = size
           /\ Positions(ctr, used, size) \in Seq(Place)
           /\ Len(Positions(ctr, used, size)) = size
           /\ \A i \in 1..size : Positions(ctr, used, size)[i] = <<ctr, used + i>>
<1>1. Encrypt(ctr, used, size) \in [1..size -> CipherCell]
  BY DEF Encrypt, Cipher, CipherCell
<1>2. Positions(ctr, used, size) \in [1..size -> Place]
  BY DEF Positions, Place
<1>3. \A i \in 1..size : Positions(ctr, used, size)[i] = <<ctr, used + i>>
  BY DEF Positions
<1> QED
  BY <1>1, <1>2, <1>3

(***************************************************************************)
(* Places beyond those used so far can be added.                           *)
(***************************************************************************)
LEMMA FreshPlaces ==
    ASSUME NEW ctr \in Nat \ {0}, NEW used \in Nat, NEW size \in Nat,
           NEW old \in Seq(Place), NEW new \in Seq(Place),
           Len(new) = size,
           \A i \in 1..size : new[i] = <<ctr, used + i>>,
           Distinct(old), UsedSoFar(old, ctr, used)
    PROVE  /\ old \o new \in Seq(Place)
           /\ Distinct(old \o new)
           /\ UsedSoFar(old \o new, ctr, used + size)
<1> DEFINE n == Len(old)
           all == old \o new
<1>1. n \in Nat /\ all \in Seq(Place) /\ Len(all) = n + size
  BY ConcatProperties, LenProperties
<1>2. \A i \in 1..n : all[i] = old[i] /\ old[i] \in Place
  BY <1>1
<1>3. \A i \in n + 1..n + size : all[i] = <<ctr, used + (i - n)>>
  <2> SUFFICES ASSUME NEW i \in n + 1..n + size
               PROVE  all[i] = <<ctr, used + (i - n)>>
    OBVIOUS
  <2>1. i - n \in 1..size /\ all[i] = new[i - n]
    BY <1>1
  <2> QED
    BY <2>1
<1> HIDE DEF n, all
<1>4. \A i \in 1..n : \/ all[i][1] < ctr
                      \/ all[i][1] = ctr /\ all[i][2] <= used
  BY <1>2 DEF UsedSoFar, n
<1>5. \A i \in n + 1..n + size : all[i][1] = ctr /\ all[i][2] = used + (i - n)
  BY <1>3
<1>6. \A i \in 1..n + size : i \in 1..n \/ i \in n + 1..n + size
  BY <1>1
<1>7. ASSUME NEW i \in 1..n, NEW j \in n + 1..n + size
      PROVE  all[i] # all[j]
  <2>1. all[j][1] = ctr /\ all[j][2] = used + (j - n) /\ j - n > 0
    BY <1>1, <1>5
  <2>2. all[j][2] > used
    BY <1>1, <2>1
  <2>3. all[i][1] < ctr \/ (all[i][1] = ctr /\ all[i][2] <= used)
    BY <1>4
  <2>4. all[i] \in Place
    BY <1>2
  <2>5. all[i][1] \in Nat /\ all[i][2] \in Nat
    BY <2>4 DEF Place
  <2> QED
    BY <1>1, <2>1, <2>2, <2>3, <2>5
<1>8. ASSUME NEW i \in n + 1..n + size, NEW j \in n + 1..n + size, all[i] = all[j]
      PROVE  i = j
  <2>1. used + (i - n) = used + (j - n)
    BY <1>5, <1>8
  <2> QED
    BY <1>1, <2>1
<1>9. ASSUME NEW i \in 1..n + size, NEW j \in 1..n + size, all[i] = all[j]
      PROVE  i = j
  <2>1. CASE i \in 1..n /\ j \in 1..n
    BY <1>2, <1>9, <2>1 DEF Distinct, n
  <2> QED
    BY <1>6, <1>7, <1>8, <1>9, <2>1
<1>10. \A i \in 1..n + size : all[i][1] # 0
  <2> SUFFICES ASSUME NEW i \in 1..n + size PROVE all[i][1] # 0
    OBVIOUS
  <2>1. all[i] \in Place
    BY <1>1
  <2> QED
    BY <2>1 DEF Place
<1>11. Distinct(all)
  BY <1>1, <1>9, <1>10 DEF Distinct
<1>12. UsedSoFar(all, ctr, used + size)
  <2> SUFFICES ASSUME NEW i \in 1..n + size
               PROVE  \/ all[i][1] < ctr
                      \/ all[i][1] = ctr /\ all[i][2] <= used + size
    BY <1>1 DEF UsedSoFar
  <2>1. CASE i \in 1..n
    <3>1. all[i][1] \in Nat /\ all[i][2] \in Nat
      BY <1>2, <2>1 DEF Place
    <3> QED
      BY <1>4, <2>1, <3>1
  <2>2. CASE i \in n + 1..n + size
    BY <1>1, <1>5, <2>2
  <2> QED
    BY <1>6, <2>1, <2>2
<1> QED
  BY <1>1, <1>11, <1>12 DEF all

(***************************************************************************)
(* A greater nonce has not been used at all.                               *)
(***************************************************************************)
LEMMA NextNonceUnused ==
    ASSUME NEW ctr \in Nat, NEW used, NEW places \in Seq(Place),
           UsedSoFar(places, ctr, used)
    PROVE  UsedSoFar(places, ctr + 1, 0)
<1> SUFFICES ASSUME NEW i \in 1..Len(places) PROVE places[i][1] < ctr + 1
  BY DEF UsedSoFar
<1>1. places[i] \in Place
  OBVIOUS
<1>2. places[i][1] \in Nat
  BY <1>1 DEF Place
<1>3. places[i][1] < ctr \/ places[i][1] = ctr
  BY DEF UsedSoFar
<1> QED
  BY <1>2, <1>3

(***************************************************************************)
(* What write finds before it encrypts, in a new chunk or not.             *)
(***************************************************************************)
LEMMA BeforeEncrypting ==
    ASSUME KeystreamInv
    PROVE  /\ Ctr \in Nat \ {0}
           /\ Before \in Seq(CipherCell) /\ Len(Before) \in Nat
           /\ UsedSoFar(keystream, Ctr, Len(Before))
<1>1. /\ current_ctr \in Nat \ {0} /\ encrypted \in Seq(CipherCell)
      /\ keystream \in Seq(Place)
      /\ UsedSoFar(keystream, current_ctr, Len(encrypted))
  BY DEF KeystreamInv, WriterTypeOK, Place
<1>2. CASE ChunkFull
  <2>1. Ctr = current_ctr + 1 /\ Before = <<>> /\ Len(Before) = 0
    BY <1>2 DEF Ctr, Before, RenewCtr
  <2>2. UsedSoFar(keystream, current_ctr + 1, 0)
    BY <1>1, NextNonceUnused
  <2> QED
    BY <1>1, <2>1, <2>2
<1>3. CASE ~ChunkFull
  BY <1>1, <1>3 DEF Ctr, Before
<1> QED
  BY <1>2, <1>3

-----------------------------------------------------------------------------
LEMMA InitKeystream == WriterInit => KeystreamInv
<1> SUFFICES ASSUME WriterInit PROVE KeystreamInv
  OBVIOUS
<1>1. keystream = <<>> /\ Len(keystream) = 0
  BY DEF WriterInit
<1>2. Distinct(keystream) /\ UsedSoFar(keystream, current_ctr, Len(encrypted))
  BY <1>1 DEF Distinct, UsedSoFar
<1>3. torn \in BOOLEAN /\ finalized \in BOOLEAN
  BY Zenon DEF WriterInit
<1>4. WriterTypeOK
  BY <1>3, WriterAssumption DEF WriterInit, WriterTypeOK, FIRST_DATA_CHUNK_NUMBER
<1> QED
  BY <1>2, <1>4 DEF KeystreamInv

LEMMA WriteKeepsKeystream ==
    ASSUME KeystreamInv, NEW length \in WriteSizes, Write(length)
    PROVE  KeystreamInv'
<1> DEFINE size == SizeTaken(length)
           text == Encrypt(Ctr, Len(Before), size)
           new == Positions(Ctr, Len(Before), size)
<1>1. /\ size \in Nat /\ Offset + size \in 0..NORMAL_CHUNK_PT_SIZE
  BY SizeTakenFits DEF KeystreamInv
<1>2. /\ Ctr \in Nat \ {0} /\ Before \in Seq(CipherCell) /\ Len(Before) \in Nat
      /\ UsedSoFar(keystream, Ctr, Len(Before))
  BY BeforeEncrypting
<1>3. written \in Nat /\ keystream \in Seq(Place) /\ Distinct(keystream)
  BY DEF KeystreamInv, WriterTypeOK, Place
<1>4. /\ text \in Seq(CipherCell) /\ Len(text) = size
      /\ new \in Seq(Place) /\ Len(new) = size
      /\ \A i \in 1..size : new[i] = <<Ctr, Len(Before) + i>>
  <2> DEFINE ctr == Ctr
             used == Len(Before)
  <2>1. size \in Nat /\ ctr \in Nat \ {0} /\ used \in Nat /\ written \in Nat
    BY <1>1, <1>2, <1>3
  <2> HIDE DEF size, ctr, used
  <2>2. /\ Encrypt(ctr, used, size) \in Seq(CipherCell)
        /\ Len(Encrypt(ctr, used, size)) = size
        /\ Positions(ctr, used, size) \in Seq(Place)
        /\ Len(Positions(ctr, used, size)) = size
        /\ \A i \in 1..size : Positions(ctr, used, size)[i] = <<ctr, used + i>>
    BY <2>1, EncryptedText
  <2> QED
    BY <2>2 DEF ctr, used
<1>5. /\ current_ctr' = Ctr /\ encrypted' = Before \o text
      /\ keystream' = keystream \o new
      /\ current_chunk_offset' = Offset + size /\ written' = written + size
      /\ torn' = torn /\ finalized' = finalized
  BY DEF Write
<1> HIDE DEF size, text, new
<1>6. /\ keystream' \in Seq(Place) /\ Distinct(keystream')
      /\ UsedSoFar(keystream', Ctr, Len(Before) + size)
  BY <1>1, <1>2, <1>3, <1>4, <1>5, FreshPlaces
<1>7. encrypted' \in Seq(CipherCell) /\ Len(encrypted') = Len(Before) + size
  BY <1>2, <1>4, <1>5
<1>8. UsedSoFar(keystream', current_ctr', Len(encrypted'))
  BY <1>5, <1>6, <1>7
<1>9. WriterTypeOK'
  BY <1>1, <1>2, <1>3, <1>5, <1>6, <1>7 DEF KeystreamInv, WriterTypeOK, Place
<1> QED
  BY <1>6, <1>8, <1>9 DEF KeystreamInv

LEMMA WriteFailsKeepsKeystream ==
    ASSUME KeystreamInv, NEW length \in WriteSizes, WriteFails(length)
    PROVE  KeystreamInv'
<1> DEFINE size == SizeTaken(length)
           text == Encrypt(Ctr, Len(Before), size)
           new == Positions(Ctr, Len(Before), size)
<1>1. size \in Nat /\ Offset \in 0..NORMAL_CHUNK_PT_SIZE
  BY SizeTakenFits DEF KeystreamInv
<1>2. /\ Ctr \in Nat \ {0} /\ Before \in Seq(CipherCell) /\ Len(Before) \in Nat
      /\ UsedSoFar(keystream, Ctr, Len(Before))
  BY BeforeEncrypting
<1>3. written \in Nat /\ keystream \in Seq(Place) /\ Distinct(keystream)
  BY DEF KeystreamInv, WriterTypeOK, Place
<1>4. /\ text \in Seq(CipherCell) /\ Len(text) = size
      /\ new \in Seq(Place) /\ Len(new) = size
      /\ \A i \in 1..size : new[i] = <<Ctr, Len(Before) + i>>
  <2> DEFINE ctr == Ctr
             used == Len(Before)
  <2>1. size \in Nat /\ ctr \in Nat \ {0} /\ used \in Nat /\ written \in Nat
    BY <1>1, <1>2, <1>3
  <2> HIDE DEF size, ctr, used
  <2>2. /\ Encrypt(ctr, used, size) \in Seq(CipherCell)
        /\ Len(Encrypt(ctr, used, size)) = size
        /\ Positions(ctr, used, size) \in Seq(Place)
        /\ Len(Positions(ctr, used, size)) = size
        /\ \A i \in 1..size : Positions(ctr, used, size)[i] = <<ctr, used + i>>
    BY <2>1, EncryptedText
  <2> QED
    BY <2>2 DEF ctr, used
<1>5. /\ current_ctr' = Ctr /\ current_chunk_offset' = Offset
      /\ written' = written /\ torn' = TRUE /\ finalized' = finalized
      /\ \/ encrypted' = Before \o text /\ keystream' = keystream \o new
         \/ encrypted' = Before /\ keystream' = keystream
  BY DEF WriteFails
<1> HIDE DEF size, text, new
<1>6. CASE encrypted' = Before \o text /\ keystream' = keystream \o new
  <2>1. /\ keystream' \in Seq(Place) /\ Distinct(keystream')
        /\ UsedSoFar(keystream', Ctr, Len(Before) + size)
    BY <1>1, <1>2, <1>3, <1>4, <1>6, FreshPlaces
  <2>2. encrypted' \in Seq(CipherCell) /\ Len(encrypted') = Len(Before) + size
    BY <1>2, <1>4, <1>6
  <2>3. UsedSoFar(keystream', current_ctr', Len(encrypted'))
    BY <1>5, <2>1, <2>2
  <2>4. WriterTypeOK'
    BY <1>1, <1>2, <1>3, <1>5, <2>1, <2>2 DEF KeystreamInv, WriterTypeOK, Place
  <2> QED
    BY <2>1, <2>3, <2>4 DEF KeystreamInv
<1>7. CASE encrypted' = Before /\ keystream' = keystream
  <2>1. Distinct(keystream') /\ UsedSoFar(keystream', current_ctr', Len(encrypted'))
    BY <1>2, <1>3, <1>5, <1>7
  <2>2. WriterTypeOK'
    BY <1>1, <1>2, <1>3, <1>5, <1>7 DEF KeystreamInv, WriterTypeOK, Place
  <2> QED
    BY <2>1, <2>2 DEF KeystreamInv
<1> QED
  BY <1>5, <1>6, <1>7

LEMMA FinalizeKeepsKeystream ==
    ASSUME KeystreamInv, Finalize
    PROVE  KeystreamInv'
<1> DEFINE ctr == current_ctr + 1
           new == <<<<ctr, 1>>>>
<1>1. /\ ctr \in Nat \ {0} /\ keystream \in Seq(Place)
      /\ Distinct(keystream)
  BY DEF KeystreamInv, WriterTypeOK, Place
<1>2. /\ keystream' = Append(keystream, <<ctr, 1>>) /\ current_ctr' = ctr + 1
      /\ current_chunk_offset' = 0 /\ encrypted' = <<>>
      /\ written' = written /\ torn' = torn
  BY Zenon DEF Finalize, RenewCtr
<1>3. finalized' = TRUE
  BY Zenon DEF Finalize
<1>4. /\ new \in Seq(Place) /\ Len(new) = 1
      /\ \A i \in 1..1 : new[i] = <<ctr, 0 + i>>
      /\ keystream' = keystream \o new
  <2>1. <<ctr, 1>> \in Place
    BY <1>1 DEF Place
  <2>2. new \in Seq(Place) /\ Len(new) = 1 /\ new[1] = <<ctr, 1>>
    BY <2>1
  <2>3. Append(keystream, <<ctr, 1>>) = keystream \o new
    BY <1>1, <2>1, AppendIsConcat
  <2> QED
    BY <1>2, <2>2, <2>3
<1>5. UsedSoFar(keystream, ctr, 0)
  BY <1>1, NextNonceUnused DEF KeystreamInv, WriterTypeOK
<1> HIDE DEF ctr, new
<1>6. /\ keystream' \in Seq(Place) /\ Distinct(keystream')
      /\ UsedSoFar(keystream', ctr, 0 + 1)
  BY <1>1, <1>4, <1>5, FreshPlaces
<1>7. UsedSoFar(keystream', current_ctr', Len(encrypted'))
  BY <1>1, <1>2, <1>6, NextNonceUnused
<1>8. WriterTypeOK'
  <2>1. torn' \in BOOLEAN /\ finalized' \in BOOLEAN
    BY <1>2, <1>3, Zenon DEF KeystreamInv, WriterTypeOK
  <2> QED
    BY <1>1, <1>2, <1>6, <2>1, WriterAssumption DEF KeystreamInv, WriterTypeOK, Place
<1> QED
  BY <1>6, <1>7, <1>8 DEF KeystreamInv

LEMMA StepKeepsKeystream == KeystreamInv /\ [WriterNext]_writerVars => KeystreamInv'
<1> SUFFICES ASSUME KeystreamInv, [WriterNext]_writerVars PROVE KeystreamInv'
  OBVIOUS
<1>1. ASSUME NEW length \in WriteSizes, Write(length) PROVE KeystreamInv'
  BY <1>1, WriteKeepsKeystream
<1>2. ASSUME NEW length \in WriteSizes, WriteFails(length) PROVE KeystreamInv'
  BY <1>2, WriteFailsKeepsKeystream
<1>3. CASE Finalize
  BY <1>3, FinalizeKeepsKeystream
<1>4. CASE UNCHANGED writerVars
  BY <1>4 DEF writerVars, KeystreamInv, WriterTypeOK
<1> QED
  BY <1>1, <1>2, <1>3, <1>4 DEF WriterNext

(***************************************************************************)
(* InternalEncryptionLayerWriter never encrypts two bytes with the same    *)
(* byte of keystream, for any sizes, any sequence of writes and any        *)
(* failures of the inner layer, the final block included.                  *)
(***************************************************************************)
THEOREM KeystreamNeverReused == WriterSpec => []KeystreamOnce
<1>1. KeystreamInv => KeystreamOnce
  BY DEF KeystreamInv, Distinct, KeystreamOnce
<1> QED
  BY <1>1, InitKeystream, StepKeepsKeystream, PTL DEF WriterSpec

(***************************************************************************)
(* The fields of the writer keep their types; in particular write never    *)
(* reaches its "Chunk too big" error.                                      *)
(***************************************************************************)
THEOREM WriterTypeCorrect == WriterSpec => []WriterTypeOK
<1>1. KeystreamInv => WriterTypeOK
  BY DEF KeystreamInv
<1> QED
  BY <1>1, InitKeystream, StepKeepsKeystream, PTL DEF WriterSpec

-----------------------------------------------------------------------------
(***************************************************************************)
(* Proofs about the authenticated recovery of an encrypted stream, for     *)
(* every size of chunk, tag and head, every cut and every changed byte.    *)
(*                                                                         *)
(* The argument: a tag the writer made names the nonce it was made under   *)
(* and the ciphertext of that chunk (HonestCells), and the reader derives  *)
(* the nonce from its own position. Data that verifies is therefore the    *)
(* chunk that belongs at this position, wherever the stream was cut and    *)
(* however the search for the tag went.                                    *)
(***************************************************************************)
N == NORMAL_CHUNK_PT_SIZE

\* The plaintext before a chunk, and the first n bytes of its ciphertext.
Start(ctr) == (ctr - FIRST_DATA_CHUNK_NUMBER) * N
Text(ctr, n) == [i \in 1..n |-> Cipher(ctr, i, Start(ctr) + i)]

StoredCell ==
    CipherCell
    \cup [kind : {"head"}, ctr : Nat, part : Nat]
    \cup [kind : {"tag"}, ctr : Nat \ {0}, aad : {ASSOCIATED_DATA, FINAL_ASSOCIATED_DATA},
          text : Seq(CipherCell), part : Nat]
    \cup [kind : {"magic"}, part : Nat]
    \cup [kind : {"end", "tail", "changed"}]

\* The tag of a chunk of data was made for the beginning of that chunk, as it
\* was among the first w bytes that write accepted.
Honest(c, w) ==
    c.kind = "tag" /\ c.aad = ASSOCIATED_DATA =>
        \E n \in 0..N : Start(c.ctr) + n <= w /\ c.text = Text(c.ctr, n)

HonestCells(w) == {c \in StoredCell : Honest(c, w)}

\* The chunk being written, as long as no write has failed.
ChunkNow ==
    ~finalized =>
        /\ encrypted = Text(current_ctr, current_chunk_offset)
        /\ written = Start(current_ctr) + current_chunk_offset

\* No final block magic before the end of the first head and one byte more.
MagicLate(stream) ==
    \A p \in 1..Len(stream) : stream[p].kind = "magic" => p > CHUNK_HEAD_SIZE + 1

StreamHonest ==
    ~torn =>
        /\ ChunkNow
        /\ out \in Seq(HonestCells(written))
        /\ Len(out) >= CHUNK_HEAD_SIZE
        /\ MagicLate(out)

-----------------------------------------------------------------------------
(***************************************************************************)
(* Arithmetic of chunks.                                                   *)
(***************************************************************************)
LEMMA StartFacts ==
    /\ N \in Nat \ {0} /\ Start(FIRST_DATA_CHUNK_NUMBER) = 0
    /\ \A ctr \in Nat \ {0} : Start(ctr) \in Nat /\ Start(ctr + 1) = Start(ctr) + N
  <1>1. N \in Nat \ {0}
    BY WriterAssumption DEF N
  <1> HIDE DEF N
  <1>2. ASSUME NEW ctr \in Nat \ {0}
        PROVE  Start(ctr) \in Nat /\ Start(ctr + 1) = Start(ctr) + N
    <2> DEFINE q == ctr - 1
    <2>1. q \in Nat /\ Start(ctr) = q * N /\ Start(ctr + 1) = (q + 1) * N
      BY DEF Start, FIRST_DATA_CHUNK_NUMBER
    <2> HIDE DEF q
    <2>2. q * N \in Nat /\ (q + 1) * N = q * N + N
      BY <1>1, <2>1
    <2>3. QED
      BY <2>1, <2>2
  <1>3. Start(FIRST_DATA_CHUNK_NUMBER) = 0
    BY <1>1 DEF Start, FIRST_DATA_CHUNK_NUMBER
  <1>4. QED
    BY <1>1, <1>2, <1>3

\* The nonce that load_in_cache derives from a position at the start of a chunk.
LEMMA NonceAt ==
    ASSUME NEW ctr \in Nat \ {0}
    PROVE  (Start(ctr) \div NORMAL_CHUNK_PT_SIZE) + FIRST_DATA_CHUNK_NUMBER = ctr
  <1>1. N \in Nat \ {0}
    BY WriterAssumption DEF N
  <1> DEFINE q == ctr - 1
  <1>2. q \in Nat /\ Start(ctr) = q * N
    BY DEF Start, FIRST_DATA_CHUNK_NUMBER
  <1> HIDE DEF q
  <1>3. (q * N) \div N = q
    <2> HIDE DEF N
    <2>1. QED
      BY <1>1, <1>2
  <1>4. (Start(ctr) \div NORMAL_CHUNK_PT_SIZE) = q
    BY <1>2, <1>3 DEF N
  <1>5. QED
    BY <1>2, <1>4 DEF q, FIRST_DATA_CHUNK_NUMBER

LEMMA TextFacts ==
    ASSUME NEW ctr \in Nat \ {0}, NEW n \in Nat
    PROVE  /\ Text(ctr, n) \in Seq(CipherCell) /\ Len(Text(ctr, n)) = n
           /\ \A i \in 1..n : Text(ctr, n)[i] = Cipher(ctr, i, Start(ctr) + i)
  <1>1. Start(ctr) \in Nat
    BY StartFacts
  <1>2. \A i \in 1..n : Cipher(ctr, i, Start(ctr) + i) \in CipherCell
    <2> SUFFICES ASSUME NEW i \in 1..n PROVE Cipher(ctr, i, Start(ctr) + i) \in CipherCell
      OBVIOUS
    <2>1. i \in Nat \ {0} /\ Start(ctr) + i \in Nat
      BY <1>1
    <2>2. QED
      BY <2>1 DEF Cipher, CipherCell
  <1> DEFINE f == [i \in 1..n |-> Cipher(ctr, i, Start(ctr) + i)]
  <1>3. Text(ctr, n) = f /\ f \in [1..n -> CipherCell]
    BY <1>2 DEF Text
  <1>4. QED
    BY <1>3

LEMMA TextExtended ==
    ASSUME NEW ctr \in Nat \ {0}, NEW used \in Nat, NEW size \in Nat,
           written = Start(ctr) + used
    PROVE  Text(ctr, used) \o Encrypt(ctr, used, size) = Text(ctr, used + size)
  <1>1. Start(ctr) \in Nat /\ used + size \in Nat
    BY StartFacts
  <1>2. /\ Len(Text(ctr, used)) = used /\ Text(ctr, used) \in Seq(CipherCell)
        /\ \A i \in 1..used : Text(ctr, used)[i] = Cipher(ctr, i, Start(ctr) + i)
    BY TextFacts
  <1>3. /\ Len(Text(ctr, used + size)) = used + size
        /\ Text(ctr, used + size) \in Seq(CipherCell)
        /\ \A i \in 1..used + size : Text(ctr, used + size)[i] = Cipher(ctr, i, Start(ctr) + i)
    BY <1>1, TextFacts
  <1> DEFINE e == Encrypt(ctr, used, size)
  <1>4. \A i \in 1..size : /\ used + i \in Nat \ {0} /\ written + i \in Nat
                           /\ written + i = Start(ctr) + (used + i)
    BY <1>1
  <1>5. \A i \in 1..size : Cipher(ctr, used + i, written + i) \in CipherCell
    BY <1>4 DEF Cipher, CipherCell
  <1>6. /\ e \in Seq(CipherCell) /\ Len(e) = size
        /\ \A i \in 1..size : e[i] = Cipher(ctr, used + i, Start(ctr) + (used + i))
    <2> DEFINE f == [i \in 1..size |-> Cipher(ctr, used + i, written + i)]
    <2>1. e = f /\ f \in [1..size -> CipherCell]
      BY <1>5 DEF Encrypt
    <2>2. \A i \in 1..size : f[i] = Cipher(ctr, used + i, Start(ctr) + (used + i))
      BY <1>4
    <2> HIDE DEF f, e
    <2>3. QED
      BY <2>1, <2>2
  <1> DEFINE t == Text(ctr, used)
             u == Text(ctr, used + size)
  <1>7. /\ t \in Seq(CipherCell) /\ Len(t) = used
        /\ u \in Seq(CipherCell) /\ Len(u) = used + size
        /\ e \in Seq(CipherCell) /\ Len(e) = size
        /\ \A i \in 1..used : t[i] = u[i]
        /\ \A i \in 1..size : e[i] = u[used + i]
    <2>1. \A i \in 1..used : i \in 1..used + size
      OBVIOUS
    <2>2. \A i \in 1..size : used + i \in 1..used + size
      OBVIOUS
    <2> HIDE DEF e
    <2>3. QED
      BY <1>2, <1>3, <1>6, <2>1, <2>2
  <1> HIDE DEF e, t, u
  <1>8. t \o e = u
    BY <1>7, ConcatIs
  <1>9. QED
    BY <1>8 DEF t, u, e

-----------------------------------------------------------------------------
(***************************************************************************)
(* The stream.                                                             *)
(***************************************************************************)
LEMMA MoreWritten ==
    ASSUME NEW v \in Nat, NEW w \in Nat, v <= w, NEW s \in Seq(HonestCells(v))
    PROVE  s \in Seq(HonestCells(w))
  <1>1. ASSUME NEW c \in HonestCells(v) PROVE c \in HonestCells(w)
    <2>1. c \in StoredCell /\ Honest(c, v)
      BY DEF HonestCells
    <2>2. CASE c.kind = "tag" /\ c.aad = ASSOCIATED_DATA
      <3>1. PICK n \in 0..N : Start(c.ctr) + n <= v /\ c.text = Text(c.ctr, n)
        BY <2>1, <2>2 DEF Honest
      <3>2. c.ctr \in Nat \ {0}
        BY <2>1, <2>2 DEF StoredCell, CipherCell
      <3>3. Start(c.ctr) \in Nat /\ N \in Nat
        BY <3>2, StartFacts
      <3>4. Start(c.ctr) + n <= w
        BY <3>1, <3>3
      <3>5. QED
        BY <2>1, <3>1, <3>4 DEF HonestCells, Honest
    <2>3. CASE ~(c.kind = "tag" /\ c.aad = ASSOCIATED_DATA)
      BY <2>1, <2>3 DEF HonestCells, Honest
    <2>4. QED
      BY <2>2, <2>3
  <1>2. QED
    BY <1>1

\* Cells other than tags.
LEMMA PlainPieces ==
    ASSUME NEW w \in Nat, NEW ctr \in Nat
    PROVE  /\ ChunkHead(ctr) \in Seq(HonestCells(w)) /\ Len(ChunkHead(ctr)) = CHUNK_HEAD_SIZE
           /\ \A p \in 1..CHUNK_HEAD_SIZE : ChunkHead(ctr)[p].kind = "head"
           /\ FINAL_BLOCK_MAGIC \in Seq(HonestCells(w))
           /\ END_OF_ENCRYPTED_INNER_LAYER_MAGIC \in Seq(HonestCells(w))
           /\ EMPTY_TAIL_OPTS_SERIALIZATION \in Seq(HonestCells(w))
           /\ \A text \in Seq(CipherCell) :
                 /\ text \in Seq(HonestCells(w))
                 /\ \A p \in 1..Len(text) : text[p].kind = "cipher"
  <1> USE WriterAssumption
  <1>1. ASSUME NEW i \in Nat
        PROVE  /\ [kind |-> "head", ctr |-> ctr, part |-> i] \in HonestCells(w)
               /\ [kind |-> "magic", part |-> i] \in HonestCells(w)
    BY DEF HonestCells, Honest, StoredCell
  <1> DEFINE head(i) == [kind |-> "head", ctr |-> ctr, part |-> i]
             magic(i) == [kind |-> "magic", part |-> i]
  <1>a. \A i \in Nat : /\ head(i) \in HonestCells(w) /\ head(i).kind = "head"
                       /\ magic(i) \in HonestCells(w)
    BY <1>1
  <1>b. /\ ChunkHead(ctr) = [i \in 1..CHUNK_HEAD_SIZE |-> head(i)]
        /\ FINAL_BLOCK_MAGIC = [i \in 1..MAGIC_LENGTH |-> magic(i)]
    BY DEF ChunkHead, FINAL_BLOCK_MAGIC
  <1> HIDE DEF head, magic
  <1>2. /\ ChunkHead(ctr) \in [1..CHUNK_HEAD_SIZE -> HonestCells(w)]
        /\ \A p \in 1..CHUNK_HEAD_SIZE : ChunkHead(ctr)[p].kind = "head"
    BY <1>a, <1>b
  <1>3. FINAL_BLOCK_MAGIC \in [1..MAGIC_LENGTH -> HonestCells(w)]
    BY <1>a, <1>b
  <1>4. [kind |-> "end"] \in HonestCells(w) /\ [kind |-> "tail"] \in HonestCells(w)
    BY DEF HonestCells, Honest, StoredCell
  <1>5. ASSUME NEW c \in CipherCell PROVE c \in HonestCells(w) /\ c.kind = "cipher"
    BY DEF HonestCells, Honest, StoredCell, CipherCell
  <1>6. ASSUME NEW text \in Seq(CipherCell)
        PROVE  /\ text \in Seq(HonestCells(w))
               /\ \A p \in 1..Len(text) : text[p].kind = "cipher"
    BY <1>5
  <1>7. /\ ChunkHead(ctr) \in Seq(HonestCells(w)) /\ Len(ChunkHead(ctr)) = CHUNK_HEAD_SIZE
    BY <1>2
  <1>8. FINAL_BLOCK_MAGIC \in Seq(HonestCells(w))
    BY <1>3
  <1>9. /\ END_OF_ENCRYPTED_INNER_LAYER_MAGIC \in Seq(HonestCells(w))
        /\ EMPTY_TAIL_OPTS_SERIALIZATION \in Seq(HonestCells(w))
    BY <1>4 DEF END_OF_ENCRYPTED_INNER_LAYER_MAGIC, EMPTY_TAIL_OPTS_SERIALIZATION
  <1>10. QED
    BY <1>2, <1>6, <1>7, <1>8, <1>9

LEMMA TagPieces ==
    ASSUME NEW w \in Nat, NEW ctr \in Nat \ {0}, NEW text \in Seq(CipherCell),
           NEW aad \in {ASSOCIATED_DATA, FINAL_ASSOCIATED_DATA},
           aad = ASSOCIATED_DATA =>
               \E n \in 0..N : Start(ctr) + n <= w /\ text = Text(ctr, n)
    PROVE  /\ Tag(ctr, aad, text) \in Seq(HonestCells(w))
           /\ Len(Tag(ctr, aad, text)) = TAG_LENGTH
           /\ \A p \in 1..TAG_LENGTH : Tag(ctr, aad, text)[p].kind = "tag"
  <1> DEFINE cell(i) == [kind |-> "tag", ctr |-> ctr, aad |-> aad, text |-> text, part |-> i]
  <1>1. ASSUME NEW i \in Nat PROVE cell(i) \in HonestCells(w) /\ cell(i).kind = "tag"
    <2>1. cell(i) \in StoredCell
      BY DEF StoredCell
    <2>2. /\ cell(i).kind = "tag" /\ cell(i).aad = aad /\ cell(i).ctr = ctr
          /\ cell(i).text = text
      OBVIOUS
    <2> HIDE DEF cell
    <2>3. Honest(cell(i), w)
      BY <2>2 DEF Honest
    <2>4. QED
      BY <2>1, <2>2, <2>3 DEF HonestCells
  <1>2. Tag(ctr, aad, text) = [i \in 1..TAG_LENGTH |-> cell(i)] /\ TAG_LENGTH \in Nat
    BY WriterAssumption DEF Tag
  <1> HIDE DEF cell
  <1>3. /\ Tag(ctr, aad, text) \in [1..TAG_LENGTH -> HonestCells(w)]
        /\ \A p \in 1..TAG_LENGTH : Tag(ctr, aad, text)[p].kind = "tag"
    BY <1>1, <1>2
  <1>4. QED
    BY <1>2, <1>3

LEMMA LateConcat ==
    ASSUME NEW S, NEW s \in Seq(S), NEW t \in Seq(S), MagicLate(s),
           \/ Len(s) >= CHUNK_HEAD_SIZE + 1
           \/ \A p \in 1..Len(t) : t[p].kind # "magic"
    PROVE  MagicLate(s \o t)
  <1> SUFFICES ASSUME NEW p \in 1..Len(s \o t), (s \o t)[p].kind = "magic"
               PROVE  p > CHUNK_HEAD_SIZE + 1
    BY DEF MagicLate
  <1>1. CASE p <= Len(s)
    <2>1. p \in 1..Len(s) /\ (s \o t)[p] = s[p]
      BY <1>1
    <2>2. QED
      BY <2>1 DEF MagicLate
  <1>2. CASE p > Len(s)
    <2>1. p - Len(s) \in 1..Len(t) /\ (s \o t)[p] = t[p - Len(s)]
      BY <1>2
    <2>2. Len(s) >= CHUNK_HEAD_SIZE + 1
      BY <2>1
    <2>3. QED
      BY <1>2, <2>2, WriterAssumption
  <1>3. QED
    BY <1>1, <1>2

\* write finds the chunk in order, a new one or not, and has turned the page.
LEMMA TurnHonest ==
    ASSUME KeystreamInv, ChunkNow, ~finalized
    PROVE  /\ Ctr \in Nat \ {0} /\ Offset \in Nat
           /\ Before = Text(Ctr, Offset) /\ Len(Before) = Offset
           /\ written = Start(Ctr) + Offset
           /\ Turn \in Seq(HonestCells(written))
           /\ \A p \in 1..Len(Turn) : Turn[p].kind # "magic"
  <1>1. /\ current_ctr \in Nat \ {0} /\ current_chunk_offset \in 0..N
        /\ encrypted \in Seq(CipherCell) /\ written \in Nat /\ N \in Nat \ {0}
    BY StartFacts DEF KeystreamInv, WriterTypeOK, N
  <1>2. /\ encrypted = Text(current_ctr, current_chunk_offset)
        /\ written = Start(current_ctr) + current_chunk_offset
    BY DEF ChunkNow
  <1>3. CASE ~ChunkFull
    <2>1. Ctr = current_ctr /\ Offset = current_chunk_offset /\ Before = encrypted /\ Turn = <<>>
      BY <1>3 DEF Ctr, Offset, Before, Turn
    <2>2. Len(Before) = Offset
      BY <1>1, <1>2, <2>1, TextFacts
    <2>3. QED
      BY <1>1, <1>2, <2>1, <2>2
  <1>4. CASE ChunkFull
    <2>1. /\ Ctr = current_ctr + 1 /\ Offset = 0 /\ Before = <<>>
          /\ Turn = Tag(current_ctr, ASSOCIATED_DATA, encrypted) \o ChunkHead(Ctr)
          /\ current_chunk_offset = N
      BY <1>4 DEF Ctr, Offset, Before, Turn, RenewCtr, ChunkFull, N
    <2>2. Text(Ctr, 0) = <<>>
      <3>1. Text(Ctr, 0) \in Seq(CipherCell) /\ Len(Text(Ctr, 0)) = 0
        BY <1>1, <2>1, TextFacts
      <3>2. QED
        BY <3>1
    <2>3. written = Start(Ctr) + 0
      BY <1>1, <1>2, <2>1, StartFacts
    <2> DEFINE tag == Tag(current_ctr, ASSOCIATED_DATA, encrypted)
               head == ChunkHead(Ctr)
    <2>4. \E n \in 0..N : Start(current_ctr) + n <= written /\ encrypted = Text(current_ctr, n)
      BY <1>1, <1>2
    <2>5. /\ tag \in Seq(HonestCells(written)) /\ Len(tag) = TAG_LENGTH
          /\ \A p \in 1..Len(tag) : tag[p].kind = "tag"
      BY <1>1, <2>4, TagPieces
    <2>6. /\ head \in Seq(HonestCells(written)) /\ Len(head) = CHUNK_HEAD_SIZE
          /\ \A p \in 1..Len(head) : head[p].kind = "head"
      BY <1>1, <2>1, PlainPieces
    <2> HIDE DEF tag, head
    <2>7. tag \o head \in Seq(HonestCells(written))
      BY <2>5, <2>6
    <2>8. ASSUME NEW p \in 1..Len(tag \o head) PROVE (tag \o head)[p].kind # "magic"
      <3>1. CASE p <= Len(tag)
        <4>1. (tag \o head)[p] = tag[p] /\ p \in 1..Len(tag)
          BY <2>5, <2>6, <3>1
        <4>2. QED
          BY <2>5, <4>1
      <3>2. CASE p > Len(tag)
        <4>1. (tag \o head)[p] = head[p - Len(tag)] /\ p - Len(tag) \in 1..Len(head)
          BY <2>5, <2>6, <3>2, ConcatRight
        <4>2. QED
          BY <2>6, <4>1
      <3>3. QED
        BY <2>5, <3>1, <3>2
    <2>9. Turn = tag \o head
      BY <2>1 DEF tag, head
    <2>10. /\ Ctr \in Nat \ {0} /\ Offset \in Nat
           /\ Before = Text(Ctr, Offset) /\ Len(Before) = Offset
           /\ written = Start(Ctr) + Offset
      BY <1>1, <2>1, <2>2, <2>3
    <2>11. QED
      BY <2>7, <2>8, <2>9, <2>10
  <1>5. QED
    BY <1>3, <1>4

LEMMA WriteHonest ==
    ASSUME KeystreamInv, StreamHonest, NEW length \in WriteSizes, Write(length)
    PROVE  StreamHonest'
  <1> DEFINE size == SizeTaken(length)
             text == Encrypt(Ctr, Len(Before), size)
  <1>1. /\ ~finalized /\ finalized' = finalized /\ torn' = torn
        /\ current_ctr' = Ctr /\ encrypted' = Before \o text
        /\ out' = out \o Turn \o text
        /\ current_chunk_offset' = Offset + size /\ written' = written + size
    BY DEF Write, CanWrite
  <1> SUFFICES ASSUME ~torn
               PROVE  /\ ChunkNow' /\ out' \in Seq(HonestCells(written'))
                      /\ Len(out') >= CHUNK_HEAD_SIZE /\ MagicLate(out')
    BY <1>1 DEF StreamHonest
  <1>2. /\ ChunkNow /\ out \in Seq(HonestCells(written)) /\ Len(out) >= CHUNK_HEAD_SIZE
        /\ MagicLate(out)
    BY DEF StreamHonest
  <1>3. /\ Ctr \in Nat \ {0} /\ Offset \in Nat
        /\ Before = Text(Ctr, Offset) /\ Len(Before) = Offset
        /\ written = Start(Ctr) + Offset
        /\ Turn \in Seq(HonestCells(written))
        /\ \A p \in 1..Len(Turn) : Turn[p].kind # "magic"
    BY <1>1, <1>2, TurnHonest
  <1>4. size \in Nat /\ written \in Nat
    BY SizeTakenFits DEF KeystreamInv, WriterTypeOK
  <1>5. text \in Seq(CipherCell) /\ Len(text) = size
    BY <1>3, <1>4, EncryptedText
  <1> HIDE DEF size
  <1>6. Before \o text = Text(Ctr, Offset + size)
    <2>1. Before = Text(Ctr, Offset) /\ text = Encrypt(Ctr, Offset, size)
      BY <1>3
    <2>2. Text(Ctr, Offset) \o Encrypt(Ctr, Offset, size) = Text(Ctr, Offset + size)
      BY <1>3, <1>4, TextExtended
    <2>3. QED
      BY <2>1, <2>2
  <1> HIDE DEF text
  <1>7. ChunkNow'
    <2>1. Start(Ctr) \in Nat
      BY <1>3, StartFacts
    <2>2. Start(Ctr) + (Offset + size) = (Start(Ctr) + Offset) + size
      BY <1>3, <1>4, <2>1
    <2>3. encrypted' = Text(current_ctr', current_chunk_offset')
      BY <1>1, <1>6
    <2>4. written' = Start(current_ctr') + current_chunk_offset'
      BY <1>1, <1>3, <2>2
    <2>5. QED
      BY <2>3, <2>4 DEF ChunkNow, Text, Start
  <1>8. written' \in Nat /\ written <= written'
    BY <1>1, <1>4
  <1>9. /\ out \in Seq(HonestCells(written')) /\ Turn \in Seq(HonestCells(written'))
    BY <1>2, <1>3, <1>4, <1>8, MoreWritten
  <1>10. /\ text \in Seq(HonestCells(written'))
         /\ \A p \in 1..Len(text) : text[p].kind = "cipher"
    BY <1>3, <1>5, <1>8, PlainPieces
  <1> DEFINE S == HonestCells(written')
  <1> HIDE DEF S
  <1>11. out \in Seq(S) /\ Turn \in Seq(S) /\ text \in Seq(S)
    BY <1>9, <1>10 DEF S
  <1>12. /\ out \o Turn \in Seq(S) /\ out \o Turn \o text \in Seq(S)
         /\ Len(out \o Turn \o text) >= CHUNK_HEAD_SIZE
    BY <1>2, <1>11, WriterAssumption
  <1>13. MagicLate(out \o Turn)
    BY <1>2, <1>3, <1>11, LateConcat
  <1>14. MagicLate(out \o Turn \o text)
    BY <1>10, <1>11, <1>12, <1>13, LateConcat
  <1>15. QED
    BY <1>1, <1>7, <1>12, <1>14 DEF S

LEMMA FinalizeHonest ==
    ASSUME KeystreamInv, StreamHonest, Finalize
    PROVE  StreamHonest'
  <1> DEFINE ctr == current_ctr + 1
             content == <<Cipher(ctr, 1, FINAL_BLOCK_CONTENT)>>
             tag == Tag(current_ctr, ASSOCIATED_DATA, encrypted)
             last == Tag(ctr, FINAL_ASSOCIATED_DATA, content)
             S == HonestCells(written)
             a == out \o tag
             b == a \o FINAL_BLOCK_MAGIC
             c == b \o content
             d == c \o last
             e == d \o END_OF_ENCRYPTED_INNER_LAYER_MAGIC
  <1>1. /\ ~finalized /\ torn' = torn /\ written' = written
        /\ out' = e \o EMPTY_TAIL_OPTS_SERIALIZATION
    BY DEF Finalize, RenewCtr
  <1>2. finalized' = TRUE
    BY Zenon DEF Finalize
  <1> SUFFICES ASSUME ~torn
               PROVE  /\ ChunkNow' /\ out' \in Seq(HonestCells(written))
                      /\ Len(out') >= CHUNK_HEAD_SIZE /\ MagicLate(out')
    BY <1>1 DEF StreamHonest, HonestCells, Honest
  <1>3. /\ ChunkNow /\ out \in Seq(S) /\ Len(out) >= CHUNK_HEAD_SIZE /\ MagicLate(out)
    BY DEF StreamHonest
  <1>4. /\ current_ctr \in Nat \ {0} /\ current_chunk_offset \in 0..N
        /\ encrypted \in Seq(CipherCell) /\ written \in Nat /\ N \in Nat \ {0}
    BY StartFacts DEF KeystreamInv, WriterTypeOK, N
  <1>5. ChunkNow'
    BY <1>2 DEF ChunkNow
  <1>6. ctr \in Nat \ {0} /\ content \in Seq(CipherCell)
    BY <1>4 DEF Cipher, CipherCell, FINAL_BLOCK_CONTENT
  <1>7. /\ tag \in Seq(S) /\ Len(tag) = TAG_LENGTH
        /\ \A p \in 1..TAG_LENGTH : tag[p].kind = "tag"
    <2>1. \E n \in 0..N : Start(current_ctr) + n <= written /\ encrypted = Text(current_ctr, n)
      BY <1>1, <1>3, <1>4, StartFacts DEF ChunkNow
    <2>2. QED
      BY <1>4, <2>1, TagPieces
  <1>8. /\ last \in Seq(S)
    <2>1. FINAL_ASSOCIATED_DATA # ASSOCIATED_DATA
      BY DEF FINAL_ASSOCIATED_DATA, ASSOCIATED_DATA
    <2> HIDE DEF content
    <2>2. QED
      BY <1>4, <1>6, <2>1, TagPieces
  <1>9. /\ FINAL_BLOCK_MAGIC \in Seq(S) /\ content \in Seq(S)
        /\ END_OF_ENCRYPTED_INNER_LAYER_MAGIC \in Seq(S)
        /\ EMPTY_TAIL_OPTS_SERIALIZATION \in Seq(S)
    <2> HIDE DEF content
    <2>1. QED
      BY <1>4, <1>6, PlainPieces
  <1> HIDE DEF content, tag, last, S
  <1>10. TAG_LENGTH \in Nat \ {0} /\ CHUNK_HEAD_SIZE \in Nat
    BY WriterAssumption
  <1>11. a \in Seq(S) /\ Len(a) >= CHUNK_HEAD_SIZE + 1 /\ MagicLate(a)
    <2>1. a \in Seq(S) /\ Len(a) = Len(out) + TAG_LENGTH
      BY <1>3, <1>7
    <2>2. MagicLate(a)
      BY <1>3, <1>7, LateConcat
    <2>3. QED
      BY <1>3, <1>10, <2>1, <2>2
  <1>12. ASSUME NEW s \in Seq(S), NEW t \in Seq(S), Len(s) >= CHUNK_HEAD_SIZE + 1, MagicLate(s)
         PROVE  s \o t \in Seq(S) /\ Len(s \o t) >= CHUNK_HEAD_SIZE + 1 /\ MagicLate(s \o t)
    BY <1>10, <1>12, LateConcat
  <1> HIDE DEF a
  <1>13. b \in Seq(S) /\ Len(b) >= CHUNK_HEAD_SIZE + 1 /\ MagicLate(b)
    BY <1>9, <1>11, <1>12
  <1> HIDE DEF b
  <1>14. c \in Seq(S) /\ Len(c) >= CHUNK_HEAD_SIZE + 1 /\ MagicLate(c)
    BY <1>9, <1>12, <1>13
  <1> HIDE DEF c
  <1>15. d \in Seq(S) /\ Len(d) >= CHUNK_HEAD_SIZE + 1 /\ MagicLate(d)
    BY <1>8, <1>12, <1>14
  <1> HIDE DEF d
  <1>16. e \in Seq(S) /\ Len(e) >= CHUNK_HEAD_SIZE + 1 /\ MagicLate(e)
    BY <1>9, <1>12, <1>15
  <1> HIDE DEF e
  <1>17. out' \in Seq(S) /\ Len(out') >= CHUNK_HEAD_SIZE + 1 /\ MagicLate(out')
    BY <1>1, <1>9, <1>12, <1>16
  <1>18. QED
    BY <1>5, <1>10, <1>17 DEF S

LEMMA InitHonest == WriterInit => StreamHonest
  <1> SUFFICES ASSUME WriterInit PROVE StreamHonest
    OBVIOUS
  <1>1. /\ out = ChunkHead(1) /\ current_ctr = 1 /\ current_chunk_offset = 0
        /\ encrypted = <<>> /\ written = 0
    BY DEF WriterInit, FIRST_DATA_CHUNK_NUMBER
  <1>2. Text(1, 0) = <<>>
    <2>1. Text(1, 0) \in Seq(CipherCell) /\ Len(Text(1, 0)) = 0
      BY TextFacts
    <2>2. QED
      BY <2>1
  <1>3. ChunkNow
    BY <1>1, <1>2, StartFacts DEF ChunkNow, FIRST_DATA_CHUNK_NUMBER
  <1>4. /\ out \in Seq(HonestCells(0)) /\ Len(out) = CHUNK_HEAD_SIZE
        /\ \A p \in 1..CHUNK_HEAD_SIZE : out[p].kind = "head"
    BY <1>1, PlainPieces
  <1>5. QED
    BY <1>1, <1>3, <1>4, WriterAssumption DEF StreamHonest, MagicLate

LEMMA StepHonest ==
    ASSUME KeystreamInv, StreamHonest, [WriterNext]_writerVars
    PROVE  StreamHonest'
  <1>1. ASSUME NEW length \in WriteSizes, WriteFails(length) PROVE StreamHonest'
    <2>1. torn' = TRUE
      BY <1>1, Zenon DEF WriteFails
    <2>2. QED
      BY <2>1 DEF StreamHonest
  <1>2. CASE UNCHANGED writerVars
    BY <1>2 DEF writerVars, StreamHonest, ChunkNow, MagicLate, HonestCells, Honest
  <1>3. QED
    BY <1>1, <1>2, WriteHonest, FinalizeHonest DEF WriterNext

-----------------------------------------------------------------------------
(***************************************************************************)
(* Loading a chunk.                                                        *)
(***************************************************************************)
ShownCell == StoredCell \cup [kind : {"plain"}, byte : Nat] \cup [kind : {"garbage"}]

\* A reader of a stream with honest tags: what it has not yet decrypted comes
\* from the stream.
Readers(w) ==
    [src : Seq(HonestCells(w)), inner : Nat, cache : Seq(ShownCell), at : Nat,
     next : Seq(HonestCells(w)), size : Int, pos : Nat]

\* The cache holds the beginning of chunk ctr, decrypted, behind its head.
Holds(r, ctr, w) ==
    /\ Len(r.cache) \in CHUNK_HEAD_SIZE .. CHUNK_HEAD_SIZE + N
    /\ Start(ctr) + (Len(r.cache) - CHUNK_HEAD_SIZE) <= w
    /\ \A i \in CHUNK_HEAD_SIZE + 1 .. Len(r.cache) :
          r.cache[i] = Plain(Start(ctr) + (i - CHUNK_HEAD_SIZE))

LEMMA SizeFacts ==
    /\ CHUNK_HEAD_SIZE = TAG_LENGTH /\ TAG_LENGTH \in Nat \ {0} /\ N \in Nat \ {0}
    /\ M0_CHUNK_SIZE = CHUNK_HEAD_SIZE + N + TAG_LENGTH /\ M0_CHUNK_SIZE \in Nat
    /\ NORMAL_CHUNK_PT_AND_TAG_SIZE = N + TAG_LENGTH
    /\ MAGIC_LENGTH \in Nat \ {0}
  BY WriterAssumption, ReaderAssumption DEF N, M0_CHUNK_SIZE, NORMAL_CHUNK_PT_AND_TAG_SIZE

LEMMA NextRead ==
    ASSUME NEW w \in Nat, NEW r \in Readers(w)
    PROVE  /\ WithNext(r) \in Readers(w)
           /\ WithNext(r).src = r.src /\ WithNext(r).cache = r.cache
           /\ WithNext(r).at = r.at /\ WithNext(r).pos = r.pos
           /\ WithNext(r).next = SubSeq(r.src, r.inner + 1, WithNext(r).inner)
           /\ WithNext(r).inner = Least(r.inner + M0_CHUNK_SIZE, Len(r.src))
           /\ WithNext(r).inner \in 0..Len(r.src)
  <1> DEFINE to == Least(r.inner + M0_CHUNK_SIZE, Len(r.src))
             next == SubSeq(r.src, r.inner + 1, to)
  <1>1. r.src \in Seq(HonestCells(w)) /\ r.inner \in Nat
    BY DEF Readers
  <1>2. to \in 0..Len(r.src)
    BY <1>1, SizeFacts DEF Least
  <1> HIDE DEF to
  <1>3. next \in Seq(HonestCells(w))
    BY <1>1, <1>2
  <1>4. WithNext(r) = [r EXCEPT !.next = next, !.inner = to]
    BY DEF WithNext, to
  <1> HIDE DEF next
  <1>5. /\ WithNext(r) \in Readers(w)
        /\ WithNext(r).src = r.src /\ WithNext(r).cache = r.cache
        /\ WithNext(r).at = r.at /\ WithNext(r).pos = r.pos
        /\ WithNext(r).next = next /\ WithNext(r).inner = to
    <2>1. to \in Nat
      BY <1>1, <1>2
    <2>2. WithNext(r) = [src |-> r.src, inner |-> to, cache |-> r.cache, at |-> r.at,
                         next |-> next, size |-> r.size, pos |-> r.pos]
      BY <1>4 DEF Readers
    <2>3. /\ r.src \in Seq(HonestCells(w)) /\ r.cache \in Seq(ShownCell) /\ r.at \in Nat
          /\ r.size \in Int /\ r.pos \in Nat
      BY DEF Readers
    <2>4. WithNext(r) \in Readers(w)
      BY <1>3, <2>1, <2>2, <2>3 DEF Readers
    <2>5. QED
      BY <2>2, <2>4
  <1>6. QED
    BY <1>2, <1>5 DEF next, to

\* The caches exchanged and the next chunk read.
Exchanged(r) == WithNext([r EXCEPT !.cache = r.next, !.at = 0])

LEMMA HonestShown ==
    ASSUME NEW w, NEW s \in Seq(HonestCells(w))
    PROVE  s \in Seq(ShownCell)
  <1>1. \A c \in HonestCells(w) : c \in ShownCell
    BY DEF HonestCells, ShownCell
  <1>2. QED
    BY <1>1

LEMMA ExchangedFacts ==
    ASSUME NEW w \in Nat, NEW r \in Readers(w)
    PROVE  /\ Exchanged(r) \in Readers(w)
           /\ Exchanged(r).src = r.src /\ Exchanged(r).cache = r.next
           /\ Exchanged(r).cache \in Seq(HonestCells(w))
           /\ Exchanged(r).at = 0 /\ Exchanged(r).pos = r.pos
           /\ Exchanged(r).next = SubSeq(r.src, r.inner + 1, Exchanged(r).inner)
           /\ Exchanged(r).inner \in 0..Len(r.src)
  <1> DEFINE x == [r EXCEPT !.cache = r.next, !.at = 0]
  <1>1. r.next \in Seq(HonestCells(w)) /\ r.next \in Seq(ShownCell)
    BY HonestShown DEF Readers
  <1>2. /\ x \in Readers(w) /\ x.src = r.src /\ x.cache = r.next /\ x.at = 0
        /\ x.pos = r.pos /\ x.inner = r.inner
    BY <1>1 DEF Readers
  <1>3. Exchanged(r) = WithNext(x)
    BY DEF Exchanged
  <1> HIDE DEF x
  <1>4. QED
    BY <1>1, <1>2, <1>3, NextRead, SMTT(60)

\* Where an authenticated reader may see the end of a tag.
LEMMA TagEnds ==
    ASSUME NEW w \in Nat, NEW l \in Readers(w), NEW e \in EndOfTag("authenticated", l)
    PROVE  /\ e \in Nat
           /\ \/ e = M0_CHUNK_SIZE
              \/ /\ e + 1 <= Len(l.cache \o l.next)
                 /\ (l.cache \o l.next)[e + 1].kind = "magic"
  <1>1. e = M0_CHUNK_SIZE \/ e \in FinalBlockMagicAt(l)
    BY DEF EndOfTag, EndOfTagFailSafe
  <1>2. CASE e = M0_CHUNK_SIZE
    BY <1>2, SizeFacts
  <1>3. CASE e \in FinalBlockMagicAt(l)
    <2> DEFINE both == l.cache \o l.next
    <2>1. l.cache \in Seq(ShownCell) /\ l.next \in Seq(ShownCell)
      BY HonestShown DEF Readers
    <2>2. both \in Seq(ShownCell) /\ Len(both) \in Nat
      BY <2>1, ConcatType
    <2>3. e \in 0..Len(both) - MAGIC_LENGTH /\ SubSeq(both, e + 1, e + MAGIC_LENGTH) = FINAL_BLOCK_MAGIC
      BY <1>3 DEF FinalBlockMagicAt
    <2> HIDE DEF both
    <2>4. e \in Nat /\ e + 1 <= Len(both) /\ e + MAGIC_LENGTH <= Len(both)
      BY <2>2, <2>3, SizeFacts
    <2>5. SubSeq(both, e + 1, e + MAGIC_LENGTH)[1] = both[e + 1]
      BY <2>2, <2>4, SizeFacts
    <2>6. FINAL_BLOCK_MAGIC[1].kind = "magic"
      BY SizeFacts DEF FINAL_BLOCK_MAGIC
    <2>7. both[e + 1].kind = "magic"
      BY <2>3, <2>5, <2>6
    <2>8. QED
      BY <2>4, <2>7 DEF both
  <1>4. QED
    BY <1>1, <1>2, <1>3

\* Data that verifies is the beginning of the chunk whose nonce was used.
LEMMA VerifiedText ==
    ASSUME NEW w \in Nat, NEW ctr \in Nat \ {0}, NEW data,
           NEW tag \in Seq(HonestCells(w)), Verified(ctr, ASSOCIATED_DATA, data, tag)
    PROVE  \E n \in 0..N : Start(ctr) + n <= w /\ data = Text(ctr, n)
  <1>1. tag = Tag(ctr, ASSOCIATED_DATA, data)
    BY DEF Verified
  <1>2. Len(tag) = TAG_LENGTH
    BY <1>1, SizeFacts DEF Tag
  <1>3. tag[1] \in HonestCells(w)
    BY <1>2, SizeFacts
  <1>4. /\ tag[1].kind = "tag" /\ tag[1].ctr = ctr /\ tag[1].aad = ASSOCIATED_DATA
        /\ tag[1].text = data
    BY <1>1, SizeFacts DEF Tag
  <1>5. QED
    BY <1>3, <1>4 DEF HonestCells, Honest

LEMMA DecryptedText ==
    ASSUME NEW ctr \in Nat \ {0}, NEW n \in Nat
    PROVE  Decrypt(ctr, Text(ctr, n)) = [i \in 1..n |-> Plain(Start(ctr) + i)]
  <1> DEFINE t == Text(ctr, n)
  <1>1. Len(t) = n /\ \A i \in 1..n : t[i] = Cipher(ctr, i, Start(ctr) + i)
    BY TextFacts
  <1> HIDE DEF t
  <1>2. \A i \in 1..n : /\ t[i].kind = "cipher" /\ t[i].byte = Start(ctr) + i
                        /\ t[i] = Cipher(ctr, i, t[i].byte)
    BY <1>1 DEF Cipher
  <1>3. Decrypt(ctr, t) = [i \in 1..n |-> Plain(Start(ctr) + i)]
    BY <1>1, <1>2 DEF Decrypt
  <1>4. QED
    BY <1>3 DEF t

\* The head and the decrypted chunk behind it.
LEMMA HeadAndPlain ==
    ASSUME NEW w \in Nat, NEW ctr \in Nat \ {0}, NEW n \in 0..N, Start(ctr) + n <= w,
           NEW head \in Seq(ShownCell), Len(head) = CHUNK_HEAD_SIZE,
           NEW r, r.cache = head \o [i \in 1..n |-> Plain(Start(ctr) + i)]
    PROVE  r.cache \in Seq(ShownCell) /\ Holds(r, ctr, w)
  <1> DEFINE plain == [i \in 1..n |-> Plain(Start(ctr) + i)]
  <1>1. Start(ctr) \in Nat /\ n \in Nat /\ CHUNK_HEAD_SIZE \in Nat /\ N \in Nat
    BY StartFacts, SizeFacts
  <1>2. \A i \in 1..n : Plain(Start(ctr) + i) \in ShownCell
    <2> SUFFICES ASSUME NEW i \in 1..n PROVE Plain(Start(ctr) + i) \in ShownCell
      OBVIOUS
    <2>1. Start(ctr) + i \in Nat
      BY <1>1
    <2>2. QED
      BY <2>1 DEF Plain, ShownCell
  <1>3. /\ plain \in Seq(ShownCell) /\ Len(plain) = n
        /\ \A i \in 1..n : plain[i] = Plain(Start(ctr) + i)
    <2>1. plain \in [1..n -> ShownCell] /\ \A i \in 1..n : plain[i] = Plain(Start(ctr) + i)
      BY <1>2
    <2> HIDE DEF plain
    <2>2. QED
      BY <1>1, <2>1
  <1>4. r.cache = head \o plain
    OBVIOUS
  <1> HIDE DEF plain
  <1>5. r.cache \in Seq(ShownCell) /\ Len(r.cache) = CHUNK_HEAD_SIZE + n
    BY <1>3, <1>4, ConcatType
  <1>6. ASSUME NEW i \in CHUNK_HEAD_SIZE + 1 .. Len(r.cache)
        PROVE  r.cache[i] = Plain(Start(ctr) + (i - CHUNK_HEAD_SIZE))
    <2>1. i \in 1..Len(head \o plain) /\ i > Len(head)
      BY <1>1, <1>4
    <2>2. (head \o plain)[i] = plain[i - Len(head)] /\ i - Len(head) \in 1..Len(plain)
      BY <1>3, <2>1, ConcatRight
    <2>3. QED
      BY <1>3, <1>4, <2>2
  <1>7. /\ Len(r.cache) \in CHUNK_HEAD_SIZE .. CHUNK_HEAD_SIZE + N
        /\ Len(r.cache) - CHUNK_HEAD_SIZE = n
    BY <1>1, <1>5
  <1>8. QED
    BY <1>5, <1>6, <1>7 DEF Holds

LEMMA LoadAuthentic ==
    ASSUME NEW w \in Nat, NEW r \in Readers(w), NEW ctr \in Nat \ {0}, r.pos = Start(ctr),
           NEW loaded, loaded = LoadInCache("authenticated", r)
    PROVE  loaded.outcome = "some" =>
              /\ loaded.reader \in Readers(w)
              /\ loaded.reader.pos = r.pos /\ loaded.reader.at = CHUNK_HEAD_SIZE
              /\ Holds(loaded.reader, ctr, w)
  <1> DEFINE l == Exchanged(r)
             ends == EndOfTag("authenticated", l)
             end == CHOOSE e \in ends : TRUE
             text_end == Greatest(end - TAG_LENGTH, 0)
             data == SubSeq(l.cache, CHUNK_HEAD_SIZE + 1, text_end)
             c == (l.pos \div NORMAL_CHUNK_PT_SIZE) + FIRST_DATA_CHUNK_NUMBER
             head == SubSeq(l.cache, 1, CHUNK_HEAD_SIZE)
             plain == head \o Decrypt(c, data)
             rest == SubSeq(l.cache, text_end + 1, Len(l.cache))
             tag == SubSeq(rest, 1, Least(end - text_end, Len(rest)))
             done == [l EXCEPT !.cache = plain, !.at = CHUNK_HEAD_SIZE]
  <1>1. loaded = IF ends = {}
                 THEN [outcome |-> "error", reader |-> l]
                 ELSE IF text_end = 0
                 THEN [outcome |-> "none", reader |-> l]
                 ELSE IF text_end \notin CHUNK_HEAD_SIZE..Len(l.cache)
                 THEN [outcome |-> "error", reader |-> l]
                 ELSE IF ~Verified(c, ASSOCIATED_DATA, data, tag)
                 THEN [outcome |-> "error", reader |-> [l EXCEPT !.cache = plain \o rest]]
                 ELSE [outcome |-> "some", reader |-> done]
    BY DEF LoadInCache, Exchanged
  <1>2. /\ l \in Readers(w) /\ l.cache \in Seq(HonestCells(w)) /\ l.pos = Start(ctr)
    BY ExchangedFacts
  <1>3. c = ctr
    BY <1>2, NonceAt
  <1> SUFFICES ASSUME ends # {}, text_end \in CHUNK_HEAD_SIZE..Len(l.cache),
                      Verified(c, ASSOCIATED_DATA, data, tag), loaded.reader = done
               PROVE  /\ done \in Readers(w)
                      /\ done.pos = r.pos /\ done.at = CHUNK_HEAD_SIZE
                      /\ Holds(done, ctr, w)
    <2> HIDE DEF l, ends, text_end, data, c, plain, rest, tag, done
    <2>1. QED
      BY <1>1
  <1>4. end \in ends
    <2> HIDE DEF ends
    <2>1. QED
      OBVIOUS
  <1> HIDE DEF end, l
  <1>5. end \in Nat
    BY <1>2, <1>4, TagEnds
  <1>6. text_end \in Nat /\ end - text_end \in Int
    BY <1>5, SizeFacts DEF Greatest
  <1> HIDE DEF text_end
  <1>7. rest \in Seq(HonestCells(w))
    BY <1>2, <1>6
  <1> HIDE DEF rest
  <1>8. Least(end - text_end, Len(rest)) \in Int /\ Least(end - text_end, Len(rest)) <= Len(rest)
    BY <1>6, <1>7 DEF Least
  <1>9. tag \in Seq(HonestCells(w))
    <2> DEFINE to == Least(end - text_end, Len(rest))
    <2> HIDE DEF to
    <2>1. to \in Int /\ to <= Len(rest)
      BY <1>8 DEF to
    <2>2. SubSeq(rest, 1, to) \in Seq(HonestCells(w))
      BY <1>7, <2>1
    <2>3. QED
      BY <2>2 DEF to
  <1> HIDE DEF tag, data
  <1>10. PICK n \in 0..N : Start(ctr) + n <= w /\ data = Text(ctr, n)
    BY <1>3, <1>9, VerifiedText
  <1>11. n \in Nat /\ CHUNK_HEAD_SIZE \in Nat
    BY StartFacts, SizeFacts
  <1>12. Decrypt(c, data) = [i \in 1..n |-> Plain(Start(ctr) + i)]
    BY <1>3, <1>10, <1>11, DecryptedText
  <1>13. l.cache \in Seq(ShownCell) /\ CHUNK_HEAD_SIZE <= Len(l.cache)
    BY <1>2, <1>6, <1>11, HonestShown
  <1>14. head \in Seq(ShownCell) /\ Len(head) = CHUNK_HEAD_SIZE
    BY <1>11, <1>13
  <1> HIDE DEF head, c
  <1>15. plain = head \o [i \in 1..n |-> Plain(Start(ctr) + i)]
    BY <1>12
  <1> HIDE DEF plain
  <1>16. done = [src |-> l.src, inner |-> l.inner, cache |-> plain, at |-> CHUNK_HEAD_SIZE,
                 next |-> l.next, size |-> l.size, pos |-> l.pos]
    BY <1>2 DEF Readers
  <1> HIDE DEF done
  <1>17. done.cache = plain /\ done.at = CHUNK_HEAD_SIZE /\ done.pos = l.pos
    BY <1>16
  <1>18. plain \in Seq(ShownCell) /\ Holds(done, ctr, w)
    BY <1>10, <1>14, <1>15, <1>17, HeadAndPlain
  <1>19. /\ l.src \in Seq(HonestCells(w)) /\ l.inner \in Nat /\ l.next \in Seq(HonestCells(w))
         /\ l.size \in Int /\ l.pos \in Nat
    BY <1>2 DEF Readers
  <1>20. done \in Readers(w)
    BY <1>11, <1>16, <1>18, <1>19 DEF Readers
  <1>21. QED
    BY <1>2, <1>17, <1>18, <1>20

-----------------------------------------------------------------------------
(***************************************************************************)
(* The invariant: an authenticated reader whose cache could be renewed so  *)
(* far has returned the plaintext up to its position, and its cache holds  *)
(* the chunk of that position.                                             *)
(***************************************************************************)
Prefix(n) == [i \in 1..n |-> Plain(i)]

ServesChunk(r, ctr, w) ==
    /\ r \in Readers(w)
    /\ r.at \in CHUNK_HEAD_SIZE .. Len(r.cache)
    /\ r.pos = Start(ctr) + (r.at - CHUNK_HEAD_SIZE)
    /\ Holds(r, ctr, w)

Serving(r, w) == \E ctr \in Nat \ {0} : ServesChunk(r, ctr, w)

RecoveredSoFar ==
    /\ mode \in {"none", "failed"} => recovered = <<>>
    /\ mode = "none" => ~lost
    /\ mode = "authenticated" =>
         \E n \in 0..written : /\ recovered = Prefix(n)
                               /\ ~lost => n = rd.pos /\ Serving(rd, written)

RecoveryInv ==
    /\ KeystreamInv
    /\ StreamHonest
    /\ RecoveredSoFar

LEMMA PrefixFacts ==
    ASSUME NEW n \in Nat
    PROVE  /\ Prefix(n) \in Seq(ShownCell) /\ Len(Prefix(n)) = n
           /\ \A i \in 1..n : Prefix(n)[i] = Plain(i)
  <1>1. \A i \in 1..n : Plain(i) \in ShownCell
    BY DEF Plain, ShownCell
  <1>2. Prefix(n) \in [1..n -> ShownCell] /\ \A i \in 1..n : Prefix(n)[i] = Plain(i)
    BY <1>1 DEF Prefix
  <1>3. QED
    BY <1>2

-----------------------------------------------------------------------------
(***************************************************************************)
(* The stream that is found again.                                         *)
(***************************************************************************)
LEMMA StoredHonest ==
    ASSUME NEW w \in Nat, out \in Seq(HonestCells(w)), MagicLate(out),
           NEW length \in 0..Len(out), NEW place \in 0..length
    PROVE  Stored(length, place) \in Seq(HonestCells(w)) /\ MagicLate(Stored(length, place))
  <1> DEFINE cell(i) == IF i = place THEN [kind |-> "changed"] ELSE out[i]
  <1>1. length \in Nat /\ length <= Len(out)
    OBVIOUS
  <1>2. [kind |-> "changed"] \in HonestCells(w)
    BY DEF HonestCells, StoredCell, Honest
  <1>3. \A i \in 1..length : /\ cell(i) \in HonestCells(w)
                             /\ cell(i).kind = "magic" => i > CHUNK_HEAD_SIZE + 1
    BY <1>1, <1>2 DEF MagicLate
  <1>4. Stored(length, place) = [i \in 1..length |-> cell(i)]
    BY DEF Stored
  <1> HIDE DEF cell
  <1>5. /\ Stored(length, place) \in [1..length -> HonestCells(w)]
        /\ \A i \in 1..length : Stored(length, place)[i] = cell(i)
    BY <1>3, <1>4
  <1>6. Stored(length, place) \in Seq(HonestCells(w)) /\ Len(Stored(length, place)) = length
    BY <1>1, <1>5
  <1>7. QED
    BY <1>3, <1>5, <1>6 DEF MagicLate

\* Two adjacent pieces of a sequence from its start are its beginning.
LEMMA AdjacentPieces ==
    ASSUME NEW S, NEW s \in Seq(S), NEW a \in 0..Len(s), NEW b \in 0..Len(s), a <= b,
           NEW p \in 1..Len(SubSeq(s, 1, a) \o SubSeq(s, a + 1, b))
    PROVE  /\ p \in 1..Len(s)
           /\ (SubSeq(s, 1, a) \o SubSeq(s, a + 1, b))[p] = s[p]
  <1> DEFINE t == SubSeq(s, 1, a)
             e == SubSeq(s, a + 1, b)
  <1>1. /\ t \in Seq(S) /\ Len(t) = a /\ \A i \in 1..a : t[i] = s[i]
    OBVIOUS
  <1>2. /\ e \in Seq(S) /\ Len(e) = b - a /\ \A i \in 1..b - a : e[i] = s[a + i]
    OBVIOUS
  <1> HIDE DEF t, e
  <1>3. p \in 1..Len(t \o e)
    BY DEF t, e
  <1>4. p \in 1..b
    BY <1>1, <1>2, <1>3
  <1>5. ASSUME p <= a PROVE (t \o e)[p] = s[p]
    BY <1>1, <1>2, <1>3, <1>4, <1>5
  <1>6. ASSUME p > a PROVE (t \o e)[p] = s[p]
    <2>1. (t \o e)[p] = e[p - a] /\ p - a \in 1..Len(e)
      BY <1>1, <1>2, <1>3, <1>6, ConcatRight
    <2>2. e[p - a] = s[p]
      BY <1>2, <1>4, <2>1
    <2>3. QED
      BY <2>1, <2>2
  <1>7. p \in 1..Len(s) /\ (t \o e)[p] = s[p]
    <2>1. p \in 1..Len(s)
      BY <1>4
    <2>2. p <= a \/ p > a
      BY <1>4
    <2>3. QED
      BY <1>5, <1>6, <2>1, <2>2
  <1>8. QED
    BY <1>7 DEF t, e

\* The first chunk does not look like the end: the magic comes too late in it.
LEMMA FirstLoad ==
    ASSUME NEW w \in Nat, NEW src \in Seq(HonestCells(w)), MagicLate(src),
           NEW r, r = WithNext(Fresh(src)),
           NEW loaded, loaded = LoadInCache("authenticated", r)
    PROVE  /\ r \in Readers(w) /\ r.pos = 0
           /\ loaded.outcome \in {"error", "some"}
  <1> DEFINE fresh == Fresh(src)
             l == Exchanged(r)
             ends == EndOfTag("authenticated", l)
             end == CHOOSE e \in ends : TRUE
             text_end == Greatest(end - TAG_LENGTH, 0)
             both == l.cache \o l.next
  <1>1. <<>> \in Seq(ShownCell) /\ <<>> \in Seq(HonestCells(w))
    OBVIOUS
  <1>2. /\ fresh \in Readers(w) /\ fresh.src = src /\ fresh.inner = 0 /\ fresh.pos = 0
    BY <1>1 DEF Fresh, Readers
  <1>3. r = WithNext(fresh)
    OBVIOUS
  <1> HIDE DEF fresh
  <1>4. /\ r \in Readers(w) /\ r.pos = 0 /\ r.src = src
        /\ r.inner \in 0..Len(src) /\ r.next = SubSeq(src, 1, r.inner)
    BY <1>2, <1>3, NextRead
  <1>5. /\ l \in Readers(w) /\ l.cache = SubSeq(src, 1, r.inner)
        /\ l.next = SubSeq(src, r.inner + 1, l.inner) /\ l.inner \in 0..Len(src)
    BY <1>4, ExchangedFacts
  <1>6. r.inner <= l.inner
    <2> DEFINE x == [r EXCEPT !.cache = r.next, !.at = 0]
    <2>1. r.next \in Seq(ShownCell)
      BY <1>4, HonestShown DEF Readers
    <2>2. x \in Readers(w) /\ x.inner = r.inner /\ x.src = src
      BY <1>4, <2>1 DEF Readers
    <2>3. l = WithNext(x)
      BY DEF Exchanged
    <2> HIDE DEF x, l
    <2>4. l.inner = Least(r.inner + M0_CHUNK_SIZE, Len(src))
      BY <2>2, <2>3, NextRead
    <2>5. QED
      BY <1>4, <2>4, SizeFacts DEF Least
  <1> HIDE DEF l
  <1>7. both = SubSeq(src, 1, r.inner) \o SubSeq(src, r.inner + 1, l.inner)
    BY <1>5
  <1>8. ASSUME NEW p \in 1..Len(both) PROVE p \in 1..Len(src) /\ both[p] = src[p]
    <2> DEFINE a == r.inner
               b == l.inner
    <2>1. a \in 0..Len(src) /\ b \in 0..Len(src) /\ a <= b
      BY <1>4, <1>5, <1>6
    <2>2. both = SubSeq(src, 1, a) \o SubSeq(src, a + 1, b)
      BY <1>7
    <2> HIDE DEF a, b, both
    <2>3. QED
      BY <2>1, <2>2, AdjacentPieces
  <1>9. ASSUME NEW e \in ends PROVE e \in Nat /\ e > TAG_LENGTH
    <2>1. /\ e \in Nat
          /\ \/ e = M0_CHUNK_SIZE
             \/ e + 1 <= Len(both) /\ both[e + 1].kind = "magic"
      BY <1>5, TagEnds
    <2>2. CASE e = M0_CHUNK_SIZE
      BY <2>2, SizeFacts
    <2>3. CASE e + 1 <= Len(both) /\ both[e + 1].kind = "magic"
      <3> HIDE DEF both
      <3>1. Len(both) \in Nat
        <4>1. l.cache \in Seq(ShownCell) /\ l.next \in Seq(ShownCell)
          BY <1>5, HonestShown DEF Readers
        <4>2. QED
          BY <4>1, ConcatType DEF both
      <3>2. e + 1 \in 1..Len(both)
        BY <2>1, <2>3, <3>1
      <3>3. e + 1 \in 1..Len(src) /\ src[e + 1].kind = "magic"
        BY <1>8, <2>3, <3>2
      <3>4. QED
        BY <2>1, <3>3, SizeFacts DEF MagicLate
    <2>4. QED
      BY <2>1, <2>2, <2>3
  <1>10. ends # {} => text_end # 0
    <2> HIDE DEF ends
    <2>1. SUFFICES ASSUME ends # {} PROVE text_end # 0
      OBVIOUS
    <2>2. end \in ends
      BY <2>1
    <2> HIDE DEF end
    <2>3. end \in Nat /\ end > TAG_LENGTH
      BY <1>9, <2>2
    <2>4. QED
      BY <2>3, SizeFacts DEF Greatest
  <1>11. loaded.outcome \in {"error", "some"}
    <2>1. loaded.outcome = "none" => ends # {} /\ text_end = 0
      BY DEF LoadInCache, Exchanged, l
    <2>2. loaded.outcome \in {"error", "none", "some"}
      BY DEF LoadInCache
    <2>3. QED
      BY <1>10, <2>1, <2>2
  <1>12. QED
    BY <1>4, <1>11

-----------------------------------------------------------------------------
(***************************************************************************)
(* A read from the cache returns the next bytes of the plaintext.          *)
(***************************************************************************)
LEMMA PrefixExtended ==
    ASSUME NEW pos \in Nat, NEW n \in Nat, NEW data \in Seq(ShownCell), Len(data) = n,
           \A i \in 1..n : data[i] = Plain(pos + i)
    PROVE  Prefix(pos) \o data = Prefix(pos + n)
  <1> DEFINE t == Prefix(pos)
             u == Prefix(pos + n)
  <1>1. t \in Seq(ShownCell) /\ Len(t) = pos /\ \A i \in 1..pos : t[i] = Plain(i)
    BY PrefixFacts
  <1>2. pos + n \in Nat
    OBVIOUS
  <1>3. /\ u \in Seq(ShownCell) /\ Len(u) = pos + n
        /\ \A i \in 1..pos + n : u[i] = Plain(i)
    BY <1>2, PrefixFacts
  <1> HIDE DEF t, u
  <1>4. \A i \in 1..Len(t) : t[i] = u[i]
    BY <1>1, <1>3
  <1>5. \A i \in 1..Len(data) : data[i] = u[Len(t) + i]
    BY <1>1, <1>3
  <1>6. Len(u) = Len(t) + Len(data)
    BY <1>1, <1>3
  <1>7. t \o data = u
    BY <1>1, <1>3, <1>4, <1>5, <1>6, ConcatIs
  <1>8. QED
    BY <1>7 DEF t, u

\* What a read takes is in the cache.
LEMMA CountFits ==
    ASSUME NEW w \in Nat, NEW r, NEW ctr \in Nat \ {0}, ServesChunk(r, ctr, w),
           NEW size \in Nat
    PROVE  /\ Least(size, Available(r)) \in Nat
           /\ r.at + Least(size, Available(r)) <= Len(r.cache)
  <1> DEFINE len == Len(r.cache)
             at == r.at
             head == CHUNK_HEAD_SIZE
             full == NORMAL_CHUNK_PT_AND_TAG_SIZE
  <1>1. r.cache \in Seq(ShownCell) /\ at \in Nat /\ at \in head .. len
    BY DEF ServesChunk, Readers
  <1>2. len \in Nat /\ head \in Nat /\ len \in head .. head + N
    BY <1>1, SizeFacts DEF ServesChunk, Holds
  <1>3. full = head + N
    BY SizeFacts
  <1>4. Available(r) = Greatest(0, Least(full - at, len - at))
    BY DEF Available
  <1> HIDE DEF len, at, head, full
  <1>5. N \in Nat /\ full \in Nat /\ len <= full /\ at <= len
    BY <1>1, <1>2, <1>3, SizeFacts
  <1>6. Available(r) \in Nat /\ Available(r) = len - at
    BY <1>1, <1>2, <1>4, <1>5 DEF Greatest, Least
  <1>7. Least(size, Available(r)) \in Nat /\ Least(size, Available(r)) <= len - at
    BY <1>6 DEF Least
  <1>8. at + Least(size, Available(r)) <= len
    BY <1>1, <1>2, <1>7
  <1>9. QED
    BY <1>7, <1>8 DEF len, at

\* A reader with count bytes of its cache read.
Passed(r, count) == [r EXCEPT !.at = @ + count, !.pos = @ + count]

LEMMA PassedIs ==
    ASSUME NEW w, NEW r \in Readers(w), NEW count \in Nat
    PROVE  Passed(r, count) =
             [src |-> r.src, inner |-> r.inner, cache |-> r.cache, at |-> r.at + count,
              next |-> r.next, size |-> r.size, pos |-> r.pos + count]
  <1> DEFINE to == r.at + count
             pos == r.pos + count
  <1>1. Passed(r, count) = [r EXCEPT !.at = to, !.pos = pos]
    BY DEF Passed
  <1> HIDE DEF to, pos
  <1>2. Passed(r, count) = [src |-> r.src, inner |-> r.inner, cache |-> r.cache, at |-> to,
                            next |-> r.next, size |-> r.size, pos |-> pos]
    BY <1>1 DEF Readers
  <1>3. QED
    BY <1>2 DEF to, pos

LEMMA ReadServes ==
    ASSUME NEW w \in Nat, NEW r, NEW ctr \in Nat \ {0}, ServesChunk(r, ctr, w),
           NEW count \in Nat, r.at + count <= Len(r.cache)
    PROVE  /\ ServesChunk(Passed(r, count), ctr, w)
           /\ Passed(r, count).pos = r.pos + count
           /\ r.pos \in Nat /\ r.pos + count \in 0..w
           /\ Prefix(r.pos) \o SubSeq(r.cache, r.at + 1, r.at + count) = Prefix(r.pos + count)
  <1> DEFINE cache == r.cache
             len == Len(cache)
             at == r.at
             pos == r.pos
             head == CHUNK_HEAD_SIZE
             start == Start(ctr)
             data == SubSeq(cache, at + 1, at + count)
             after == Passed(r, count)
  <1>1. /\ r \in Readers(w) /\ cache \in Seq(ShownCell) /\ at \in Nat /\ pos \in Nat
        /\ at \in head .. len /\ pos = start + (at - head)
    BY DEF ServesChunk, Readers
  <1>2. /\ len \in head .. head + N /\ start + (len - head) <= w
        /\ \A i \in head + 1 .. len : cache[i] = Plain(start + (i - head))
    BY DEF ServesChunk, Holds
  <1>3. start \in Nat /\ len \in Nat /\ head \in Nat
    <2>1. start \in Nat
      BY StartFacts
    <2>2. len \in Nat
      BY <1>1
    <2>3. head \in Nat
      BY WriterAssumption
    <2>4. QED
      BY <2>1, <2>2, <2>3
  <1>4. after = [src |-> r.src, inner |-> r.inner, cache |-> cache, at |-> at + count,
                 next |-> r.next, size |-> r.size, pos |-> pos + count]
    BY <1>1, PassedIs
  <1>5. /\ r.src \in Seq(HonestCells(w)) /\ r.inner \in Nat
        /\ r.next \in Seq(HonestCells(w)) /\ r.size \in Int
    BY <1>1 DEF Readers
  <1>6. at + count <= len
    OBVIOUS
  <1> HIDE DEF cache, at, pos, head, start
  <1>7. data \in Seq(ShownCell) /\ Len(data) = count /\ \A i \in 1..count : data[i] = cache[at + i]
    BY <1>1, <1>6, PieceFacts
  <1> HIDE DEF data, len, after
  <1>8. after.at = at + count /\ after.pos = pos + count /\ after.cache = cache
    BY <1>4
  <1>9. Holds(after, ctr, w)
    BY <1>8 DEF Holds, ServesChunk, cache
  <1>10. at + count \in head .. len /\ at + count \in Nat /\ pos + count \in Nat
    BY <1>1, <1>3, <1>6
  <1>11. pos + count = start + ((at + count) - head)
    BY <1>1, <1>3
  <1>12. pos + count \in 0..w
    BY <1>1, <1>2, <1>3, <1>6
  <1>13. after \in Readers(w)
    BY <1>1, <1>4, <1>5, <1>10 DEF Readers
  <1>14. ServesChunk(after, ctr, w)
    BY <1>8, <1>9, <1>10, <1>11, <1>13 DEF ServesChunk, head, start, len
  <1>15. ASSUME NEW i \in 1..count PROVE data[i] = Plain(pos + i)
    <2>1. at + i \in head + 1 .. len
      BY <1>1, <1>3, <1>6
    <2>2. start + ((at + i) - head) = pos + i
      BY <1>1, <1>3
    <2>3. cache[at + i] = Plain(start + ((at + i) - head))
      BY <1>2, <2>1
    <2>4. QED
      BY <1>7, <2>2, <2>3
  <1>16. Prefix(pos) \o data = Prefix(pos + count)
    BY <1>1, <1>7, <1>15, PrefixExtended
  <1>17. QED
    BY <1>1, <1>8, <1>12, <1>14, <1>16 DEF pos, data, at, cache, after

-----------------------------------------------------------------------------
(***************************************************************************)
(* Every step keeps the invariant.                                         *)
(***************************************************************************)
\* A chunk just loaded.
LEMMA LoadedServes ==
    ASSUME NEW w \in Nat, NEW ctr \in Nat \ {0}, NEW r \in Readers(w), r.pos = Start(ctr),
           r.at = CHUNK_HEAD_SIZE, Holds(r, ctr, w)
    PROVE  ServesChunk(r, ctr, w)
  <1>1. Len(r.cache) \in CHUNK_HEAD_SIZE .. CHUNK_HEAD_SIZE + N
    BY DEF Holds
  <1>2. CHUNK_HEAD_SIZE \in Nat /\ N \in Nat /\ Start(ctr) \in Nat
    BY SizeFacts, StartFacts
  <1>3. r.at \in CHUNK_HEAD_SIZE .. Len(r.cache)
    BY <1>1, <1>2
  <1>4. r.pos = Start(ctr) + (r.at - CHUNK_HEAD_SIZE)
    BY <1>2
  <1>5. QED
    BY <1>3, <1>4 DEF ServesChunk

\* A load that fails, or finds no more data, leaves the cursor at 0.
LEMMA LoadStops ==
    ASSUME NEW w \in Nat, NEW r \in Readers(w),
           NEW loaded, loaded = LoadInCache("authenticated", r), loaded.outcome # "some"
    PROVE  loaded.reader.at = 0
  <1> DEFINE l == Exchanged(r)
  <1>1. l \in Readers(w) /\ l.at = 0
    BY ExchangedFacts
  <1>2. \/ loaded.reader = l
        \/ \E cells : loaded.reader = [l EXCEPT !.cache = cells]
    BY DEF LoadInCache, Exchanged
  <1> HIDE DEF l
  <1>3. QED
    BY <1>1, <1>2 DEF Readers

LEMMA OpenRecovers ==
    ASSUME RecoveryInv, NEW m \in FailSafe \cup {"indexed"}, NEW length \in 0..Len(out),
           NEW place \in 0..length, Open(m, length, place)
    PROVE  RecoveredSoFar'
  <1> DEFINE src == Stored(length, place)
             first == WithNext(Fresh(src))
             loaded == LoadInCache(m, first)
  <1>1. /\ mode = "none" /\ ~torn /\ written' = written /\ recovered' = recovered
        /\ recovered = <<>> /\ ~lost /\ lost' = lost
    BY DEF Open, writerVars, RecoveryInv, RecoveredSoFar
  <1>2. OpenFails(m, src) => mode' = "failed"
    BY Zenon DEF OpenFails
  <1>3. ASSUME m # "authenticated" PROVE RecoveredSoFar'
    <2>1. mode' \in {"failed", "indexed", "unauthenticated"}
      <3>1. CASE m = "indexed"
        <4>1. OpenIndexed(src)
          BY <3>1 DEF Open
        <4>2. (mode' = "indexed" /\ stopped' = stopped) \/ OpenFails("indexed", src)
          BY <4>1, Zenon DEF OpenIndexed
        <4>3. QED
          BY <1>1, <1>2, <3>1, <4>2
      <3>2. CASE m = "unauthenticated"
        <4>1. OpenFailSafe(m, src)
          BY <3>2 DEF Open
        <4>2. (mode' = m /\ stopped' = stopped) \/ OpenFails(m, src)
          BY <4>1, Zenon DEF OpenFailSafe
        <4>3. QED
          BY <1>1, <1>2, <3>2, <4>2
      <3>3. QED
        BY <1>3, <3>1, <3>2 DEF FailSafe
    <2>2. QED
      BY <1>1, <2>1 DEF RecoveredSoFar
  <1>4. ASSUME m = "authenticated" PROVE RecoveredSoFar'
    <2>1. OpenFailSafe(m, src)
      BY <1>4 DEF Open
    <2>2. \/ OpenFails(m, src)
          \/ /\ mode' = m /\ rd' = loaded.reader /\ stopped' = stopped
             /\ loaded.outcome # "error"
      <3> HIDE DEF src
      <3>1. QED
        BY <2>1, Zenon DEF OpenFailSafe
    <2>3. CASE OpenFails(m, src)
      BY <1>1, <1>2, <2>3 DEF RecoveredSoFar
    <2>4. CASE /\ mode' = m /\ rd' = loaded.reader /\ stopped' = stopped
               /\ loaded.outcome # "error"
      <3>1. /\ written \in Nat /\ out \in Seq(HonestCells(written)) /\ MagicLate(out)
        BY <1>1 DEF RecoveryInv, StreamHonest, KeystreamInv, WriterTypeOK
      <3>2. src \in Seq(HonestCells(written)) /\ MagicLate(src)
        BY <3>1, StoredHonest
      <3> HIDE DEF src
      <3>3. /\ first \in Readers(written) /\ first.pos = 0
            /\ loaded.outcome \in {"error", "some"}
        BY <1>4, <3>1, <3>2, FirstLoad
      <3> HIDE DEF first
      <3>4. first.pos = Start(1) /\ 1 \in Nat \ {0}
        BY <3>3, StartFacts DEF FIRST_DATA_CHUNK_NUMBER
      <3>5. /\ loaded.reader \in Readers(written) /\ loaded.reader.pos = 0
            /\ loaded.reader.at = CHUNK_HEAD_SIZE /\ Holds(loaded.reader, 1, written)
        BY <1>4, <2>4, <3>1, <3>3, <3>4, LoadAuthentic
      <3> HIDE DEF loaded
      <3>6. /\ rd' \in Readers(written) /\ rd'.pos = 0
            /\ rd'.at = CHUNK_HEAD_SIZE /\ Holds(rd', 1, written)
        BY <2>4, <3>5
      <3>7. ServesChunk(rd', 1, written)
        <4>1. Start(1) = 0
          BY StartFacts DEF FIRST_DATA_CHUNK_NUMBER
        <4>2. QED
          BY <3>1, <3>4, <3>6, <4>1, LoadedServes
      <3>8. Serving(rd', written')
        BY <1>1, <3>4, <3>7 DEF Serving
      <3>9. Prefix(0) = <<>>
        <4>1. Prefix(0) \in Seq(ShownCell) /\ Len(Prefix(0)) = 0
          BY PrefixFacts
        <4>2. QED
          BY <4>1
      <3>10. 0 \in 0..written' /\ recovered' = Prefix(0) /\ 0 = rd'.pos
        BY <1>1, <3>1, <3>6, <3>9
      <3>11. QED
        BY <1>4, <2>4, <3>8, <3>10 DEF RecoveredSoFar
    <2>5. QED
      BY <2>2, <2>3, <2>4
  <1>5. QED
    BY <1>3, <1>4

LEMMA ReadRecovers ==
    ASSUME RecoveryInv, NEW size \in Sizes, Read(size)
    PROVE  RecoveredSoFar'
  <1> DEFINE loaded == IF rd.at = NORMAL_CHUNK_PT_AND_TAG_SIZE
                       THEN LoadInCache(mode, rd)
                       ELSE [outcome |-> "some", reader |-> rd]
             r == loaded.reader
             count == IF loaded.outcome = "some" THEN Least(size, Available(r)) ELSE 0
             data == SubSeq(r.cache, r.at + 1, r.at + count)
  <1>1. /\ mode \in FailSafe \cup {"indexed"} /\ mode' = mode /\ written' = written
        /\ RecoveredSoFar
    BY DEF Read, writerVars, RecoveryInv
  <1>2. rd' = [r EXCEPT !.at = @ + count, !.pos = @ + count]
    BY DEF Read
  <1>3. mode \in FailSafe =>
          /\ lost' = (lost \/ loaded.outcome # "some")
          /\ recovered' = (IF lost THEN recovered ELSE recovered \o data)
    BY DEF Read
  <1> HIDE DEF data
  <1>4. ASSUME mode # "authenticated" PROVE RecoveredSoFar'
    BY <1>1, <1>4 DEF RecoveredSoFar, FailSafe
  <1>5. ASSUME mode = "authenticated", lost PROVE RecoveredSoFar'
    BY <1>1, <1>3, <1>5 DEF RecoveredSoFar, FailSafe
  <1>6. ASSUME mode = "authenticated", ~lost PROVE RecoveredSoFar'
    <2>1. recovered' = recovered \o data /\ lost' = (loaded.outcome # "some")
      BY <1>3, <1>6 DEF FailSafe
    <2>2. PICK n \in 0..written : recovered = Prefix(n) /\ n = rd.pos /\ Serving(rd, written)
      BY <1>1, <1>6 DEF RecoveredSoFar
    <2>3. PICK c \in Nat \ {0} : ServesChunk(rd, c, written)
      BY <2>2 DEF Serving
    <2>4. written \in Nat /\ size \in Nat
      BY ReaderAssumption DEF RecoveryInv, KeystreamInv, WriterTypeOK
    <2>5. n \in Nat /\ recovered \in Seq(ShownCell)
      BY <2>2, <2>4, PrefixFacts
    <2>6. CASE loaded.outcome # "some"
      <3>1. count = 0 /\ rd.at = NORMAL_CHUNK_PT_AND_TAG_SIZE /\ loaded = LoadInCache("authenticated", rd)
        BY <1>6, <2>6
      <3>2. rd \in Readers(written)
        BY <2>3 DEF ServesChunk
      <3> HIDE DEF loaded
      <3>3. r.at = 0
        BY <2>4, <2>6, <3>1, <3>2, LoadStops
      <3> HIDE DEF r, count
      <3>4. data = <<>>
        BY <3>1, <3>3 DEF data
      <3>5. recovered' = recovered
        BY <2>1, <2>5, <3>4
      <3>6. lost'
        BY <2>1, <2>6
      <3>7. QED
        BY <1>1, <1>6, <2>2, <3>5, <3>6 DEF RecoveredSoFar
    <2>7. CASE loaded.outcome = "some"
      <3>1. PICK ctr \in Nat \ {0} : ServesChunk(r, ctr, written) /\ r.pos = rd.pos
        <4>1. CASE rd.at # NORMAL_CHUNK_PT_AND_TAG_SIZE
          <5>1. r = rd
            BY <4>1
          <5>2. QED
            BY <2>3, <5>1
        <4>2. CASE rd.at = NORMAL_CHUNK_PT_AND_TAG_SIZE
          <5>1. loaded = LoadInCache("authenticated", rd)
            BY <1>6, <4>2
          <5> HIDE DEF loaded
          <5>2. rd \in Readers(written) /\ rd.pos = Start(c) + N
            BY <2>3, <4>2, SizeFacts DEF ServesChunk
          <5>3. rd.pos = Start(c + 1) /\ c + 1 \in Nat \ {0}
            BY <5>2, StartFacts
          <5>4. /\ r \in Readers(written) /\ r.pos = rd.pos /\ r.at = CHUNK_HEAD_SIZE
                /\ Holds(r, c + 1, written)
            BY <2>4, <2>7, <5>1, <5>2, <5>3, LoadAuthentic
          <5> HIDE DEF r
          <5>5. ServesChunk(r, c + 1, written)
            BY <2>4, <5>3, <5>4, LoadedServes
          <5>6. QED
            BY <5>3, <5>4, <5>5
        <4>3. QED
          BY <4>1, <4>2
      <3>2. count = Least(size, Available(r))
        BY <2>7
      <3> HIDE DEF loaded, r
      <3>3. count \in Nat /\ r.at + count <= Len(r.cache)
        BY <2>4, <3>1, <3>2, CountFits
      <3> HIDE DEF count
      <3>4. rd' = Passed(r, count)
        BY <1>2 DEF Passed
      <3>5. /\ ServesChunk(rd', ctr, written) /\ rd'.pos = r.pos + count
            /\ r.pos + count \in 0..written
            /\ Prefix(r.pos) \o data = Prefix(r.pos + count)
        <4>1. data = SubSeq(r.cache, r.at + 1, r.at + count)
          BY DEF data
        <4>2. ServesChunk(r, ctr, written)
          BY <3>1
        <4>3. /\ ServesChunk(Passed(r, count), ctr, written)
              /\ Passed(r, count).pos = r.pos + count /\ r.pos + count \in 0..written
              /\ Prefix(r.pos) \o SubSeq(r.cache, r.at + 1, r.at + count) = Prefix(r.pos + count)
          BY <2>4, <3>3, <4>2, ReadServes
        <4>4. QED
          BY <3>4, <4>1, <4>3
      <3>6. recovered' = Prefix(rd'.pos) /\ rd'.pos \in 0..written
        BY <2>1, <2>2, <3>1, <3>5
      <3>7. Serving(rd', written)
        BY <3>5 DEF Serving
      <3>8. QED
        BY <1>1, <1>6, <3>6, <3>7 DEF RecoveredSoFar
    <2>8. QED
      BY <2>6, <2>7
  <1>7. QED
    BY <1>4, <1>5, <1>6

LEMMA InitRecovers == Init => RecoveryInv
  <1> SUFFICES ASSUME Init PROVE RecoveryInv
    OBVIOUS
  <1>1. KeystreamInv /\ StreamHonest
    BY InitKeystream, InitHonest DEF Init
  <1>2. mode = "none" /\ recovered = <<>> /\ lost = FALSE
    BY Zenon DEF Init, ReaderInit
  <1>3. RecoveredSoFar
    BY <1>2 DEF RecoveredSoFar
  <1>4. QED
    BY <1>1, <1>3 DEF RecoveryInv

LEMMA StepRecovers == RecoveryInv /\ [Next]_vars => RecoveryInv'
  <1> SUFFICES ASSUME RecoveryInv, [Next]_vars PROVE RecoveryInv'
    OBVIOUS
  <1>1. [WriterNext]_writerVars
    BY DEF Next, Writing, Open, Read, Seek, vars
  <1>2. KeystreamInv' /\ StreamHonest'
    BY <1>1, StepKeepsKeystream, StepHonest DEF RecoveryInv
  <1>3. RecoveredSoFar'
    <2>1. CASE Writing
      <3>1. mode = "none" /\ UNCHANGED readerVars
        BY <2>1 DEF Writing
      <3>2. mode' = "none" /\ recovered' = recovered /\ lost' = lost
        BY <3>1 DEF readerVars, recoveryVars
      <3>3. QED
        BY <3>1, <3>2 DEF RecoveredSoFar, RecoveryInv
    <2>2. ASSUME NEW m \in FailSafe \cup {"indexed"}, NEW length \in 0..Len(out),
                 NEW place \in 0..length, Open(m, length, place)
          PROVE  RecoveredSoFar'
      BY <2>2, OpenRecovers
    <2>3. ASSUME NEW size \in Sizes, Read(size) PROVE RecoveredSoFar'
      BY <2>3, ReadRecovers
    <2>4. ASSUME NEW whence \in Places, NEW by \in Moves, Seek(whence, by)
          PROVE  RecoveredSoFar'
      <3>1. mode' = "indexed"
        BY <2>4 DEF Seek
      <3>2. QED
        BY <3>1 DEF RecoveredSoFar
    <2>5. CASE UNCHANGED vars
      <3>1. UNCHANGED <<mode, rd, recovered, lost, written>>
        BY <2>5 DEF vars, readerVars, recoveryVars, writerVars
      <3>2. QED
        BY <3>1 DEF RecoveredSoFar, RecoveryInv
    <2>6. QED
      BY <2>1, <2>2, <2>3, <2>4, <2>5 DEF Next
  <1>4. QED
    BY <1>2, <1>3 DEF RecoveryInv

LEMMA RecoveredPrefix == RecoveryInv => AuthenticUntilLost
  <1> SUFFICES ASSUME RecoveryInv, Recovering("authenticated")
               PROVE  IsPrefix(recovered, Plaintext)
    BY DEF AuthenticUntilLost
  <1>1. written \in Nat
    BY DEF RecoveryInv, KeystreamInv, WriterTypeOK
  <1>2. Plaintext = Prefix(written)
    BY DEF Plaintext, Prefix
  <1>3. Prefix(0) = <<>>
    <2>1. Prefix(0) \in Seq(ShownCell) /\ Len(Prefix(0)) = 0
      BY PrefixFacts
    <2>2. QED
      BY <2>1
  <1>4. PICK n \in 0..written : recovered = Prefix(n)
    <2>1. CASE mode = "authenticated"
      BY <2>1 DEF RecoveryInv, RecoveredSoFar
    <2>2. CASE mode = "failed"
      BY <1>1, <1>3, <2>2 DEF RecoveryInv, RecoveredSoFar
    <2>3. QED
      BY <2>1, <2>2 DEF Recovering
  <1> DEFINE s == Prefix(n)
             t == Prefix(written)
  <1>5. n \in Nat /\ n <= written
    BY <1>1
  <1>6. /\ s \in Seq(ShownCell) /\ Len(s) = n /\ \A i \in 1..n : s[i] = Plain(i)
        /\ t \in Seq(ShownCell) /\ Len(t) = written /\ \A i \in 1..written : t[i] = Plain(i)
    BY <1>1, <1>5, PrefixFacts
  <1> HIDE DEF s, t
  <1>7. SubSeq(s, 1, n) = SubSeq(t, 1, n)
    <2> DEFINE u == SubSeq(s, 1, n)
               v == SubSeq(t, 1, n)
    <2>1. u \in Seq(ShownCell) /\ Len(u) = n /\ \A i \in 1..n : u[i] = s[i]
      BY <1>5, <1>6
    <2>2. v \in Seq(ShownCell) /\ Len(v) = n /\ \A i \in 1..n : v[i] = t[i]
      BY <1>1, <1>5, <1>6
    <2>3. \A i \in 1..n : s[i] = t[i]
      BY <1>1, <1>5, <1>6
    <2> HIDE DEF u, v
    <2>4. u = v
      BY <2>1, <2>2, <2>3
    <2>5. QED
      BY <2>4 DEF u, v
  <1>8. IsPrefix(s, t)
    BY <1>5, <1>6, <1>7 DEF IsPrefix
  <1>9. QED
    BY <1>2, <1>4, <1>8 DEF s, t

(***************************************************************************)
(* Until load_in_cache first fails or finds no more data, authenticated    *)
(* recovery returns a prefix of the plaintext and nothing else, for every  *)
(* size of chunk, tag, head and magic, wherever the stream is cut,         *)
(* whichever byte of it is changed, and whatever the lengths of the        *)
(* buffers given to write and read.  Nothing of the kind holds of the      *)
(* reads made after that: see OnlyAuthenticatedData.                       *)
(***************************************************************************)
THEOREM RecoveryAuthenticUntilLost == Spec => []AuthenticUntilLost
  <1>1. Init => RecoveryInv
    BY InitRecovers
  <1>2. RecoveryInv /\ [Next]_vars => RecoveryInv'
    BY StepRecovers
  <1>3. RecoveryInv => AuthenticUntilLost
    BY RecoveredPrefix
  <1>4. QED
    BY <1>1, <1>2, <1>3, PTL DEF Spec
===============================================================================
