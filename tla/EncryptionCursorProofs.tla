------------------------ MODULE EncryptionCursorProofs ------------------------
(***************************************************************************)
(* The seekable reader of an encrypted archive: it opens whole streams     *)
(* only, serves them without an error unless a byte was changed, and is a  *)
(* cursor over the plaintext, for every size of chunk, tag and magic and   *)
(* every sequence of calls.                                                *)
(*                                                                         *)
(* The argument: the writer lays the stream out chunk by chunk (Layout),   *)
(* so a cell tells the place it was written at: a tag of data belongs to   *)
(* the chunk of its nonce, the magic and the final block come last.  The   *)
(* reader has the chunk of its position in its cache and the one after it  *)
(* in the next (Synced), or is beyond the end (Past), or, after an error,  *)
(* ahead of its caches for good (Astray): what is ahead cannot verify as   *)
(* the chunk of its position, so only a seek brings it back.               *)
(***************************************************************************)
EXTENDS EncryptionReaderProofs

\* The stream before chunk k, which is encrypted under nonce k + 1.
Base(k) == k * M0_CHUNK_SIZE

TagCell(ctr, aad, text, part) ==
    [kind |-> "tag", ctr |-> ctr, aad |-> aad, text |-> text, part |-> part]

\* The cell at place o of chunk k, which holds n bytes.
ChunkCell(k, o, n) ==
    IF o <= CHUNK_HEAD_SIZE THEN [kind |-> "head", ctr |-> k + 1, part |-> o]
    ELSE IF o <= CHUNK_HEAD_SIZE + n
    THEN Cipher(k + 1, o - CHUNK_HEAD_SIZE, Start(k + 1) + (o - CHUNK_HEAD_SIZE))
    ELSE TagCell(k + 1, ASSOCIATED_DATA, Text(k + 1, n), o - CHUNK_HEAD_SIZE - n)

\* The bytes in chunk k when the last chunk is K, with f bytes.
PlainIn(k, K, f) == IF k < K THEN N ELSE f

\* The first len cells of s are chunks 0 to K, or the beginning of them.
Chunks(s, len, K, f) ==
    \A k \in 0..K : \A o \in 1..M0_CHUNK_SIZE :
        Base(k) + o <= len => s[Base(k) + o] = ChunkCell(k, o, PlainIn(k, K, f))

\* What finalize adds behind the last tag of data.
TailSize == MAGIC_LENGTH + TAG_LENGTH + 3
FinalText(K) == <<Cipher(K + 2, 1, FINAL_BLOCK_CONTENT)>>
TailCell(K, i) ==
    IF i <= MAGIC_LENGTH THEN [kind |-> "magic", part |-> i]
    ELSE IF i = MAGIC_LENGTH + 1 THEN Cipher(K + 2, 1, FINAL_BLOCK_CONTENT)
    ELSE IF i <= MAGIC_LENGTH + 1 + TAG_LENGTH
    THEN TagCell(K + 2, FINAL_ASSOCIATED_DATA, FinalText(K), i - (MAGIC_LENGTH + 1))
    ELSE IF i = MAGIC_LENGTH + TAG_LENGTH + 2 THEN [kind |-> "end"] ELSE [kind |-> "tail"]

\* A stream that is being written, and a finalized one.
Growing(s, K, f) ==
    /\ Len(s) = Base(K) + CHUNK_HEAD_SIZE + f
    /\ Chunks(s, Len(s), K, f)

DataEnd(K, f) == Base(K) + CHUNK_HEAD_SIZE + f + TAG_LENGTH

Sealed(s, K, f) ==
    /\ Len(s) = DataEnd(K, f) + TailSize
    /\ Chunks(s, DataEnd(K, f), K, f)
    /\ \A i \in 1..TailSize : s[DataEnd(K, f) + i] = TailCell(K, i)

\* The last chunk of data, and the plaintext in it.
LastChunk == IF finalized THEN current_ctr - 3 ELSE current_ctr - 1
LastSize == written - Start(LastChunk + 1)

Layout ==
    ~torn =>
        /\ LastChunk \in Nat /\ LastSize \in 0..N
        /\ LastSize = 0 => LastChunk = 0
        /\ IF finalized THEN Sealed(out, LastChunk, LastSize)
           ELSE Growing(out, LastChunk, LastSize)

-----------------------------------------------------------------------------
(***************************************************************************)
(* The reader between two calls.                                           *)
(***************************************************************************)
\* The stream but for its last byte, with a byte changed unless place is 0.
SourceOf(src, place) ==
    /\ src \in Seq(HonestCells(written)) /\ Len(src) = Len(out) - 1
    /\ \A p \in 1..Len(src) :
          src[p] = out[p] \/ (place # 0 /\ src[p] = [kind |-> "changed"])

\* Chunk j is in the second cache.
NextIs(r, j) ==
    /\ r.inner = Least(Base(j + 1), Len(r.src))
    /\ r.next = SubSeq(r.src, Base(j) + 1, r.inner)

\* The place in the plaintext that the first byte of the cache stands for.
From(r) == r.pos - (r.at - CHUNK_HEAD_SIZE)

\* A cache that holds all of chunk k.
Exact(cache, k) ==
    /\ Len(cache) = CHUNK_HEAD_SIZE + PlainIn(k, LastChunk, LastSize)
    /\ \A i \in 1..PlainIn(k, LastChunk, LastSize) :
          cache[CHUNK_HEAD_SIZE + i] = Plain(k * N + i)

Synced(r) ==
    \E k \in Nat : /\ NextIs(r, k + 1)
                   /\ From(r) = k * N /\ k * N < written
                   /\ r.at \in CHUNK_HEAD_SIZE .. CHUNK_HEAD_SIZE + N
                   /\ Exact(r.cache, k)

Past(r) == From(r) >= written

Astray(r) ==
    \E k \in Nat : /\ NextIs(r, k + 1)
                   /\ From(r) > k * N
                   /\ ~(/\ Len(r.cache) > CHUNK_HEAD_SIZE
                        /\ r.cache[CHUNK_HEAD_SIZE + 1] = Plain(From(r) + 1))

Reading ==
    mode = "indexed" =>
        /\ finalized /\ ~torn
        /\ SourceOf(rd.src, damage) /\ rd \in Readers(written) /\ rd.size = written
        /\ Synced(rd) \/ Past(rd) \/ (damage # 0 /\ Astray(rd))

\* What is known of the answer to an attempt to open.
Verdict ==
    /\ mode = "none" => result = [op |-> "none"]
    /\ result = [op |-> "open", asked |-> "indexed"] =>
          /\ mode \in {"indexed", "failed"}
          /\ mode = "failed" /\ damage = 0 => ~Whole

CursorInv == KeystreamInv /\ StreamHonest /\ Layout /\ Reading /\ Verdict

-----------------------------------------------------------------------------
(***************************************************************************)
(* Arithmetic of places.                                                   *)
(***************************************************************************)
LEMMA Dimensions ==
    /\ CHUNK_HEAD_SIZE = TAG_LENGTH /\ TAG_LENGTH \in Nat \ {0} /\ N \in Nat \ {0}
    /\ MAGIC_LENGTH \in Nat \ {0}
    /\ M0_CHUNK_SIZE = CHUNK_HEAD_SIZE + N + TAG_LENGTH /\ M0_CHUNK_SIZE \in Nat \ {0}
    /\ MAGIC_LENGTH + 1 + TAG_LENGTH < M0_CHUNK_SIZE
    /\ TailSize \in Nat /\ TailSize = MAGIC_LENGTH + TAG_LENGTH + 3
  BY WriterAssumption, ReaderAssumption, SizeFacts DEF N, M0_CHUNK_SIZE, TailSize

\* Multiples of a number.
LEMMA Multiples ==
    ASSUME NEW m \in Nat
    PROVE  /\ \A k \in Nat : k * m \in Nat /\ (k + 1) * m = k * m + m
           /\ 0 * m = 0
           /\ \A j, k \in Nat : j < k => j * m + m <= k * m
  <1>1. ASSUME NEW k \in Nat PROVE k * m \in Nat /\ (k + 1) * m = k * m + m
    OBVIOUS
  <1>2. ASSUME NEW j \in Nat, NEW k \in Nat, j < k PROVE j * m + m <= k * m
    <2> DEFINE d == k - j - 1
    <2>1. d \in Nat /\ k = j + 1 + d
      BY <1>2
    <2> HIDE DEF d
    <2>2. d * m \in Nat /\ (j + 1 + d) * m = j * m + m + d * m /\ j * m \in Nat
      BY <2>1
    <2>3. QED
      BY <2>1, <2>2
  <1>3. QED
    BY <1>1, <1>2

LEMMA BaseFacts ==
    /\ \A k \in Nat : Base(k) \in Nat /\ Base(k + 1) = Base(k) + M0_CHUNK_SIZE
    /\ Base(0) = 0
    /\ \A j, k \in Nat : j < k => Base(j) + M0_CHUNK_SIZE <= Base(k)
  <1>1. M0_CHUNK_SIZE \in Nat
    BY Dimensions
  <1> DEFINE m == M0_CHUNK_SIZE
  <1>2. m \in Nat
    BY <1>1
  <1>3. \A k : Base(k) = k * m
    BY DEF Base
  <1> HIDE DEF m
  <1>4. /\ \A k \in Nat : k * m \in Nat /\ (k + 1) * m = k * m + m
        /\ 0 * m = 0
        /\ \A j, k \in Nat : j < k => j * m + m <= k * m
    BY <1>2, Multiples
  <1>5. /\ \A k \in Nat : Base(k) \in Nat /\ Base(k + 1) = Base(k) + m
        /\ Base(0) = 0
        /\ \A j, k \in Nat : j < k => Base(j) + m <= Base(k)
    <2> HIDE DEF Base
    <2>1. QED
      BY <1>3, <1>4
  <1>6. QED
    BY <1>5 DEF m

LEMMA StartIs ==
    /\ \A k \in Nat : Start(k + 1) = k * N /\ k * N \in Nat /\ (k + 1) * N = k * N + N
    /\ \A j, k \in Nat : j < k => j * N + N <= k * N
  <1>1. N \in Nat
    BY Dimensions
  <1>2. \A k \in Nat : Start(k + 1) = k * N
    BY DEF Start, FIRST_DATA_CHUNK_NUMBER
  <1> HIDE DEF N
  <1>3. QED
    BY <1>1, <1>2, Multiples

\* Division with rest.
LEMMA DivisionIs ==
    ASSUME NEW m \in Nat \ {0}, NEW q \in Nat, NEW rest \in 0..m - 1
    PROVE  (q * m + rest) \div m = q /\ (q * m + rest) % m = rest
  OBVIOUS

LEMMA DivisionExists ==
    ASSUME NEW m \in Nat \ {0}, NEW a \in Nat
    PROVE  /\ a \div m \in Nat /\ a % m \in 0..m - 1
           /\ a = (a \div m) * m + (a % m)
  <1>1. a \div m \in Nat
    OBVIOUS
  <1>2. a % m \in 0..m - 1
    OBVIOUS
  <1>3. a = (a \div m) * m + (a % m)
    OBVIOUS
  <1>4. QED
    BY <1>1, <1>2, <1>3

\* Every place of the data lies in a chunk.
LEMMA PlaceInChunk ==
    ASSUME NEW p \in Nat \ {0}
    PROVE  \E k \in Nat, o \in 1..M0_CHUNK_SIZE : p = Base(k) + o
  <1> DEFINE m == M0_CHUNK_SIZE
             k == (p - 1) \div m
             o == ((p - 1) % m) + 1
  <1>1. m \in Nat \ {0} /\ p - 1 \in Nat
    BY Dimensions
  <1> HIDE DEF m
  <1>2. k \in Nat /\ (p - 1) % m \in 0..m - 1 /\ p - 1 = k * m + ((p - 1) % m)
    BY <1>1, DivisionExists
  <1>3. k \in Nat /\ o \in 1..m /\ k * m \in Nat
    BY <1>1, <1>2
  <1>4. p = k * m + o
    BY <1>1, <1>2, <1>3
  <1> HIDE DEF k, o
  <1>5. QED
    BY <1>3, <1>4 DEF m, Base

-----------------------------------------------------------------------------
(***************************************************************************)
(* The writer keeps the layout.                                            *)
(***************************************************************************)
LEMMA ChunksAppend ==
    ASSUME NEW S, NEW s \in Seq(S), NEW e \in Seq(S), NEW K \in Nat, NEW a \in Nat,
           NEW f, NEW g, Len(s) = Base(K) + a, a + Len(e) <= M0_CHUNK_SIZE,
           Chunks(s, Len(s), K, f),
           \A o \in 1..a : ChunkCell(K, o, f) = ChunkCell(K, o, g),
           \A i \in 1..Len(e) : e[i] = ChunkCell(K, a + i, g)
    PROVE  Chunks(s \o e, Len(s \o e), K, g)
  <1> SUFFICES ASSUME NEW k \in 0..K, NEW o \in 1..M0_CHUNK_SIZE, Base(k) + o <= Len(s \o e)
               PROVE  (s \o e)[Base(k) + o] = ChunkCell(k, o, PlainIn(k, K, g))
    BY DEF Chunks
  <1> DEFINE b == Base(k)
             c == Base(K)
             m == M0_CHUNK_SIZE
  <1>1. b \in Nat /\ c \in Nat /\ m \in Nat \ {0} /\ (k < K => b + m <= c) /\ k \in Nat
    BY BaseFacts, Dimensions
  <1>2. o \in 1..m /\ b + o <= Len(s \o e) /\ Len(s) = c + a /\ a + Len(e) <= m
    OBVIOUS
  <1>3. b + o <= Len(s) => s[b + o] = ChunkCell(k, o, PlainIn(k, K, f))
    BY DEF Chunks
  <1> HIDE DEF b, c, m
  <1>4. CASE k < K
    <2>1. b + o \in 1..Len(s)
      BY <1>1, <1>2, <1>4
    <2>2. (s \o e)[b + o] = s[b + o]
      BY <2>1
    <2>3. QED
      BY <1>3, <1>4, <2>1, <2>2 DEF PlainIn, b
  <1>5. CASE k = K
    <2>0. b = c
      BY <1>5 DEF b, c
    <2>1. CASE o <= a
      <3>1. b + o \in 1..Len(s) /\ o \in 1..a
        BY <1>1, <1>2, <2>0, <2>1
      <3>2. (s \o e)[b + o] = s[b + o]
        BY <3>1
      <3>3. QED
        BY <1>3, <1>5, <3>1, <3>2 DEF PlainIn, b
    <2>2. CASE o > a
      <3> DEFINE i == o - a
      <3>1. i \in 1..Len(e) /\ b + o = Len(s) + i /\ a + i = o
        BY <1>1, <1>2, <2>0, <2>2
      <3> HIDE DEF i
      <3>2. (s \o e)[Len(s) + i] = e[i]
        BY <3>1, ConcatAt, SMTT(60)
      <3>3. e[i] = ChunkCell(K, o, g)
        BY <3>1
      <3>4. QED
        BY <1>5, <3>1, <3>2, <3>3 DEF PlainIn, b
    <2>3. o <= a \/ o > a
      BY <1>1, <1>2
    <2>4. QED
      BY <2>1, <2>2, <2>3
  <1>6. k < K \/ k = K
    BY <1>1
  <1>7. QED
    BY <1>4, <1>5, <1>6

\* Up to the plaintext written the chunk does not depend on what follows.
LEMMA SameCells ==
    ASSUME NEW K, NEW f \in Nat, NEW g \in Nat, f <= g, NEW o \in 1..CHUNK_HEAD_SIZE + f
    PROVE  ChunkCell(K, o, f) = ChunkCell(K, o, g)
  BY Dimensions DEF ChunkCell

\* The tag of a chunk, and the head of the next one.
LEMMA TagLaid ==
    ASSUME NEW S, NEW s \in Seq(S), NEW K \in Nat, NEW f \in 0..N, Growing(s, K, f),
           Tag(K + 1, ASSOCIATED_DATA, Text(K + 1, f)) \in Seq(S)
    PROVE  LET t == s \o Tag(K + 1, ASSOCIATED_DATA, Text(K + 1, f))
           IN  Len(t) = DataEnd(K, f) /\ t \in Seq(S) /\ Chunks(t, DataEnd(K, f), K, f)
  <1> DEFINE a == CHUNK_HEAD_SIZE + f
             tag == Tag(K + 1, ASSOCIATED_DATA, Text(K + 1, f))
  <1> SUFFICES /\ Len(s \o tag) = DataEnd(K, f) /\ s \o tag \in Seq(S)
               /\ Chunks(s \o tag, DataEnd(K, f), K, f)
    OBVIOUS
  <1>0. tag \in Seq(S)
    OBVIOUS
  <1>1. a \in Nat /\ TAG_LENGTH \in Nat /\ a + TAG_LENGTH <= M0_CHUNK_SIZE /\ Base(K) \in Nat
        /\ f \in Nat /\ CHUNK_HEAD_SIZE \in Nat
    BY Dimensions, BaseFacts
  <1>2. Len(tag) = TAG_LENGTH /\ \A i \in 1..TAG_LENGTH :
            tag[i] = TagCell(K + 1, ASSOCIATED_DATA, Text(K + 1, f), i)
    BY <1>1 DEF Tag, TagCell
  <1>3. ASSUME NEW i \in 1..Len(tag) PROVE tag[i] = ChunkCell(K, a + i, f)
    <2>1. i \in 1..TAG_LENGTH
      BY <1>2
    <2>2. /\ ~(a + i <= CHUNK_HEAD_SIZE) /\ ~(a + i <= CHUNK_HEAD_SIZE + f)
          /\ (a + i) - CHUNK_HEAD_SIZE - f = i
      BY <1>1, <2>1
    <2> HIDE DEF a
    <2>3. QED
      BY <1>2, <2>1, <2>2 DEF ChunkCell
  <1>4. Len(s) = Base(K) + a /\ Chunks(s, Len(s), K, f)
    BY <1>1 DEF Growing
  <1> HIDE DEF a, tag
  <1>5. Chunks(s \o tag, Len(s \o tag), K, f)
    BY <1>0, <1>1, <1>2, <1>3, <1>4, ChunksAppend
  <1>6. Len(s \o tag) = DataEnd(K, f) /\ s \o tag \in Seq(S)
    <2>1. Len(s \o tag) = Len(s) + Len(tag) /\ s \o tag \in Seq(S)
      BY <1>0, ConcatType
    <2>2. Base(K) + a + TAG_LENGTH = DataEnd(K, f)
      BY <1>1 DEF DataEnd, a
    <2>3. QED
      BY <1>2, <1>4, <2>1, <2>2
  <1>7. QED
    BY <1>5, <1>6

LEMMA TurnLaid ==
    ASSUME NEW S, NEW s \in Seq(S), NEW K \in Nat, Growing(s, K, N),
           Tag(K + 1, ASSOCIATED_DATA, Text(K + 1, N)) \in Seq(S),
           ChunkHead(K + 2) \in Seq(S)
    PROVE  Growing((s \o Tag(K + 1, ASSOCIATED_DATA, Text(K + 1, N))) \o ChunkHead(K + 2),
                   K + 1, 0)
  <1> DEFINE t == s \o Tag(K + 1, ASSOCIATED_DATA, Text(K + 1, N))
             head == ChunkHead(K + 2)
  <1>1. N \in 0..N /\ N \in Nat /\ CHUNK_HEAD_SIZE \in Nat /\ K + 1 \in Nat
    BY Dimensions
  <1>2. Len(t) = DataEnd(K, N) /\ t \in Seq(S) /\ Chunks(t, DataEnd(K, N), K, N)
    <2> HIDE DEF N
    <2>1. QED
      BY <1>1, TagLaid
  <1>3. Len(t) = Base(K + 1) + 0 /\ Base(K + 1) \in Nat
    <2>1. Base(K + 1) = Base(K) + M0_CHUNK_SIZE /\ Base(K) \in Nat
      BY BaseFacts
    <2>2. DataEnd(K, N) = Base(K + 1) + 0
      BY <2>1, Dimensions DEF DataEnd
    <2>3. QED
      BY <1>2, <2>1, <2>2, Dimensions
  <1> HIDE DEF t
  <1>4. Chunks(t, Len(t), K + 1, 0)
    <2> SUFFICES ASSUME NEW k \in 0..K + 1, NEW o \in 1..M0_CHUNK_SIZE, Base(k) + o <= Len(t)
                 PROVE  t[Base(k) + o] = ChunkCell(k, o, PlainIn(k, K + 1, 0))
      BY DEF Chunks
    <2>1. k # K + 1
      BY <1>3, Dimensions
    <2>2. k \in 0..K /\ PlainIn(k, K + 1, 0) = N /\ PlainIn(k, K, N) = N
      BY <2>1 DEF PlainIn
    <2>3. QED
      BY <1>2, <2>2 DEF Chunks
  <1>5. /\ Len(head) = CHUNK_HEAD_SIZE
        /\ \A i \in 1..CHUNK_HEAD_SIZE : head[i] = [kind |-> "head", ctr |-> K + 2, part |-> i]
    BY <1>1 DEF ChunkHead
  <1>6. (K + 1) + 1 = K + 2 /\ head \in Seq(S)
    OBVIOUS
  <1> HIDE DEF head
  <1>7. \A i \in 1..Len(head) : head[i] = ChunkCell(K + 1, 0 + i, 0)
    BY <1>1, <1>5, <1>6 DEF ChunkCell
  <1>8. Chunks(t \o head, Len(t \o head), K + 1, 0)
    <2>1. 0 + Len(head) <= M0_CHUNK_SIZE
      BY <1>5, Dimensions, SMTT(60)
    <2>2. QED
      BY <1>1, <1>2, <1>3, <1>4, <1>6, <1>7, <2>1, ChunksAppend
  <1>9. Len(t \o head) = Base(K + 1) + CHUNK_HEAD_SIZE + 0
    <2>1. Len(t \o head) = Len(t) + Len(head)
      BY <1>2, <1>6, ConcatType
    <2>2. QED
      BY <1>1, <1>3, <1>5, <2>1
  <1>10. QED
    BY <1>8, <1>9 DEF Growing, t, head

\* More bytes of a chunk.
LEMMA TextLaid ==
    ASSUME NEW S, NEW s \in Seq(S), NEW K \in Nat, NEW f \in Nat, NEW size \in Nat,
           f + size <= N, Growing(s, K, f), written = Start(K + 1) + f,
           Encrypt(K + 1, f, size) \in Seq(S)
    PROVE  Growing(s \o Encrypt(K + 1, f, size), K, f + size)
  <1> DEFINE a == CHUNK_HEAD_SIZE + f
             text == Encrypt(K + 1, f, size)
  <1>0. text \in Seq(S)
    OBVIOUS
  <1>1. /\ a \in Nat /\ CHUNK_HEAD_SIZE \in Nat /\ Base(K) \in Nat /\ f + size \in Nat
        /\ a + size <= M0_CHUNK_SIZE /\ Start(K + 1) \in Nat /\ f <= f + size
    <2>1. Base(K) \in Nat /\ Start(K + 1) \in Nat
      BY BaseFacts, StartIs
    <2>2. QED
      BY <2>1, Dimensions
  <1>2. /\ Len(text) = size
        /\ \A i \in 1..size : text[i] = Cipher(K + 1, f + i, written + i)
    BY DEF Encrypt
  <1>3. ASSUME NEW i \in 1..Len(text) PROVE text[i] = ChunkCell(K, a + i, f + size)
    <2>1. i \in 1..size
      BY <1>2
    <2>2. /\ ~(a + i <= CHUNK_HEAD_SIZE) /\ a + i <= CHUNK_HEAD_SIZE + (f + size)
          /\ (a + i) - CHUNK_HEAD_SIZE = f + i /\ written + i = Start(K + 1) + (f + i)
      BY <1>1, <2>1
    <2> HIDE DEF a
    <2>3. QED
      BY <1>2, <2>1, <2>2 DEF ChunkCell
  <1>4. Len(s) = Base(K) + a /\ Chunks(s, Len(s), K, f)
    BY <1>1 DEF Growing
  <1>5. \A o \in 1..a : ChunkCell(K, o, f) = ChunkCell(K, o, f + size)
    BY <1>1, SameCells
  <1> HIDE DEF a, text
  <1>6. Chunks(s \o text, Len(s \o text), K, f + size)
    BY <1>0, <1>1, <1>2, <1>3, <1>4, <1>5, ChunksAppend
  <1>7. Len(s \o text) = Base(K) + CHUNK_HEAD_SIZE + (f + size)
    <2>1. Len(s \o text) = Len(s) + Len(text)
      BY <1>0, ConcatType
    <2>2. Base(K) + a + size = Base(K) + CHUNK_HEAD_SIZE + (f + size)
      BY <1>1 DEF a
    <2>3. QED
      BY <1>2, <1>4, <2>1, <2>2
  <1>8. QED
    BY <1>6, <1>7 DEF Growing, text

LEMMA DataEndIs ==
    ASSUME NEW K \in Nat, NEW f \in Nat
    PROVE  DataEnd(K, f) \in Nat
  <1>1. Base(K) \in Nat
    BY BaseFacts
  <1>2. QED
    BY <1>1, Dimensions DEF DataEnd

\* The stream up to the n-th cell of what finalize adds.
SealedUpTo(s, K, f, n) ==
    /\ Len(s) = DataEnd(K, f) + n
    /\ Chunks(s, DataEnd(K, f), K, f)
    /\ \A i \in 1..n : s[DataEnd(K, f) + i] = TailCell(K, i)

LEMMA TailAppend ==
    ASSUME NEW S, NEW s \in Seq(S), NEW e \in Seq(S), NEW K \in Nat, NEW f \in Nat,
           NEW n \in Nat,
           SealedUpTo(s, K, f, n), \A i \in 1..Len(e) : e[i] = TailCell(K, n + i)
    PROVE  s \o e \in Seq(S) /\ SealedUpTo(s \o e, K, f, n + Len(e))
  <1> DEFINE d == DataEnd(K, f)
             t == s \o e
  <1>1. d \in Nat /\ Len(s) = d + n /\ Len(e) \in Nat
    <2>1. d \in Nat
      BY DataEndIs
    <2>2. Len(s) = d + n
      BY DEF SealedUpTo
    <2>3. Len(e) \in Nat
      OBVIOUS
    <2>4. QED
      BY <2>1, <2>2, <2>3
  <1>2. /\ t \in Seq(S) /\ Len(t) = d + (n + Len(e))
        /\ \A i \in 1..Len(s) : t[i] = s[i]
        /\ \A i \in 1..Len(e) : t[Len(s) + i] = e[i]
    <2>1. t \in Seq(S) /\ Len(t) = Len(s) + Len(e)
      BY ConcatType
    <2>2. /\ \A i \in 1..Len(s) : t[i] = s[i]
          /\ \A i \in 1..Len(e) : t[Len(s) + i] = e[i]
      BY ConcatAt
    <2> HIDE DEF t, d
    <2>3. QED
      BY <1>1, <2>1, <2>2
  <1> HIDE DEF d, t
  <1>3. Chunks(t, d, K, f)
    <2> SUFFICES ASSUME NEW k \in 0..K, NEW o \in 1..M0_CHUNK_SIZE, Base(k) + o <= d
                 PROVE  t[Base(k) + o] = ChunkCell(k, o, PlainIn(k, K, f))
      BY DEF Chunks
    <2>1. s[Base(k) + o] = ChunkCell(k, o, PlainIn(k, K, f))
      BY DEF SealedUpTo, Chunks, d
    <2>2. Base(k) \in Nat /\ k \in Nat
      BY BaseFacts
    <2>3. Base(k) + o \in 1..Len(s)
      BY <1>1, <2>2, Dimensions
    <2>4. QED
      BY <1>2, <2>1, <2>3
  <1>4. ASSUME NEW i \in 1..n + Len(e) PROVE t[d + i] = TailCell(K, i)
    <2>1. CASE i <= n
      <3>1. d + i \in 1..Len(s) /\ i \in 1..n
        BY <1>1, <2>1
      <3>2. s[d + i] = TailCell(K, i)
        BY <3>1 DEF SealedUpTo, d
      <3>3. QED
        BY <1>2, <3>1, <3>2
    <2>2. CASE i > n
      <3> DEFINE j == i - n
      <3>1. j \in 1..Len(e) /\ d + i = Len(s) + j /\ n + j = i
        BY <1>1, <2>2
      <3> HIDE DEF j
      <3>2. e[j] = TailCell(K, i)
        BY <3>1
      <3>3. QED
        BY <1>2, <3>1, <3>2
    <2>3. i <= n \/ i > n
      BY <1>1
    <2>4. QED
      BY <2>1, <2>2, <2>3
  <1>5. QED
    BY <1>2, <1>3, <1>4 DEF SealedUpTo, d, t

\* What finalize adds.
LEMMA SealLaid ==
    ASSUME NEW S, NEW s \in Seq(S), NEW K \in Nat, NEW f \in 0..N, Growing(s, K, f),
           Tag(K + 1, ASSOCIATED_DATA, Text(K + 1, f)) \in Seq(S),
           FINAL_BLOCK_MAGIC \in Seq(S), FinalText(K) \in Seq(S),
           Tag(K + 2, FINAL_ASSOCIATED_DATA, FinalText(K)) \in Seq(S),
           END_OF_ENCRYPTED_INNER_LAYER_MAGIC \in Seq(S),
           EMPTY_TAIL_OPTS_SERIALIZATION \in Seq(S)
    PROVE  Sealed(s \o Tag(K + 1, ASSOCIATED_DATA, Text(K + 1, f))
                    \o FINAL_BLOCK_MAGIC \o FinalText(K)
                    \o Tag(K + 2, FINAL_ASSOCIATED_DATA, FinalText(K))
                    \o END_OF_ENCRYPTED_INNER_LAYER_MAGIC
                    \o EMPTY_TAIL_OPTS_SERIALIZATION, K, f)
  <1> DEFINE a == s \o Tag(K + 1, ASSOCIATED_DATA, Text(K + 1, f))
             magic == FINAL_BLOCK_MAGIC
             content == FinalText(K)
             tag == Tag(K + 2, FINAL_ASSOCIATED_DATA, FinalText(K))
             end == END_OF_ENCRYPTED_INNER_LAYER_MAGIC
             tail == EMPTY_TAIL_OPTS_SERIALIZATION
             b == a \o magic
             c == b \o content
             d == c \o tag
             e == d \o end
  <1>0. /\ f \in Nat /\ MAGIC_LENGTH \in Nat \ {0} /\ TAG_LENGTH \in Nat \ {0}
    BY Dimensions
  <1>1. Len(a) = DataEnd(K, f) /\ a \in Seq(S) /\ Chunks(a, DataEnd(K, f), K, f)
    BY TagLaid
  <1> HIDE DEF a
  <1>2. SealedUpTo(a, K, f, 0)
    <2>1. DataEnd(K, f) \in Nat
      BY <1>0, DataEndIs
    <2>2. QED
      BY <1>1, <2>1 DEF SealedUpTo
  <1>3. b \in Seq(S) /\ SealedUpTo(b, K, f, MAGIC_LENGTH)
    <2>1. /\ magic \in Seq(S) /\ Len(magic) = MAGIC_LENGTH
          /\ \A i \in 1..MAGIC_LENGTH : magic[i] = TailCell(K, 0 + i)
      BY <1>0 DEF FINAL_BLOCK_MAGIC, TailCell
    <2> HIDE DEF magic
    <2>2. b \in Seq(S) /\ SealedUpTo(b, K, f, 0 + Len(magic))
      BY <1>0, <1>1, <1>2, <2>1, TailAppend
    <2>3. QED
      BY <1>0, <2>1, <2>2
  <1> HIDE DEF b
  <1>4. c \in Seq(S) /\ SealedUpTo(c, K, f, MAGIC_LENGTH + 1)
    <2>1. /\ content \in Seq(S) /\ Len(content) = 1
          /\ \A i \in 1..1 : content[i] = TailCell(K, MAGIC_LENGTH + i)
      BY <1>0 DEF FinalText, TailCell
    <2> HIDE DEF content
    <2>2. QED
      BY <1>0, <1>3, <2>1, TailAppend
  <1> HIDE DEF c
  <1>5. d \in Seq(S) /\ SealedUpTo(d, K, f, MAGIC_LENGTH + 1 + TAG_LENGTH)
    <2>1. /\ tag \in Seq(S) /\ Len(tag) = TAG_LENGTH
          /\ \A i \in 1..TAG_LENGTH :
               tag[i] = TagCell(K + 2, FINAL_ASSOCIATED_DATA, FinalText(K), i)
      BY <1>0 DEF Tag, TagCell
    <2> HIDE DEF tag
    <2>2. ASSUME NEW i \in 1..TAG_LENGTH
          PROVE  tag[i] = TailCell(K, (MAGIC_LENGTH + 1) + i)
      <3>1. /\ ~((MAGIC_LENGTH + 1) + i <= MAGIC_LENGTH)
            /\ (MAGIC_LENGTH + 1) + i # MAGIC_LENGTH + 1
            /\ (MAGIC_LENGTH + 1) + i <= MAGIC_LENGTH + 1 + TAG_LENGTH
            /\ ((MAGIC_LENGTH + 1) + i) - (MAGIC_LENGTH + 1) = i
        BY <1>0
      <3>2. QED
        BY <2>1, <3>1 DEF TailCell
    <2>3. MAGIC_LENGTH + 1 \in Nat
      BY <1>0
    <2>4. QED
      BY <1>0, <1>4, <2>1, <2>2, <2>3, TailAppend
  <1> HIDE DEF d
  <1>6. e \in Seq(S) /\ SealedUpTo(e, K, f, MAGIC_LENGTH + TAG_LENGTH + 2)
    <2>1. end \in Seq(S) /\ Len(end) = 1 /\ end[1] = [kind |-> "end"]
      BY DEF END_OF_ENCRYPTED_INNER_LAYER_MAGIC
    <2> DEFINE n == MAGIC_LENGTH + 1 + TAG_LENGTH
    <2>2. /\ n \in Nat /\ ~(n + 1 <= MAGIC_LENGTH) /\ n + 1 # MAGIC_LENGTH + 1
          /\ ~(n + 1 <= MAGIC_LENGTH + 1 + TAG_LENGTH)
          /\ n + 1 = MAGIC_LENGTH + TAG_LENGTH + 2
      BY <1>0
    <2> HIDE DEF end, n
    <2>3. \A i \in 1..Len(end) : end[i] = TailCell(K, n + i)
      BY <2>1, <2>2 DEF TailCell
    <2>4. SealedUpTo(d, K, f, n)
      BY <1>5 DEF n
    <2>5. e \in Seq(S) /\ SealedUpTo(e, K, f, n + Len(end))
      BY <1>0, <1>5, <2>1, <2>2, <2>3, <2>4, TailAppend
    <2>6. QED
      BY <2>1, <2>2, <2>5
  <1> HIDE DEF e
  <1>7. SealedUpTo(e \o tail, K, f, TailSize)
    <2>1. tail \in Seq(S) /\ Len(tail) = 1 /\ tail[1] = [kind |-> "tail"]
      BY DEF EMPTY_TAIL_OPTS_SERIALIZATION
    <2> DEFINE n == MAGIC_LENGTH + TAG_LENGTH + 2
    <2>2. /\ n \in Nat /\ ~(n + 1 <= MAGIC_LENGTH) /\ n + 1 # MAGIC_LENGTH + 1
          /\ ~(n + 1 <= MAGIC_LENGTH + 1 + TAG_LENGTH)
          /\ n + 1 # MAGIC_LENGTH + TAG_LENGTH + 2
          /\ n + 1 = TailSize
      BY <1>0, Dimensions
    <2> HIDE DEF tail, n
    <2>3. \A i \in 1..Len(tail) : tail[i] = TailCell(K, n + i)
      BY <2>1, <2>2 DEF TailCell
    <2>4. SealedUpTo(e, K, f, n)
      BY <1>6 DEF n
    <2>5. SealedUpTo(e \o tail, K, f, n + Len(tail))
      BY <1>0, <1>6, <2>1, <2>2, <2>3, <2>4, TailAppend
    <2>6. QED
      BY <2>1, <2>2, <2>5
  <1>8. QED
    BY <1>7 DEF SealedUpTo, Sealed, a, b, c, d, e

LEMMA LayoutNow ==
    ASSUME KeystreamInv, StreamHonest, Layout, ~torn, ~finalized
    PROVE  /\ current_ctr - 1 \in Nat /\ current_chunk_offset \in 0..N
           /\ Growing(out, current_ctr - 1, current_chunk_offset)
           /\ written = Start((current_ctr - 1) + 1) + current_chunk_offset
           /\ encrypted = Text((current_ctr - 1) + 1, current_chunk_offset)
           /\ out \in Seq(HonestCells(written)) /\ written \in Nat
  <1>1. /\ current_ctr \in Nat \ {0} /\ current_chunk_offset \in 0..N /\ written \in Nat
        /\ current_chunk_offset \in Nat
    BY StartFacts DEF KeystreamInv, WriterTypeOK, N
  <1>2. /\ encrypted = Text(current_ctr, current_chunk_offset)
        /\ written = Start(current_ctr) + current_chunk_offset
        /\ out \in Seq(HonestCells(written))
    BY DEF StreamHonest, ChunkNow
  <1>3. (current_ctr - 1) + 1 = current_ctr /\ current_ctr - 1 \in Nat
        /\ Start(current_ctr) \in Nat
    BY <1>1, StartFacts
  <1>4. LastChunk = current_ctr - 1
    BY DEF LastChunk
  <1>5. LastSize = current_chunk_offset
    BY <1>1, <1>2, <1>3, <1>4 DEF LastSize
  <1>6. Growing(out, LastChunk, LastSize)
    BY DEF Layout
  <1>7. QED
    BY <1>1, <1>2, <1>3, <1>4, <1>5, <1>6

LEMMA WriteLaid ==
    ASSUME KeystreamInv, StreamHonest, Layout, NEW length \in WriteSizes, Write(length)
    PROVE  Layout'
  <1> DEFINE size == SizeTaken(length)
             text == Encrypt(Ctr, Len(Before), size)
             K == current_ctr - 1
             f == current_chunk_offset
             L == Ctr - 1
  <1>1. /\ ~finalized /\ finalized' = finalized /\ torn' = torn
        /\ current_ctr' = Ctr /\ out' = out \o Turn \o text
        /\ written' = written + size
    BY DEF Write, CanWrite
  <1> SUFFICES ASSUME ~torn PROVE Layout'
    BY <1>1 DEF Layout
  <1>2. /\ K \in Nat /\ f \in 0..N /\ Growing(out, K, f)
        /\ written = Start(K + 1) + f /\ encrypted = Text(K + 1, f)
        /\ out \in Seq(HonestCells(written)) /\ written \in Nat
    BY <1>1, LayoutNow
  <1>3. /\ Ctr \in Nat \ {0} /\ Offset \in Nat /\ Len(Before) = Offset
        /\ written = Start(Ctr) + Offset /\ Turn \in Seq(HonestCells(written))
    BY <1>1, TurnHonest DEF StreamHonest
  <1>4. size \in Nat \ {0} /\ Offset + size <= N
    BY SizeTakenFits DEF KeystreamInv, N
  <1>5. L \in Nat /\ L + 1 = Ctr
    BY <1>3
  <1>6. text \in Seq(HonestCells(written)) /\ text = Encrypt(L + 1, Offset, size)
    <2>1. text \in Seq(CipherCell)
      BY <1>2, <1>3, <1>4, EncryptedText
    <2>2. QED
      BY <1>2, <1>3, <1>5, <2>1, PlainPieces
  <1> DEFINE S == HonestCells(written)
             s == out \o Turn
  <1>7. s \in Seq(S) /\ Growing(s, L, Offset)
    <2>1. CASE ~ChunkFull
      <3>1. Ctr = current_ctr /\ Offset = f /\ Turn = <<>>
        BY <2>1 DEF Ctr, Offset, Turn
      <3>2. s = out
        <4> HIDE DEF S
        <4>1. out \in Seq(S)
          BY <1>2 DEF S
        <4>2. out \o <<>> = out
          BY <4>1, ConcatFacts
        <4>3. QED
          BY <3>1, <4>2
      <3> HIDE DEF s
      <3>3. QED
        BY <1>2, <3>1, <3>2
    <2>2. CASE ChunkFull
      <3> DEFINE tag == Tag(K + 1, ASSOCIATED_DATA, Text(K + 1, N))
                 head == ChunkHead(K + 2)
      <3>1. /\ Ctr = current_ctr + 1 /\ Offset = 0 /\ f = N
            /\ Turn = Tag(current_ctr, ASSOCIATED_DATA, encrypted) \o ChunkHead(Ctr)
        BY <2>2 DEF Ctr, Offset, Turn, RenewCtr, ChunkFull, N
      <3>2. K + 1 = current_ctr /\ K + 2 = Ctr /\ L = K + 1 /\ K + 1 \in Nat \ {0}
            /\ K + 2 \in Nat
        <4>1. current_ctr \in Nat \ {0}
          BY DEF KeystreamInv, WriterTypeOK
        <4>2. QED
          BY <3>1, <4>1
      <3>3. Turn = tag \o head
        <4>1. encrypted = Text(K + 1, N)
          BY <1>2, <3>1
        <4> HIDE DEF K
        <4>2. QED
          BY <3>1, <3>2, <4>1
      <3> HIDE DEF K
      <3>4. tag \in Seq(S) /\ head \in Seq(S)
        <4>1. \E n \in 0..N : Start(K + 1) + n <= written /\ Text(K + 1, N) = Text(K + 1, n)
          BY <1>2, <3>1, Dimensions
        <4>2. Text(K + 1, N) \in Seq(CipherCell)
          BY <3>2, TextFacts, Dimensions
        <4>3. tag \in Seq(S)
          BY <1>2, <3>2, <4>1, <4>2, TagPieces
        <4>4. head \in Seq(S)
          BY <1>2, <3>2, PlainPieces
        <4>5. QED
          BY <4>3, <4>4
      <3>5. Growing((out \o tag) \o head, K + 1, 0)
        <4>1. Growing(out, K, N)
          BY <1>2, <3>1
        <4>2. tag \in Seq(S) /\ head \in Seq(S) /\ out \in Seq(S)
          BY <1>2, <3>4
        <4> HIDE DEF S
        <4>3. QED
          BY <1>2, <4>1, <4>2, TurnLaid
      <3> HIDE DEF tag, head
      <3>6. (out \o tag) \o head = s /\ s \in Seq(S)
        <4>1. tag \in Seq(S) /\ head \in Seq(S) /\ out \in Seq(S)
          BY <1>2, <3>4
        <4> HIDE DEF S
        <4>2. (out \o tag) \o head = out \o (tag \o head) /\ tag \o head \in Seq(S)
          BY <4>1, ConcatFacts
        <4>3. out \o (tag \o head) \in Seq(S)
          BY <4>1, <4>2, ConcatFacts
        <4>4. QED
          BY <3>3, <4>2, <4>3
      <3>7. QED
        BY <3>1, <3>2, <3>5, <3>6
    <2>3. QED
      BY <2>1, <2>2
  <1> HIDE DEF s, size, L
  <1>8. Growing(s \o text, L, Offset + size)
    <2>1. /\ written = Start(L + 1) + Offset /\ size \in Nat
          /\ Encrypt(L + 1, Offset, size) \in Seq(S)
      BY <1>3, <1>4, <1>5, <1>6
    <2> HIDE DEF S
    <2>2. Growing(s \o Encrypt(L + 1, Offset, size), L, Offset + size)
      BY <1>3, <1>4, <1>5, <1>7, <2>1, TextLaid
    <2>3. QED
      BY <1>6, <2>2
  <1>9. LastChunk' = L
    BY <1>1 DEF LastChunk, L
  <1>10. LastSize' = Offset + size
    <2>1. LastSize' = written' - Start(L + 1)
      BY <1>9 DEF LastSize, Start
    <2>2. Start(L + 1) \in Nat /\ Start(L + 1) = Start(Ctr)
      BY <1>3, <1>5, StartFacts
    <2>3. QED
      BY <1>1, <1>3, <1>4, <2>1, <2>2
  <1>11. Offset + size \in 0..N /\ Offset + size # 0
    BY <1>3, <1>4, Dimensions
  <1>12. Growing(out', LastChunk', LastSize')
    BY <1>1, <1>8, <1>9, <1>10 DEF s
  <1>13. QED
    <2>1. Growing(out, LastChunk, LastSize)'
      BY <1>12 DEF Growing, Chunks, ChunkCell, PlainIn, Base, Text, Start
    <2>2. /\ LastChunk' \in Nat /\ LastSize' \in 0..N /\ LastSize' # 0
      BY <1>5, <1>9, <1>10, <1>11
    <2>3. QED
      BY <1>1, <2>1, <2>2 DEF Layout

LEMMA FinalizeLaid ==
    ASSUME KeystreamInv, StreamHonest, Layout, Finalize
    PROVE  Layout'
  <1> DEFINE K == current_ctr - 1
             f == current_chunk_offset
             S == HonestCells(written)
  <1>1. ~finalized /\ torn' = torn /\ written' = written
    BY DEF Finalize
  <1>2. finalized' = TRUE
    BY Zenon DEF Finalize
  <1> SUFFICES ASSUME ~torn PROVE Layout'
    BY <1>1 DEF Layout
  <1>3. /\ K \in Nat /\ f \in 0..N /\ Growing(out, K, f)
        /\ written = Start(K + 1) + f /\ encrypted = Text(K + 1, f)
        /\ out \in Seq(S) /\ written \in Nat
    BY <1>1, LayoutNow
  <1>4. /\ K + 1 = current_ctr /\ K + 2 = RenewCtr(current_ctr) /\ K + 1 \in Nat \ {0}
        /\ K + 2 \in Nat \ {0} /\ RenewCtr(RenewCtr(current_ctr)) = K + 3
    <2>1. current_ctr \in Nat \ {0}
      BY DEF KeystreamInv, WriterTypeOK
    <2>2. QED
      BY <2>1 DEF RenewCtr
  <1>5. FinalText(K) = <<Cipher(RenewCtr(current_ctr), 1, FINAL_BLOCK_CONTENT)>>
    BY <1>4 DEF FinalText
  <1> DEFINE tag == Tag(K + 1, ASSOCIATED_DATA, Text(K + 1, f))
             last == Tag(K + 2, FINAL_ASSOCIATED_DATA, FinalText(K))
  <1>6. /\ out' = out \o tag \o FINAL_BLOCK_MAGIC \o FinalText(K) \o last
                      \o END_OF_ENCRYPTED_INNER_LAYER_MAGIC \o EMPTY_TAIL_OPTS_SERIALIZATION
        /\ current_ctr' = K + 3
    <2> HIDE DEF K
    <2>1. QED
      BY <1>3, <1>4, <1>5 DEF Finalize
  <1>7. LastChunk' = K /\ LastChunk = K
    BY <1>1, <1>2, <1>3, <1>6 DEF LastChunk
  <1>8. LastSize' = f /\ LastSize = f
    <2>1. Start(K + 1) \in Nat
      BY <1>3, StartIs
    <2> HIDE DEF K
    <2>2. LastSize' = written' - Start(K + 1) /\ LastSize = written - Start(K + 1)
      BY <1>7 DEF LastSize, Start
    <2>3. QED
      BY <1>1, <1>3, <2>1, <2>2
  <1> HIDE DEF K
  <1>9. tag \in Seq(S)
    <2>1. \E n \in 0..N : Start(K + 1) + n <= written /\ Text(K + 1, f) = Text(K + 1, n)
      BY <1>3
    <2>2. Text(K + 1, f) \in Seq(CipherCell)
      BY <1>3, <1>4, TextFacts
    <2>3. QED
      BY <1>3, <1>4, <2>1, <2>2, TagPieces
  <1>10. FinalText(K) \in Seq(CipherCell)
    BY <1>4 DEF FinalText, Cipher, CipherCell, FINAL_BLOCK_CONTENT
  <1>11. last \in Seq(S)
    <2>1. FINAL_ASSOCIATED_DATA # ASSOCIATED_DATA
      BY DEF FINAL_ASSOCIATED_DATA, ASSOCIATED_DATA
    <2>2. QED
      BY <1>3, <1>4, <1>10, <2>1, TagPieces
  <1>12. /\ FINAL_BLOCK_MAGIC \in Seq(S) /\ FinalText(K) \in Seq(S)
         /\ END_OF_ENCRYPTED_INNER_LAYER_MAGIC \in Seq(S)
         /\ EMPTY_TAIL_OPTS_SERIALIZATION \in Seq(S)
    BY <1>3, <1>4, <1>10, PlainPieces
  <1> HIDE DEF S
  <1>13. Sealed(out', K, f)
    BY <1>3, <1>6, <1>9, <1>11, <1>12, SealLaid
  <1>14. Sealed(out, LastChunk, LastSize)'
    <2>1. Sealed(out', LastChunk', LastSize')
      BY <1>7, <1>8, <1>13
    <2>2. QED
      BY <2>1 DEF Sealed, Chunks, ChunkCell, PlainIn, Base, Text, Start, DataEnd, TailCell,
         FinalText
  <1>15. QED
    BY <1>1, <1>2, <1>7, <1>8, <1>14 DEF Layout

LEMMA InitLaid == WriterInit => Layout
  <1> SUFFICES ASSUME WriterInit PROVE Layout
    OBVIOUS
  <1>1. out = ChunkHead(1) /\ current_ctr = 1 /\ written = 0 /\ ~finalized
    BY DEF WriterInit, FIRST_DATA_CHUNK_NUMBER
  <1>2. LastChunk = 0 /\ Start(1) = 0
    BY <1>1, StartFacts DEF LastChunk, FIRST_DATA_CHUNK_NUMBER
  <1>3. LastSize = 0
    BY <1>1, <1>2 DEF LastSize
  <1>4. /\ Len(out) = CHUNK_HEAD_SIZE /\ CHUNK_HEAD_SIZE \in Nat
        /\ \A i \in 1..CHUNK_HEAD_SIZE : out[i] = [kind |-> "head", ctr |-> 1, part |-> i]
    BY <1>1, Dimensions DEF ChunkHead
  <1>5. Len(out) = Base(0) + CHUNK_HEAD_SIZE + 0
    BY <1>4, BaseFacts
  <1>6. Chunks(out, Len(out), 0, 0)
    <2> SUFFICES ASSUME NEW k \in 0..0, NEW o \in 1..M0_CHUNK_SIZE, Base(k) + o <= Len(out)
                 PROVE  out[Base(k) + o] = ChunkCell(k, o, PlainIn(k, 0, 0))
      BY DEF Chunks
    <2>1. k = 0 /\ Base(k) = 0
      BY BaseFacts
    <2>2. Base(k) + o = o /\ o \in 1..CHUNK_HEAD_SIZE
      BY <1>4, <2>1, Dimensions
    <2>3. QED
      BY <1>4, <2>1, <2>2 DEF ChunkCell
  <1>7. QED
    BY <1>1, <1>2, <1>3, <1>5, <1>6, Dimensions DEF Layout, Growing

LEMMA StepLaid ==
    ASSUME KeystreamInv, StreamHonest, Layout, [WriterNext]_writerVars
    PROVE  Layout'
  <1>1. ASSUME NEW length \in WriteSizes, WriteFails(length) PROVE Layout'
    <2>1. torn' = TRUE
      BY <1>1, Zenon DEF WriteFails
    <2>2. QED
      BY <2>1 DEF Layout
  <1>2. CASE UNCHANGED writerVars
    BY <1>2 DEF writerVars, Layout, LastChunk, LastSize, Growing, Sealed, Chunks, ChunkCell,
                PlainIn, Base, Text, Start, DataEnd, TailCell, FinalText
  <1>3. QED
    BY <1>1, <1>2, WriteLaid, FinalizeLaid DEF WriterNext

-----------------------------------------------------------------------------
(***************************************************************************)
(* A cell tells the place it was written at.                               *)
(***************************************************************************)
\* The cells of a chunk of data that holds n bytes.
ChunkLength(n) == CHUNK_HEAD_SIZE + n + TAG_LENGTH

InData(s, p, K, f) ==
    \E k \in 0..K : \E o \in 1..ChunkLength(PlainIn(k, K, f)) :
        p = Base(k) + o /\ s[p] = ChunkCell(k, o, PlainIn(k, K, f))

LEMMA PlainInFacts ==
    ASSUME NEW K \in Nat, NEW f \in 0..N, NEW k \in 0..K
    PROVE  /\ PlainIn(k, K, f) \in 0..N /\ PlainIn(k, K, f) \in Nat
           /\ ChunkLength(PlainIn(k, K, f)) \in Nat
           /\ ChunkLength(PlainIn(k, K, f)) <= M0_CHUNK_SIZE
           /\ k < K => ChunkLength(PlainIn(k, K, f)) = M0_CHUNK_SIZE
           /\ k = K => PlainIn(k, K, f) = f
  BY Dimensions DEF PlainIn, ChunkLength

LEMMA DataPlace ==
    ASSUME NEW s, NEW K \in Nat, NEW f \in 0..N, NEW len \in Nat, len <= DataEnd(K, f),
           Chunks(s, len, K, f), NEW p \in 1..len
    PROVE  InData(s, p, K, f)
  <1> DEFINE m == M0_CHUNK_SIZE
             top == ChunkLength(f)
             c == Base(K)
  <1>1. m \in Nat \ {0} /\ top \in Nat /\ top <= m /\ c \in Nat /\ len <= c + top
    BY Dimensions, BaseFacts DEF DataEnd, ChunkLength
  <1>2. PICK k \in Nat, o \in 1..m : p = Base(k) + o
    BY PlaceInChunk
  <1> DEFINE b == Base(k)
  <1>3. b \in Nat /\ (k > K => c + m <= b)
    BY BaseFacts
  <1>4. k \in 0..K
    <2> HIDE DEF b, c, m, top
    <2>1. k > K => p > c + m
      BY <1>1, <1>2, <1>3 DEF b
    <2>2. QED
      BY <1>1, <1>2, <2>1
  <1>5. s[p] = ChunkCell(k, o, PlainIn(k, K, f))
    BY <1>2, <1>4 DEF Chunks
  <1>6. o \in 1..ChunkLength(PlainIn(k, K, f))
    <2>1. CASE k < K
      BY <1>4, <2>1, PlainInFacts
    <2>2. CASE k = K
      <3>1. PlainIn(k, K, f) = f
        BY <1>4, <2>2, PlainInFacts
      <3>2. p = c + o
        BY <1>2, <2>2
      <3> HIDE DEF c, m, top
      <3>3. o \in 1..top
        BY <1>1, <1>2, <3>2
      <3>4. QED
        BY <3>1, <3>3 DEF top
    <2>3. QED
      BY <1>4, <2>1, <2>2
  <1>7. QED
    BY <1>2, <1>4, <1>5, <1>6 DEF InData

InTail(s, p, K, f) ==
    \E i \in 1..TailSize : p = DataEnd(K, f) + i /\ s[p] = TailCell(K, i)

LEMMA DataEndFacts ==
    ASSUME NEW K \in Nat, NEW f \in 0..N
    PROVE  /\ DataEnd(K, f) \in Nat /\ Base(K) \in Nat
           /\ DataEnd(K, f) = Base(K) + CHUNK_HEAD_SIZE + f + TAG_LENGTH
  <1>1. f \in Nat /\ CHUNK_HEAD_SIZE \in Nat /\ TAG_LENGTH \in Nat
    BY Dimensions
  <1>2. Base(K) \in Nat
    BY BaseFacts
  <1> HIDE DEF Base
  <1>3. QED
    BY <1>1, <1>2 DEF DataEnd

LEMMA SealedPlace ==
    ASSUME NEW s, NEW K \in Nat, NEW f \in 0..N, Sealed(s, K, f), NEW p \in 1..Len(s)
    PROVE  InData(s, p, K, f) \/ InTail(s, p, K, f)
  <1> DEFINE d == DataEnd(K, f)
  <1>1. d \in Nat /\ TailSize \in Nat
    BY Dimensions, DataEndFacts
  <1>2. Len(s) = d + TailSize /\ Chunks(s, d, K, f)
    BY DEF Sealed
  <1>3. CASE p <= d
    <2>1. p \in 1..d
      BY <1>1, <1>2, <1>3
    <2>2. QED
      BY <1>1, <1>2, <2>1, DataPlace
  <1>4. CASE p > d
    <2> DEFINE i == p - d
    <2> HIDE DEF d
    <2>1. i \in 1..TailSize /\ p = d + i
      BY <1>1, <1>2, <1>4
    <2> HIDE DEF i
    <2>2. s[p] = TailCell(K, i)
      BY <2>1 DEF Sealed, d
    <2>3. QED
      BY <2>1, <2>2 DEF InTail, d
  <1>5. p <= d \/ p > d
    BY <1>1, <1>2
  <1>6. QED
    BY <1>3, <1>4, <1>5

\* A tag of data stands behind the chunk of its nonce, and attests all of it.
LEMMA TagPlace ==
    ASSUME NEW s, NEW K \in Nat, NEW f \in 0..N, Sealed(s, K, f), NEW p \in 1..Len(s),
           NEW k \in Nat, NEW text, NEW part,
           s[p] = TagCell(k + 1, ASSOCIATED_DATA, text, part)
    PROVE  /\ k \in 0..K /\ text = Text(k + 1, PlainIn(k, K, f))
           /\ part \in 1..TAG_LENGTH
           /\ p = Base(k) + CHUNK_HEAD_SIZE + PlainIn(k, K, f) + part
  <1>1. s[p].kind = "tag" /\ s[p].aad = "data" /\ s[p].ctr = k + 1 /\ s[p].text = text
        /\ s[p].part = part
    BY DEF TagCell, ASSOCIATED_DATA
  <1>2. ~InTail(s, p, K, f)
    <2> SUFFICES ASSUME NEW i \in 1..TailSize, s[p] = TailCell(K, i) PROVE FALSE
      BY DEF InTail
    <2>1. TailCell(K, i).kind = "tag" => TailCell(K, i).aad = "final"
      BY DEF TailCell, TagCell, Cipher, FINAL_ASSOCIATED_DATA
    <2>2. QED
      BY <1>1, <2>1
  <1>3. InData(s, p, K, f)
    BY <1>2, SealedPlace
  <1>4. PICK h \in 0..K : \E o \in 1..ChunkLength(PlainIn(h, K, f)) :
            p = Base(h) + o /\ s[p] = ChunkCell(h, o, PlainIn(h, K, f))
    BY <1>3 DEF InData
  <1> DEFINE n == PlainIn(h, K, f)
  <1>5. PICK o \in 1..ChunkLength(n) : p = Base(h) + o /\ s[p] = ChunkCell(h, o, n)
    BY <1>4
  <1>6. n \in Nat /\ CHUNK_HEAD_SIZE \in Nat /\ TAG_LENGTH \in Nat /\ Base(h) \in Nat
    BY Dimensions, PlainInFacts, BaseFacts
  <1> DEFINE q == o - CHUNK_HEAD_SIZE - n
  <1> HIDE DEF n
  <1>7. /\ ~(o <= CHUNK_HEAD_SIZE) /\ ~(o <= CHUNK_HEAD_SIZE + n)
        /\ s[p] = TagCell(h + 1, ASSOCIATED_DATA, Text(h + 1, n), q)
    BY <1>1, <1>5 DEF ChunkCell, Cipher
  <1>8. h + 1 = k + 1 /\ text = Text(h + 1, n) /\ q = part
    BY <1>1, <1>7 DEF TagCell
  <1>9. h = k
    BY <1>8
  <1>10. q \in 1..TAG_LENGTH /\ p = Base(h) + CHUNK_HEAD_SIZE + n + q
    BY <1>5, <1>6, <1>7 DEF ChunkLength
  <1>11. QED
    BY <1>8, <1>9, <1>10 DEF n

\* A byte of ciphertext is the one of its place, or the content of the final block.
LEMMA DataCipher ==
    ASSUME NEW s, NEW K \in Nat, NEW f \in 0..N, NEW p, InData(s, p, K, f), NEW ctr, NEW at,
           NEW byte, s[p] = Cipher(ctr, at, byte)
    PROVE  ctr \in Nat \ {0} /\ at \in Nat \ {0} /\ byte = Start(ctr) + at /\ byte \in Nat \ {0}
  <1>1. s[p].kind = "cipher" /\ s[p].ctr = ctr /\ s[p].at = at /\ s[p].byte = byte
    BY DEF Cipher
  <1>2. PICK h \in 0..K : \E o \in 1..ChunkLength(PlainIn(h, K, f)) :
            p = Base(h) + o /\ s[p] = ChunkCell(h, o, PlainIn(h, K, f))
    BY DEF InData
  <1> DEFINE n == PlainIn(h, K, f)
  <1>3. PICK o \in 1..ChunkLength(n) : p = Base(h) + o /\ s[p] = ChunkCell(h, o, n)
    BY <1>2
  <1>4. n \in Nat /\ CHUNK_HEAD_SIZE \in Nat /\ TAG_LENGTH \in Nat /\ Start(h + 1) \in Nat
    <2>1. h \in Nat
      OBVIOUS
    <2>2. Start(h + 1) \in Nat
      BY <2>1, StartIs
    <2>3. QED
      BY <2>2, Dimensions, PlainInFacts
  <1> DEFINE q == o - CHUNK_HEAD_SIZE
  <1> HIDE DEF n
  <1>5. /\ ~(o <= CHUNK_HEAD_SIZE)
        /\ s[p] = Cipher(h + 1, q, Start(h + 1) + q)
    BY <1>1, <1>3 DEF ChunkCell, TagCell
  <1>6. ctr = h + 1 /\ at = q /\ byte = Start(h + 1) + q
    BY <1>1, <1>5 DEF Cipher
  <1>7. q \in Nat \ {0}
    BY <1>3, <1>4, <1>5
  <1> HIDE DEF q
  <1>8. Start(h + 1) + q \in Nat \ {0} /\ h + 1 \in Nat \ {0}
    BY <1>4, <1>7
  <1>9. QED
    BY <1>6, <1>7, <1>8

LEMMA CipherByte ==
    ASSUME NEW s, NEW K \in Nat, NEW f \in 0..N, Sealed(s, K, f), NEW p \in 1..Len(s), NEW ctr,
           NEW at, NEW byte, s[p] = Cipher(ctr, at, byte)
    PROVE  /\ ctr \in Nat \ {0} /\ at \in Nat \ {0} /\ byte \in Nat /\ byte <= Start(ctr) + at
           /\ byte = 0 => p = DataEnd(K, f) + MAGIC_LENGTH + 1
  <1>1. CASE InData(s, p, K, f)
    <2>1. ctr \in Nat \ {0} /\ at \in Nat \ {0} /\ byte = Start(ctr) + at /\ byte \in Nat \ {0}
      BY <1>1, DataCipher
    <2>2. Start(ctr) \in Nat
      BY <2>1, StartFacts
    <2>3. QED
      BY <2>1, <2>2
  <1>2. CASE InTail(s, p, K, f)
    <2>1. PICK i \in 1..TailSize : p = DataEnd(K, f) + i /\ s[p] = TailCell(K, i)
      BY <1>2 DEF InTail
    <2>2. s[p].kind = "cipher" /\ s[p].ctr = ctr /\ s[p].at = at /\ s[p].byte = byte
      BY DEF Cipher
    <2>3. i = MAGIC_LENGTH + 1 /\ s[p] = Cipher(K + 2, 1, 0)
      BY <2>1, <2>2 DEF TailCell, TagCell, FINAL_BLOCK_CONTENT
    <2>4. ctr = K + 2 /\ at = 1 /\ byte = 0
      BY <2>2, <2>3 DEF Cipher
    <2>5. ctr \in Nat \ {0} /\ Start(ctr) \in Nat
      <3>1. ctr \in Nat \ {0}
        BY <2>4
      <3>2. QED
        BY <3>1, StartFacts
    <2>6. DataEnd(K, f) \in Nat /\ MAGIC_LENGTH \in Nat
      BY Dimensions, DataEndFacts
    <2>7. p = DataEnd(K, f) + MAGIC_LENGTH + 1
      BY <2>1, <2>3, <2>6
    <2>8. QED
      BY <2>4, <2>5, <2>7
  <1>3. QED
    BY <1>1, <1>2, SealedPlace

\* The magic comes behind the data.
LEMMA MagicPlace ==
    ASSUME NEW s, NEW K \in Nat, NEW f \in 0..N, Sealed(s, K, f), NEW p \in 1..Len(s),
           s[p].kind = "magic"
    PROVE  p > DataEnd(K, f)
  <1>1. ~InData(s, p, K, f)
    <2>1. \A k, o, n : ChunkCell(k, o, n).kind \in {"head", "cipher", "tag"}
      BY DEF ChunkCell, Cipher, TagCell
    <2>2. QED
      BY <2>1 DEF InData
  <1>2. PICK i \in 1..TailSize : p = DataEnd(K, f) + i
    BY <1>1, SealedPlace DEF InTail
  <1>3. DataEnd(K, f) \in Nat
    BY DataEndFacts
  <1>4. QED
    BY <1>2, <1>3

-----------------------------------------------------------------------------
(***************************************************************************)
(* The lengths and positions the reader computes.                          *)
(***************************************************************************)
LEMMA AllPlaintextIs ==
    ASSUME NEW K \in Nat, NEW f \in 0..N
    PROVE  AllPlaintextSize((DataEnd(K, f) + TailSize) - 1) = K * N + f
  <1> DEFINE m == M0_CHUNK_SIZE
             a == K * m
             rest == f + TAG_LENGTH
             input == (DataEnd(K, f) + TailSize) - 1
             taken == END_LENGTH + FINAL_INFO_SIZE + CHUNK_HEAD_SIZE
  <1>1. m \in Nat \ {0} /\ rest \in 0..m - 1 /\ rest # 0 /\ rest - TAG_LENGTH = f
    BY Dimensions
  <1>2. a \in Nat /\ DataEnd(K, f) \in Nat
        /\ DataEnd(K, f) = a + CHUNK_HEAD_SIZE + f + TAG_LENGTH
    <2>1. a = Base(K)
      BY DEF Base
    <2> HIDE DEF a
    <2>2. QED
      BY <2>1, DataEndFacts
  <1>3. END_LENGTH = 1
    BY DEF END_LENGTH, END_OF_ENCRYPTED_INNER_LAYER_MAGIC
  <1>4. taken = MAGIC_LENGTH + TAG_LENGTH + 2 + CHUNK_HEAD_SIZE
    BY <1>3, Dimensions DEF FINAL_INFO_SIZE, FINAL_INFO_SIZE_WOM
  <1> HIDE DEF taken, a, m
  <1>5. input - taken = a + rest
    BY <1>2, <1>4, Dimensions
  <1> HIDE DEF input, rest
  <1>6. a + rest \in Nat
    BY <1>1, <1>2
  <1>7. Greatest(input - taken, 0) = a + rest
    BY <1>5, <1>6 DEF Greatest
  <1>8. (a + rest) \div m = K /\ (a + rest) % m = rest
    BY <1>1, DivisionIs DEF a
  <1>9. AllPlaintextSize(input) =
          (Greatest(input - taken, 0) \div m) * N
            + (IF (Greatest(input - taken, 0) % m) = 0 THEN 0
               ELSE (Greatest(input - taken, 0) % m) - TAG_LENGTH)
    BY DEF AllPlaintextSize, taken, m, N
  <1>10. AllPlaintextSize(input) = K * N + (rest - TAG_LENGTH)
    BY <1>1, <1>7, <1>8, <1>9
  <1>11. QED
    BY <1>1, <1>10 DEF input

LEMMA LastDataChunkIs ==
    ASSUME NEW K \in Nat, NEW f \in 0..N, f = 0 => K = 0
    PROVE  LastDataChunkNumber(K * N + f) = K
  <1> DEFINE size == K * N + f
  <1>1. N \in Nat \ {0}
    BY Dimensions
  <1>2. LastDataChunkNumber(size) =
            IF (size % N) = 0 THEN Greatest((size \div N) - 1, 0) ELSE size \div N
    BY DEF LastDataChunkNumber, N
  <1> HIDE DEF N
  <1>3. CASE f = N
    <2>1. size = (K + 1) * N + 0
      BY <1>1, <1>3
    <2>2. K + 1 \in Nat /\ 0 \in 0..N - 1
      BY <1>1
    <2>3. ((K + 1) * N + 0) \div N = K + 1 /\ ((K + 1) * N + 0) % N = 0
      BY <1>1, <2>2, DivisionIs
    <2>4. size \div N = K + 1 /\ size % N = 0
      BY <2>1, <2>3
    <2> HIDE DEF size
    <2>5. LastDataChunkNumber(size) = Greatest((K + 1) - 1, 0)
      BY <1>2, <2>4
    <2>6. QED
      BY <2>5 DEF Greatest, size
  <1>4. CASE f # N
    <2>1. f \in 0..N - 1
      BY <1>1, <1>4
    <2>2. size \div N = K /\ size % N = f
      BY <1>1, <2>1, DivisionIs
    <2> HIDE DEF size
    <2>3. f = 0 => Greatest(K - 1, 0) = K
      BY DEF Greatest
    <2>4. LastDataChunkNumber(size) = IF f = 0 THEN Greatest(K - 1, 0) ELSE K
      BY <1>2, <2>2
    <2>5. QED
      BY <2>3, <2>4 DEF size
  <1>5. QED
    BY <1>3, <1>4

LEMMA InnerPositionIs ==
    ASSUME NEW asked \in Nat
    PROVE  /\ InnerPosition(asked) \div M0_CHUNK_SIZE = asked \div N
           /\ (InnerPosition(asked) % M0_CHUNK_SIZE) - CHUNK_HEAD_SIZE = asked % N
           /\ asked \div N \in Nat /\ asked % N \in 0..N - 1
           /\ asked = (asked \div N) * N + (asked % N)
  <1> DEFINE m == M0_CHUNK_SIZE
             q == asked \div N
             e == asked % N
             rest == e + CHUNK_HEAD_SIZE
  <1>1. q \in Nat /\ e \in 0..N - 1 /\ asked = q * N + e
    <2>1. N \in Nat \ {0}
      BY Dimensions
    <2> HIDE DEF N
    <2>2. QED
      BY <2>1, DivisionExists
  <1>2. InnerPosition(asked) = q * m + e + CHUNK_HEAD_SIZE
    BY DEF InnerPosition, N
  <1> HIDE DEF q, e
  <1>3. m \in Nat \ {0} /\ rest \in 0..m - 1 /\ rest - CHUNK_HEAD_SIZE = e
    BY <1>1, Dimensions
  <1>4. q * m + e + CHUNK_HEAD_SIZE = q * m + rest
    <2>1. m \in Nat /\ e \in Nat /\ CHUNK_HEAD_SIZE \in Nat
      BY <1>1, Dimensions
    <2> HIDE DEF m
    <2>2. q * m \in Nat
      BY <1>1, <2>1
    <2>3. QED
      BY <2>1, <2>2
  <1> HIDE DEF m, rest
  <1>5. (q * m + rest) \div m = q /\ (q * m + rest) % m = rest
    BY <1>1, <1>3, DivisionIs
  <1>6. InnerPosition(asked) \div m = q /\ (InnerPosition(asked) % m) - CHUNK_HEAD_SIZE = e
    BY <1>2, <1>3, <1>4, <1>5
  <1>7. QED
    BY <1>1, <1>6 DEF m, q, e

-----------------------------------------------------------------------------
(***************************************************************************)
(* load_in_cache in the seekable reader, step by step.                     *)
(***************************************************************************)
Exhausted(l) == AtLeastInLastDataChunk(l) /\ l.pos >= l.size
Ends(l) == EndOfTag("indexed", l)
TagEnd(l) == CHOOSE e \in Ends(l) : TRUE
TextEnd(l) == Greatest(TagEnd(l) - TAG_LENGTH, 0)
TextOf(l) == SubSeq(l.cache, CHUNK_HEAD_SIZE + 1, TextEnd(l))
NonceOf(l) == (l.pos \div NORMAL_CHUNK_PT_SIZE) + FIRST_DATA_CHUNK_NUMBER
Shown(l) == SubSeq(l.cache, 1, CHUNK_HEAD_SIZE) \o Decrypt(NonceOf(l), TextOf(l))
RestOf(l) == SubSeq(l.cache, TextEnd(l) + 1, Len(l.cache))
TagOf(l) == SubSeq(RestOf(l), 1, Least(TagEnd(l) - TextEnd(l), Len(RestOf(l))))
Checked(l) == Verified(NonceOf(l), ASSOCIATED_DATA, TextOf(l), TagOf(l))

LoadEnds(l, loaded) ==
    /\ Exhausted(l) \/ (Ends(l) # {} /\ TextEnd(l) = 0)
    /\ loaded = [outcome |-> "none", reader |-> l]
LoadRefuses(l, loaded) ==
    /\ ~Exhausted(l) /\ (Ends(l) = {} \/ TextEnd(l) \notin CHUNK_HEAD_SIZE..Len(l.cache))
    /\ loaded = [outcome |-> "error", reader |-> l]
LoadFails(l, loaded) ==
    /\ ~Exhausted(l) /\ Ends(l) # {} /\ TextEnd(l) \in CHUNK_HEAD_SIZE..Len(l.cache)
    /\ ~Checked(l)
    /\ loaded = [outcome |-> "error", reader |-> [l EXCEPT !.cache = Shown(l) \o RestOf(l)]]
LoadDelivers(l, loaded) ==
    /\ ~Exhausted(l) /\ Ends(l) # {} /\ TextEnd(l) \in CHUNK_HEAD_SIZE..Len(l.cache)
    /\ Checked(l)
    /\ loaded = [outcome |-> "some",
                 reader |-> [l EXCEPT !.cache = Shown(l), !.at = CHUNK_HEAD_SIZE]]

LEMMA LoadCases ==
    ASSUME NEW r
    PROVE  LET l == Exchanged(r)
               loaded == LoadInCache("indexed", r)
           IN  \/ LoadEnds(l, loaded) \/ LoadRefuses(l, loaded)
               \/ LoadFails(l, loaded) \/ LoadDelivers(l, loaded)
  <1> DEFINE l == Exchanged(r)
             loaded == LoadInCache("indexed", r)
  <1>1. loaded = IF Exhausted(l) THEN [outcome |-> "none", reader |-> l]
                 ELSE IF Ends(l) = {} THEN [outcome |-> "error", reader |-> l]
                 ELSE IF TextEnd(l) = 0 THEN [outcome |-> "none", reader |-> l]
                 ELSE IF TextEnd(l) \notin CHUNK_HEAD_SIZE..Len(l.cache)
                 THEN [outcome |-> "error", reader |-> l]
                 ELSE IF ~Checked(l)
                 THEN [outcome |-> "error", reader |-> [l EXCEPT !.cache = Shown(l) \o RestOf(l)]]
                 ELSE [outcome |-> "some",
                       reader |-> [l EXCEPT !.cache = Shown(l), !.at = CHUNK_HEAD_SIZE]]
    BY DEF LoadInCache, Exchanged, Exhausted, Ends, TagEnd, TextEnd, TextOf, NonceOf, Shown,
           RestOf, TagOf, Checked
  <1> HIDE DEF l, loaded
  <1>2. \/ LoadEnds(l, loaded) \/ LoadRefuses(l, loaded)
        \/ LoadFails(l, loaded) \/ LoadDelivers(l, loaded)
    BY <1>1 DEF LoadEnds, LoadRefuses, LoadFails, LoadDelivers
  <1>3. QED
    BY <1>2 DEF l, loaded

LEMMA ExchangedAlso ==
    ASSUME NEW w \in Nat, NEW r \in Readers(w)
    PROVE  /\ Exchanged(r).size = r.size
           /\ Exchanged(r).inner = Least(r.inner + M0_CHUNK_SIZE, Len(r.src))
  BY DEF Exchanged, WithNext, Readers

\* Where the seekable reader takes the end of a tag to be.
LEMMA EndsAre ==
    ASSUME NEW w \in Nat, NEW l \in Readers(w), NEW e \in Ends(l)
    PROVE  /\ e \in Nat
           /\ AtLeastInLastDataChunk(l) => e = EndOfLastTag(l)
           /\ ~AtLeastInLastDataChunk(l) => e \in EndOfTag("authenticated", l)
  <1>1. CASE AtLeastInLastDataChunk(l)
    <2>1. e = EndOfLastTag(l)
      BY <1>1 DEF Ends, EndOfTag
    <2>2. l.size \in Int /\ l.pos \in Nat
      BY DEF Readers
    <2>3. EndOfLastTag(l) \in Nat
      BY <2>2, Dimensions DEF EndOfLastTag, Greatest
    <2>4. QED
      BY <1>1, <2>1, <2>3
  <1>2. CASE ~AtLeastInLastDataChunk(l)
    <2>1. e \in EndOfTag("authenticated", l)
      BY <1>2 DEF Ends, EndOfTag, EndOfTagFailSafe
    <2>2. QED
      BY <1>2, <2>1, TagEnds
  <1>3. QED
    BY <1>1, <1>2

LEMMA DecryptShown ==
    ASSUME NEW w, NEW ctr, NEW s \in Seq(HonestCells(w))
    PROVE  /\ Decrypt(ctr, s) \in Seq(ShownCell) /\ Len(Decrypt(ctr, s)) = Len(s)
           /\ \A i \in 1..Len(s) : \A byte :
                 Decrypt(ctr, s)[i] = Plain(byte) => s[i] = Cipher(ctr, i, byte)
  <1> DEFINE cell(i) == IF s[i].kind = "cipher" /\ s[i] = Cipher(ctr, i, s[i].byte)
                        THEN Plain(s[i].byte)
                        ELSE [kind |-> "garbage"]
  <1>1. ASSUME NEW i \in 1..Len(s)
        PROVE  /\ cell(i) \in ShownCell
               /\ \A byte : cell(i) = Plain(byte) => s[i] = Cipher(ctr, i, byte)
    <2>1. s[i] \in StoredCell
      BY DEF HonestCells
    <2>2. s[i].kind = "cipher" => s[i].byte \in Nat
      BY <2>1 DEF StoredCell, CipherCell
    <2>3. cell(i) \in ShownCell
      BY <2>2 DEF ShownCell, Plain
    <2>4. ASSUME NEW byte, cell(i) = Plain(byte) PROVE s[i] = Cipher(ctr, i, byte)
      BY <2>4 DEF Plain
    <2>5. QED
      BY <2>3, <2>4
  <1>2. Decrypt(ctr, s) = [i \in 1..Len(s) |-> cell(i)]
    BY DEF Decrypt
  <1> HIDE DEF cell
  <1>3. Decrypt(ctr, s) \in [1..Len(s) -> ShownCell] /\ Len(s) \in Nat
    BY <1>1, <1>2
  <1>4. Decrypt(ctr, s) \in Seq(ShownCell) /\ Len(Decrypt(ctr, s)) = Len(s)
    BY <1>2, <1>3
  <1>5. QED
    BY <1>1, <1>2, <1>4

\* The pieces of the cache, when the end of the text lies in it.
LEMMA PiecesOf ==
    ASSUME NEW w \in Nat, NEW l \in Readers(w), l.cache \in Seq(HonestCells(w)), Ends(l) # {},
           TextEnd(l) \in CHUNK_HEAD_SIZE..Len(l.cache)
    PROVE  /\ TextEnd(l) \in Nat /\ TagEnd(l) \in Nat /\ TagEnd(l) \in Ends(l)
           /\ TextOf(l) \in Seq(HonestCells(w)) /\ Len(TextOf(l)) = TextEnd(l) - CHUNK_HEAD_SIZE
           /\ \A i \in 1..TextEnd(l) - CHUNK_HEAD_SIZE : TextOf(l)[i] = l.cache[CHUNK_HEAD_SIZE + i]
           /\ RestOf(l) \in Seq(HonestCells(w)) /\ Len(RestOf(l)) = Len(l.cache) - TextEnd(l)
           /\ \A i \in 1..Len(l.cache) - TextEnd(l) : RestOf(l)[i] = l.cache[TextEnd(l) + i]
           /\ Shown(l) \in Seq(ShownCell) /\ Len(Shown(l)) = TextEnd(l)
           /\ \A i \in 1..TextEnd(l) - CHUNK_HEAD_SIZE :
                 Shown(l)[CHUNK_HEAD_SIZE + i] = Decrypt(NonceOf(l), TextOf(l))[i]
  <1> DEFINE H == CHUNK_HEAD_SIZE
             t == TextEnd(l)
             s == l.cache
             head == SubSeq(s, 1, H)
             n == t - H
             d == Decrypt(NonceOf(l), TextOf(l))
  <1>1. H \in Nat /\ Len(s) \in Nat /\ s \in Seq(HonestCells(w))
    BY Dimensions
  <1>2. t \in Nat /\ H <= t /\ t <= Len(s) /\ n \in Nat /\ t = H + n
    BY <1>1
  <1>3. TagEnd(l) \in Ends(l)
    BY DEF TagEnd
  <1>4. TagEnd(l) \in Nat
    BY <1>3, EndsAre
  <1>5. TextOf(l) = SubSeq(s, H + 1, t) /\ RestOf(l) = SubSeq(s, t + 1, Len(s))
    BY DEF TextOf, RestOf
  <1> HIDE DEF H, t, s, n
  <1>6. /\ TextOf(l) \in Seq(HonestCells(w)) /\ Len(TextOf(l)) = n
        /\ \A i \in 1..n : TextOf(l)[i] = s[H + i]
    BY <1>1, <1>2, <1>5, PieceFacts
  <1>7. /\ RestOf(l) \in Seq(HonestCells(w)) /\ Len(RestOf(l)) = Len(s) - t
        /\ \A i \in 1..Len(s) - t : RestOf(l)[i] = s[t + i]
    <2> DEFINE k == Len(s) - t
    <2>1. k \in Nat /\ Len(s) = t + k
      BY <1>1, <1>2
    <2> HIDE DEF k
    <2>2. /\ RestOf(l) \in Seq(HonestCells(w)) /\ Len(RestOf(l)) = k
          /\ \A i \in 1..k : RestOf(l)[i] = s[t + i]
      BY <1>1, <1>2, <1>5, <2>1, PieceFacts
    <2>3. QED
      BY <2>2 DEF k
  <1>8. head \in Seq(ShownCell) /\ Len(head) = H
    <2>1. s \in Seq(ShownCell)
      BY <1>1, HonestShown
    <2>2. QED
      BY <1>1, <1>2, <2>1
  <1>9. d \in Seq(ShownCell) /\ Len(d) = n
    BY <1>6, DecryptShown
  <1>10. Shown(l) = head \o d
    BY DEF Shown, H, s
  <1> HIDE DEF head, d
  <1>11. /\ Shown(l) \in Seq(ShownCell) /\ Len(Shown(l)) = t
         /\ \A i \in 1..n : Shown(l)[H + i] = d[i]
    <2>1. head \o d \in Seq(ShownCell) /\ Len(head \o d) = H + n
      BY <1>8, <1>9, ConcatType
    <2>2. \A i \in 1..n : (head \o d)[H + i] = d[i]
      BY <1>8, <1>9, ConcatAt
    <2>3. QED
      BY <1>2, <1>10, <2>1, <2>2
  <1>12. QED
    BY <1>2, <1>3, <1>4, <1>6, <1>7, <1>11 DEF H, t, s, n, d

\* What every load keeps, and where it leaves the cursor.
LEMMA LoadKeeps ==
    ASSUME NEW w \in Nat, NEW r \in Readers(w)
    PROVE  LET loaded == LoadInCache("indexed", r)
               x == loaded.reader
           IN  /\ loaded.outcome \in {"none", "error", "some"}
               /\ x \in Readers(w) /\ x.src = r.src /\ x.size = r.size /\ x.pos = r.pos
               /\ x.inner = Exchanged(r).inner /\ x.next = Exchanged(r).next
               /\ x.at = IF loaded.outcome = "some" THEN CHUNK_HEAD_SIZE ELSE 0
  <1> DEFINE l == Exchanged(r)
             loaded == LoadInCache("indexed", r)
             x == loaded.reader
  <1>1. /\ l \in Readers(w) /\ l.cache \in Seq(HonestCells(w)) /\ l.src = r.src
        /\ l.pos = r.pos /\ l.at = 0 /\ l.size = r.size
    BY ExchangedFacts, ExchangedAlso
  <1>2. \/ LoadEnds(l, loaded) \/ LoadRefuses(l, loaded)
        \/ LoadFails(l, loaded) \/ LoadDelivers(l, loaded)
    BY LoadCases
  <1> SUFFICES /\ loaded.outcome \in {"none", "error", "some"}
               /\ x \in Readers(w) /\ x.src = r.src /\ x.size = r.size /\ x.pos = r.pos
               /\ x.inner = l.inner /\ x.next = l.next
               /\ x.at = IF loaded.outcome = "some" THEN CHUNK_HEAD_SIZE ELSE 0
    OBVIOUS
  <1> HIDE DEF l, loaded
  <1> DEFINE y(cache, at) == [l EXCEPT !.cache = cache, !.at = at]
  <1>3. ASSUME NEW cache \in Seq(ShownCell), NEW at \in Nat
        PROVE  /\ y(cache, at) \in Readers(w) /\ y(cache, at).src = r.src
               /\ y(cache, at).size = r.size /\ y(cache, at).pos = r.pos
               /\ y(cache, at).inner = l.inner /\ y(cache, at).next = l.next
               /\ y(cache, at).at = at
    BY <1>1 DEF Readers
  <1>4. CASE LoadEnds(l, loaded) \/ LoadRefuses(l, loaded)
    BY <1>1, <1>4 DEF LoadEnds, LoadRefuses
  <1>5. CASE LoadFails(l, loaded)
    <2> DEFINE cache == Shown(l) \o RestOf(l)
    <2>1. loaded = [outcome |-> "error", reader |-> [l EXCEPT !.cache = cache]]
      BY <1>5 DEF LoadFails
    <2>2. cache \in Seq(ShownCell)
      <3>1. Shown(l) \in Seq(ShownCell) /\ RestOf(l) \in Seq(HonestCells(w))
        BY <1>1, <1>5, PiecesOf DEF LoadFails
      <3>2. RestOf(l) \in Seq(ShownCell)
        BY <3>1, HonestShown
      <3>3. QED
        BY <3>1, <3>2, ConcatType
    <2> HIDE DEF cache
    <2>3. [l EXCEPT !.cache = cache] = [l EXCEPT !.cache = cache, !.at = 0]
      BY <1>1 DEF Readers
    <2>4. x = y(cache, 0) /\ loaded.outcome = "error" /\ 0 \in Nat
      BY <2>1, <2>3
    <2> HIDE DEF x, y
    <2>5. QED
      BY <1>3, <2>2, <2>4
  <1>6. CASE LoadDelivers(l, loaded)
    <2>1. x = y(Shown(l), CHUNK_HEAD_SIZE) /\ loaded.outcome = "some"
      BY <1>6 DEF LoadDelivers
    <2>2. Shown(l) \in Seq(ShownCell)
      BY <1>1, <1>6, PiecesOf DEF LoadDelivers
    <2>3. CHUNK_HEAD_SIZE \in Nat
      BY Dimensions
    <2> HIDE DEF x, y
    <2>4. QED
      BY <1>3, <2>1, <2>2, <2>3
  <1>7. QED
    BY <1>2, <1>4, <1>5, <1>6

-----------------------------------------------------------------------------
(***************************************************************************)
(* Loading from a whole stream.                                            *)
(***************************************************************************)
WholeStream == ~torn /\ finalized /\ KeystreamInv /\ StreamHonest /\ Layout

LEMMA SealedNow ==
    ASSUME WholeStream
    PROVE  /\ LastChunk \in Nat /\ LastSize \in 0..N /\ LastSize \in Nat /\ written \in Nat
           /\ LastChunk * N \in Nat /\ written = LastChunk * N + LastSize
           /\ LastSize = 0 => LastChunk = 0
           /\ Sealed(out, LastChunk, LastSize) /\ out \in Seq(HonestCells(written))
           /\ Len(out) = DataEnd(LastChunk, LastSize) + TailSize
           /\ AllPlaintextSize(Len(out) - 1) = written
           /\ LastDataChunkNumber(written) = LastChunk
  <1>1. /\ LastChunk \in Nat /\ LastSize \in 0..N /\ Sealed(out, LastChunk, LastSize)
        /\ LastSize = 0 => LastChunk = 0
    BY DEF WholeStream, Layout
  <1>2. written \in Nat /\ out \in Seq(HonestCells(written)) /\ N \in Nat
    BY Dimensions DEF WholeStream, KeystreamInv, WriterTypeOK, StreamHonest
  <1> DEFINE K == LastChunk
             f == LastSize
             a == K * N
  <1>3. f = written - Start(K + 1) /\ Start(K + 1) = a /\ a \in Nat
    BY <1>1, StartIs DEF LastSize
  <1>4. AllPlaintextSize((DataEnd(K, f) + TailSize) - 1) = a + f
        /\ LastDataChunkNumber(a + f) = K
    BY <1>1, AllPlaintextIs, LastDataChunkIs
  <1>5. Len(out) = DataEnd(K, f) + TailSize
    BY <1>1 DEF Sealed
  <1> HIDE DEF K, f, a
  <1>6. f \in Nat /\ f \in 0..N
    BY <1>1, <1>2 DEF f
  <1>7. written = a + f
    BY <1>2, <1>3, <1>6
  <1>8. AllPlaintextSize(Len(out) - 1) = written /\ LastDataChunkNumber(written) = K
    <2> DEFINE len == DataEnd(K, f) + TailSize
    <2>1. AllPlaintextSize(len - 1) = a + f /\ len = Len(out)
      BY <1>4, <1>5
    <2> HIDE DEF len
    <2>2. QED
      BY <1>4, <1>7, <2>1
  <1>9. K = LastChunk /\ f = LastSize /\ a = K * N
    BY DEF K, f, a
  <1>10. a = LastChunk * N
    BY <1>9
  <1>11. LastSize \in Nat /\ LastChunk * N \in Nat /\ written = LastChunk * N + LastSize
    BY <1>3, <1>6, <1>7, <1>9, <1>10
  <1>12. Len(out) = DataEnd(LastChunk, LastSize) + TailSize
         /\ LastDataChunkNumber(written) = LastChunk
    BY <1>5, <1>8, <1>9
  <1>13. QED
    BY <1>1, <1>2, <1>8, <1>11, <1>12

LEMMA SourceCell ==
    ASSUME WholeStream, NEW place, NEW src, SourceOf(src, place), NEW p \in 1..Len(src),
           src[p].kind # "changed"
    PROVE  p \in 1..Len(out) /\ src[p] = out[p]
  <1>1. out \in Seq(HonestCells(written))
    BY SealedNow
  <1>2. Len(src) = Len(out) - 1 /\ Len(out) \in Nat
    BY <1>1 DEF SourceOf
  <1>3. src[p] = out[p]
    BY DEF SourceOf
  <1>4. QED
    BY <1>2, <1>3

\* The second cache, and the exchange of the two.
LEMMA NextCells ==
    ASSUME NEW w \in Nat, NEW r \in Readers(w), NEW j \in Nat, NextIs(r, j)
    PROVE  /\ r.inner \in Nat /\ r.inner <= Len(r.src) /\ r.inner <= Base(j + 1)
           /\ Len(r.next) <= M0_CHUNK_SIZE
           /\ Len(r.next) = IF Base(j) <= r.inner THEN r.inner - Base(j) ELSE 0
           /\ \A i \in 1..Len(r.next) :
                 Base(j) + i \in 1..Len(r.src) /\ r.next[i] = r.src[Base(j) + i]
  <1> DEFINE b == Base(j)
             m == M0_CHUNK_SIZE
             s == r.src
             to == r.inner
  <1>1. b \in Nat /\ m \in Nat /\ Base(j + 1) = b + m
    BY BaseFacts, Dimensions
  <1>2. s \in Seq(HonestCells(w)) /\ to = Least(b + m, Len(s)) /\ r.next = SubSeq(s, b + 1, to)
    BY <1>1 DEF Readers, NextIs
  <1> HIDE DEF b, m, s, to
  <1>3. to \in Nat /\ to <= Len(s) /\ to <= b + m
    BY <1>1, <1>2 DEF Least
  <1>4. CASE b <= to
    <2> DEFINE n == to - b
    <2>1. n \in Nat /\ to = b + n /\ n <= m
      BY <1>1, <1>3, <1>4
    <2> HIDE DEF n
    <2>2. Len(r.next) = n /\ \A i \in 1..n : r.next[i] = s[b + i]
      BY <1>1, <1>2, <1>3, <2>1, PieceFacts
    <2>3. \A i \in 1..n : b + i \in 1..Len(s)
      BY <1>1, <1>2, <1>3, <2>1
    <2>4. n = to - b
      BY DEF n
    <2>5. QED
      BY <1>1, <1>3, <1>4, <2>1, <2>2, <2>3, <2>4 DEF b, m, s, to
  <1>5. CASE b > to
    <2>1. r.next = <<>>
      BY <1>1, <1>2, <1>3, <1>5
    <2>2. Len(r.next) = 0 /\ ~(b <= to)
      BY <1>1, <1>3, <1>5, <2>1
    <2>3. QED
      BY <1>1, <1>3, <2>2 DEF b, m, s, to
  <1>6. b <= to \/ b > to
    BY <1>1, <1>3
  <1>7. QED
    BY <1>4, <1>5, <1>6

LEMMA NextKept ==
    ASSUME NEW w \in Nat, NEW r \in Readers(w), NEW j \in Nat, NextIs(r, j)
    PROVE  NextIs(Exchanged(r), j + 1)
  <1> DEFINE b == Base(j + 1)
             m == M0_CHUNK_SIZE
             s == r.src
             to == r.inner
             l == Exchanged(r)
  <1>1. b \in Nat /\ m \in Nat /\ Base((j + 1) + 1) = b + m
    BY BaseFacts, Dimensions
  <1>2. s \in Seq(HonestCells(w)) /\ to = Least(b, Len(s))
    BY DEF Readers, NextIs
  <1>3. l.src = s /\ l.inner = Least(to + m, Len(s)) /\ l.next = SubSeq(s, to + 1, l.inner)
    BY ExchangedFacts, ExchangedAlso
  <1> HIDE DEF b, m, s, to, l
  <1>4. CASE to = b
    BY <1>1, <1>3, <1>4 DEF NextIs, b, l
  <1>5. CASE to # b
    <2>1. to = Len(s) /\ Len(s) < b /\ Len(s) \in Nat
      BY <1>1, <1>2, <1>5 DEF Least
    <2>2. l.inner = Len(s) /\ Least(b + m, Len(s)) = Len(s)
      BY <1>1, <1>3, <2>1 DEF Least
    <2>3. SubSeq(s, Len(s) + 1, Len(s)) = <<>> /\ SubSeq(s, b + 1, Len(s)) = <<>>
      BY <1>1, <1>2, <2>1
    <2>4. QED
      BY <1>1, <1>3, <2>1, <2>2, <2>3 DEF NextIs, b, l
  <1>6. QED
    BY <1>4, <1>5

\* A place beyond what the cache can hold is no place of the chunk.
LEMMA SameBase ==
    ASSUME NEW j \in Nat, NEW k \in Nat, Base(j) = Base(k)
    PROVE  j = k
  <1>1. Base(j) \in Nat /\ Base(k) \in Nat /\ M0_CHUNK_SIZE \in Nat \ {0}
    BY BaseFacts, Dimensions
  <1>2. (j < k => Base(j) + M0_CHUNK_SIZE <= Base(k))
        /\ (k < j => Base(k) + M0_CHUNK_SIZE <= Base(j))
    BY BaseFacts
  <1>3. ~(j < k) /\ ~(k < j)
    BY <1>1, <1>2
  <1>4. QED
    BY <1>3

\* What verifies is the chunk of the position, in the place of that chunk.
LEMMA CheckedIs ==
    ASSUME WholeStream, NEW place, NEW r \in Readers(written), SourceOf(r.src, place),
           NEW j \in Nat, NextIs(r, j),
           Ends(Exchanged(r)) # {},
           TextEnd(Exchanged(r)) \in CHUNK_HEAD_SIZE..Len(Exchanged(r).cache),
           Checked(Exchanged(r))
    PROVE  /\ r.pos \div N = j /\ j \in 0..LastChunk
           /\ TextOf(Exchanged(r)) = Text(j + 1, PlainIn(j, LastChunk, LastSize))
           /\ NonceOf(Exchanged(r)) = j + 1
  <1> DEFINE l == Exchanged(r)
             H == CHUNK_HEAD_SIZE
             t == TextEnd(l)
             k == r.pos \div N
             K == LastChunk
             f == LastSize
             tag == TagOf(l)
             rest == RestOf(l)
             n == PlainIn(k, K, f)
  <1>1. /\ written \in Nat /\ K \in Nat /\ f \in 0..N /\ Sealed(out, K, f)
    BY SealedNow
  <1>2. l \in Readers(written) /\ l.cache = r.next
        /\ l.cache \in Seq(HonestCells(written)) /\ l.pos = r.pos
    BY <1>1, ExchangedFacts
  <1>3. k \in Nat /\ NonceOf(l) = k + 1
    <2>1. N \in Nat \ {0} /\ r.pos \in Nat
      BY Dimensions DEF Readers
    <2> HIDE DEF N
    <2>2. r.pos \div N \in Nat
      BY <2>1, DivisionExists
    <2>3. NonceOf(l) = (r.pos \div N) + 1
      BY <1>2 DEF NonceOf, FIRST_DATA_CHUNK_NUMBER, N
    <2>4. QED
      BY <2>2, <2>3
  <1>4. /\ t \in Nat /\ TagEnd(l) \in Nat /\ Len(TextOf(l)) = t - H
        /\ rest \in Seq(HonestCells(written)) /\ Len(rest) = Len(l.cache) - t
        /\ \A i \in 1..Len(l.cache) - t : rest[i] = l.cache[t + i]
    BY <1>1, <1>2, PiecesOf
  <1>5. tag = Tag(k + 1, ASSOCIATED_DATA, TextOf(l))
    BY <1>3 DEF Checked, Verified
  <1>6. /\ Len(tag) = TAG_LENGTH /\ TAG_LENGTH \in Nat \ {0}
        /\ tag[1] = TagCell(k + 1, ASSOCIATED_DATA, TextOf(l), 1)
    BY <1>5, Dimensions DEF Tag, TagCell
  <1> HIDE DEF l, t, k, n, tag, rest
  <1>7. Len(rest) >= 1 /\ rest[1] = tag[1]
    <2> DEFINE to == Least(TagEnd(l) - t, Len(rest))
    <2>1. tag = SubSeq(rest, 1, to)
      BY DEF TagOf, tag, rest, t
    <2>2. to \in Int /\ to <= Len(rest) /\ Len(rest) \in Nat
      BY <1>4 DEF Least
    <2> HIDE DEF to
    <2>3. to >= 1
      BY <1>4, <1>6, <2>1, <2>2
    <2>4. to = 0 + to /\ to \in Nat /\ 0 + 1 = 1
      BY <2>2, <2>3
    <2>5. SubSeq(rest, 0 + 1, 0 + to)[1] = rest[0 + 1]
      BY <1>4, <2>2, <2>3, <2>4, PieceFacts
    <2>6. QED
      BY <2>1, <2>2, <2>3, <2>4, <2>5
  <1> DEFINE p == Base(j) + (t + 1)
  <1>8. p \in 1..Len(r.src) /\ r.src[p] = tag[1] /\ t + 1 <= M0_CHUNK_SIZE
    <2>1. Len(l.cache) \in Nat
      BY <1>2
    <2>2. t + 1 \in 1..Len(l.cache) /\ 1 \in 1..Len(l.cache) - t
      BY <1>4, <1>7, <2>1
    <2>3. l.cache[t + 1] = tag[1]
      BY <1>4, <1>7, <2>2
    <2>4. /\ Len(r.next) <= M0_CHUNK_SIZE
          /\ Base(j) + (t + 1) \in 1..Len(r.src) /\ r.next[t + 1] = r.src[Base(j) + (t + 1)]
      BY <1>1, <1>2, <2>2, NextCells
    <2>5. QED
      BY <1>2, <1>4, <2>1, <2>2, <2>3, <2>4, Dimensions
  <1> HIDE DEF p
  <1>9. p \in 1..Len(out) /\ out[p] = TagCell(k + 1, ASSOCIATED_DATA, TextOf(l), 1)
    <2>1. r.src[p].kind # "changed"
      BY <1>6, <1>8 DEF TagCell
    <2>2. QED
      BY <1>6, <1>8, <2>1, SourceCell
  <1>10. k \in 0..K /\ TextOf(l) = Text(k + 1, n) /\ p = Base(k) + H + n + 1
    BY <1>1, <1>3, <1>9, TagPlace DEF n
  <1>11. n \in Nat
    BY <1>1, <1>10, PlainInFacts DEF n
  <1>12. t - H = n
    <2>1. k + 1 \in Nat \ {0}
      BY <1>3
    <2>2. Len(Text(k + 1, n)) = n
      BY <1>11, <2>1, TextFacts
    <2>3. QED
      BY <1>4, <1>10, <2>2
  <1>13. Base(j) = Base(k)
    <2>1. Base(j) \in Nat /\ Base(k) \in Nat /\ H \in Nat
      BY <1>3, BaseFacts, Dimensions
    <2>2. p = Base(j) + (t + 1)
      BY DEF p
    <2>3. p = Base(k) + H + n + 1 /\ n \in Nat /\ t \in Nat /\ t - H = n
      BY <1>4, <1>10, <1>11, <1>12
    <2> DEFINE b == Base(j)
               c == Base(k)
    <2>4. b \in Nat /\ c \in Nat /\ b + (t + 1) = c + H + n + 1
      BY <2>1, <2>2, <2>3
    <2> HIDE DEF b, c, H
    <2>5. b = c
      BY <2>1, <2>3, <2>4
    <2>6. QED
      BY <2>5 DEF b, c
  <1>14. j = k
    BY <1>3, <1>13, SameBase
  <1>15. QED
    BY <1>3, <1>10, <1>14 DEF k, n, l

LEMMA LoadExact ==
    ASSUME WholeStream, NEW place, NEW r \in Readers(written), SourceOf(r.src, place),
           r.size = written,
           NEW j \in Nat, NextIs(r, j), LoadInCache("indexed", r).outcome = "some"
    PROVE  /\ r.pos \div N = j /\ j \in 0..LastChunk /\ r.pos < written
           /\ Exact(LoadInCache("indexed", r).reader.cache, j)
  <1> DEFINE l == Exchanged(r)
             loaded == LoadInCache("indexed", r)
             n == PlainIn(j, LastChunk, LastSize)
             H == CHUNK_HEAD_SIZE
             cache == loaded.reader.cache
  <1>1. LoadDelivers(l, loaded)
    <2>1. \/ LoadEnds(l, loaded) \/ LoadRefuses(l, loaded)
          \/ LoadFails(l, loaded) \/ LoadDelivers(l, loaded)
      BY LoadCases
    <2>2. loaded.outcome = "some"
      OBVIOUS
    <2> HIDE DEF l, loaded
    <2>3. QED
      BY <2>1, <2>2 DEF LoadEnds, LoadRefuses, LoadFails
  <1>2. written \in Nat /\ LastChunk \in Nat /\ LastSize \in 0..N
        /\ written = LastChunk * N + LastSize
        /\ LastDataChunkNumber(written) = LastChunk /\ LastChunk * N \in Nat
    BY SealedNow
  <1>3. /\ l \in Readers(written) /\ l.cache \in Seq(HonestCells(written)) /\ l.pos = r.pos
        /\ l.size = written
    BY <1>2, ExchangedFacts, ExchangedAlso
  <1>4. /\ r.pos \div N = j /\ j \in 0..LastChunk
        /\ TextOf(l) = Text(j + 1, n) /\ NonceOf(l) = j + 1
    BY <1>1, CheckedIs DEF LoadDelivers
  <1>5. r.pos < written
    <2>1. r.pos \in Nat
      BY DEF Readers
    <2>2. AtLeastInLastDataChunk(l) <=> r.pos >= LastChunk * N
      BY <1>2, <1>3 DEF AtLeastInLastDataChunk, N
    <2>3. ~(r.pos >= LastChunk * N /\ r.pos >= written)
      BY <1>1, <1>3, <2>2 DEF LoadDelivers, Exhausted
    <2> DEFINE a == LastChunk * N
    <2>4. a \in Nat /\ written = a + LastSize /\ LastSize \in Nat
          /\ ~(r.pos >= a /\ r.pos >= written)
      BY <1>2, <2>3, SealedNow
    <2> HIDE DEF a
    <2>5. QED
      BY <2>1, <2>4
  <1>6. /\ Len(TextOf(l)) = TextEnd(l) - H /\ Len(Shown(l)) = TextEnd(l) /\ TextEnd(l) \in Nat
        /\ \A i \in 1..TextEnd(l) - H : Shown(l)[H + i] = Decrypt(NonceOf(l), TextOf(l))[i]
    BY <1>1, <1>2, <1>3, PiecesOf DEF LoadDelivers
  <1>7. cache = Shown(l)
    <2>1. loaded.reader = [l EXCEPT !.cache = Shown(l), !.at = CHUNK_HEAD_SIZE]
      <3> HIDE DEF loaded, l
      <3>1. QED
        BY <1>1 DEF LoadDelivers
    <2> HIDE DEF loaded, l
    <2>2. QED
      BY <1>3, <2>1 DEF Readers
  <1>8. j + 1 \in Nat \ {0} /\ n \in Nat /\ H \in Nat
    BY <1>2, <1>4, PlainInFacts, Dimensions
  <1> HIDE DEF l, n, cache, H
  <1>9. Len(TextOf(l)) = n
        /\ Decrypt(j + 1, Text(j + 1, n)) = [i \in 1..n |-> Plain(Start(j + 1) + i)]
    BY <1>4, <1>8, TextFacts, DecryptedText
  <1>10. TextEnd(l) = H + n /\ TextEnd(l) - H = n
    <2> DEFINE t == TextEnd(l)
    <2>1. n = t - H /\ t \in Nat
      BY <1>6, <1>9
    <2> HIDE DEF t
    <2>2. t = H + n
      BY <1>8, <2>1
    <2>3. QED
      BY <2>1, <2>2 DEF t
  <1>11. Len(cache) = H + n
    BY <1>6, <1>7, <1>10
  <1>12. \A i \in 1..n : cache[H + i] = Plain(j * N + i)
    <2>1. Start(j + 1) = j * N
      BY StartIs
    <2>2. \A i \in 1..n : cache[H + i] = Decrypt(j + 1, Text(j + 1, n))[i]
      BY <1>4, <1>6, <1>7, <1>10
    <2>3. QED
      BY <1>9, <2>1, <2>2
  <1>13. QED
    BY <1>4, <1>5, <1>11, <1>12 DEF Exact, n, H, cache

\* Beyond the end there is no more to load.
LEMMA LoadPast ==
    ASSUME WholeStream, NEW r \in Readers(written), r.size = written, r.pos >= written
    PROVE  LoadInCache("indexed", r) = [outcome |-> "none", reader |-> Exchanged(r)]
  <1> DEFINE l == Exchanged(r)
             loaded == LoadInCache("indexed", r)
             a == LastChunk * N
  <1>1. /\ written \in Nat /\ LastSize \in Nat /\ a \in Nat /\ written = a + LastSize
        /\ LastDataChunkNumber(written) = LastChunk
    BY SealedNow
  <1>2. l.pos = r.pos /\ l.size = written /\ r.pos \in Nat
    BY <1>1, ExchangedFacts, ExchangedAlso DEF Readers
  <1>3. AtLeastInLastDataChunk(l) <=> r.pos >= a
    BY <1>1, <1>2 DEF AtLeastInLastDataChunk, N
  <1>4. r.pos >= a
    <2> HIDE DEF a
    <2>1. QED
      BY <1>1, <1>2
  <1>5. Exhausted(l)
    BY <1>2, <1>3, <1>4 DEF Exhausted
  <1>6. \/ LoadEnds(l, loaded) \/ LoadRefuses(l, loaded)
        \/ LoadFails(l, loaded) \/ LoadDelivers(l, loaded)
    BY LoadCases
  <1> HIDE DEF l, loaded
  <1>7. loaded = [outcome |-> "none", reader |-> l]
    BY <1>5, <1>6 DEF LoadEnds, LoadRefuses, LoadFails, LoadDelivers
  <1>8. QED
    BY <1>7 DEF l, loaded

\* The two caches together.
LEMMA BothCells ==
    ASSUME NEW w \in Nat, NEW r \in Readers(w), NEW j \in Nat, NextIs(r, j),
           NEW i \in 1..Len(Exchanged(r).cache \o Exchanged(r).next)
    PROVE  /\ Base(j) + i \in 1..Len(r.src)
           /\ (Exchanged(r).cache \o Exchanged(r).next)[i] = r.src[Base(j) + i]
  <1> DEFINE l == Exchanged(r)
             c == r.next
             x == l.next
             b == Base(j)
             s == r.src
             to == r.inner
  <1>1. /\ l.cache = c /\ c \in Seq(HonestCells(w)) /\ x \in Seq(HonestCells(w))
        /\ x = SubSeq(s, to + 1, l.inner) /\ l.inner \in 0..Len(s) /\ s \in Seq(HonestCells(w))
        /\ l.inner = Least(to + M0_CHUNK_SIZE, Len(s))
    BY ExchangedFacts, ExchangedAlso DEF Readers
  <1>2. /\ to \in Nat /\ to <= Len(s) /\ b \in Nat /\ Len(s) \in Nat
        /\ Len(c) = IF b <= to THEN to - b ELSE 0
        /\ \A k \in 1..Len(c) : b + k \in 1..Len(s) /\ c[k] = s[b + k]
    <2>0. b \in Nat
      BY BaseFacts
    <2>1. Len(s) \in Nat
      <3> HIDE DEF s
      <3>1. s \in Seq(HonestCells(w))
        BY <1>1
      <3>2. QED
        BY <3>1
    <2>2. /\ to \in Nat /\ to <= Len(s) /\ Len(c) = IF b <= to THEN to - b ELSE 0
          /\ \A k \in 1..Len(c) : b + k \in 1..Len(s) /\ c[k] = s[b + k]
      BY NextCells
    <2> HIDE DEF b, c, s, to
    <2>3. QED
      BY <2>0, <2>1, <2>2
  <1>3. to = Len(s) \/ b <= to
    <2>1. to = Least(Base(j + 1), Len(s)) /\ Base(j + 1) = b + M0_CHUNK_SIZE
      BY BaseFacts DEF NextIs
    <2>2. QED
      BY <1>2, <2>1, Dimensions DEF Least
  <1>4. to <= l.inner
    BY <1>1, <1>2, Dimensions DEF Least
  <1> DEFINE n == l.inner - to
  <1>5. n \in Nat /\ l.inner = to + n /\ to + n <= Len(s)
    BY <1>1, <1>2, <1>4, SMTT(60)
  <1>6. i \in 1..Len(c \o x)
    BY <1>1
  <1> HIDE DEF l, c, x, b, s, to, n
  <1>7. Len(x) = n /\ \A k \in 1..n : x[k] = s[to + k]
    <2>1. x = SubSeq(s, to + 1, to + n)
      BY <1>1, <1>5
    <2>2. s \in Seq(HonestCells(w)) /\ to \in Nat /\ n \in Nat /\ to + n <= Len(s)
      BY <1>1, <1>2, <1>5
    <2>3. /\ Len(SubSeq(s, to + 1, to + n)) = n
          /\ \A k \in 1..n : SubSeq(s, to + 1, to + n)[k] = s[to + k]
      BY <2>2, PieceFacts
    <2>4. QED
      BY <2>1, <2>3
  <1>8. Len(c \o x) = Len(c) + n /\ Len(c) \in Nat /\ i \in Nat
    BY <1>1, <1>6, <1>7, ConcatType
  <1>9. CASE i <= Len(c)
    <2>1. i \in 1..Len(c)
      BY <1>6, <1>8, <1>9
    <2>2. (c \o x)[i] = c[i]
      BY <1>1, <2>1, ConcatAt
    <2>3. QED
      BY <1>1, <1>2, <2>1, <2>2 DEF b, s, l, x
  <1>10. CASE i > Len(c)
    <2> DEFINE k == i - Len(c)
    <2>1. k \in 1..n /\ i = Len(c) + k /\ n > 0
      BY <1>5, <1>6, <1>8, <1>10
    <2>2. b <= to
      BY <1>2, <1>3, <1>5, <2>1
    <2>3. b + i = to + k /\ to + k \in 1..Len(s)
      BY <1>2, <1>5, <2>1, <2>2
    <2> HIDE DEF k
    <2>4. (c \o x)[Len(c) + k] = x[k]
      BY <1>1, <1>7, <2>1, ConcatAt
    <2>5. (c \o x)[i] = s[b + i] /\ b + i \in 1..Len(s)
      BY <1>7, <2>1, <2>3, <2>4
    <2>6. QED
      BY <1>1, <2>5 DEF b, s, l, x
  <1>11. i <= Len(c) \/ i > Len(c)
    BY <1>8
  <1>12. QED
    BY <1>9, <1>10, <1>11

\* A load that finds no more data is one at the end.
LEMMA NoneIsEnd ==
    ASSUME WholeStream, NEW place, NEW r \in Readers(written), SourceOf(r.src, place),
           r.size = written,
           NEW j \in Nat, NextIs(r, j), r.pos >= j * N,
           LoadInCache("indexed", r).outcome = "none"
    PROVE  r.pos >= written
  <1> DEFINE l == Exchanged(r)
             loaded == LoadInCache("indexed", r)
             K == LastChunk
             f == LastSize
             e == TagEnd(l)
             H == CHUNK_HEAD_SIZE
  <1>1. /\ written \in Nat /\ K \in Nat /\ f \in 0..N /\ f \in Nat /\ Sealed(out, K, f)
        /\ K * N \in Nat /\ written = K * N + f /\ LastDataChunkNumber(written) = K
    BY SealedNow
  <1>2. l \in Readers(written) /\ l.pos = r.pos /\ l.size = written /\ r.pos \in Nat
    BY <1>1, ExchangedFacts, ExchangedAlso DEF Readers
  <1>3. LoadEnds(l, loaded)
    <2>1. \/ LoadEnds(l, loaded) \/ LoadRefuses(l, loaded)
          \/ LoadFails(l, loaded) \/ LoadDelivers(l, loaded)
      BY LoadCases
    <2>2. loaded.outcome = "none"
      OBVIOUS
    <2> HIDE DEF l, loaded
    <2>3. QED
      BY <2>1, <2>2 DEF LoadRefuses, LoadFails, LoadDelivers
  <1>4. CASE Exhausted(l)
    BY <1>2, <1>4 DEF Exhausted
  <1>5. CASE ~Exhausted(l)
    <2>1. Ends(l) # {} /\ TextEnd(l) = 0
      BY <1>3, <1>5 DEF LoadEnds
    <2>2. e \in Ends(l)
      BY <2>1 DEF TagEnd
    <2>3. e \in Nat /\ (AtLeastInLastDataChunk(l) => e = EndOfLastTag(l))
      BY <1>1, <1>2, <2>2, EndsAre
    <2>4. ~AtLeastInLastDataChunk(l) => e \in EndOfTag("authenticated", l)
      BY <1>1, <1>2, <2>2, EndsAre
    <2>5. e <= TAG_LENGTH /\ TAG_LENGTH \in Nat /\ H \in Nat \ {0}
      BY <2>1, <2>3, Dimensions DEF TextEnd, Greatest
    <2>6. ~AtLeastInLastDataChunk(l)
      <3>1. EndOfLastTag(l) > TAG_LENGTH
        BY <1>1, <1>2, Dimensions DEF EndOfLastTag, Greatest
      <3>2. QED
        BY <2>3, <2>5, <3>1
    <2>7. r.pos < K * N
      <3>1. AtLeastInLastDataChunk(l) <=> r.pos >= K * N
        BY <1>1, <1>2 DEF AtLeastInLastDataChunk, N
      <3> DEFINE a == K * N
      <3>2. a \in Nat /\ ~(r.pos >= a)
        BY <1>1, <2>6, <3>1
      <3> HIDE DEF a
      <3>3. r.pos < a
        BY <1>2, <3>2
      <3>4. QED
        BY <3>3 DEF a
    <2> DEFINE both == l.cache \o l.next
    <2>8. e + 1 \in 1..Len(both) /\ both[e + 1].kind = "magic"
      <3>1. e # M0_CHUNK_SIZE
        BY <2>3, <2>5, Dimensions
      <3>2. e + 1 <= Len(both) /\ both[e + 1].kind = "magic"
        BY <1>1, <1>2, <2>4, <2>6, <3>1, TagEnds
      <3>3. Len(both) \in Nat
        <4>1. l.cache \in Seq(ShownCell) /\ l.next \in Seq(ShownCell)
          BY <1>2, HonestShown DEF Readers
        <4>2. QED
          BY <4>1, ConcatType
      <3> HIDE DEF both, e
      <3>4. QED
        BY <2>3, <3>2, <3>3
    <2> DEFINE p == Base(j) + (e + 1)
    <2>9. p \in 1..Len(r.src) /\ r.src[p].kind = "magic"
      <3>1. p \in 1..Len(r.src) /\ both[e + 1] = r.src[p]
        BY <1>1, <2>8, BothCells
      <3>2. QED
        BY <2>8, <3>1
    <2>10. p > DataEnd(K, f)
      <3> HIDE DEF p
      <3>1. p \in 1..Len(out) /\ out[p].kind = "magic"
        BY <2>9, SourceCell
      <3>2. QED
        BY <1>1, <3>1, MagicPlace
    <2>11. Base(j) > Base(K)
      <3> DEFINE b == Base(j)
                 c == Base(K)
      <3>1. b \in Nat /\ c \in Nat /\ DataEnd(K, f) = c + H + f + TAG_LENGTH
        BY <1>1, BaseFacts, DataEndFacts
      <3>2. b + (e + 1) > c + H + f + TAG_LENGTH
        BY <2>10, <3>1
      <3> HIDE DEF b, c, e, K, f, H
      <3>3. b > c
        BY <1>1, <2>3, <2>5, <3>1, <3>2
      <3>4. QED
        BY <3>3 DEF b, c
    <2>12. j > K
      <3>1. j < K => Base(j) + M0_CHUNK_SIZE <= Base(K)
        BY <1>1, BaseFacts
      <3>2. Base(j) \in Nat /\ Base(K) \in Nat /\ M0_CHUNK_SIZE \in Nat
        BY <1>1, BaseFacts, Dimensions
      <3>3. ~(j < K) /\ j # K
        BY <2>11, <3>1, <3>2
      <3>4. QED
        BY <1>1, <3>3
    <2>13. FALSE
      <3>1. K * N + N <= j * N /\ j * N \in Nat /\ N \in Nat
        BY <1>1, <2>12, StartIs, Dimensions
      <3> DEFINE a == K * N
                 d == j * N
      <3>2. a \in Nat /\ d \in Nat /\ a + N <= d /\ r.pos >= d /\ r.pos < a
        BY <1>1, <2>7, <3>1
      <3> HIDE DEF a, d
      <3>3. QED
        BY <1>2, <3>1, <3>2
    <2>14. QED
      BY <2>13
  <1>6. QED
    BY <1>4, <1>5

\* The cache that a load which fails leaves is no plaintext of a later place.
LEMMA ErrorCache ==
    ASSUME WholeStream, NEW place, NEW r \in Readers(written), SourceOf(r.src, place),
           NEW j \in Nat, NextIs(r, j), LoadInCache("indexed", r).outcome = "error",
           Len(LoadInCache("indexed", r).reader.cache) > CHUNK_HEAD_SIZE
    PROVE  LoadInCache("indexed", r).reader.cache[CHUNK_HEAD_SIZE + 1]
             # Plain(r.pos + CHUNK_HEAD_SIZE + 1)
  <1> DEFINE l == Exchanged(r)
             loaded == LoadInCache("indexed", r)
             cache == loaded.reader.cache
             H == CHUNK_HEAD_SIZE
             K == LastChunk
             f == LastSize
  <1>1. written \in Nat /\ K \in Nat /\ f \in 0..N /\ Sealed(out, K, f)
    BY SealedNow
  <1>2. /\ l \in Readers(written) /\ l.pos = r.pos /\ r.pos \in Nat
        /\ l.cache \in Seq(HonestCells(written)) /\ l.cache = r.next
    BY <1>1, ExchangedFacts DEF Readers
  <1>3. LoadRefuses(l, loaded) \/ LoadFails(l, loaded)
    <2>1. \/ LoadEnds(l, loaded) \/ LoadRefuses(l, loaded)
          \/ LoadFails(l, loaded) \/ LoadDelivers(l, loaded)
      BY LoadCases
    <2>2. loaded.outcome = "error"
      OBVIOUS
    <2> HIDE DEF l, loaded
    <2>3. QED
      BY <2>1, <2>2 DEF LoadEnds, LoadDelivers
  <1>4. \A c \in HonestCells(written) : c.kind # "plain"
    BY DEF HonestCells, StoredCell, CipherCell
  <1>5. H \in Nat \ {0} /\ Len(cache) > H
    BY Dimensions
  <1>6. \A b : Plain(b).kind = "plain" /\ Plain(b).byte = b
    BY DEF Plain
  <1> SUFFICES cache[H + 1] # Plain(r.pos + H + 1)
    OBVIOUS
  <1>7. CASE LoadRefuses(l, loaded)
    <2>1. cache = l.cache
      <3> HIDE DEF l, loaded
      <3>1. QED
        BY <1>7 DEF LoadRefuses
    <2> HIDE DEF l, cache
    <2>2. cache[H + 1] \in HonestCells(written)
      BY <1>2, <1>5, <2>1
    <2>3. QED
      BY <1>4, <1>6, <2>2
  <1>8. CASE LoadFails(l, loaded)
    <2> DEFINE t == TextEnd(l)
               n == t - H
               k == r.pos \div N
    <2>1. cache = Shown(l) \o RestOf(l)
      <3>1. loaded.reader = [l EXCEPT !.cache = Shown(l) \o RestOf(l)]
        <4> HIDE DEF l, loaded
        <4>1. QED
          BY <1>8 DEF LoadFails
      <3> HIDE DEF l, loaded
      <3>2. QED
        BY <1>2, <3>1 DEF Readers
    <2>2. /\ t \in Nat /\ t \in H..Len(l.cache)
          /\ TextOf(l) \in Seq(HonestCells(written)) /\ Len(TextOf(l)) = n
          /\ \A i \in 1..n : TextOf(l)[i] = l.cache[H + i]
          /\ RestOf(l) \in Seq(HonestCells(written))
          /\ Shown(l) \in Seq(ShownCell) /\ Len(Shown(l)) = t
          /\ \A i \in 1..n : Shown(l)[H + i] = Decrypt(NonceOf(l), TextOf(l))[i]
      BY <1>1, <1>2, <1>8, PiecesOf DEF LoadFails
    <2>3. RestOf(l) \in Seq(ShownCell) /\ Len(RestOf(l)) \in Nat
      BY <2>2, HonestShown
    <2> HIDE DEF l, cache, t
    <2>4. CASE t = H
      <3>1. Len(cache) = H + Len(RestOf(l))
            /\ (1 <= Len(RestOf(l)) => cache[H + 1] = RestOf(l)[1])
        <4> DEFINE a == Shown(l)
                   z == RestOf(l)
        <4>1. a \in Seq(ShownCell) /\ z \in Seq(ShownCell) /\ Len(a) = H /\ cache = a \o z
          BY <2>1, <2>2, <2>3, <2>4
        <4> HIDE DEF a, z
        <4>2. Len(a \o z) = Len(a) + Len(z)
          BY <4>1, ConcatType
        <4>6. \A q \in 1..Len(z) : (a \o z)[Len(a) + q] = z[q]
          BY <4>1, ConcatAt
        <4>3. Len(z) \in Nat
          BY <4>1
        <4>4. Len(cache) = H + Len(z) /\ (1 <= Len(z) => cache[H + 1] = z[1])
          BY <4>1, <4>2, <4>3, <4>6
        <4>5. QED
          BY <4>4 DEF z
      <3>2. 1 <= Len(RestOf(l))
        BY <1>5, <2>3, <3>1
      <3>3. RestOf(l)[1] \in HonestCells(written)
        BY <2>2, <2>3, <3>2
      <3>4. QED
        BY <1>4, <1>6, <3>1, <3>2, <3>3
    <2>5. CASE t # H
      <3>1. n \in Nat /\ 1 \in 1..n /\ H + 1 \in 1..t /\ H + 1 \in 1..Len(l.cache)
        BY <1>2, <1>5, <2>2, <2>5
      <3>2. cache[H + 1] = Shown(l)[H + 1]
        BY <2>1, <2>2, <2>3, <3>1, ConcatAt
      <3>3. Shown(l)[H + 1] = Decrypt(NonceOf(l), TextOf(l))[1] /\ TextOf(l)[1] = l.cache[H + 1]
        BY <2>2, <3>1
      <3>4. k \in Nat /\ NonceOf(l) = k + 1 /\ k * N <= r.pos /\ k * N \in Nat
            /\ Start(k + 1) = k * N
        <4>1. N \in Nat \ {0}
          BY Dimensions
        <4>2. NonceOf(l) = k + 1
          BY <1>2 DEF NonceOf, FIRST_DATA_CHUNK_NUMBER, N
        <4> HIDE DEF N
        <4>3. k \in Nat /\ r.pos % N \in 0..N - 1 /\ r.pos = k * N + (r.pos % N)
          BY <1>2, <4>1, DivisionExists
        <4> HIDE DEF k
        <4>4. k * N \in Nat /\ Start(k + 1) = k * N
          BY <4>3, StartIs
        <4>5. k * N <= r.pos
          BY <1>2, <4>1, <4>3, <4>4
        <4>6. QED
          BY <4>2, <4>3, <4>4, <4>5
      <3> HIDE DEF k
      <3> SUFFICES ASSUME cache[H + 1] = Plain(r.pos + H + 1) PROVE FALSE
        OBVIOUS
      <3> DEFINE byte == r.pos + H + 1
                 p == Base(j) + (H + 1)
      <3>5. TextOf(l)[1] = Cipher(k + 1, 1, byte)
        BY <2>2, <3>1, <3>2, <3>3, <3>4, DecryptShown
      <3>6. p \in 1..Len(r.src) /\ r.src[p] = Cipher(k + 1, 1, byte)
        <4>1. H + 1 \in 1..Len(r.next)
          BY <1>2, <3>1
        <4>2. p \in 1..Len(r.src) /\ r.next[H + 1] = r.src[p]
          BY <1>1, <4>1, NextCells
        <4>3. QED
          BY <1>2, <3>3, <3>5, <4>2
      <3> HIDE DEF byte, p
      <3>7. p \in 1..Len(out) /\ out[p] = Cipher(k + 1, 1, byte)
        <4>1. r.src[p].kind # "changed"
          BY <3>6 DEF Cipher
        <4>2. QED
          BY <3>6, <4>1, SourceCell
      <3>8. byte <= Start(k + 1) + 1
        BY <1>1, <3>7, CipherByte
      <3> DEFINE a == k * N
      <3>9. byte <= a + 1 /\ a <= r.pos /\ a \in Nat
        BY <3>4, <3>8
      <3> HIDE DEF a
      <3>10. QED
        BY <1>2, <1>5, <3>9 DEF byte
    <2>6. QED
      BY <2>4, <2>5
  <1>9. QED
    BY <1>3, <1>7, <1>8

\* Two sequences with the same cells.
LEMMA SameSequence ==
    ASSUME NEW S, NEW R, NEW s \in Seq(S), NEW t \in Seq(R), Len(s) = Len(t),
           \A i \in 1..Len(s) : s[i] = t[i]
    PROVE  s = t
  OBVIOUS

\* The cells of chunk j of an undamaged stream, in the cache.
LEMMA IntactCells ==
    ASSUME WholeStream, NEW place, NEW r \in Readers(written), SourceOf(r.src, place),
           place = 0,
           NEW j \in 0..LastChunk, NextIs(r, j)
    PROVE  LET n == PlainIn(j, LastChunk, LastSize)
           IN  /\ ChunkLength(n) <= Len(r.next)
               /\ \A o \in 1..ChunkLength(n) : r.next[o] = ChunkCell(j, o, n)
               /\ j < LastChunk => Len(r.next) = M0_CHUNK_SIZE
  <1> DEFINE K == LastChunk
             f == LastSize
             n == PlainIn(j, K, f)
             e == ChunkLength(n)
             b == Base(j)
             c == Base(K)
             d == DataEnd(K, f)
             m == M0_CHUNK_SIZE
             len == Len(r.src)
  <1>1. /\ written \in Nat /\ K \in Nat /\ f \in 0..N /\ Sealed(out, K, f) /\ j \in Nat
        /\ Len(out) = d + TailSize /\ out \in Seq(HonestCells(written))
    BY SealedNow
  <1>2. n \in Nat /\ e \in Nat /\ e <= m /\ (j < K => e = m) /\ (j = K => n = f)
    BY <1>1, PlainInFacts
  <1>3. b \in Nat /\ c \in Nat /\ Base(j + 1) = b + m /\ (j < K => b + m <= c)
    BY <1>1, BaseFacts
  <1>4. d \in Nat /\ d = c + CHUNK_HEAD_SIZE + f + TAG_LENGTH
    BY <1>1, DataEndFacts
  <1>5. len = Len(out) - 1 /\ \A p \in 1..len : r.src[p] = out[p]
    BY DEF SourceOf
  <1>6. d <= len /\ len \in Nat
    <2>1. len = Len(out) - 1 /\ Len(out) = d + TailSize /\ d \in Nat
      BY <1>1, <1>4, <1>5
    <2> HIDE DEF len, d
    <2>2. TailSize \in Nat /\ TailSize >= 1
      BY Dimensions
    <2>3. QED
      BY <2>1, <2>2
  <1>7. b + e <= d
    <2>1. j < K \/ j = K
      BY <1>1
    <2>2. j = K => b = c /\ e = CHUNK_HEAD_SIZE + f + TAG_LENGTH
      BY <1>2 DEF ChunkLength
    <2>3. CHUNK_HEAD_SIZE \in Nat /\ TAG_LENGTH \in Nat /\ f \in Nat /\ m \in Nat
      BY <1>1, Dimensions
    <2> HIDE DEF b, c, d, e, m, f, K, n
    <2>4. QED
      BY <1>2, <1>3, <1>4, <2>1, <2>2, <2>3
  <1>8. Chunks(out, d, K, f)
    BY <1>1 DEF Sealed
  <1>9. /\ r.inner = Least(b + m, len) /\ r.next = SubSeq(r.src, b + 1, r.inner)
        /\ Len(r.next) = IF b <= r.inner THEN r.inner - b ELSE 0
        /\ \A i \in 1..Len(r.next) : r.next[i] = r.src[b + i]
    <2>1. r.inner = Least(b + m, len) /\ r.next = SubSeq(r.src, b + 1, r.inner)
      BY <1>3 DEF NextIs
    <2>2. /\ Len(r.next) = IF b <= r.inner THEN r.inner - b ELSE 0
          /\ \A i \in 1..Len(r.next) : r.next[i] = r.src[b + i]
      BY <1>1, NextCells
    <2> HIDE DEF b, m, len
    <2>3. QED
      BY <2>1, <2>2
  <1>10. m \in Nat
    BY Dimensions
  <1>11. e <= Len(r.next) /\ (j < K => Len(r.next) = m)
    <2>1. /\ r.inner = Least(b + m, len)
          /\ Len(r.next) = IF b <= r.inner THEN r.inner - b ELSE 0
      BY <1>9
    <2> DEFINE to == r.inner
               size == Len(r.next)
    <2>2. to = Least(b + m, len) /\ size = IF b <= to THEN to - b ELSE 0
      BY <2>1
    <2> HIDE DEF b, c, d, e, m, K, len, to, size
    <2>3. to \in Nat /\ b + e <= to /\ (j < K => to = b + m)
      BY <1>2, <1>3, <1>4, <1>6, <1>7, <1>10, <2>2 DEF Least
    <2>4. size = to - b
      BY <1>2, <1>3, <2>2, <2>3
    <2>5. e <= size /\ (j < K => size = m)
      BY <1>2, <1>3, <1>10, <2>3, <2>4
    <2>6. QED
      BY <2>5 DEF size
  <1>12. ASSUME NEW o \in 1..e PROVE r.next[o] = ChunkCell(j, o, n)
    <2>1. Len(r.next) \in Nat
      BY <1>1 DEF Readers
    <2>2. o \in 1..Len(r.next) /\ o \in 1..m /\ b + o <= d /\ b + o \in 1..len
      <3> HIDE DEF b, d, e, m, len
      <3>1. QED
        BY <1>2, <1>3, <1>4, <1>6, <1>7, <1>10, <1>11, <1>12, <2>1
    <2>3. r.next[o] = out[b + o]
      BY <1>5, <1>9, <2>2
    <2>4. j \in 0..K
      OBVIOUS
    <2>5. out[Base(j) + o] = ChunkCell(j, o, PlainIn(j, K, f))
      BY <1>8, <2>2, <2>4 DEF Chunks
    <2>6. QED
      BY <2>3, <2>5
  <1>13. QED
    BY <1>11, <1>12

\* The end of the tag of chunk j.
LEMMA IntactEnd ==
    ASSUME WholeStream, NEW place, NEW r \in Readers(written), SourceOf(r.src, place),
           place = 0,
           r.size = written, NEW j \in 0..LastChunk, NextIs(r, j), r.pos = j * N
    PROVE  Ends(Exchanged(r)) = {ChunkLength(PlainIn(j, LastChunk, LastSize))}
  <1> DEFINE l == Exchanged(r)
             K == LastChunk
             f == LastSize
             n == PlainIn(j, K, f)
             a == K * N
  <1>1. /\ written \in Nat /\ K \in Nat /\ f \in 0..N /\ f \in Nat /\ a \in Nat
        /\ written = a + f /\ LastDataChunkNumber(written) = K /\ j \in Nat
        /\ Len(out) = DataEnd(K, f) + TailSize
    BY SealedNow
  <1>2. /\ l \in Readers(written) /\ l.pos = j * N /\ l.size = written /\ l.cache = r.next
        /\ l.src = r.src /\ NextIs(l, j + 1)
    BY <1>1, ExchangedFacts, ExchangedAlso, NextKept
  <1>3. AtLeastInLastDataChunk(l) <=> j * N >= a
    BY <1>1, <1>2 DEF AtLeastInLastDataChunk, N
  <1>4. CASE j = K
    <2>1. j * N = a /\ n = f
      BY <1>1, <1>4, PlainInFacts
    <2>2. AtLeastInLastDataChunk(l)
      BY <1>1, <1>3, <2>1
    <2>3. Ends(l) = {EndOfLastTag(l)}
      BY <2>2 DEF Ends, EndOfTag
    <2>4. EndOfLastTag(l) = Greatest(written - a, 0) + TAG_LENGTH + CHUNK_HEAD_SIZE
      BY <1>2, <2>1 DEF EndOfLastTag
    <2> HIDE DEF a
    <2>5. Greatest(written - a, 0) = f
      BY <1>1 DEF Greatest
    <2>6. EndOfLastTag(l) = ChunkLength(n)
      BY <1>1, <2>1, <2>4, <2>5, Dimensions DEF ChunkLength
    <2>7. QED
      BY <2>3, <2>6
  <1>5. CASE j < K
    <2>1. j * N + N <= a /\ j * N \in Nat /\ N \in Nat \ {0}
      BY <1>1, <1>5, StartIs, Dimensions
    <2>2. ~AtLeastInLastDataChunk(l)
      <3> DEFINE d == j * N
      <3>1. d + N <= a /\ d \in Nat /\ (AtLeastInLastDataChunk(l) <=> d >= a)
        BY <1>3, <2>1
      <3> HIDE DEF a, d
      <3>2. QED
        BY <1>1, <2>1, <3>1
    <2>3. Len(l.cache) = M0_CHUNK_SIZE
      BY <1>2, <1>5, IntactCells
    <2>4. Len(l.next) > FINAL_INFO_SIZE
      <3> DEFINE b == Base(j + 1)
                 c == Base(K)
                 m == M0_CHUNK_SIZE
                 len == Len(r.src)
                 to == l.inner
                 size == Len(l.next)
      <3>1. j + 1 \in Nat /\ j + 1 <= K
        BY <1>1, <1>5
      <3>2. b \in Nat /\ c \in Nat /\ Base((j + 1) + 1) = b + m /\ b <= c
        <4>1. b \in Nat /\ c \in Nat /\ Base((j + 1) + 1) = b + m /\ m \in Nat
          BY <1>1, <3>1, BaseFacts, Dimensions
        <4>2. j + 1 < K => b + m <= c
          BY <1>1, <3>1, BaseFacts
        <4>3. j + 1 = K => b = c
          OBVIOUS
        <4> HIDE DEF b, c, m
        <4>4. QED
          BY <1>1, <3>1, <4>1, <4>2, <4>3
      <3>3. /\ to = Least(b + m, len)
            /\ size = IF b <= to THEN to - b ELSE 0
        BY <1>1, <1>2, <3>1, <3>2, NextCells DEF NextIs
      <3>4. len = (DataEnd(K, f) + TailSize) - 1
        BY <1>1 DEF SourceOf
      <3>5. DataEnd(K, f) = c + CHUNK_HEAD_SIZE + f + TAG_LENGTH
        BY <1>1, DataEndFacts
      <3>6. m \in Nat /\ FINAL_INFO_SIZE \in Nat /\ FINAL_INFO_SIZE < m
            /\ FINAL_INFO_SIZE = MAGIC_LENGTH + 1 + TAG_LENGTH
        BY Dimensions DEF FINAL_INFO_SIZE, FINAL_INFO_SIZE_WOM
      <3> HIDE DEF b, c, m, len, to, size, K, f
      <3>7. len \in Nat /\ len > c + FINAL_INFO_SIZE
        BY <1>1, <3>2, <3>4, <3>5, <3>6, Dimensions
      <3>8. to \in Nat /\ to > b + FINAL_INFO_SIZE
        BY <3>2, <3>3, <3>6, <3>7 DEF Least
      <3>9. size > FINAL_INFO_SIZE
        BY <3>2, <3>3, <3>6, <3>8
      <3>10. QED
        BY <3>9 DEF size
    <2>5. Ends(l) = {M0_CHUNK_SIZE}
      BY <2>2, <2>3, <2>4 DEF Ends, EndOfTag, EndOfTagFailSafe
    <2>6. ChunkLength(n) = M0_CHUNK_SIZE
      BY <1>1, <1>5, PlainInFacts
    <2>7. QED
      BY <2>5, <2>6
  <1>6. j = K \/ j < K
    BY <1>1
  <1>7. QED
    BY <1>4, <1>5, <1>6

\* A chunk of data of an unplaced stream is delivered.
LEMMA LoadIntact ==
    ASSUME WholeStream, NEW place, NEW r \in Readers(written), SourceOf(r.src, place),
           place = 0,
           r.size = written, NEW j \in Nat, NextIs(r, j), r.pos = j * N, r.pos < written
    PROVE  LoadInCache("indexed", r).outcome = "some"
  <1> DEFINE l == Exchanged(r)
             K == LastChunk
             f == LastSize
             n == PlainIn(j, K, f)
             e == ChunkLength(n)
             H == CHUNK_HEAD_SIZE
             T == TAG_LENGTH
             loaded == LoadInCache("indexed", r)
  <1>1. /\ written \in Nat /\ K \in Nat /\ f \in 0..N /\ f \in Nat /\ K * N \in Nat
        /\ written = K * N + f
    BY SealedNow
  <1>2. j \in 0..K
    <2>1. K < j => K * N + N <= j * N
      BY <1>1, StartIs
    <2>2. j * N \in Nat /\ N \in Nat
      BY StartIs, Dimensions
    <2> DEFINE a == K * N
               d == j * N
    <2>3. (K < j => a + N <= d) /\ a \in Nat /\ d \in Nat /\ d < a + f /\ f <= N
      BY <1>1, <2>1, <2>2
    <2> HIDE DEF a, d
    <2>4. ~(K < j)
      BY <1>1, <2>2, <2>3
    <2>5. QED
      BY <1>1, <2>4
  <1>3. /\ l \in Readers(written) /\ l.pos = r.pos /\ l.size = written /\ l.cache = r.next
        /\ l.cache \in Seq(HonestCells(written)) /\ r.pos \in Nat
    BY <1>1, ExchangedFacts, ExchangedAlso DEF Readers
  <1>4. e <= Len(l.cache) /\ \A o \in 1..e : l.cache[o] = ChunkCell(j, o, n)
    BY <1>2, <1>3, IntactCells
  <1>5. Ends(l) = {e}
    BY <1>2, IntactEnd
  <1>6. /\ n \in Nat /\ H \in Nat \ {0} /\ T \in Nat \ {0} /\ e = H + n + T
    BY <1>1, <1>2, PlainInFacts, Dimensions DEF ChunkLength
  <1> HIDE DEF l, n, e
  <1>7. TagEnd(l) = e
    BY <1>5 DEF TagEnd
  <1>8. TextEnd(l) = H + n
    BY <1>6, <1>7 DEF TextEnd, Greatest
  <1>9. TextEnd(l) \in H..Len(l.cache) /\ TextEnd(l) # 0 /\ Ends(l) # {} /\ Len(l.cache) \in Nat
    BY <1>3, <1>4, <1>5, <1>6, <1>8
  <1>10. ~Exhausted(l)
    BY <1>1, <1>3 DEF Exhausted
  <1>11. /\ TextOf(l) \in Seq(HonestCells(written)) /\ Len(TextOf(l)) = TextEnd(l) - H
         /\ \A i \in 1..TextEnd(l) - H : TextOf(l)[i] = l.cache[H + i]
         /\ RestOf(l) \in Seq(HonestCells(written))
         /\ Len(RestOf(l)) = Len(l.cache) - TextEnd(l)
         /\ \A i \in 1..Len(l.cache) - TextEnd(l) : RestOf(l)[i] = l.cache[TextEnd(l) + i]
    BY <1>1, <1>3, <1>9, PiecesOf
  <1>12. NonceOf(l) = j + 1 /\ j + 1 \in Nat \ {0}
    <2>1. N \in Nat \ {0} /\ 0 \in 0..N - 1
      BY Dimensions
    <2>2. NonceOf(l) = ((j * N) \div N) + 1
      BY <1>3 DEF NonceOf, FIRST_DATA_CHUNK_NUMBER, N
    <2> HIDE DEF N
    <2>3. (j * N + 0) \div N = j
      BY <2>1, DivisionIs
    <2>4. j * N + 0 = j * N
      BY <2>1
    <2>5. QED
      BY <2>2, <2>3, <2>4
  <1>13. TextOf(l) = Text(j + 1, n)
    <2>1. TextEnd(l) - H = n
      BY <1>6, <1>8
    <2>2. /\ Text(j + 1, n) \in Seq(CipherCell) /\ Len(Text(j + 1, n)) = n
          /\ \A i \in 1..n : Text(j + 1, n)[i] = Cipher(j + 1, i, Start(j + 1) + i)
      BY <1>6, <1>12, TextFacts
    <2>3. ASSUME NEW i \in 1..n PROVE TextOf(l)[i] = Cipher(j + 1, i, Start(j + 1) + i)
      <3>1. H + i \in 1..e /\ ~(H + i <= H) /\ H + i <= H + n /\ (H + i) - H = i
        BY <1>6
      <3>2. ChunkCell(j, H + i, n) = Cipher(j + 1, i, Start(j + 1) + i)
        BY <3>1 DEF ChunkCell
      <3>3. QED
        BY <1>4, <1>11, <2>1, <3>1, <3>2
    <2>4. \A i \in 1..Len(TextOf(l)) : TextOf(l)[i] = Text(j + 1, n)[i]
      BY <1>11, <2>1, <2>2, <2>3
    <2>5. TextOf(l) \in Seq(HonestCells(written)) /\ Len(TextOf(l)) = Len(Text(j + 1, n))
      BY <1>11, <2>1, <2>2
    <2>6. QED
      BY <2>2, <2>4, <2>5, SameSequence
  <1>14. TagOf(l) = Tag(j + 1, ASSOCIATED_DATA, Text(j + 1, n))
    <2> DEFINE rest == RestOf(l)
               tag == Tag(j + 1, ASSOCIATED_DATA, Text(j + 1, n))
               len == Len(l.cache)
    <2>1. rest \in Seq(HonestCells(written)) /\ Len(rest) = len - (H + n) /\ Len(rest) \in Nat
      BY <1>8, <1>11
    <2>2. TagEnd(l) - TextEnd(l) = T /\ T <= Len(rest)
      <3>1. Len(rest) = len - (H + n) /\ e <= len /\ len \in Nat
        BY <1>4, <1>9, <2>1
      <3> HIDE DEF rest, len, H, T
      <3>2. T <= Len(rest)
        BY <1>6, <3>1
      <3>3. e - (H + n) = T
        BY <1>6
      <3>4. QED
        BY <1>7, <1>8, <3>2, <3>3
    <2>3. Least(TagEnd(l) - TextEnd(l), Len(rest)) = T
      BY <1>6, <2>1, <2>2 DEF Least
    <2>4. TagOf(l) = SubSeq(rest, 1, T)
      BY <2>3 DEF TagOf
    <2>5. ASSUME NEW i \in 1..T
          PROVE  rest[i] = TagCell(j + 1, ASSOCIATED_DATA, Text(j + 1, n), i)
      <3> DEFINE o == (H + n) + i
      <3>1. /\ o \in 1..e /\ ~(o <= H) /\ ~(o <= H + n) /\ o - H - n = i
            /\ i \in 1..len - (H + n)
        <4>1. Len(rest) = len - (H + n) /\ i \in 1..Len(rest)
          <5>1. Len(rest) = len - (H + n) /\ Len(rest) \in Nat /\ T <= Len(rest) /\ T \in Nat
            BY <1>6, <2>1, <2>2
          <5> HIDE DEF rest, T, len
          <5>2. i \in 1..Len(rest)
            BY <2>5, <5>1
          <5>3. QED
            BY <5>1, <5>2
        <4>2. o \in 1..e /\ ~(o <= H) /\ ~(o <= H + n) /\ o - H - n = i
          BY <1>6, <2>5
        <4>3. QED
          BY <4>1, <4>2
      <3>2. ChunkCell(j, o, n) = TagCell(j + 1, ASSOCIATED_DATA, Text(j + 1, n), i)
        <4> HIDE DEF o
        <4>1. QED
          BY <3>1 DEF ChunkCell
      <3>3. rest[i] = l.cache[o]
        BY <1>8, <1>11, <3>1
      <3>4. QED
        BY <1>4, <3>1, <3>2, <3>3
    <2>6. tag = [i \in 1..T |-> TagCell(j + 1, ASSOCIATED_DATA, Text(j + 1, n), i)]
      BY DEF Tag, TagCell
    <2> HIDE DEF rest
    <2>7. 0 + T = T /\ 0 + 1 = 1 /\ 0 + T <= Len(rest) /\ T \in Nat
      BY <1>6, <2>2
    <2>8. /\ SubSeq(rest, 1, T) \in Seq(HonestCells(written)) /\ Len(SubSeq(rest, 1, T)) = T
          /\ \A i \in 1..T : SubSeq(rest, 1, T)[i] = rest[i]
      BY <2>1, <2>7
    <2> DEFINE sub == SubSeq(rest, 1, T)
    <2>9. sub \in Seq(HonestCells(written)) /\ Len(sub) = T
          /\ \A i \in 1..T : sub[i] = TagCell(j + 1, ASSOCIATED_DATA, Text(j + 1, n), i)
      BY <2>5, <2>8
    <2> HIDE DEF sub, T
    <2>10. sub = [i \in 1..T |-> TagCell(j + 1, ASSOCIATED_DATA, Text(j + 1, n), i)]
      BY <1>6, <2>9
    <2>11. QED
      BY <2>4, <2>6, <2>10 DEF sub
  <1>15. Checked(l)
    BY <1>12, <1>13, <1>14 DEF Checked, Verified
  <1>16. \/ LoadEnds(l, loaded) \/ LoadRefuses(l, loaded)
         \/ LoadFails(l, loaded) \/ LoadDelivers(l, loaded)
    BY LoadCases DEF l
  <1> HIDE DEF loaded
  <1>17. LoadDelivers(l, loaded)
    BY <1>9, <1>10, <1>15, <1>16 DEF LoadEnds, LoadRefuses, LoadFails
  <1>18. loaded.outcome = "some"
    BY <1>17 DEF LoadDelivers
  <1>19. QED
    BY <1>18 DEF loaded

-----------------------------------------------------------------------------
(***************************************************************************)
(* The reader stays in step, is beyond the end, or astray.                 *)
(***************************************************************************)
Placed(r, place) == Synced(r) \/ Past(r) \/ (place # 0 /\ Astray(r))
Fit(r, place) == r \in Readers(written) /\ SourceOf(r.src, place) /\ r.size = written

LEMMA LoadPlaced ==
    ASSUME WholeStream, NEW place, NEW r, Fit(r, place), NEW j \in Nat, NextIs(r, j),
           r.pos >= j * N,
           r.pos = j * N \/ place # 0
    PROVE  LET loaded == LoadInCache("indexed", r)
               x == loaded.reader
           IN  /\ loaded.outcome \in {"none", "error", "some"}
               /\ Fit(x, place) /\ x.src = r.src /\ x.pos = r.pos /\ NextIs(x, j + 1)
               /\ x.at = IF loaded.outcome = "some" THEN CHUNK_HEAD_SIZE ELSE 0
               /\ loaded.outcome = "some" =>
                     r.pos < written /\ r.pos \div N = j /\ j \in 0..LastChunk /\ Exact(x.cache, j)
               /\ loaded.outcome = "none" => r.pos >= written
               /\ loaded.outcome = "error" => place # 0 /\ Astray(x)
  <1> DEFINE loaded == LoadInCache("indexed", r)
             x == loaded.reader
             H == CHUNK_HEAD_SIZE
  <1>1. /\ r \in Readers(written) /\ SourceOf(r.src, place) /\ r.size = written
        /\ written \in Nat
        /\ r.pos \in Nat
    BY SealedNow DEF Fit, Readers
  <1>2. /\ loaded.outcome \in {"none", "error", "some"}
        /\ x \in Readers(written) /\ x.src = r.src /\ x.size = r.size /\ x.pos = r.pos
        /\ x.inner = Exchanged(r).inner /\ x.next = Exchanged(r).next
        /\ x.at = IF loaded.outcome = "some" THEN H ELSE 0
    BY <1>1, LoadKeeps
  <1>3. Fit(x, place)
    BY <1>1, <1>2 DEF Fit
  <1>4. NextIs(x, j + 1)
    <2>1. NextIs(Exchanged(r), j + 1) /\ Exchanged(r).src = r.src
      BY <1>1, NextKept, ExchangedFacts
    <2>2. QED
      BY <1>2, <2>1 DEF NextIs
  <1>5. loaded.outcome = "some" =>
            r.pos < written /\ r.pos \div N = j /\ j \in 0..LastChunk /\ Exact(x.cache, j)
    BY <1>1, LoadExact
  <1>6. loaded.outcome = "none" => r.pos >= written
    BY <1>1, NoneIsEnd
  <1>7. ASSUME loaded.outcome = "error" PROVE place # 0 /\ Astray(x)
    <2>1. place # 0
      <3> SUFFICES ASSUME place = 0 PROVE FALSE
        OBVIOUS
      <3>1. r.pos = j * N
        OBVIOUS
      <3>2. r.pos >= written => loaded.outcome = "none"
        BY <1>1, LoadPast
      <3>3. r.pos < written => loaded.outcome = "some"
        BY <1>1, <3>1, LoadIntact
      <3>4. r.pos >= written \/ r.pos < written
        BY <1>1
      <3> HIDE DEF loaded
      <3>5. QED
        BY <1>7, <3>2, <3>3, <3>4
    <2>2. Len(x.cache) > H => x.cache[H + 1] # Plain(r.pos + H + 1)
      BY <1>1, <1>7, ErrorCache
    <2>3. x.at = 0 /\ H \in Nat \ {0} /\ j * N \in Nat
      BY <1>2, <1>7, StartIs, Dimensions
    <2> HIDE DEF x, loaded
    <2>4. From(x) = r.pos + H
      BY <1>1, <1>2, <2>3 DEF From
    <2>5. From(x) > j * N
      <3> DEFINE d == j * N
      <3>1. d \in Nat /\ r.pos >= d
        BY <2>3
      <3> HIDE DEF d
      <3>2. From(x) > d
        BY <1>1, <2>3, <2>4, <3>1
      <3>3. QED
        BY <3>2 DEF d
    <2>6. Astray(x)
      BY <1>4, <2>2, <2>4, <2>5 DEF Astray
    <2>7. QED
      BY <2>1, <2>6
  <1> HIDE DEF loaded, x
  <1>8. QED
    BY <1>2, <1>3, <1>4, <1>5, <1>6, <1>7 DEF loaded, x

\* Places that are counted in chunks.
LEMMA ChunkOf ==
    ASSUME NEW j \in Nat, NEW a \in Nat
    PROVE  /\ a = j * N => a \div N = j
           /\ a \div N = j => j * N <= a /\ a < j * N + N /\ (a # j * N => a > j * N)
  <1>1. N \in Nat \ {0} /\ 0 \in 0..N - 1
    BY Dimensions
  <1> HIDE DEF N
  <1>2. (j * N + 0) \div N = j /\ j * N + 0 = j * N
    BY <1>1, DivisionIs
  <1>3. a % N \in 0..N - 1 /\ a = (a \div N) * N + (a % N)
    BY <1>1, DivisionExists
  <1>4. ASSUME a \div N = j PROVE j * N <= a /\ a < j * N + N /\ (a # j * N => a > j * N)
    <2> DEFINE d == j * N
               e == a % N
    <2>1. d \in Nat /\ e \in 0..N - 1 /\ a = d + e
      <3>1. j * N \in Nat
        BY StartIs
      <3>2. a = j * N + (a % N)
        BY <1>3, <1>4
      <3>3. QED
        BY <1>3, <3>1, <3>2
    <2> HIDE DEF d, e
    <2>2. d <= a /\ a < d + N /\ (a # d => a > d)
      BY <1>1, <2>1
    <2>3. QED
      BY <2>2 DEF d
  <1>5. QED
    BY <1>2, <1>4

\* What a load of the next chunk leaves.
LEMMA LoadLeaves ==
    ASSUME WholeStream, NEW place, NEW r, Fit(r, place), NEW j \in Nat, NextIs(r, j),
           r.pos >= j * N,
           r.pos = j * N \/ place # 0
    PROVE  LET loaded == LoadInCache("indexed", r)
               x == loaded.reader
           IN  /\ Placed(x, place)
               /\ loaded.outcome = "some" /\ r.pos = j * N => Synced(x) /\ From(x) = j * N
               /\ loaded.outcome = "some" /\ r.pos # j * N => Astray(x)
  <1> DEFINE loaded == LoadInCache("indexed", r)
             x == loaded.reader
             H == CHUNK_HEAD_SIZE
             n == PlainIn(j, LastChunk, LastSize)
             d == j * N
  <1>1. /\ loaded.outcome \in {"none", "error", "some"}
        /\ Fit(x, place) /\ x.pos = r.pos /\ NextIs(x, j + 1)
        /\ x.at = IF loaded.outcome = "some" THEN H ELSE 0
        /\ loaded.outcome = "some" =>
              r.pos < written /\ r.pos \div N = j /\ j \in 0..LastChunk /\ Exact(x.cache, j)
        /\ loaded.outcome = "none" => r.pos >= written
        /\ loaded.outcome = "error" => place # 0 /\ Astray(x)
    BY LoadPlaced
  <1>2. r.pos \in Nat /\ written \in Nat /\ d \in Nat /\ H \in Nat \ {0} /\ N \in Nat
        /\ LastChunk \in Nat /\ LastSize \in 0..N
    BY SealedNow, StartIs, Dimensions DEF Fit, Readers
  <1> HIDE DEF loaded, x
  <1>3. CASE loaded.outcome = "none"
    <2>1. From(x) = r.pos + H
      BY <1>1, <1>2, <1>3 DEF From
    <2>2. Past(x)
      BY <1>1, <1>2, <1>3, <2>1 DEF Past
    <2>3. QED
      BY <1>3, <2>2 DEF Placed, loaded, x
  <1>4. CASE loaded.outcome = "error"
    BY <1>1, <1>4 DEF Placed, loaded, x
  <1>5. CASE loaded.outcome = "some"
    <2>1. From(x) = r.pos /\ x.at = H
      BY <1>1, <1>2, <1>5 DEF From
    <2>2. r.pos < written /\ r.pos \div N = j /\ j \in 0..LastChunk /\ Exact(x.cache, j)
      BY <1>1, <1>5
    <2>3. ASSUME r.pos = d PROVE Synced(x) /\ From(x) = d
      <3>1. x.at \in H .. H + N
        BY <1>2, <2>1
      <3>2. QED
        BY <1>1, <2>1, <2>2, <2>3, <3>1 DEF Synced
    <2>4. ASSUME r.pos # d PROVE Astray(x)
      <3>1. r.pos > d
        BY <1>2, <2>2, <2>4, ChunkOf
      <3>2. n \in Nat
        BY <1>2, <2>2, PlainInFacts
      <3>3. Len(x.cache) = H + n /\ \A i \in 1..n : x.cache[H + i] = Plain(d + i)
        BY <2>2 DEF Exact
      <3> HIDE DEF n, d
      <3>4. ASSUME Len(x.cache) > H PROVE x.cache[H + 1] # Plain(From(x) + 1)
        <4>1. 1 \in 1..n
          BY <1>2, <3>2, <3>3, <3>4
        <4>2. x.cache[H + 1] = Plain(d + 1)
          BY <3>3, <4>1
        <4>3. d + 1 # From(x) + 1
          BY <1>2, <2>1, <3>1
        <4>4. QED
          BY <4>2, <4>3 DEF Plain
      <3>5. QED
        BY <1>1, <2>1, <3>1, <3>4 DEF Astray, d
    <2>5. place # 0 \/ r.pos = d
      OBVIOUS
    <2>6. QED
      BY <1>5, <2>3, <2>4, <2>5 DEF Placed, loaded, x
  <1>6. QED
    BY <1>1, <1>3, <1>4, <1>5

-----------------------------------------------------------------------------
(***************************************************************************)
(* Reading.                                                                *)
(***************************************************************************)
LEMMA ChunkBefore ==
    ASSUME WholeStream, NEW k \in Nat, k * N < written
    PROVE  LET n == PlainIn(k, LastChunk, LastSize)
           IN  /\ k \in 0..LastChunk /\ k * N \in Nat /\ n \in 0..N /\ n \in Nat
               /\ k * N + n <= written /\ (k * N + n = written \/ n = N)
               /\ n > 0
               /\ Base(k) <= Len(out) - 1
  <1> DEFINE K == LastChunk
             f == LastSize
             n == PlainIn(k, K, f)
             a == K * N
             d == k * N
  <1>1. /\ written \in Nat /\ K \in Nat /\ f \in 0..N /\ f \in Nat /\ a \in Nat
        /\ written = a + f /\ Len(out) = DataEnd(K, f) + TailSize
    BY SealedNow
  <1>2. d \in Nat /\ N \in Nat \ {0} /\ (K < k => a + N <= d) /\ (k < K => d + N <= a)
    BY <1>1, StartIs, Dimensions
  <1>3. d < written
    OBVIOUS
  <1>4. k \in 0..K
    <2> HIDE DEF a, d
    <2>1. ~(K < k)
      BY <1>1, <1>2, <1>3
    <2>2. QED
      BY <1>1, <2>1
  <1>5. n \in 0..N /\ n \in Nat /\ (k < K => n = N) /\ (k = K => n = f /\ d = a)
    BY <1>1, <1>4, PlainInFacts DEF PlainIn
  <1>6. k < K \/ k = K
    BY <1>1, <1>4
  <1>7. d + n <= written /\ (d + n = written \/ n = N) /\ n > 0
    <2> HIDE DEF a, d, n
    <2>1. QED
      BY <1>1, <1>2, <1>3, <1>5, <1>6
  <1>8. Base(k) <= Len(out) - 1
    <2> DEFINE b == Base(k)
               c == Base(K)
    <2>1. b \in Nat /\ c \in Nat /\ (k < K => b + M0_CHUNK_SIZE <= c) /\ M0_CHUNK_SIZE \in Nat
      BY <1>1, BaseFacts, Dimensions
    <2>2. DataEnd(K, f) = c + CHUNK_HEAD_SIZE + f + TAG_LENGTH
      BY <1>1, DataEndFacts
    <2>3. k = K => b = c
      OBVIOUS
    <2>4. CHUNK_HEAD_SIZE \in Nat /\ TAG_LENGTH \in Nat /\ TailSize \in Nat /\ TailSize >= 1
      BY Dimensions
    <2> HIDE DEF b, c
    <2>5. b <= Len(out) - 1
      BY <1>1, <1>6, <2>1, <2>2, <2>3, <2>4
    <2>6. QED
      BY <2>5 DEF b
  <1>9. QED
    BY <1>2, <1>4, <1>5, <1>7, <1>8

LEMMA PassedPlace ==
    ASSUME NEW x \in Readers(written), NEW count \in Nat
    PROVE  /\ Passed(x, count).src = x.src /\ Passed(x, count).size = x.size
           /\ Passed(x, count).cache = x.cache
           /\ Passed(x, count).at = x.at + count /\ Passed(x, count).pos = x.pos + count
           /\ Passed(x, count) \in Readers(written)
           /\ From(Passed(x, count)) = From(x)
           /\ \A j : NextIs(Passed(x, count), j) <=> NextIs(x, j)
           /\ Past(Passed(x, count)) <=> Past(x)
           /\ Astray(Passed(x, count)) <=> Astray(x)
  <1> DEFINE y == Passed(x, count)
  <1>1. /\ y = [src |-> x.src, inner |-> x.inner, cache |-> x.cache, at |-> x.at + count,
                next |-> x.next, size |-> x.size, pos |-> x.pos + count]
    BY PassedIs
  <1>2. x.at \in Nat /\ x.pos \in Nat /\ x.at + count \in Nat /\ x.pos + count \in Nat
    BY DEF Readers
  <1>3. /\ y.src = x.src /\ y.size = x.size /\ y.cache = x.cache /\ y.at = x.at + count
        /\ y.pos = x.pos + count /\ y.inner = x.inner /\ y.next = x.next
    BY <1>1
  <1>4. y \in Readers(written)
    BY <1>1, <1>2 DEF Readers
  <1> HIDE DEF y
  <1>5. From(y) = From(x)
    BY <1>2, <1>3, Dimensions DEF From
  <1>6. \A j : NextIs(y, j) <=> NextIs(x, j)
    BY <1>3 DEF NextIs
  <1>7. (Past(y) <=> Past(x)) /\ (Astray(y) <=> Astray(x))
    BY <1>3, <1>5, <1>6 DEF Past, Astray
  <1>8. QED
    BY <1>3, <1>4, <1>5, <1>6, <1>7 DEF y

LEMMA CountIs ==
    ASSUME NEW x \in Readers(written), NEW size \in Nat
    PROVE  Least(size, Available(x)) \in 0..size /\ Available(x) \in Nat
  <1> DEFINE a == x.at
             len == Len(x.cache)
             full == NORMAL_CHUNK_PT_AND_TAG_SIZE
  <1>1. a \in Nat /\ len \in Nat /\ full \in Nat
    BY SizeFacts DEF Readers
  <1>2. Available(x) = Greatest(0, Least(full - a, len - a))
    BY DEF Available
  <1> HIDE DEF a, len, full
  <1>3. Available(x) \in Nat
    BY <1>1, <1>2 DEF Greatest, Least
  <1>4. QED
    BY <1>3 DEF Least

\* What a reader in step serves.
LEMMA SyncedData ==
    ASSUME WholeStream, NEW place, NEW x, Fit(x, place), Synced(x),
           x.at # NORMAL_CHUNK_PT_AND_TAG_SIZE,
           NEW size \in Nat, NEW count \in 0..size, count = Least(size, Available(x))
    PROVE  /\ x.pos \in Nat
           /\ count > 0 => x.pos + count <= written
           /\ count = 0 => size = 0 \/ x.pos >= written
           /\ SubSeq(x.cache, x.at + 1, x.at + count) = SubSeq(Plaintext, x.pos + 1, x.pos + count)
           /\ Synced(Passed(x, count))
  <1> DEFINE H == CHUNK_HEAD_SIZE
             at == x.at
             pos == x.pos
             s == x.cache
  <1>1. x \in Readers(written) /\ written \in Nat
    BY SealedNow DEF Fit
  <1>2. at \in Nat /\ pos \in Nat /\ s \in Seq(ShownCell)
    BY <1>1 DEF Readers
  <1>3. PICK k \in Nat : /\ NextIs(x, k + 1)
                         /\ From(x) = k * N /\ k * N < written
                         /\ at \in H .. H + N
                         /\ Exact(s, k)
    BY DEF Synced
  <1> DEFINE n == PlainIn(k, LastChunk, LastSize)
             d == k * N
  <1>4. /\ d \in Nat /\ n \in 0..N /\ n \in Nat /\ d + n <= written
        /\ (d + n = written \/ n = N)
    BY <1>3, ChunkBefore
  <1>5. Len(s) = H + n /\ \A i \in 1..n : s[H + i] = Plain(d + i)
    BY <1>3 DEF Exact
  <1>6. H \in Nat /\ N \in Nat /\ NORMAL_CHUNK_PT_AND_TAG_SIZE = H + N
    BY SizeFacts
  <1>7. pos - (at - H) = d /\ at \in H .. H + N /\ at # H + N
    BY <1>3, <1>6 DEF From
  <1>8. Available(x) = Greatest(0, Least((H + N) - at, (H + n) - at))
    BY <1>5, <1>6 DEF Available
  <1>9. Plaintext \in Seq(ShownCell) /\ Len(Plaintext) = written
        /\ \A i \in 1..written : Plaintext[i] = Plain(i)
    <2>1. Plaintext = Prefix(written)
      BY DEF Plaintext, Prefix
    <2>2. QED
      BY <1>1, <2>1, PrefixFacts
  <1> HIDE DEF n, d, at, pos, s, H
  <1>10. pos = d + (at - H) /\ at - H \in Nat
    BY <1>2, <1>4, <1>6, <1>7
  <1>11. /\ count > 0 => at + count <= H + n
         /\ count = 0 => size = 0 \/ at >= H + n
    BY <1>2, <1>4, <1>6, <1>7, <1>8 DEF Greatest, Least
  <1>12. count > 0 => pos + count <= d + n
    BY <1>2, <1>4, <1>6, <1>10, <1>11
  <1>13. count > 0 => pos + count <= written
    BY <1>1, <1>2, <1>4, <1>12
  <1>14. count = 0 => size = 0 \/ pos >= written
    <2> SUFFICES ASSUME count = 0, size # 0 PROVE pos >= written
      OBVIOUS
    <2>1. at >= H + n /\ n # N
      BY <1>2, <1>4, <1>6, <1>7, <1>11
    <2>2. d + n = written
      BY <1>4, <2>1
    <2>3. QED
      BY <1>2, <1>4, <1>6, <1>10, <2>1, <2>2
  <1>15. SubSeq(s, at + 1, at + count) = SubSeq(Plaintext, pos + 1, pos + count)
    <2>1. CASE count = 0
      <3>1. SubSeq(s, at + 1, at + count) = <<>>
        BY <1>2, <2>1
      <3>2. SubSeq(Plaintext, pos + 1, pos + count) = <<>>
        BY <1>2, <1>9, <2>1
      <3>3. QED
        BY <3>1, <3>2
    <2>2. CASE count > 0
      <3> DEFINE a == SubSeq(s, at + 1, at + count)
                 b == SubSeq(Plaintext, pos + 1, pos + count)
      <3>0. count \in Nat /\ at + count <= Len(s) /\ pos + count <= Len(Plaintext)
        BY <1>5, <1>9, <1>11, <1>13, <2>2
      <3>1. a \in Seq(ShownCell) /\ Len(a) = count /\ \A i \in 1..count : a[i] = s[at + i]
        <4>1. s \in Seq(ShownCell) /\ at \in Nat /\ count \in Nat /\ at + count <= Len(s)
          BY <1>2, <3>0
        <4>2. QED
          BY <4>1, PieceFacts
      <3>2. b \in Seq(ShownCell) /\ Len(b) = count
            /\ \A i \in 1..count : b[i] = Plaintext[pos + i]
        <4>1. /\ Plaintext \in Seq(ShownCell) /\ pos \in Nat /\ count \in Nat
              /\ pos + count <= Len(Plaintext)
          BY <1>2, <1>9, <3>0
        <4> HIDE DEF Plaintext
        <4>2. QED
          BY <4>1, PieceFacts
      <3>3. ASSUME NEW i \in 1..count PROVE s[at + i] = Plaintext[pos + i]
        <4> DEFINE q == (at - H) + i
        <4>1. at + i = H + q /\ q \in 1..n /\ pos + i = d + q /\ pos + i \in 1..written
          BY <1>1, <1>2, <1>4, <1>6, <1>10, <1>11, <1>13, <2>2
        <4> HIDE DEF q
        <4>2. s[H + q] = Plain(d + q)
          BY <1>5, <4>1
        <4>3. QED
          BY <1>9, <4>1, <4>2
      <3> HIDE DEF a, b
      <3>4. a = b
        BY <3>1, <3>2, <3>3, SameSequence
      <3>5. QED
        BY <3>4 DEF a, b
    <2>3. count = 0 \/ count > 0
      OBVIOUS
    <2>4. QED
      BY <2>1, <2>2, <2>3
  <1>16. Synced(Passed(x, count))
    <2>1. count \in Nat
      OBVIOUS
    <2>2. at + count \in H .. H + N
      BY <1>2, <1>4, <1>6, <1>7, <1>11
    <2>3. /\ From(Passed(x, count)) = From(x) /\ Passed(x, count).cache = s
          /\ Passed(x, count).at = at + count /\ NextIs(Passed(x, count), k + 1)
      BY <1>1, <1>3, <2>1, PassedPlace DEF s, at
    <2>4. QED
      BY <1>3, <2>2, <2>3 DEF Synced, H
  <1>17. QED
    BY <1>2, <1>13, <1>14, <1>15, <1>16 DEF at, pos, s

\* read_internal up to the copy.
ReadLoaded(r) ==
    IF r.at = NORMAL_CHUNK_PT_AND_TAG_SIZE THEN LoadInCache("indexed", r)
    ELSE [outcome |-> "some", reader |-> r]
ReadCount(r, size) ==
    IF ReadLoaded(r).outcome = "some" THEN Least(size, Available(ReadLoaded(r).reader)) ELSE 0
AfterRead(r, size) == Passed(ReadLoaded(r).reader, ReadCount(r, size))

\* Where a consumed cache leaves the reader.
LEMMA ReadLoads ==
    ASSUME WholeStream, NEW place, NEW r, Fit(r, place), Placed(r, place)
    PROVE  LET loaded == ReadLoaded(r)
               x == loaded.reader
           IN  /\ loaded.outcome \in {"none", "error", "some"} /\ Fit(x, place) /\ x.pos = r.pos
               /\ loaded.outcome = "error" => place # 0
               /\ Synced(r) /\ loaded.outcome = "some" =>
                     Synced(x) /\ x.at # NORMAL_CHUNK_PT_AND_TAG_SIZE
               /\ Synced(r) /\ loaded.outcome = "none" => Past(x) /\ r.pos >= written
               /\ Synced(r) /\ loaded.outcome = "error" => Astray(x)
               /\ ~Synced(r) => Past(x) \/ (Astray(x) /\ place # 0)
  <1> DEFINE loaded == ReadLoaded(r)
             x == loaded.reader
             H == CHUNK_HEAD_SIZE
             full == NORMAL_CHUNK_PT_AND_TAG_SIZE
  <1>1. /\ r \in Readers(written) /\ r.size = written /\ written \in Nat /\ r.pos \in Nat
        /\ H \in Nat \ {0} /\ N \in Nat \ {0} /\ full = H + N
    BY SealedNow, SizeFacts DEF Fit, Readers
  <1>2. CASE r.at # full
    <2>1. loaded = [outcome |-> "some", reader |-> r]
      BY <1>2 DEF ReadLoaded
    <2>2. loaded.outcome = "some" /\ x = r
      BY <2>1
    <2> HIDE DEF loaded, x
    <2>3. QED
      BY <1>2, <2>2 DEF Placed, loaded, x
  <1>3. CASE r.at = full
    <2>1. loaded = LoadInCache("indexed", r)
      BY <1>3 DEF ReadLoaded
    <2>2. From(r) = r.pos - N
      BY <1>1, <1>3 DEF From
    <2>3. CASE Past(r)
      <3>1. r.pos >= written
        BY <1>1, <2>2, <2>3 DEF Past
      <3>2. loaded = [outcome |-> "none", reader |-> Exchanged(r)]
        BY <1>1, <2>1, <3>1, LoadPast
      <3>3. /\ Exchanged(r) \in Readers(written) /\ Exchanged(r).src = r.src
            /\ Exchanged(r).at = 0 /\ Exchanged(r).pos = r.pos /\ Exchanged(r).size = r.size
        BY <1>1, ExchangedFacts, ExchangedAlso
      <3>4. x = Exchanged(r) /\ loaded.outcome = "none"
        BY <3>2
      <3> HIDE DEF loaded, x
      <3>5. Fit(x, place)
        BY <3>3, <3>4 DEF Fit
      <3>6. From(x) = r.pos + H
        BY <1>1, <3>3, <3>4 DEF From
      <3>7. Past(x)
        BY <1>1, <3>1, <3>6 DEF Past
      <3>8. QED
        BY <3>1, <3>3, <3>4, <3>5, <3>7 DEF loaded, x
    <2>4. ASSUME NEW k \in Nat, NextIs(r, k + 1), r.pos >= (k + 1) * N,
                 r.pos = (k + 1) * N \/ place # 0
          PROVE  /\ loaded.outcome \in {"none", "error", "some"} /\ Fit(x, place) /\ x.pos = r.pos
                 /\ x.at = IF loaded.outcome = "some" THEN H ELSE 0
                 /\ loaded.outcome = "none" => r.pos >= written
                 /\ loaded.outcome = "error" => place # 0 /\ Astray(x)
                 /\ loaded.outcome = "some" /\ r.pos = (k + 1) * N => Synced(x)
                 /\ loaded.outcome = "some" /\ r.pos # (k + 1) * N => Astray(x)
      <3>1. k + 1 \in Nat
        OBVIOUS
      <3>2. LET y == LoadInCache("indexed", r).reader
                outcome == LoadInCache("indexed", r).outcome
            IN  /\ outcome \in {"none", "error", "some"} /\ Fit(y, place) /\ y.pos = r.pos
                /\ y.at = IF outcome = "some" THEN H ELSE 0
                /\ outcome = "none" => r.pos >= written
                /\ outcome = "error" => place # 0 /\ Astray(y)
        BY <2>4, <3>1, LoadPlaced
      <3>3. LET y == LoadInCache("indexed", r).reader
                outcome == LoadInCache("indexed", r).outcome
            IN  /\ outcome = "some" /\ r.pos = (k + 1) * N => Synced(y)
                /\ outcome = "some" /\ r.pos # (k + 1) * N => Astray(y)
        BY <2>4, <3>1, LoadLeaves
      <3>4. QED
        BY <2>1, <3>2, <3>3
    <2>5. \A k \in Nat : (k + 1) * N = k * N + N /\ k * N \in Nat
      BY StartIs
    <2> HIDE DEF loaded, x
    <2>6. ASSUME loaded.outcome = "none", r.pos >= written, x.at = 0, x.pos = r.pos
          PROVE  Past(x)
      <3>1. From(x) = r.pos + H
        BY <1>1, <2>6 DEF From
      <3>2. QED
        BY <1>1, <2>6, <3>1 DEF Past
    <2>7. CASE Synced(r)
      <3>1. PICK k \in Nat : NextIs(r, k + 1) /\ From(r) = k * N
        BY <2>7 DEF Synced
      <3>2. r.pos = (k + 1) * N
        <4> DEFINE d == k * N
        <4>1. d \in Nat /\ (k + 1) * N = d + N /\ r.pos - N = d
          BY <2>2, <2>5, <3>1
        <4> HIDE DEF d
        <4>2. r.pos = d + N
          BY <1>1, <4>1
        <4>3. QED
          BY <4>1, <4>2
      <3>3. /\ loaded.outcome \in {"none", "error", "some"} /\ Fit(x, place) /\ x.pos = r.pos
            /\ x.at = IF loaded.outcome = "some" THEN H ELSE 0
            /\ loaded.outcome = "none" => r.pos >= written
            /\ loaded.outcome = "error" => place # 0 /\ Astray(x)
            /\ loaded.outcome = "some" => Synced(x)
        <4>1. r.pos >= (k + 1) * N
          BY <1>1, <3>2
        <4>2. QED
          BY <2>4, <3>1, <3>2, <4>1
      <3>4. loaded.outcome = "some" => x.at # full
        BY <1>1, <3>3
      <3>5. QED
        BY <2>6, <2>7, <3>3, <3>4 DEF loaded, x
    <2>8. CASE place # 0 /\ Astray(r) /\ ~Synced(r)
      <3>1. PICK k \in Nat : NextIs(r, k + 1) /\ From(r) > k * N
        BY <2>8 DEF Astray
      <3>2. r.pos > (k + 1) * N /\ (k + 1) * N \in Nat
        <4> DEFINE d == k * N
        <4>1. d \in Nat /\ (k + 1) * N = d + N /\ r.pos - N > d
          BY <2>2, <2>5, <3>1
        <4> HIDE DEF d
        <4>2. r.pos > d + N /\ d + N \in Nat
          BY <1>1, <4>1
        <4>3. QED
          BY <4>1, <4>2
      <3>3. r.pos >= (k + 1) * N /\ r.pos # (k + 1) * N
        BY <1>1, <3>2
      <3>4. /\ loaded.outcome \in {"none", "error", "some"} /\ Fit(x, place) /\ x.pos = r.pos
            /\ x.at = IF loaded.outcome = "some" THEN H ELSE 0
            /\ loaded.outcome = "none" => r.pos >= written
            /\ loaded.outcome = "error" => Astray(x)
            /\ loaded.outcome = "some" => Astray(x)
        BY <2>4, <2>8, <3>1, <3>3
      <3>5. QED
        BY <2>6, <2>8, <3>4 DEF loaded, x
    <2>9. QED
      BY <2>3, <2>7, <2>8 DEF Placed
  <1>4. QED
    BY <1>2, <1>3

LEMMA ReadLeaves ==
    ASSUME WholeStream, NEW place, NEW r, Fit(r, place), Placed(r, place), NEW size \in Nat
    PROVE  LET loaded == ReadLoaded(r)
               x == loaded.reader
               count == ReadCount(r, size)
               y == AfterRead(r, size)
           IN  /\ loaded.outcome \in {"none", "error", "some"}
               /\ Fit(y, place) /\ Placed(y, place)
               /\ loaded.outcome = "error" => place # 0
               /\ ~Synced(r) \/ loaded.outcome = "error" => Past(y) \/ Astray(y)
               /\ Synced(r) /\ loaded.outcome = "none" =>
                     Past(y) /\ r.pos >= written /\ count = 0 /\ x.at \in Nat
               /\ Synced(r) /\ loaded.outcome = "some" =>
                     /\ Synced(y) /\ y.pos = r.pos + count /\ count \in 0..size
                     /\ count > 0 => r.pos + count <= written
                     /\ count = 0 => size = 0 \/ r.pos >= written
                     /\ SubSeq(x.cache, x.at + 1, x.at + count)
                          = SubSeq(Plaintext, r.pos + 1, r.pos + count)
  <1> DEFINE loaded == ReadLoaded(r)
             x == loaded.reader
             count == ReadCount(r, size)
             y == AfterRead(r, size)
  <1>1. /\ loaded.outcome \in {"none", "error", "some"} /\ Fit(x, place) /\ x.pos = r.pos
        /\ loaded.outcome = "error" => place # 0
        /\ Synced(r) /\ loaded.outcome = "some" =>
              Synced(x) /\ x.at # NORMAL_CHUNK_PT_AND_TAG_SIZE
        /\ Synced(r) /\ loaded.outcome = "none" => Past(x) /\ r.pos >= written
        /\ Synced(r) /\ loaded.outcome = "error" => Astray(x)
        /\ ~Synced(r) => Past(x) \/ (Astray(x) /\ place # 0)
    BY ReadLoads
  <1>2. count = IF loaded.outcome = "some" THEN Least(size, Available(x)) ELSE 0
    BY DEF ReadCount
  <1>3. y = Passed(x, count)
    BY DEF AfterRead
  <1> SUFFICES /\ loaded.outcome \in {"none", "error", "some"}
               /\ Fit(y, place) /\ Placed(y, place)
               /\ loaded.outcome = "error" => place # 0
               /\ ~Synced(r) \/ loaded.outcome = "error" => Past(y) \/ Astray(y)
               /\ Synced(r) /\ loaded.outcome = "none" =>
                     Past(y) /\ r.pos >= written /\ count = 0 /\ x.at \in Nat
               /\ Synced(r) /\ loaded.outcome = "some" =>
                     /\ Synced(y) /\ y.pos = r.pos + count /\ count \in 0..size
                     /\ count > 0 => r.pos + count <= written
                     /\ count = 0 => size = 0 \/ r.pos >= written
                     /\ SubSeq(x.cache, x.at + 1, x.at + count)
                          = SubSeq(Plaintext, r.pos + 1, r.pos + count)
    OBVIOUS
  <1> HIDE DEF loaded, x, count, y
  <1>4. x \in Readers(written) /\ x.at \in Nat /\ x.pos \in Nat
    BY <1>1 DEF Fit, Readers
  <1>5. count \in 0..size /\ count \in Nat
    BY <1>2, <1>4, CountIs
  <1>6. /\ y.src = x.src /\ y.size = x.size /\ y.pos = x.pos + count /\ y \in Readers(written)
        /\ Past(y) <=> Past(x)
        /\ Astray(y) <=> Astray(x)
    BY <1>3, <1>4, <1>5, PassedPlace
  <1>7. Fit(y, place)
    BY <1>1, <1>6 DEF Fit
  <1>8. ASSUME Synced(r), loaded.outcome = "some"
        PROVE  /\ Synced(y) /\ y.pos = r.pos + count
               /\ count > 0 => r.pos + count <= written
               /\ count = 0 => size = 0 \/ r.pos >= written
               /\ SubSeq(x.cache, x.at + 1, x.at + count)
                    = SubSeq(Plaintext, r.pos + 1, r.pos + count)
    <2>1. count = Least(size, Available(x))
      BY <1>2, <1>8
    <2>2. Synced(x) /\ x.at # NORMAL_CHUNK_PT_AND_TAG_SIZE /\ Fit(x, place)
      BY <1>1, <1>8
    <2>3. /\ count > 0 => x.pos + count <= written
          /\ count = 0 => size = 0 \/ x.pos >= written
          /\ SubSeq(x.cache, x.at + 1, x.at + count) = SubSeq(Plaintext, x.pos + 1, x.pos + count)
          /\ Synced(Passed(x, count))
      BY <1>5, <2>1, <2>2, SyncedData
    <2>4. QED
      BY <1>1, <1>3, <1>6, <2>3
  <1>9. Placed(y, place)
    BY <1>1, <1>6, <1>8 DEF Placed
  <1>10. QED
    BY <1>1, <1>2, <1>4, <1>5, <1>6, <1>7, <1>8, <1>9

-----------------------------------------------------------------------------
(***************************************************************************)
(* Seeking.                                                                *)
(***************************************************************************)
\* The second cache after the inner layer was put before chunk j.
LEMMA MovedNext ==
    ASSUME WholeStream, NEW place, NEW r, Fit(r, place), NEW j \in Nat, Base(j) <= Len(r.src)
    PROVE  LET moved == [r EXCEPT !.inner = j * M0_CHUNK_SIZE,
                                  !.pos = j * NORMAL_CHUNK_PT_SIZE]
               next == WithNext(moved)
           IN  Fit(next, place) /\ next.pos = j * N /\ NextIs(next, j) /\ next.src = r.src
  <1> DEFINE b == j * M0_CHUNK_SIZE
             d == j * NORMAL_CHUNK_PT_SIZE
             moved == [r EXCEPT !.inner = b, !.pos = d]
             next == WithNext(moved)
  <1>1. b = Base(j) /\ b \in Nat /\ Base(j + 1) = b + M0_CHUNK_SIZE
    BY BaseFacts DEF Base
  <1>2. d = j * N /\ d \in Nat
    BY StartIs DEF N
  <1>3. r \in Readers(written) /\ SourceOf(r.src, place) /\ r.size = written /\ written \in Nat
    BY SealedNow DEF Fit
  <1> SUFFICES Fit(next, place) /\ next.pos = d /\ NextIs(next, j) /\ next.src = r.src
    BY <1>2
  <1> HIDE DEF b, d
  <1>4. /\ moved \in Readers(written) /\ moved.src = r.src /\ moved.inner = b /\ moved.pos = d
        /\ moved.size = written
    BY <1>1, <1>2, <1>3 DEF Readers
  <1> HIDE DEF moved
  <1>5. /\ next \in Readers(written) /\ next.src = moved.src /\ next.pos = moved.pos
        /\ next.next = SubSeq(moved.src, moved.inner + 1, next.inner)
        /\ next.inner = Least(moved.inner + M0_CHUNK_SIZE, Len(moved.src))
    BY <1>3, <1>4, NextRead
  <1>6. next.size = moved.size
    BY <1>4 DEF WithNext, Readers
  <1> HIDE DEF next
  <1>7. NextIs(next, j)
    BY <1>1, <1>4, <1>5 DEF NextIs
  <1>8. QED
    BY <1>3, <1>4, <1>5, <1>6, <1>7 DEF Fit

LEMMA SeekLeaves ==
    ASSUME WholeStream, NEW place, NEW r, Fit(r, place), NEW asked \in Nat
    PROVE  LET sought == SeekStart(r, asked)
               y == sought.reader
           IN  /\ Fit(y, place) /\ sought.ok \in BOOLEAN
               /\ sought.ok => Past(y) \/ (Synced(y) /\ y.pos = asked)
               /\ sought.ok /\ asked < written => Synced(y) /\ y.pos = asked
               /\ ~sought.ok => y = r \/ (Astray(y) /\ place # 0)
               /\ ~sought.ok /\ place = 0 => asked >= written
               /\ asked = 0 /\ place = 0 => sought.ok
  <1> DEFINE H == CHUNK_HEAD_SIZE
             chunk == InnerPosition(asked) \div M0_CHUNK_SIZE
             within == (InnerPosition(asked) % M0_CHUNK_SIZE) - H
             moved == [r EXCEPT !.inner = chunk * M0_CHUNK_SIZE,
                                !.pos = chunk * NORMAL_CHUNK_PT_SIZE]
             next == WithNext(moved)
             loaded == LoadInCache("indexed", next)
             x == loaded.reader
             done == [x EXCEPT !.at = H + within, !.pos = @ + within]
             sought == SeekStart(r, asked)
             y == sought.reader
             d == chunk * N
  <1>1. sought = IF chunk * M0_CHUNK_SIZE > Len(r.src)
                 THEN [ok |-> FALSE, reader |-> r]
                 ELSE IF loaded.outcome = "error"
                 THEN [ok |-> FALSE, reader |-> x]
                 ELSE [ok |-> TRUE, reader |-> done]
    BY DEF SeekStart
  <1>2. /\ chunk \in Nat /\ within \in 0..N - 1 /\ asked = d + within
    BY InnerPositionIs
  <1>3. /\ d \in Nat /\ H \in Nat \ {0} /\ N \in Nat \ {0} /\ written \in Nat
        /\ chunk * M0_CHUNK_SIZE = Base(chunk)
    BY <1>2, StartIs, SealedNow, Dimensions DEF Base
  <1>4. r.src \in Seq(HonestCells(written)) /\ Len(r.src) = Len(out) - 1 /\ Len(r.src) \in Nat
    BY DEF Fit, SourceOf, Readers
  <1> SUFFICES /\ Fit(y, place) /\ sought.ok \in BOOLEAN
               /\ sought.ok => Past(y) \/ (Synced(y) /\ y.pos = asked)
               /\ sought.ok /\ asked < written => Synced(y) /\ y.pos = asked
               /\ ~sought.ok => y = r \/ (Astray(y) /\ place # 0)
               /\ ~sought.ok /\ place = 0 => asked >= written
               /\ asked = 0 /\ place = 0 => sought.ok
    OBVIOUS
  <1>5. CASE Base(chunk) > Len(r.src)
    <2>1. sought = [ok |-> FALSE, reader |-> r]
      BY <1>1, <1>3, <1>5
    <2>2. ~sought.ok /\ y = r /\ sought.ok \in BOOLEAN
      BY <2>1
    <2> HIDE DEF sought, y, chunk, within
    <2>3. ~(d < written)
      <3>1. d < written => Base(chunk) <= Len(out) - 1
        BY <1>2, ChunkBefore
      <3>2. Base(chunk) \in Nat
        BY <1>2, BaseFacts
      <3> HIDE DEF d
      <3>3. QED
        BY <1>4, <1>5, <3>1, <3>2
    <2>4. asked >= written
      <3> HIDE DEF d
      <3>1. QED
        BY <1>2, <1>3, <2>3
    <2>5. asked # 0
      <3>1. 0 < chunk
        <4>1. Base(0) = 0
          BY BaseFacts
        <4>2. chunk # 0
          BY <1>4, <1>5, <4>1
        <4>3. QED
          BY <1>2, <4>2
      <3>2. 0 * N + N <= d
        BY <1>2, <3>1, StartIs
      <3>3. 0 * N = 0
        BY <1>3
      <3> HIDE DEF d
      <3>4. QED
        BY <1>2, <1>3, <3>2, <3>3
    <2>6. QED
      BY <1>2, <2>2, <2>4, <2>5
  <1>6. CASE Base(chunk) <= Len(r.src)
    <2>1. sought = IF loaded.outcome = "error"
                   THEN [ok |-> FALSE, reader |-> x]
                   ELSE [ok |-> TRUE, reader |-> done]
      <3>1. Base(chunk) \in Nat
        BY <1>2, BaseFacts
      <3>2. ~(chunk * M0_CHUNK_SIZE > Len(r.src))
        BY <1>3, <1>4, <1>6, <3>1
      <3> HIDE DEF sought, loaded, x, done, chunk
      <3>3. QED
        BY <1>1, <3>2
    <2> HIDE DEF chunk, within
    <2>2. Fit(next, place) /\ next.pos = d /\ NextIs(next, chunk) /\ next.src = r.src
      BY <1>2, <1>6, MovedNext
    <2> HIDE DEF next
    <2>3. next.pos >= d
      <3> HIDE DEF d
      <3>1. QED
        BY <1>3, <2>2
    <2>4. /\ loaded.outcome \in {"none", "error", "some"}
          /\ Fit(x, place) /\ x.pos = d /\ NextIs(x, chunk + 1)
          /\ x.at = IF loaded.outcome = "some" THEN H ELSE 0
          /\ loaded.outcome = "some" => d < written /\ Exact(x.cache, chunk)
          /\ loaded.outcome = "none" => d >= written
          /\ loaded.outcome = "error" => place # 0 /\ Astray(x)
      BY <1>2, <2>2, <2>3, LoadPlaced
    <2> HIDE DEF loaded, x, sought
    <2>5. CASE loaded.outcome = "error"
      <3>1. ~sought.ok /\ y = x /\ sought.ok \in BOOLEAN
        BY <2>1, <2>5
      <3> HIDE DEF y
      <3>2. QED
        BY <2>4, <2>5, <3>1
    <2>6. CASE loaded.outcome # "error"
      <3>1. sought.ok /\ y = done /\ sought.ok \in BOOLEAN
        BY <2>1, <2>6
      <3>2. x \in Readers(written) /\ x.size = written /\ SourceOf(x.src, place)
        BY <2>4 DEF Fit
      <3>3. H + within \in Nat /\ x.pos + within = asked
        BY <1>2, <1>3, <2>4
      <3> DEFINE at == H + within
      <3>4. done = [x EXCEPT !.at = at, !.pos = asked] /\ at \in Nat
        BY <3>2, <3>3 DEF Readers
      <3> HIDE DEF y, done, at
      <3>5. /\ y \in Readers(written) /\ y.src = x.src /\ y.inner = x.inner /\ y.next = x.next
            /\ y.cache = x.cache /\ y.at = at /\ y.pos = asked /\ y.size = x.size
        BY <3>1, <3>2, <3>4 DEF Readers
      <3>6. Fit(y, place) /\ NextIs(y, chunk + 1)
        BY <2>4, <3>2, <3>5 DEF Fit, NextIs
      <3>7. From(y) = d
        <4>1. From(y) = asked - (at - H)
          BY <3>5 DEF From
        <4> HIDE DEF d
        <4>2. QED
          BY <1>2, <1>3, <4>1 DEF at
      <3>8. CASE loaded.outcome = "some"
        <4>1. at \in H .. H + N
          BY <1>2, <1>3 DEF at
        <4>2. d < written /\ Exact(y.cache, chunk)
          BY <2>4, <3>5, <3>8
        <4>3. Synced(y)
          BY <1>2, <3>5, <3>6, <3>7, <4>1, <4>2 DEF Synced
        <4>4. QED
          BY <3>1, <3>5, <3>6, <4>3
      <3>9. CASE loaded.outcome = "none"
        <4>1. d >= written
          BY <2>4, <3>9
        <4>2. Past(y)
          BY <3>7, <4>1 DEF Past
        <4>3. ~(asked < written)
          <5> HIDE DEF d
          <5>1. QED
            BY <1>2, <1>3, <4>1
        <4>4. QED
          BY <3>1, <3>6, <4>2, <4>3
      <3>10. QED
        BY <2>4, <2>6, <3>8, <3>9
    <2>7. QED
      BY <2>5, <2>6
  <1>7. Base(chunk) > Len(r.src) \/ Base(chunk) <= Len(r.src)
    <2>1. Base(chunk) \in Nat
      BY <1>2, BaseFacts
    <2> HIDE DEF chunk
    <2>2. QED
      BY <1>4, <2>1
  <1>8. QED
    BY <1>5, <1>6, <1>7

-----------------------------------------------------------------------------
(***************************************************************************)
(* The cursor of LayerCursor is where the reader is in step.               *)
(***************************************************************************)
InStepAt(r) ==
    LET start == From(r)
        chunk == start \div NORMAL_CHUNK_PT_SIZE
        behind == Least((chunk + 2) * M0_CHUNK_SIZE, Len(r.src))
    IN  /\ r.at >= CHUNK_HEAD_SIZE
        /\ start >= 0 /\ (start % NORMAL_CHUNK_PT_SIZE) = 0 /\ start < written
        /\ SubSeq(r.cache, CHUNK_HEAD_SIZE + 1, Len(r.cache))
             = SubSeq(Plaintext, start + 1, Least(start + NORMAL_CHUNK_PT_SIZE, written))
        /\ r.inner = behind
        /\ r.next = SubSeq(r.src, (chunk + 1) * M0_CHUNK_SIZE + 1, behind)

LEMMA InStepIs == InStep <=> mode = "indexed" /\ InStepAt(rd)
  BY DEF InStep, InStepAt, From

LEMMA PlaintextIs ==
    ASSUME written \in Nat
    PROVE  /\ Plaintext \in Seq(ShownCell) /\ Len(Plaintext) = written
           /\ \A i \in 1..written : Plaintext[i] = Plain(i)
  <1>1. Plaintext = Prefix(written)
    BY DEF Plaintext, Prefix
  <1>2. QED
    BY <1>1, PrefixFacts

\* The end of a piece of plaintext that fills a chunk, or ends it.
LEMMA ChunkPlaintext ==
    ASSUME written \in Nat, NEW d \in Nat, d < written
    PROVE  LET to == Least(d + N, written)
               t == SubSeq(Plaintext, d + 1, to)
           IN  /\ to \in Nat /\ d < to /\ to <= written
               /\ t \in Seq(ShownCell) /\ Len(t) = to - d
               /\ \A i \in 1..to - d : t[i] = Plain(d + i)
  <1> DEFINE to == Least(d + N, written)
             p == Plaintext
             t == SubSeq(p, d + 1, to)
  <1>1. N \in Nat \ {0}
    BY Dimensions
  <1>2. to \in Nat /\ d < to /\ to <= written
    BY <1>1 DEF Least
  <1>3. p \in Seq(ShownCell) /\ Len(p) = written /\ \A i \in 1..written : p[i] = Plain(i)
    BY PlaintextIs
  <1> HIDE DEF to, p
  <1>4. t \in Seq(ShownCell) /\ Len(t) = to - d /\ \A i \in 1..to - d : t[i] = p[d + i]
    BY <1>2, <1>3
  <1>5. \A i \in 1..to - d : d + i \in 1..written
    BY <1>2
  <1>6. \A i \in 1..to - d : t[i] = Plain(d + i)
    BY <1>3, <1>4, <1>5
  <1>7. QED
    BY <1>2, <1>4, <1>6 DEF to, p

LEMMA SyncedInStep ==
    ASSUME WholeStream, NEW place, NEW r, Fit(r, place), Synced(r)
    PROVE  InStepAt(r)
  <1> DEFINE H == CHUNK_HEAD_SIZE
             s == r.cache
  <1>1. r \in Readers(written) /\ written \in Nat /\ H \in Nat /\ N \in Nat \ {0}
    BY SealedNow, Dimensions DEF Fit
  <1>2. PICK k \in Nat : /\ NextIs(r, k + 1)
                         /\ From(r) = k * N /\ k * N < written
                         /\ r.at \in H .. H + N
                         /\ Exact(s, k)
    BY DEF Synced
  <1> DEFINE d == k * N
             n == PlainIn(k, LastChunk, LastSize)
  <1>3. /\ d \in Nat /\ n \in 0..N /\ n \in Nat
        /\ d + n <= written /\ (d + n = written \/ n = N)
    BY <1>2, ChunkBefore
  <1>4. d \div N = k /\ (d % N) = 0
    <2>1. 0 \in 0..N - 1 /\ k * N + 0 = k * N
      BY <1>1, StartIs
    <2>2. QED
      BY <1>1, <2>1, DivisionIs
  <1>5. Base(k + 2) = (k + 2) * M0_CHUNK_SIZE /\ Base(k + 1) = (k + 1) * M0_CHUNK_SIZE
    BY DEF Base
  <1>6. (k + 1) + 1 = k + 2
    OBVIOUS
  <1>7. r.inner = Least(Base(k + 2), Len(r.src))
        /\ r.next = SubSeq(r.src, Base(k + 1) + 1, r.inner)
    BY <1>2, <1>6 DEF NextIs
  <1>8. /\ Len(s) = H + n
        /\ \A i \in 1..n : s[H + i] = Plain(d + i)
    BY <1>2 DEF Exact
  <1>9. s \in Seq(ShownCell)
    BY <1>1 DEF Readers
  <1>10. d < written /\ From(r) = d /\ r.at \in H .. H + N
    BY <1>2
  <1> DEFINE to == Least(d + N, written)
             t == SubSeq(Plaintext, d + 1, to)
             u == SubSeq(s, H + 1, Len(s))
  <1>11. /\ to \in Nat /\ t \in Seq(ShownCell) /\ Len(t) = to - d
         /\ \A i \in 1..to - d : t[i] = Plain(d + i)
    <2> HIDE DEF d
    <2>1. QED
      BY <1>1, <1>3, <1>10, ChunkPlaintext
  <1> HIDE DEF s, n, H, d, t
  <1>12. to = d + n
    BY <1>1, <1>3, <1>10 DEF Least
  <1> HIDE DEF to
  <1>13. u \in Seq(ShownCell) /\ Len(u) = n /\ \A i \in 1..n : u[i] = s[H + i]
    BY <1>1, <1>3, <1>8, <1>9
  <1> HIDE DEF u
  <1>14. Len(t) = n /\ \A i \in 1..n : u[i] = t[i]
    BY <1>3, <1>8, <1>11, <1>12, <1>13
  <1>15. u = t
    BY <1>11, <1>13, <1>14, SameSequence
  <1>16. r.at >= H /\ d >= 0
    BY <1>1, <1>3, <1>10
  <1>17. /\ From(r) \div NORMAL_CHUNK_PT_SIZE = k
         /\ (From(r) % NORMAL_CHUNK_PT_SIZE) = 0
         /\ From(r) = d
    BY <1>4, <1>10 DEF N
  <1>18. SubSeq(r.cache, CHUNK_HEAD_SIZE + 1, Len(r.cache))
             = SubSeq(Plaintext, d + 1, Least(d + NORMAL_CHUNK_PT_SIZE, written))
    BY <1>15 DEF u, t, s, H, to, N
  <1>19. /\ r.inner = Least((k + 2) * M0_CHUNK_SIZE, Len(r.src))
         /\ r.next = SubSeq(r.src, (k + 1) * M0_CHUNK_SIZE + 1, r.inner)
    BY <1>5, <1>7
  <1>20. r.at >= CHUNK_HEAD_SIZE
    BY <1>16 DEF H
  <1> HIDE DEF From
  <1>21. QED
    BY <1>10, <1>16, <1>17, <1>18, <1>19, <1>20 DEF InStepAt

LEMMA PastNotInStep ==
    ASSUME WholeStream, NEW place, NEW r, Fit(r, place), Past(r)
    PROVE  ~InStepAt(r)
  <1>1. r \in Readers(written) /\ written \in Nat
    BY SealedNow DEF Fit
  <1>2. From(r) \in Int
    BY <1>1, Dimensions DEF From, Readers
  <1>3. ~(From(r) < written)
    BY <1>1, <1>2 DEF Past
  <1>4. QED
    BY <1>3 DEF InStepAt

LEMMA AstrayNotInStep ==
    ASSUME WholeStream, NEW place, NEW r, Fit(r, place), Astray(r)
    PROVE  ~InStepAt(r)
  <1> SUFFICES ASSUME InStepAt(r) PROVE FALSE
    OBVIOUS
  <1> DEFINE H == CHUNK_HEAD_SIZE
             s == r.cache
             d == From(r)
             to == Least(d + N, written)
             t == SubSeq(Plaintext, d + 1, to)
             u == SubSeq(s, H + 1, Len(s))
  <1>1. r \in Readers(written) /\ written \in Nat /\ H \in Nat
    BY SealedNow, Dimensions DEF Fit
  <1>2. d \in Int /\ s \in Seq(ShownCell)
    BY <1>1, Dimensions DEF From, Readers
  <1>3. d >= 0 /\ d < written /\ u = t
    BY DEF InStepAt, N
  <1>4. ~(Len(s) > H /\ s[H + 1] = Plain(d + 1))
    BY DEF Astray
  <1> HIDE DEF d
  <1>5. d \in Nat
    BY <1>2, <1>3
  <1>6. /\ to \in Nat /\ d < to /\ Len(t) = to - d
        /\ \A i \in 1..to - d : t[i] = Plain(d + i)
    BY <1>1, <1>3, <1>5, ChunkPlaintext
  <1> HIDE DEF to, t, s, H
  <1>7. Len(t) \in Nat \ {0} /\ t[1] = Plain(d + 1)
    BY <1>5, <1>6
  <1>8. Len(s) > H
    <2>1. Len(s) \in Nat /\ (Len(s) <= H => Len(u) = 0)
      BY <1>1, <1>2
    <2> HIDE DEF u
    <2>2. QED
      BY <1>1, <1>3, <1>7, <2>1
  <1>9. u[1] = s[H + 1]
    BY <1>1, <1>2, <1>8
  <1> HIDE DEF u
  <1>10. QED
    BY <1>3, <1>4, <1>7, <1>8, <1>9

-----------------------------------------------------------------------------
(***************************************************************************)
(* Opening.                                                                *)
(***************************************************************************)
LEMMA StoredCells ==
    ASSUME ~torn, KeystreamInv, StreamHonest, NEW length \in 0..Len(out),
           NEW place \in 0..length
    PROVE  LET src == Stored(length, place)
           IN  /\ out \in Seq(HonestCells(written)) /\ Len(out) \in Nat /\ length \in Nat
               /\ written \in Nat
               /\ src \in Seq(HonestCells(written)) /\ Len(src) = length
               /\ \A i \in 1..length : src[i] = IF i = place THEN [kind |-> "changed"] ELSE out[i]
  <1>1. written \in Nat /\ out \in Seq(HonestCells(written)) /\ MagicLate(out)
    BY DEF KeystreamInv, WriterTypeOK, StreamHonest
  <1>2. Stored(length, place) \in Seq(HonestCells(written))
    BY <1>1, StoredHonest
  <1>3. Len(out) \in Nat /\ length \in Nat
    BY <1>1
  <1>4. /\ DOMAIN Stored(length, place) = 1..length
        /\ \A i \in 1..length :
              Stored(length, place)[i] = IF i = place THEN [kind |-> "changed"] ELSE out[i]
    BY DEF Stored
  <1>5. Len(Stored(length, place)) = length
    BY <1>2, <1>3, <1>4
  <1>6. QED
    BY <1>1, <1>2, <1>3, <1>4, <1>5

LEMMA FinalSizes ==
    FINAL_INFO_SIZE_WOM = 1 + TAG_LENGTH /\ END_LENGTH = 1 /\ TAG_LENGTH \in Nat \ {0}
  BY Dimensions DEF FINAL_INFO_SIZE_WOM, END_LENGTH, END_OF_ENCRYPTED_INNER_LAYER_MAGIC

\* What check_last_block accepts is the content of a final block.
LEMMA FinalContent ==
    ASSUME NEW w \in Nat, NEW src \in Seq(HonestCells(w)), NEW size, LastBlockOK(src, size)
    PROVE  LET p == (Len(src) - (TAG_LENGTH + 2)) + 1
           IN  p \in 1..Len(src) /\ \E ctr : src[p] = Cipher(ctr, 1, 0)
  <1> DEFINE start == Len(src) - (FINAL_INFO_SIZE_WOM + END_LENGTH)
             ctr == LastDataChunkNumber(size) + 1 + FIRST_DATA_CHUNK_NUMBER
             content == SubSeq(src, start + 1, start + 1)
             shown == Decrypt(ctr, content)
  <1>1. start >= 0 /\ shown = <<Plain(FINAL_BLOCK_CONTENT)>>
    BY DEF LastBlockOK
  <1>2. Len(src) \in Nat /\ start = Len(src) - (TAG_LENGTH + 2) /\ TAG_LENGTH \in Nat
    BY FinalSizes
  <1> HIDE DEF start, ctr
  <1>3. start \in Nat /\ start + 1 \in 1..Len(src)
    BY <1>1, <1>2
  <1>4. Len(content) = 1 /\ content[1] = src[start + 1]
    BY <1>3
  <1> HIDE DEF content
  <1>5. shown[1] = IF content[1].kind = "cipher" /\ content[1] = Cipher(ctr, 1, content[1].byte)
                   THEN Plain(content[1].byte)
                   ELSE [kind |-> "garbage"]
    BY <1>4 DEF Decrypt
  <1> HIDE DEF shown
  <1>6. shown[1] = Plain(0)
    BY <1>1 DEF FINAL_BLOCK_CONTENT
  <1>7. Plain(0).kind = "plain" /\ Plain(0).byte = 0
    BY DEF Plain
  <1>8. content[1] = Cipher(ctr, 1, content[1].byte) /\ Plain(0) = Plain(content[1].byte)
    BY <1>5, <1>6, <1>7
  <1>9. content[1].byte = 0
    BY <1>7, <1>8 DEF Plain
  <1>10. src[start + 1] = Cipher(ctr, 1, 0)
    BY <1>4, <1>8, <1>9
  <1>11. QED
    BY <1>2, <1>3, <1>10

\* Only a finalized stream, but for its last byte, is opened.
LEMMA OpensWhole ==
    ASSUME ~torn, KeystreamInv, StreamHonest, Layout, NEW length \in 0..Len(out),
           NEW place \in 0..length, NEW size, LastBlockOK(Stored(length, place), size)
    PROVE  finalized /\ length = Len(out) - 1 /\ SourceOf(Stored(length, place), place)
  <1> DEFINE src == Stored(length, place)
             p == (length - (TAG_LENGTH + 2)) + 1
             K == LastChunk
             f == LastSize
             d == DataEnd(K, f)
  <1>1. /\ out \in Seq(HonestCells(written)) /\ Len(out) \in Nat /\ length \in Nat
        /\ written \in Nat
        /\ src \in Seq(HonestCells(written)) /\ Len(src) = length
        /\ \A i \in 1..length : src[i] = IF i = place THEN [kind |-> "changed"] ELSE out[i]
    BY StoredCells
  <1>2. p \in 1..length /\ \E ctr : src[p] = Cipher(ctr, 1, 0)
    <2> HIDE DEF src
    <2>1. LastBlockOK(src, size)
      BY DEF src
    <2>2. QED
      BY <1>1, <2>1, FinalContent
  <1> HIDE DEF src
  <1>3. PICK ctr : src[p] = Cipher(ctr, 1, 0)
    BY <1>2
  <1>4. Cipher(ctr, 1, 0).kind = "cipher"
    BY DEF Cipher
  <1>5. out[p] = Cipher(ctr, 1, 0) /\ p \in 1..Len(out)
    <2> HIDE DEF p
    <2>1. src[p] # [kind |-> "changed"]
      BY <1>3, <1>4
    <2>2. QED
      BY <1>1, <1>2, <1>3, <2>1
  <1>6. /\ K \in Nat /\ f \in 0..N
        /\ IF finalized THEN Sealed(out, K, f) ELSE Growing(out, K, f)
    BY DEF Layout
  <1>7. d \in Nat /\ Base(K) \in Nat /\ d = Base(K) + CHUNK_HEAD_SIZE + f + TAG_LENGTH
    BY <1>6, DataEndFacts
  <1>8. finalized
    <2> SUFFICES ASSUME ~finalized PROVE FALSE
      OBVIOUS
    <2>1. Len(out) = Base(K) + CHUNK_HEAD_SIZE + f /\ Chunks(out, Len(out), K, f)
      BY <1>6 DEF Growing
    <2>2. Len(out) <= d
      <3> DEFINE b == Base(K)
      <3> HIDE DEF b, d, f
      <3>1. f \in Nat /\ CHUNK_HEAD_SIZE \in Nat /\ TAG_LENGTH \in Nat /\ b \in Nat
        BY <1>6, <1>7, Dimensions DEF b
      <3>2. Len(out) = b + CHUNK_HEAD_SIZE + f /\ d = b + CHUNK_HEAD_SIZE + f + TAG_LENGTH
        BY <1>7, <2>1 DEF b
      <3>3. QED
        BY <3>1, <3>2
    <2> HIDE DEF K, f, p
    <2>3. InData(out, p, K, f)
      BY <1>1, <1>5, <1>6, <2>1, <2>2, DataPlace
    <2>4. QED
      BY <1>5, <1>6, <2>3, DataCipher
  <1>9. p = d + MAGIC_LENGTH + 1 /\ Len(out) = d + TailSize
    <2>1. Sealed(out, K, f)
      BY <1>6, <1>8
    <2>2. Len(out) = d + TailSize
      BY <2>1 DEF Sealed
    <2> HIDE DEF K, f, p
    <2>3. QED
      BY <1>5, <1>6, <2>1, <2>2, CipherByte
  <1>10. length = Len(out) - 1
    <2> HIDE DEF d
    <2>1. TailSize = MAGIC_LENGTH + TAG_LENGTH + 3 /\ MAGIC_LENGTH \in Nat /\ TAG_LENGTH \in Nat
      BY Dimensions
    <2>2. d \in Nat
      BY <1>7
    <2>3. p = d + MAGIC_LENGTH + 1 /\ p = (length - (TAG_LENGTH + 2)) + 1
      BY <1>9
    <2>4. length \in Nat /\ Len(out) = d + MAGIC_LENGTH + TAG_LENGTH + 3
      BY <1>1, <1>9, <2>1, <2>2
    <2> HIDE DEF p
    <2>5. QED
      BY <2>1, <2>2, <2>3, <2>4
  <1>11. SourceOf(src, place)
    <2>1. place # 0 \/ place = 0
      OBVIOUS
    <2>2. \A q \in 1..length : src[q] = out[q] \/ (place # 0 /\ src[q] = [kind |-> "changed"])
      BY <1>1
    <2>3. QED
      BY <1>1, <1>10, <2>2 DEF SourceOf
  <1>12. QED
    BY <1>8, <1>10, <1>11 DEF src

\* The final block of an undamaged stream is found.
LEMMA FinalBlockFound ==
    ASSUME WholeStream, NEW src, SourceOf(src, 0)
    PROVE  LastBlockOK(src, written)
  <1> DEFINE K == LastChunk
             d == DataEnd(K, LastSize)
             start == Len(src) - (FINAL_INFO_SIZE_WOM + END_LENGTH)
             ctr == LastDataChunkNumber(written) + 1 + FIRST_DATA_CHUNK_NUMBER
             content == SubSeq(src, start + 1, start + 1)
             tag == SubSeq(src, start + 2, start + FINAL_INFO_SIZE_WOM)
             T == TAG_LENGTH
             L == MAGIC_LENGTH
             c == Cipher(K + 2, 1, FINAL_BLOCK_CONTENT)
  <1>1. /\ K \in Nat /\ LastSize \in 0..N /\ Sealed(out, K, LastSize) /\ written \in Nat
        /\ Len(out) = d + TailSize /\ LastDataChunkNumber(written) = K
    BY SealedNow
  <1>2. d \in Nat
    BY <1>1, DataEndFacts
  <1>3. T \in Nat \ {0} /\ L \in Nat \ {0} /\ TailSize = L + T + 3
        /\ FINAL_INFO_SIZE_WOM = 1 + T
        /\ END_LENGTH = 1
    BY Dimensions, FinalSizes
  <1>4. src \in Seq(HonestCells(written)) /\ Len(src) = Len(out) - 1
        /\ \A p \in 1..Len(src) : src[p] = out[p]
    BY DEF SourceOf
  <1>5. \A i \in 1..TailSize : out[d + i] = TailCell(K, i)
    BY <1>1 DEF Sealed
  <1>6. ctr = K + 2
    BY <1>1 DEF FIRST_DATA_CHUNK_NUMBER
  <1> HIDE DEF K, d, ctr
  <1>7. start = d + L /\ Len(src) = d + L + T + 2
    <2> HIDE DEF T, L
    <2>1. QED
      BY <1>1, <1>2, <1>3, <1>4
  <1> HIDE DEF start, T, L
  <1>8. \A i \in 1..T + 1 : src[start + i] = TailCell(K, L + i)
    <2> SUFFICES ASSUME NEW i \in 1..T + 1 PROVE src[start + i] = TailCell(K, L + i)
      OBVIOUS
    <2>1. L + i \in 1..TailSize /\ start + i \in 1..Len(src) /\ start + i = d + (L + i)
      BY <1>2, <1>3, <1>7
    <2>2. QED
      BY <1>4, <1>5, <2>1
  <1>9. start \in Nat /\ start >= 0 /\ start + 1 + T <= Len(src)
    BY <1>2, <1>3, <1>7
  <1>10. Len(content) = 1 /\ content[1] = src[start + 1]
         /\ content \in Seq(HonestCells(written))
    BY <1>3, <1>4, <1>9
  <1>11. content[1] = c
    <2>1. 1 \in 1..T + 1 /\ ~(L + 1 <= L)
      BY <1>3
    <2>2. TailCell(K, L + 1) = c
      BY <2>1 DEF TailCell, L
    <2>3. QED
      BY <1>8, <1>10, <2>1, <2>2
  <1> HIDE DEF content
  <1>12. content = <<c>> /\ content = FinalText(K)
    BY <1>10, <1>11 DEF FinalText
  <1>13. Decrypt(ctr, content) = <<Plain(FINAL_BLOCK_CONTENT)>>
    <2>1. c.kind = "cipher" /\ c.byte = FINAL_BLOCK_CONTENT /\ c = Cipher(ctr, 1, c.byte)
      BY <1>6 DEF Cipher
    <2> HIDE DEF c
    <2>2. Decrypt(ctr, content) = [i \in 1..1 |-> Plain(FINAL_BLOCK_CONTENT)]
      <3>1. \A i \in 1..1 : content[i] = c /\ i = 1
        BY <1>11
      <3>2. QED
        BY <1>10, <2>1, <3>1 DEF Decrypt
    <2>3. QED
      BY <2>2
  <1>14. tag = Tag(ctr, FINAL_ASSOCIATED_DATA, content)
    <2> DEFINE expected == Tag(ctr, FINAL_ASSOCIATED_DATA, content)
    <2>1. expected = [i \in 1..T |-> TagCell(ctr, FINAL_ASSOCIATED_DATA, content, i)]
      BY DEF Tag, TagCell, T
    <2>2. /\ tag \in Seq(HonestCells(written)) /\ Len(tag) = T
          /\ \A i \in 1..T : tag[i] = src[start + (1 + i)]
      <3>1. start + FINAL_INFO_SIZE_WOM = start + 1 + T
        BY <1>3, <1>9
      <3> DEFINE a == start + 1
                 t == SubSeq(src, a + 1, a + T)
      <3>2. tag = t /\ a \in Nat /\ a + T <= Len(src)
        BY <1>3, <1>9, <3>1
      <3>3. src \in Seq(HonestCells(written)) /\ T \in Nat
        BY <1>3, <1>4
      <3>4. \A i \in 1..T : start + (1 + i) = a + i
        BY <1>3, <1>9
      <3> HIDE DEF a, tag
      <3>5. t \in Seq(HonestCells(written)) /\ Len(t) = T /\ \A i \in 1..T : t[i] = src[a + i]
        BY <3>2, <3>3
      <3> HIDE DEF t
      <3> HIDE DEF tag
      <3>6. QED
        BY <3>2, <3>4, <3>5
    <2>3. ASSUME NEW i \in 1..T
          PROVE  src[start + (1 + i)] = TagCell(ctr, FINAL_ASSOCIATED_DATA, content, i)
      <3>1. /\ 1 + i \in 1..T + 1 /\ ~(L + (1 + i) <= L) /\ ~(L + (1 + i) = L + 1)
            /\ L + (1 + i) <= L + 1 + T /\ (L + (1 + i)) - (L + 1) = i
        BY <1>3
      <3>2. TailCell(K, L + (1 + i)) = TagCell(K + 2, FINAL_ASSOCIATED_DATA, FinalText(K), i)
        BY <3>1 DEF TailCell, L, T
      <3>3. QED
        BY <1>6, <1>8, <1>12, <3>1, <3>2
    <2> HIDE DEF expected, tag
    <2>4. tag = expected
      <3>1. tag = [i \in 1..T |-> tag[i]]
        BY <2>2
      <3>2. QED
        BY <2>1, <2>2, <2>3, <3>1
    <2>5. QED
      BY <2>4 DEF expected
  <1>15. QED
    BY <1>9, <1>13, <1>14 DEF LastBlockOK, Verified, start, ctr, content, tag

LEMMA FreshFits ==
    ASSUME WholeStream, NEW place, NEW src, SourceOf(src, place)
    PROVE  Fit([Fresh(src) EXCEPT !.size = written], place)
  <1> DEFINE r == [Fresh(src) EXCEPT !.size = written]
  <1>1. r = [src |-> src, inner |-> 0, cache |-> <<>>, at |-> 0, next |-> <<>>,
             size |-> written, pos |-> 0]
    BY DEF Fresh
  <1>2. written \in Int /\ src \in Seq(HonestCells(written))
    BY SealedNow DEF SourceOf
  <1>3. <<>> \in Seq(ShownCell) /\ <<>> \in Seq(HonestCells(written))
    OBVIOUS
  <1> HIDE DEF r
  <1>4. r \in Readers(written)
    BY <1>1, <1>2, <1>3 DEF Readers
  <1>5. r.src = src /\ r.size = written
    BY <1>1
  <1>6. QED
    BY <1>4, <1>5 DEF Fit, r

\* What an attempt to open in full leaves.
LEMMA IndexedOpens ==
    ASSUME ~torn, KeystreamInv, StreamHonest, Layout, NEW length \in 0..Len(out),
           NEW place \in 0..length, OpenIndexed(Stored(length, place))
    PROVE  /\ mode' \in {"indexed", "failed"}
           /\ mode' = "indexed" =>
                /\ WholeStream /\ Fit(rd', place)
                /\ Past(rd') \/ (Synced(rd') /\ rd'.pos = 0)
                /\ 0 < written => Synced(rd')
           /\ mode' = "failed" /\ place = 0 =>
                ~(finalized /\ rd'.src = SubSeq(out, 1, Len(out) - 1))
  <1> DEFINE src == Stored(length, place)
             size == AllPlaintextSize(Len(src))
             fresh == [Fresh(src) EXCEPT !.size = size]
             rewound == SeekStart(fresh, 0)
             good == size >= 0 /\ LastBlockOK(src, size) /\ rewound.ok
  <1>1. /\ good => mode' = "indexed" /\ rd' = rewound.reader
        /\ ~good => mode' = "failed" /\ rd' = Fresh(src)
    BY DEF OpenIndexed, OpenFails
  <1>2. /\ out \in Seq(HonestCells(written)) /\ Len(out) \in Nat /\ length \in Nat
        /\ written \in Nat
        /\ src \in Seq(HonestCells(written)) /\ Len(src) = length
        /\ \A i \in 1..length : src[i] = IF i = place THEN [kind |-> "changed"] ELSE out[i]
    BY StoredCells
  <1>3. ASSUME finalized, length = Len(out) - 1, SourceOf(src, place)
        PROVE  WholeStream /\ size = written /\ Fit(fresh, place)
    <2>1. WholeStream
      BY <1>3 DEF WholeStream
    <2>2. size = written
      BY <1>2, <1>3, <2>1, SealedNow
    <2> HIDE DEF src, size
    <2>3. QED
      BY <1>3, <2>1, <2>2, FreshFits
  <1>4. ASSUME good
        PROVE  /\ WholeStream /\ Fit(rd', place)
               /\ Past(rd') \/ (Synced(rd') /\ rd'.pos = 0)
               /\ 0 < written => Synced(rd')
    <2>1. finalized /\ length = Len(out) - 1 /\ SourceOf(src, place)
      <3>1. LastBlockOK(src, size)
        BY <1>4
      <3> HIDE DEF size
      <3>2. QED
        BY <3>1, OpensWhole
    <2>2. WholeStream /\ Fit(fresh, place)
      BY <1>3, <2>1
    <2>3. rewound.ok /\ rd' = rewound.reader
      BY <1>1, <1>4
    <2> HIDE DEF fresh
    <2>4. /\ Fit(rewound.reader, place)
          /\ rewound.ok =>
                Past(rewound.reader) \/ (Synced(rewound.reader) /\ rewound.reader.pos = 0)
          /\ rewound.ok /\ 0 < written => Synced(rewound.reader)
      BY <2>2, SeekLeaves
    <2> HIDE DEF rewound
    <2>5. QED
      BY <2>2, <2>3, <2>4
  <1>5. ASSUME ~good, place = 0, finalized, rd'.src = SubSeq(out, 1, Len(out) - 1)
        PROVE  FALSE
    <2>1. rd'.src = src
      BY <1>1, <1>5 DEF Fresh
    <2>2. src = SubSeq(out, 1, Len(out) - 1)
      BY <1>5, <2>1
    <2>3. Len(out) >= 1
      <3>1. /\ LastChunk \in Nat /\ LastSize \in 0..N /\ Sealed(out, LastChunk, LastSize)
        BY <1>5 DEF Layout
      <3>2. DataEnd(LastChunk, LastSize) \in Nat /\ TailSize \in Nat
            /\ TailSize = MAGIC_LENGTH + TAG_LENGTH + 3 /\ MAGIC_LENGTH \in Nat
            /\ TAG_LENGTH \in Nat
        BY <3>1, DataEndFacts, Dimensions
      <3>3. Len(out) = DataEnd(LastChunk, LastSize) + TailSize
        BY <3>1 DEF Sealed
      <3> DEFINE d == DataEnd(LastChunk, LastSize)
      <3> HIDE DEF d
      <3>4. d \in Nat /\ Len(out) = d + TailSize
        BY <3>2, <3>3 DEF d
      <3>5. QED
        BY <3>2, <3>4
    <2>4. length = Len(out) - 1
      <3> DEFINE n == Len(out) - 1
      <3>1. out \in Seq(HonestCells(written)) /\ n \in Nat /\ n <= Len(out)
        BY <1>2, <2>3
      <3> HIDE DEF n
      <3>2. Len(SubSeq(out, 1, n)) = n
        BY <3>1
      <3>3. src = SubSeq(out, 1, n)
        BY <2>2 DEF n
      <3> HIDE DEF src
      <3>4. length = n
        BY <1>2, <3>2, <3>3
      <3>5. QED
        BY <3>4 DEF n
    <2> HIDE DEF src
    <2>5. \A p \in 1..length : src[p] = out[p]
      BY <1>2, <1>5
    <2>6. SourceOf(src, place) /\ SourceOf(src, 0)
      BY <1>2, <1>5, <2>4, <2>5 DEF SourceOf
    <2>7. WholeStream /\ size = written /\ Fit(fresh, place)
      BY <1>3, <1>5, <2>4, <2>6
    <2>8. LastBlockOK(src, written)
      BY <2>6, <2>7, FinalBlockFound
    <2>9. size >= 0 /\ LastBlockOK(src, size)
      <3> HIDE DEF size
      <3>1. QED
        BY <1>2, <2>7, <2>8
    <2> HIDE DEF fresh
    <2>10. rewound.ok
      BY <1>5, <2>7, SeekLeaves
    <2>11. good
      BY <2>9, <2>10
    <2>12. QED
      BY <1>5, <2>11
  <1> HIDE DEF good
  <1>6. QED
    BY <1>1, <1>4, <1>5

-----------------------------------------------------------------------------
(***************************************************************************)
(* The calls, in terms of where they leave the reader.                     *)
(***************************************************************************)
LEMMA ReadingIs ==
    Reading <=> (mode = "indexed" =>
                    finalized /\ ~torn /\ Fit(rd, damage) /\ Placed(rd, damage))
  BY DEF Reading, Fit, Placed

LEMMA IndexedNow ==
    ASSUME CursorInv, mode = "indexed"
    PROVE  /\ WholeStream /\ Fit(rd, damage) /\ Placed(rd, damage)
           /\ rd.pos \in Nat /\ rd.size = written /\ written \in Nat
           /\ InStep <=> Synced(rd)
           /\ Plaintext \in Seq(ShownCell) /\ Len(Plaintext) = written
  <1>1. WholeStream /\ Fit(rd, damage) /\ Placed(rd, damage)
    BY ReadingIs DEF CursorInv, WholeStream
  <1>2. rd.pos \in Nat /\ rd.size = written
    BY <1>1 DEF Fit, Readers
  <1>3. written \in Nat
    BY <1>1, SealedNow
  <1>4. InStepAt(rd) <=> Synced(rd)
    BY <1>1, SyncedInStep, PastNotInStep, AstrayNotInStep DEF Placed
  <1>5. QED
    BY <1>1, <1>2, <1>3, <1>4, InStepIs, PlaintextIs

\* What the places say depends on nothing but the reader and the stream.
LEMMA SamePlaces ==
    ASSUME UNCHANGED writerVars
    PROVE  /\ Fit(rd, damage)' <=> Fit(rd', damage')
           /\ Placed(rd, damage)' <=> Placed(rd', damage')
           /\ InStepAt(rd)' <=> InStepAt(rd')
           /\ Plaintext' = Plaintext
           /\ finalized' = finalized /\ torn' = torn /\ written' = written /\ out' = out
  <1>1. /\ finalized' = finalized /\ torn' = torn /\ written' = written /\ out' = out
        /\ current_ctr' = current_ctr
    BY DEF writerVars
  <1>2. Plaintext' = Plaintext
    BY <1>1 DEF Plaintext
  <1>3. Fit(rd, damage)' <=> Fit(rd', damage')
    BY <1>1 DEF Fit, SourceOf
  <1>4. LastChunk' = LastChunk /\ LastSize' = LastSize
    BY <1>1 DEF LastChunk, LastSize
  <1>5. Synced(rd)' <=> Synced(rd')
    BY <1>1, <1>4 DEF Synced, Exact, NextIs, From, Base
  <1>6. (Past(rd)' <=> Past(rd')) /\ (Astray(rd)' <=> Astray(rd'))
    BY <1>1 DEF Past, Astray, NextIs, From, Base
  <1>7. Placed(rd, damage)' <=> Placed(rd', damage')
    BY <1>5, <1>6 DEF Placed
  <1>8. InStepAt(rd)' <=> InStepAt(rd')
    BY <1>1, <1>2 DEF InStepAt, From
  <1>9. QED
    BY <1>1, <1>2, <1>3, <1>7, <1>8

LEMMA ReadIs ==
    ASSUME NEW size, mode = "indexed", Read(size)
    PROVE  LET x == ReadLoaded(rd).reader
           IN  /\ UNCHANGED <<writerVars, damage, mode>> /\ rd' = AfterRead(rd, size)
               /\ ReadLoaded(rd).outcome = "error" =>
                     result' = [op |-> "read_error", size |-> size]
               /\ ReadLoaded(rd).outcome # "error" =>
                     result' = [op |-> "read", size |-> size,
                                data |-> SubSeq(x.cache, x.at + 1, x.at + ReadCount(rd, size))]
  BY DEF Read, ReadLoaded, ReadCount, AfterRead, Passed

\* The four ends of a seek.
SeekAnswer(whence, by, ok) == [op |-> "seek", whence |-> whence, by |-> by, ok |-> ok]
SeekTells(whence, by) ==
    /\ whence = "Current" /\ by = 0 /\ rd' = rd /\ result' = SeekAnswer(whence, by, TRUE)
SeekRefuses(whence, by) ==
    /\ rd' = rd /\ result' = SeekAnswer(whence, by, FALSE)
    /\ Asked(whence, by) \notin 0..written - 1
SeekServes(whence, by) ==
    /\ result' = SeekAnswer(whence, by, TRUE)
    /\ Asked(whence, by) \in Nat /\ Fit(rd', damage)
    /\ Past(rd') \/ (Synced(rd') /\ rd'.pos = Asked(whence, by))
    /\ Asked(whence, by) < written => Synced(rd')
SeekMisses(whence, by) ==
    /\ result' = SeekAnswer(whence, by, FALSE)
    /\ Asked(whence, by) \in Nat /\ Fit(rd', damage)
    /\ rd' = rd \/ (Astray(rd') /\ damage # 0)
    /\ damage = 0 => Asked(whence, by) >= written

LEMMA SeekIs ==
    ASSUME CursorInv, NEW whence \in Places, NEW by \in Moves, Seek(whence, by)
    PROVE  /\ mode = "indexed" /\ UNCHANGED <<writerVars, damage, mode>>
           /\ \/ SeekTells(whence, by) \/ SeekRefuses(whence, by)
              \/ SeekServes(whence, by) \/ SeekMisses(whence, by)
  <1> DEFINE asked == Asked(whence, by)
             sought == SeekStart(rd, asked)
             refused == asked < 0 \/ (whence = "End" /\ by > 0)
             told == whence = "Current" /\ by = 0
  <1>1. /\ mode = "indexed" /\ UNCHANGED <<writerVars, damage, mode>>
        /\ rd' = IF told \/ refused THEN rd ELSE sought.reader
        /\ result' = SeekAnswer(whence, by, told \/ (~refused /\ sought.ok))
    BY DEF Seek, SeekAnswer
  <1>2. WholeStream /\ Fit(rd, damage) /\ rd.pos \in Nat /\ rd.size = written /\ written \in Nat
    BY <1>1, IndexedNow
  <1>3. by \in Int
    BY ReaderAssumption
  <1>4. /\ asked \in Int
        /\ told => asked = rd.pos
        /\ whence = "End" => asked = written + by
    BY <1>2, <1>3 DEF Asked, Places
  <1> HIDE DEF asked
  <1>5. CASE told
    <2>1. ~refused
      BY <1>2, <1>4, <1>5
    <2>2. (told \/ (~refused /\ sought.ok)) = TRUE
      BY <1>5, Zenon
    <2>3. QED
      BY <1>1, <1>5, <2>2 DEF SeekTells
  <1>6. CASE ~told /\ refused
    <2>1. (told \/ (~refused /\ sought.ok)) = FALSE
      BY <1>6, Zenon
    <2>2. asked \notin 0..written - 1
      BY <1>2, <1>3, <1>4, <1>6
    <2>3. rd' = rd
      BY <1>1, <1>6
    <2>4. result' = SeekAnswer(whence, by, FALSE)
      BY <1>1, <2>1
    <2>5. QED
      BY <1>1, <2>2, <2>3, <2>4 DEF SeekRefuses, asked
  <1>7. CASE ~told /\ ~refused
    <2>1. asked \in Nat
      BY <1>4, <1>7
    <2>2. /\ Fit(sought.reader, damage) /\ sought.ok \in BOOLEAN
          /\ sought.ok =>
                Past(sought.reader) \/ (Synced(sought.reader) /\ sought.reader.pos = asked)
          /\ sought.ok /\ asked < written => Synced(sought.reader) /\ sought.reader.pos = asked
          /\ ~sought.ok => sought.reader = rd \/ (Astray(sought.reader) /\ damage # 0)
          /\ ~sought.ok /\ damage = 0 => asked >= written
      BY <1>2, <2>1, SeekLeaves
    <2> HIDE DEF sought
    <2>3. rd' = sought.reader
      BY <1>1, <1>7
    <2>4. CASE sought.ok
      <3>1. (told \/ (~refused /\ sought.ok)) = TRUE
        BY <1>7, <2>4, Zenon
      <3>2. result' = SeekAnswer(whence, by, TRUE)
        BY <1>1, <3>1
      <3>3. SeekServes(whence, by)
        BY <2>1, <2>2, <2>3, <2>4, <3>2 DEF SeekServes, asked
      <3>4. QED
        BY <1>1, <3>3
    <2>5. CASE ~sought.ok
      <3>1. (told \/ (~refused /\ sought.ok)) = FALSE
        BY <1>7, <2>5, Zenon
      <3>2. result' = SeekAnswer(whence, by, FALSE)
        BY <1>1, <3>1
      <3>3. SeekMisses(whence, by)
        BY <2>1, <2>2, <2>3, <2>5, <3>2 DEF SeekMisses, asked
      <3>4. QED
        BY <1>1, <3>3
    <2>6. QED
      BY <2>4, <2>5
  <1>8. QED
    BY <1>5, <1>6, <1>7

-----------------------------------------------------------------------------
(***************************************************************************)
(* The invariant is kept.                                                  *)
(***************************************************************************)
LEMMA InitCursor == Init => CursorInv
  <1> SUFFICES ASSUME Init PROVE CursorInv
    OBVIOUS
  <1>1. KeystreamInv /\ StreamHonest /\ Layout
    BY InitKeystream, InitHonest, InitLaid DEF Init
  <1>2. mode = "none" /\ result = [op |-> "none"]
    BY DEF Init, ReaderInit
  <1>3. result # [op |-> "open", asked |-> "indexed"]
    <2>1. result.op = "none"
      BY <1>2
    <2>2. QED
      BY <2>1
  <1>4. Reading /\ Verdict
    BY <1>2, <1>3 DEF Reading, Verdict
  <1>5. QED
    BY <1>1, <1>4 DEF CursorInv

LEMMA OpenKeeps ==
    ASSUME CursorInv, NEW m \in FailSafe \cup {"indexed"}, NEW length \in 0..Len(out),
           NEW place \in 0..length, Open(m, length, place)
    PROVE  Reading' /\ Verdict'
  <1>1. /\ mode = "none" /\ ~torn /\ damage' = place
        /\ result' = [op |-> "open", asked |-> m] /\ UNCHANGED writerVars
    BY DEF Open
  <1>2. KeystreamInv /\ StreamHonest /\ Layout
    BY DEF CursorInv
  <1>3. CASE m = "indexed"
    <2>1. OpenIndexed(Stored(length, place))
      BY <1>3 DEF Open
    <2>2. /\ mode' \in {"indexed", "failed"}
          /\ mode' = "indexed" =>
                /\ WholeStream /\ Fit(rd', place)
                /\ Past(rd') \/ (Synced(rd') /\ rd'.pos = 0)
          /\ mode' = "failed" /\ place = 0 =>
                ~(finalized /\ rd'.src = SubSeq(out, 1, Len(out) - 1))
      BY <1>1, <1>2, <2>1, IndexedOpens
    <2>3. Reading'
      <3>1. ASSUME mode' = "indexed"
            PROVE  finalized' /\ ~torn' /\ Fit(rd, damage)' /\ Placed(rd, damage)'
        <4>1. finalized /\ ~torn /\ Fit(rd', damage') /\ Placed(rd', damage')
          BY <1>1, <2>2, <3>1 DEF WholeStream, Placed
        <4>2. QED
          BY <1>1, <4>1, SamePlaces
      <3>2. QED
        BY <3>1 DEF Reading, Fit, Placed
    <2>4. Verdict'
      <3>1. Whole' <=> (finalized /\ rd'.src = SubSeq(out, 1, Len(out) - 1))
        BY <1>1, SamePlaces DEF Whole
      <3>2. QED
        BY <1>1, <2>2, <3>1 DEF Verdict
    <2>5. QED
      BY <2>3, <2>4
  <1>4. CASE m # "indexed"
    <2>1. m \in FailSafe /\ OpenFailSafe(m, Stored(length, place))
      BY <1>4 DEF Open
    <2>2. mode' = m \/ mode' = "failed"
      BY <2>1 DEF OpenFailSafe, OpenFails
    <2>3. mode' # "none" /\ mode' # "indexed"
      BY <2>1, <2>2 DEF FailSafe
    <2>4. result' # [op |-> "open", asked |-> "indexed"]
      <3>1. result'.asked = m
        BY <1>1
      <3>2. QED
        BY <1>4, <3>1
    <2>5. QED
      BY <2>3, <2>4 DEF Reading, Verdict
  <1>5. QED
    BY <1>3, <1>4

LEMMA ReadKeeps ==
    ASSUME CursorInv, NEW size \in Sizes, Read(size)
    PROVE  Reading' /\ Verdict'
  <1>1. mode \in FailSafe \cup {"indexed"} /\ mode' = mode /\ UNCHANGED writerVars
    BY DEF Read
  <1>2. size \in Nat
    BY ReaderAssumption
  <1>3. result'.op \in {"read", "read_error"}
    BY DEF Read
  <1>4. Verdict'
    <2>1. result' # [op |-> "open", asked |-> "indexed"]
      BY <1>3
    <2>2. mode' # "none"
      BY <1>1 DEF FailSafe
    <2>3. QED
      BY <2>1, <2>2 DEF Verdict
  <1>5. Reading'
    <2>1. ASSUME mode' = "indexed"
          PROVE  finalized' /\ ~torn' /\ Fit(rd, damage)' /\ Placed(rd, damage)'
      <3>1. mode = "indexed"
        BY <1>1, <2>1
      <3>2. WholeStream /\ Fit(rd, damage) /\ Placed(rd, damage)
        BY <3>1, IndexedNow
      <3>3. rd' = AfterRead(rd, size) /\ damage' = damage
        BY <3>1, ReadIs
      <3>4. Fit(AfterRead(rd, size), damage) /\ Placed(AfterRead(rd, size), damage)
        BY <1>2, <3>2, ReadLeaves
      <3>5. finalized /\ ~torn /\ Fit(rd', damage') /\ Placed(rd', damage')
        BY <3>2, <3>3, <3>4 DEF WholeStream
      <3>6. QED
        BY <1>1, <3>5, SamePlaces
    <2>2. QED
      BY <2>1 DEF Reading, Fit, Placed
  <1>6. QED
    BY <1>4, <1>5

LEMMA SeekKeeps ==
    ASSUME CursorInv, NEW whence \in Places, NEW by \in Moves, Seek(whence, by)
    PROVE  Reading' /\ Verdict'
  <1>1. /\ mode = "indexed" /\ UNCHANGED <<writerVars, damage, mode>>
        /\ \/ SeekTells(whence, by) \/ SeekRefuses(whence, by)
           \/ SeekServes(whence, by) \/ SeekMisses(whence, by)
    BY SeekIs
  <1>2. result'.op = "seek"
    BY DEF Seek
  <1>3. Verdict'
    <2>1. result' # [op |-> "open", asked |-> "indexed"]
      BY <1>2
    <2>2. mode' # "none"
      BY <1>1
    <2>3. QED
      BY <2>1, <2>2 DEF Verdict
  <1>4. WholeStream /\ Fit(rd, damage) /\ Placed(rd, damage)
    BY <1>1, IndexedNow
  <1>5. Fit(rd', damage) /\ Placed(rd', damage)
    BY <1>1, <1>4 DEF SeekTells, SeekRefuses, SeekServes, SeekMisses, Placed
  <1>6. finalized /\ ~torn /\ Fit(rd', damage') /\ Placed(rd', damage')
    BY <1>1, <1>4, <1>5 DEF WholeStream
  <1>7. finalized' /\ ~torn' /\ Fit(rd, damage)' /\ Placed(rd, damage)'
    BY <1>1, <1>6, SamePlaces
  <1>8. QED
    BY <1>3, <1>7 DEF Reading, Fit, Placed

LEMMA StepCursor == CursorInv /\ [Next]_vars => CursorInv'
  <1> SUFFICES ASSUME CursorInv, [Next]_vars PROVE CursorInv'
    OBVIOUS
  <1>1. [WriterNext]_writerVars
    BY DEF Next, Writing, Open, Read, Seek, vars
  <1>2. KeystreamInv' /\ StreamHonest' /\ Layout'
    BY <1>1, StepKeepsKeystream, StepHonest, StepLaid DEF CursorInv
  <1>3. CASE Writing
    <2>1. mode = "none" /\ mode' = mode /\ result' = result
      BY <1>3 DEF Writing, readerVars
    <2>2. result' = [op |-> "none"]
      BY <2>1 DEF CursorInv, Verdict
    <2>3. result' # [op |-> "open", asked |-> "indexed"]
      <3>1. result'.op = "none"
        BY <2>2
      <3>2. QED
        BY <3>1
    <2>4. Reading' /\ Verdict'
      BY <2>1, <2>2, <2>3 DEF Reading, Verdict
    <2>5. QED
      BY <1>2, <2>4 DEF CursorInv
  <1>4. ASSUME NEW m \in FailSafe \cup {"indexed"}, NEW length \in 0..Len(out),
               NEW place \in 0..length, Open(m, length, place)
        PROVE  CursorInv'
    BY <1>2, <1>4, OpenKeeps DEF CursorInv
  <1>5. ASSUME NEW size \in Sizes, Read(size) PROVE CursorInv'
    BY <1>2, <1>5, ReadKeeps DEF CursorInv
  <1>6. ASSUME NEW whence \in Places, NEW by \in Moves, Seek(whence, by) PROVE CursorInv'
    BY <1>2, <1>6, SeekKeeps DEF CursorInv
  <1>7. CASE UNCHANGED vars
    <2>1. UNCHANGED writerVars /\ UNCHANGED <<damage, mode, rd, result>>
      BY <1>7 DEF vars, readerVars
    <2>2. /\ Fit(rd, damage)' <=> Fit(rd, damage)
          /\ Placed(rd, damage)' <=> Placed(rd, damage)
          /\ finalized' = finalized /\ torn' = torn /\ out' = out
      BY <2>1, SamePlaces
    <2>3. Reading'
      BY <2>1, <2>2 DEF CursorInv, Reading, Fit, Placed
    <2>4. Verdict'
      BY <2>1, <2>2 DEF CursorInv, Verdict, Whole
    <2>5. QED
      BY <1>2, <2>3, <2>4 DEF CursorInv
  <1>8. QED
    BY <1>3, <1>4, <1>5, <1>6, <1>7 DEF Next

-----------------------------------------------------------------------------
LEMMA OpensWholeOnly == CursorInv => OpensWholeStreamsOnly
  <1> SUFFICES ASSUME CursorInv PROVE OpensWholeStreamsOnly
    OBVIOUS
  <1>1. ASSUME mode = "indexed"
        PROVE  /\ Len(rd.src) = Len(out) - 1 /\ finalized
               /\ damage = 0 => Whole /\ rd.size = written
    <2>1. WholeStream /\ Fit(rd, damage) /\ rd.size = written
      BY <1>1, IndexedNow
    <2>2. SourceOf(rd.src, damage) /\ finalized
      BY <2>1 DEF Fit, WholeStream
    <2>3. out \in Seq(HonestCells(written))
      BY <2>1, SealedNow
    <2> DEFINE src == rd.src
               n == Len(src)
               t == SubSeq(out, 1, n)
    <2>4. src \in Seq(HonestCells(written)) /\ n = Len(out) - 1 /\ n \in Nat
      BY <2>2 DEF SourceOf
    <2>5. damage = 0 => \A p \in 1..n : src[p] = out[p]
      BY <2>2 DEF SourceOf
    <2> HIDE DEF src
    <2>6. n <= Len(out)
      BY <2>3, <2>4
    <2> HIDE DEF n
    <2>7. t \in Seq(HonestCells(written)) /\ Len(t) = n /\ \A p \in 1..n : t[p] = out[p]
      BY <2>3, <2>4, <2>6
    <2> HIDE DEF t
    <2>8. n = Len(src)
      BY DEF n
    <2>9. damage = 0 => src = t
      BY <2>4, <2>5, <2>7, <2>8, SameSequence
    <2>10. damage = 0 => rd.src = SubSeq(out, 1, Len(out) - 1)
      BY <2>4, <2>9 DEF src, t
    <2>11. Len(rd.src) = Len(out) - 1
      BY <2>4, <2>8 DEF src
    <2>12. QED
      BY <2>1, <2>2, <2>10, <2>11 DEF Whole
  <1>2. result = [op |-> "open", asked |-> "indexed"] /\ damage = 0 /\ Whole => mode = "indexed"
    BY DEF CursorInv, Verdict
  <1>3. QED
    BY <1>1, <1>2 DEF OpensWholeStreamsOnly

(***************************************************************************)
(* EncryptionLayerReader::initialize accepts the stream of a finalized     *)
(* writer, whole, and nothing else that writing, cutting and changing one  *)
(* byte can leave, and derives the length of the plaintext from it: for    *)
(* every size of chunk, tag and magic and every sequence of writes.        *)
(***************************************************************************)
THEOREM IndexedOpensWhole == Spec => []OpensWholeStreamsOnly
  <1>1. Init => CursorInv
    BY InitCursor
  <1>2. CursorInv /\ [Next]_vars => CursorInv'
    BY StepCursor
  <1>3. CursorInv => OpensWholeStreamsOnly
    BY OpensWholeOnly
  <1>4. QED
    BY <1>1, <1>2, <1>3, PTL DEF Spec

LEMMA StepServes ==
    ASSUME CursorInv, Next, mode = "indexed", damage = 0
    PROVE  /\ result'.op # "read_error"
           /\ result'.op = "seek" /\ ~result'.ok =>
                Asked(result'.whence, result'.by) \notin 0..written - 1
  <1>1. ASSUME NEW size \in Sizes, Read(size) PROVE result'.op = "read"
    <2>1. size \in Nat
      BY ReaderAssumption
    <2>2. WholeStream /\ Fit(rd, damage) /\ Placed(rd, damage)
      BY IndexedNow
    <2>3. ReadLoaded(rd).outcome = "error" => damage # 0
      BY <2>1, <2>2, ReadLeaves
    <2>4. QED
      BY <1>1, <2>3, ReadIs
  <1>2. ASSUME NEW whence \in Places, NEW by \in Moves, Seek(whence, by)
        PROVE  /\ result'.op = "seek" /\ result'.whence = whence /\ result'.by = by
               /\ ~result'.ok => Asked(whence, by) \notin 0..written - 1
    <2>1. \/ SeekTells(whence, by) \/ SeekRefuses(whence, by)
          \/ SeekServes(whence, by) \/ SeekMisses(whence, by)
      BY <1>2, SeekIs
    <2>2. result'.op = "seek" /\ result'.whence = whence /\ result'.by = by
      BY <1>2 DEF Seek
    <2>3. \A ok : SeekAnswer(whence, by, ok).ok = ok
      BY DEF SeekAnswer
    <2>4. (SeekTells(whence, by) \/ SeekServes(whence, by)) => result'.ok = TRUE
      BY <2>3 DEF SeekTells, SeekServes
    <2>5. (SeekRefuses(whence, by) \/ SeekMisses(whence, by)) =>
              Asked(whence, by) \notin 0..written - 1
      <3>1. written \in Nat
        BY IndexedNow
      <3>2. SeekMisses(whence, by) => Asked(whence, by) \in Nat /\ Asked(whence, by) >= written
        BY DEF SeekMisses
      <3>3. SeekMisses(whence, by) => Asked(whence, by) \notin 0..written - 1
        BY <3>1, <3>2
      <3>4. QED
        BY <3>3 DEF SeekRefuses
    <2>6. QED
      BY <2>1, <2>2, <2>4, <2>5
  <1>3. \/ \E size \in Sizes : Read(size)
        \/ \E whence \in Places, by \in Moves : Seek(whence, by)
    BY DEF Next, Writing, Open
  <1>4. QED
    BY <1>1, <1>2, <1>3

(***************************************************************************)
(* As long as no byte of the stream was changed, read_internal never fails *)
(* and seek fails only where it names no byte of the plaintext, whatever   *)
(* the calls before.                                                       *)
(***************************************************************************)
THEOREM IndexedServes == Spec => UndamagedServes
  <1> DEFINE Serves ==
        mode = "indexed" /\ damage = 0 =>
          /\ result'.op # "read_error"
          /\ result'.op = "seek" /\ ~result'.ok =>
               Asked(result'.whence, result'.by) \notin 0..written - 1
  <1>1. Init => CursorInv
    BY InitCursor
  <1>2. CursorInv /\ [Next]_vars => CursorInv'
    BY StepCursor
  <1>3. CursorInv /\ [Next]_vars => [Serves]_vars
    BY StepServes
  <1>4. UndamagedServes <=> [][Serves]_vars
    BY DEF UndamagedServes
  <1> HIDE DEF Serves
  <1>5. QED
    BY <1>1, <1>2, <1>3, <1>4, PTL DEF Spec

-----------------------------------------------------------------------------
(***************************************************************************)
(* Every call is a call on the cursor, or changes nothing of it.           *)
(***************************************************************************)
\* What a call leaves promised.
LEMMA MappedNext ==
    ASSUME WholeStream, UNCHANGED writerVars, mode' = "indexed", NEW place, Fit(rd', place)
    PROVE  /\ Synced(rd') => InStep'
           /\ Past(rd') \/ Astray(rd') => ~InStep'
           /\ Plaintext' = Plaintext
  <1>1. InStep' <=> InStepAt(rd')
    <2>1. InStep' <=> mode' = "indexed" /\ InStepAt(rd)'
      BY DEF InStep, InStepAt, From
    <2>2. QED
      BY <2>1, SamePlaces
  <1>2. QED
    BY <1>1, SyncedInStep, PastNotInStep, AstrayNotInStep, SamePlaces

\* A read is a Get of the cursor, as long as it is promised.
LEMMA ReadIsGet ==
    ASSUME CursorInv, NEW size \in Sizes, Read(size), mode = "indexed"
    PROVE  \/ \E count \in 0..size : Cursor!Get(size, count)
           \/ Cursor!GetFails(size)
           \/ Cursor!GetUnpromised(size)
  <1> DEFINE x == ReadLoaded(rd).reader
             count == ReadCount(rd, size)
             y == AfterRead(rd, size)
             outcome == ReadLoaded(rd).outcome
             data == SubSeq(x.cache, x.at + 1, x.at + count)
  <1>1. size \in Nat
    BY ReaderAssumption
  <1>2. /\ WholeStream /\ Fit(rd, damage) /\ Placed(rd, damage)
        /\ InStep <=> Synced(rd)
        /\ rd.pos \in Nat /\ written \in Nat
        /\ Plaintext \in Seq(ShownCell) /\ Len(Plaintext) = written
    BY IndexedNow
  <1>3. /\ UNCHANGED writerVars /\ damage' = damage /\ mode' = mode /\ rd' = y
        /\ outcome = "error" => result' = [op |-> "read_error", size |-> size]
        /\ outcome # "error" => result' = [op |-> "read", size |-> size, data |-> data]
    BY ReadIs
  <1>4. /\ outcome \in {"none", "error", "some"}
        /\ Fit(y, damage)
        /\ ~Synced(rd) \/ outcome = "error" => Past(y) \/ Astray(y)
        /\ Synced(rd) /\ outcome = "none" =>
              Past(y) /\ rd.pos >= written /\ count = 0 /\ x.at \in Nat
        /\ Synced(rd) /\ outcome = "some" =>
              /\ Synced(y) /\ y.pos = rd.pos + count /\ count \in 0..size
              /\ count > 0 => rd.pos + count <= written
              /\ count = 0 => size = 0 \/ rd.pos >= written
              /\ data = SubSeq(Plaintext, rd.pos + 1, rd.pos + count)
    BY <1>1, <1>2, ReadLeaves
  <1>5. mode' = "indexed" /\ Fit(rd', damage)
    BY <1>3, <1>4
  <1>6. /\ Synced(rd') => InStep'
        /\ Past(rd') \/ Astray(rd') => ~InStep'
        /\ Plaintext' = Plaintext
    BY <1>2, <1>3, <1>5, MappedNext
  <1>7. x.cache \in Seq(ShownCell)
    BY <1>1, <1>2, ReadLoads DEF Fit, Readers
  <1> HIDE DEF x, count, y, outcome
  <1>8. CASE outcome = "error"
    <2>1. ~InStep' /\ result' = [op |-> "read_error", size |-> size]
      BY <1>3, <1>4, <1>6, <1>8
    <2>2. Cursor!GetFails(size)
      BY <1>3, <1>5, <1>6, <2>1 DEF Cursor!GetFails
    <2>3. QED
      BY <2>2
  <1>9. CASE Synced(rd) /\ outcome = "none"
    <2>1. /\ ~InStep' /\ InStep /\ rd.pos >= written /\ count = 0 /\ x.at \in Nat
          /\ result' = [op |-> "read", size |-> size, data |-> data]
      BY <1>2, <1>3, <1>4, <1>6, <1>9
    <2>2. data = <<>>
      BY <1>7, <2>1
    <2>3. SubSeq(Plaintext, rd.pos + 1, rd.pos + 0) = <<>>
      BY <1>2
    <2> HIDE DEF data
    <2>4. 0 \in 0..size /\ Cursor!Get(size, 0)
      BY <1>1, <1>2, <1>3, <1>5, <1>6, <2>1, <2>2, <2>3 DEF Cursor!Get
    <2>5. QED
      BY <2>4
  <1>10. CASE Synced(rd) /\ outcome = "some"
    <2>1. /\ InStep' /\ InStep /\ y.pos = rd.pos + count /\ count \in 0..size
          /\ count > 0 => rd.pos + count <= written
          /\ count = 0 => size = 0 \/ rd.pos >= written
          /\ data = SubSeq(Plaintext, rd.pos + 1, rd.pos + count)
          /\ result' = [op |-> "read", size |-> size, data |-> data]
      BY <1>2, <1>3, <1>4, <1>6, <1>10
    <2> HIDE DEF data
    <2>2. Cursor!Get(size, count)
      BY <1>1, <1>2, <1>3, <1>5, <1>6, <2>1 DEF Cursor!Get
    <2>3. QED
      BY <2>1, <2>2
  <1>11. CASE ~Synced(rd) /\ outcome # "error"
    <2>1. /\ ~InStep' /\ ~InStep
          /\ result' = [op |-> "read", size |-> size, data |-> data]
      BY <1>2, <1>3, <1>4, <1>6, <1>11
    <2> HIDE DEF data
    <2>2. Cursor!GetUnpromised(size)
      BY <1>3, <1>5, <1>6, <2>1 DEF Cursor!GetUnpromised
    <2>3. QED
      BY <2>2
  <1>12. QED
    BY <1>4, <1>8, <1>9, <1>10, <1>11

\* A seek is a Move of the cursor.
LEMMA SeekIsMove ==
    ASSUME CursorInv, NEW whence \in Places, NEW by \in Moves, Seek(whence, by)
    PROVE  Cursor!Move(whence, by) \/ Cursor!MoveFails(whence, by)
  <1> DEFINE asked == Asked(whence, by)
  <1>1. /\ mode = "indexed" /\ UNCHANGED <<writerVars, damage, mode>>
        /\ \/ SeekTells(whence, by) \/ SeekRefuses(whence, by)
           \/ SeekServes(whence, by) \/ SeekMisses(whence, by)
    BY SeekIs
  <1>2. /\ WholeStream /\ Fit(rd, damage) /\ Placed(rd, damage)
        /\ InStep <=> Synced(rd)
        /\ rd.pos \in Nat /\ rd.size = written /\ written \in Nat
        /\ Plaintext \in Seq(ShownCell) /\ Len(Plaintext) = written
    BY <1>1, IndexedNow
  <1>3. UNCHANGED writerVars /\ mode' = "indexed" /\ by \in Int
    BY <1>1, ReaderAssumption
  <1>4. Plaintext' = Plaintext
    BY <1>3, SamePlaces
  <1>5. rd' = rd => (InStep' <=> InStep)
    BY <1>1, <1>3, <1>4, SamePlaces DEF InStep
  <1>6. ASSUME Cursor!Known(whence)
        PROVE  Cursor!Target(whence, by) = asked
    BY <1>1, <1>2, <1>6 DEF Cursor!Known, Cursor!Target, Asked, Places
  <1>7. Cursor!Known(whence) <=> InStep \/ whence # "Current"
    BY DEF Cursor!Known
  <1>8. CASE SeekTells(whence, by)
    <2>1. /\ whence = "Current" /\ by = 0 /\ rd' = rd
          /\ result' = [op |-> "seek", whence |-> whence, by |-> by, ok |-> TRUE]
      BY <1>8 DEF SeekTells, SeekAnswer
    <2>2. asked = rd.pos
      BY <1>2, <2>1 DEF Asked
    <2> HIDE DEF asked
    <2>3. Cursor!Known(whence) => InStep /\ Cursor!Target(whence, by) = rd.pos
      BY <1>6, <1>7, <2>1, <2>2
    <2>4. Cursor!Move(whence, by)
      BY <1>1, <1>2, <1>3, <1>4, <1>5, <2>1, <2>3 DEF Cursor!Move
    <2>5. QED
      BY <2>4
  <1>9. CASE SeekRefuses(whence, by)
    <2>1. /\ rd' = rd
          /\ result' = [op |-> "seek", whence |-> whence, by |-> by, ok |-> FALSE]
      BY <1>9 DEF SeekRefuses, SeekAnswer
    <2>2. Cursor!MoveFails(whence, by)
      BY <1>1, <1>3, <1>4, <1>5, <2>1 DEF Cursor!MoveFails
    <2>3. QED
      BY <2>2
  <1>10. CASE SeekServes(whence, by)
    <2>1. /\ result' = [op |-> "seek", whence |-> whence, by |-> by, ok |-> TRUE]
          /\ asked \in Nat /\ Fit(rd', damage)
          /\ Past(rd') \/ (Synced(rd') /\ rd'.pos = asked)
          /\ asked < written => Synced(rd')
      BY <1>10 DEF SeekServes, SeekAnswer
    <2>2. /\ Synced(rd') => InStep'
          /\ Past(rd') \/ Astray(rd') => ~InStep'
      BY <1>2, <1>3, <2>1, MappedNext
    <2> HIDE DEF asked
    <2>3. /\ InStep' => rd'.pos = asked
          /\ asked < written => InStep'
      BY <2>1, <2>2
    <2>4. Cursor!Move(whence, by)
      BY <1>1, <1>2, <1>3, <1>4, <1>6, <2>1, <2>3 DEF Cursor!Move
    <2>5. QED
      BY <2>4
  <1>11. CASE SeekMisses(whence, by)
    <2>1. /\ result' = [op |-> "seek", whence |-> whence, by |-> by, ok |-> FALSE]
          /\ Fit(rd', damage) /\ (rd' = rd \/ Astray(rd'))
      BY <1>11 DEF SeekMisses, SeekAnswer
    <2>2. rd' = rd \/ ~InStep'
      BY <1>2, <1>3, <2>1, MappedNext
    <2>3. Cursor!MoveFails(whence, by)
      BY <1>1, <1>3, <1>4, <1>5, <2>1, <2>2 DEF Cursor!MoveFails
    <2>4. QED
      BY <2>3
  <1>12. QED
    BY <1>1, <1>8, <1>9, <1>10, <1>11

\* A reader that is not open is no cursor.
LEMMA ClosedStays ==
    ASSUME mode # "indexed", mode' # "indexed"
    PROVE  UNCHANGED Cursor!cursorVars
  <1>1. InStep = FALSE /\ InStep' = FALSE
    BY DEF InStep
  <1>2. (mode = "indexed") = FALSE /\ (mode' = "indexed") = FALSE
    OBVIOUS
  <1>3. QED
    BY <1>1, <1>2 DEF Cursor!cursorVars

LEMMA OpenIsOpen ==
    ASSUME CursorInv, NEW m \in FailSafe \cup {"indexed"}, NEW length \in 0..Len(out),
           NEW place \in 0..length, Open(m, length, place), mode' = "indexed"
    PROVE  Cursor!Open
  <1>1. /\ mode = "none" /\ ~torn /\ result' = [op |-> "open", asked |-> m]
        /\ UNCHANGED writerVars
    BY DEF Open
  <1>2. m = "indexed"
    BY DEF Open, OpenFailSafe, OpenFails, FailSafe
  <1>3. KeystreamInv /\ StreamHonest /\ Layout
    BY DEF CursorInv
  <1>4. OpenIndexed(Stored(length, place))
    BY <1>2 DEF Open
  <1>5. /\ WholeStream /\ Fit(rd', place)
        /\ Past(rd') \/ (Synced(rd') /\ rd'.pos = 0)
        /\ 0 < written => Synced(rd')
    BY <1>1, <1>3, <1>4, IndexedOpens
  <1>6. /\ Synced(rd') => InStep'
        /\ Past(rd') \/ Astray(rd') => ~InStep'
        /\ Plaintext' = Plaintext
    BY <1>1, <1>5, MappedNext
  <1>7. written \in Nat /\ Len(Plaintext) = written
    BY <1>5, SealedNow, PlaintextIs
  <1>8. (InStep' => rd'.pos = 0) /\ (Len(Plaintext') > 0 => InStep')
    BY <1>5, <1>6, <1>7
  <1>9. QED
    BY <1>1, <1>8 DEF Cursor!Open

LEMMA CursorStep ==
    ASSUME CursorInv, [Next]_vars
    PROVE  [Cursor!CursorNext]_(Cursor!cursorVars)
  <1>1. CASE Writing
    <2>1. mode # "indexed" /\ mode' # "indexed"
      BY <1>1 DEF Writing, readerVars
    <2>2. QED
      BY <2>1, ClosedStays
  <1>2. ASSUME NEW m \in FailSafe \cup {"indexed"}, NEW length \in 0..Len(out),
               NEW place \in 0..length, Open(m, length, place)
        PROVE  Cursor!Open \/ UNCHANGED Cursor!cursorVars
    <2>1. mode # "indexed"
      BY <1>2 DEF Open
    <2>2. QED
      BY <1>2, <2>1, OpenIsOpen, ClosedStays
  <1>3. ASSUME NEW size \in Sizes, Read(size)
        PROVE  \/ \E count \in 0..size : Cursor!Get(size, count)
               \/ Cursor!GetFails(size) \/ Cursor!GetUnpromised(size)
               \/ UNCHANGED Cursor!cursorVars
    <2>1. CASE mode = "indexed"
      BY <1>3, <2>1, ReadIsGet
    <2>2. CASE mode # "indexed"
      <3>1. mode' # "indexed"
        BY <1>3, <2>2 DEF Read
      <3>2. QED
        BY <2>2, <3>1, ClosedStays
    <2>3. QED
      BY <2>1, <2>2
  <1>4. ASSUME NEW whence \in Places, NEW by \in Moves, Seek(whence, by)
        PROVE  Cursor!Move(whence, by) \/ Cursor!MoveFails(whence, by)
    BY <1>4, SeekIsMove
  <1>5. CASE UNCHANGED vars
    <2>1. UNCHANGED <<writerVars, mode, rd, result>>
      BY <1>5 DEF vars, readerVars
    <2>2. Plaintext' = Plaintext
      BY <2>1, SamePlaces
    <2>3. InStep' = InStep
      BY <2>1, <2>2, SamePlaces DEF InStep
    <2>4. QED
      BY <2>1, <2>2, <2>3 DEF Cursor!cursorVars
  <1>6. QED
    BY <1>1, <1>2, <1>3, <1>4, <1>5 DEF Next, Places, Cursor!CursorNext

(***************************************************************************)
(* The seekable reader implements LayerCursor: over every stream the       *)
(* writer can leave, a byte of it changed or not, a read returns the       *)
(* plaintext at the position and a seek goes where it was asked, until a   *)
(* call fails or the end is passed; then nothing is served as if it were   *)
(* in step before a seek to a byte of the plaintext succeeds.              *)
(***************************************************************************)
THEOREM IndexedImplementsCursor == Spec => LayerRefinesCursor
  <1>1. Init => CursorInv
    BY InitCursor
  <1>2. CursorInv /\ [Next]_vars => CursorInv'
    BY StepCursor
  <1>3. Init => Cursor!CursorInit
    <2> SUFFICES ASSUME Init PROVE Cursor!CursorInit
      OBVIOUS
    <2>1. mode # "indexed"
      BY DEF Init, ReaderInit
    <2>2. ~InStep
      BY <2>1 DEF InStep
    <2>3. QED
      BY <2>1, <2>2 DEF Cursor!CursorInit
  <1>4. CursorInv /\ [Next]_vars => [Cursor!CursorNext]_(Cursor!cursorVars)
    BY CursorStep
  <1>5. QED
    BY <1>1, <1>2, <1>3, <1>4, PTL DEF Spec, LayerRefinesCursor, Cursor!CursorSpec
=============================================================================
