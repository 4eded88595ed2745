------------------------- MODULE EntryDataReaderProofs -------------------------
(***************************************************************************)
(* ArchiveEntryDataReader implements a cursor over the bytes of its entry, *)
(* for every archive ArchiveWriter can produce, failed calls included, and *)
(* every sequence of calls.                                                *)
(*                                                                         *)
(* The argument: the sizes in the index add up to the positions at which   *)
(* the blocks' bytes lie in the content (SumOf, ContentLaid), so a read    *)
(* inside a block takes the same part of the content (PartRead).  Between  *)
(* calls the stream is at the header of the block to read, just behind the *)
(* block before it, or inside the block (Placed, Inside).  The index is    *)
(* faithful (ContentInv), so the only header of the entry it can meet is   *)
(* that of the block to read (OwnHeader), and the first or the last block  *)
(* that a sum singles out is the one that holds the target of a seek       *)
(* (SeekStartHits, SeekEndHits).                                           *)
(***************************************************************************)
EXTENDS EntryDataReader, ArchiveContentProofs

-----------------------------------------------------------------------------
(***************************************************************************)
(* Sizes and contents of the first blocks.                                 *)
(***************************************************************************)
\* The sizes of the first n records of an index.
SumOf(index, n) ==
    LET sum[i \in 0..n] == IF i = 0 THEN 0 ELSE sum[i - 1] + index[(i - 1) + 1].size
    IN  sum[n]

LEMMA SumIs == \A n : SumOfFirst(n) = SumOf(offsets_and_sizes, n)
  BY DEF SumOfFirst, SumOf, SizeOf

LEMMA RecordFacts ==
    ASSUME NEW index \in Seq(IndexRecord), NEW i \in 1..Len(index)
    PROVE  index[i] \in IndexRecord /\ index[i].offset \in Nat /\ index[i].size \in Nat
  <1>1. index[i] \in IndexRecord
    OBVIOUS
  <1>2. QED
    BY <1>1 DEF IndexRecord

\* The partial sums exist.
LEMMA SumsExist ==
    ASSUME NEW L \in Nat, NEW size \in [1..L -> Nat]
    PROVE  \E f \in [0..L -> Nat] : f[0] = 0 /\ \A i \in 1..L : f[i] = f[i - 1] + size[i]
  <1> DEFINE Good(m, f) == f[0] = 0 /\ \A i \in 1..m : f[i] = f[i - 1] + size[i]
             S == {m \in 0..L : \E f \in [0..m -> Nat] : Good(m, f)}
  <1>1. 0 \in S
    <2> DEFINE f == [i \in 0..0 |-> 0]
    <2>1. f \in [0..0 -> Nat] /\ Good(0, f) /\ 0 \in 0..L
      OBVIOUS
    <2> HIDE DEF f, Good
    <2>2. QED
      BY <2>1
  <1>2. ASSUME NEW m \in 0 .. L - 1, m \in S PROVE m + 1 \in S
    <2>1. PICK f \in [0..m -> Nat] : Good(m, f)
      BY <1>2
    <2> DEFINE g == [i \in 0..m + 1 |-> IF i <= m THEN f[i] ELSE f[m] + size[m + 1]]
    <2>2. m + 1 \in 1..L /\ m + 1 \in 0..L /\ m \in 0..m
      OBVIOUS
    <2>3. f[m] + size[m + 1] \in Nat
      BY <2>2
    <2>4. g \in [0..m + 1 -> Nat]
      BY <2>3
    <2>5. g[0] = 0
      BY <2>1
    <2>6. ASSUME NEW i \in 1..m + 1 PROVE g[i] = g[i - 1] + size[i]
      <3>1. CASE i <= m
        <4>1. i - 1 \in 0..m /\ i \in 0..m /\ i \in 1..m
          BY <3>1
        <4>2. g[i] = f[i] /\ g[i - 1] = f[i - 1]
          BY <4>1
        <4>3. QED
          BY <2>1, <4>1, <4>2
      <3>2. CASE i = m + 1
        <4>1. i - 1 = m /\ ~(i <= m) /\ m \in 0..m + 1
          BY <3>2
        <4>2. g[i] = f[m] + size[i] /\ g[i - 1] = f[m]
          BY <3>2, <4>1
        <4>3. QED
          BY <4>2
      <3>3. i <= m \/ i = m + 1
        OBVIOUS
      <3>4. QED
        BY <3>1, <3>2, <3>3
    <2>7. Good(m + 1, g)
      BY <2>5, <2>6
    <2> HIDE DEF g, Good
    <2>8. QED
      BY <2>2, <2>4, <2>7
  <1>3. \A i \in 0..L : i \in S
    <2> HIDE DEF S
    <2>1. QED
      BY <1>1, <1>2, UpInduction
  <1>4. L \in S
    <2>1. L \in 0..L
      OBVIOUS
    <2> HIDE DEF S
    <2>2. QED
      BY <1>3, <2>1
  <1>5. QED
    BY <1>4

\* The sum of the first n sizes is the n-th of the partial sums.
LEMMA SumUnfold ==
    ASSUME NEW index \in Seq(IndexRecord), NEW f \in [0..Len(index) -> Nat], f[0] = 0,
           \A i \in 1..Len(index) : f[i] = f[i - 1] + index[i].size,
           NEW n \in 0..Len(index)
    PROVE  SumOf(index, n) = f[n]
  <1> DEFINE body(h) == [i \in 0..n |-> IF i = 0 THEN 0
                                        ELSE h[i - 1] + index[(i - 1) + 1].size]
             g == CHOOSE h : h = body(h)
             e == [i \in 0..n |-> f[i]]
  <1>1. n \in Nat /\ Len(index) \in Nat /\ n <= Len(index)
    OBVIOUS
  <1>2. \A i \in 1..n : i - 1 \in 0..n /\ i \in 0..n /\ i \in 1..Len(index) /\ (i - 1) + 1 = i
    BY <1>1
  <1>3. e = body(e)
    <2>1. \A i \in 0..n : i # 0 => i \in 1..n
      BY <1>1
    <2>2. \A i \in 0..n : e[i] = f[i] /\ i \in 0..Len(index)
      BY <1>1
    <2>3. ASSUME NEW i \in 1..n PROVE e[i] = e[i - 1] + index[(i - 1) + 1].size
      BY <1>2, <2>2
    <2>4. e[0] = 0 /\ 0 \in 0..n
      BY <1>1, <2>2
    <2>5. e = [i \in 0..n |-> e[i]]
      OBVIOUS
    <2> HIDE DEF e
    <2>6. QED
      BY <2>1, <2>3, <2>4, <2>5
  <1>4. g = body(g)
    <2> HIDE DEF body
    <2>1. QED
      BY <1>3
  <1>5. SumOf(index, n) = g[n]
    BY DEF SumOf
  <1>6. \A i \in 0..n : g[i] = f[i]
    <2> DEFINE S == {i \in 0..n : g[i] = f[i]}
    <2> HIDE DEF g
    <2>1. 0 \in S
      BY <1>1, <1>4
    <2>2. ASSUME NEW i \in 0..n - 1, i \in S PROVE i + 1 \in S
      <3>1. i + 1 \in 1..n /\ (i + 1) - 1 = i /\ i \in 0..n /\ i + 1 \in 0..n /\ i + 1 # 0
        BY <1>1
      <3>2. g[i + 1] = g[i] + index[i + 1].size
        BY <1>4, <3>1
      <3>3. f[i + 1] = f[i] + index[i + 1].size
        BY <1>2, <3>1
      <3>4. g[i] = f[i]
        BY <2>2
      <3>5. QED
        BY <3>1, <3>2, <3>3, <3>4
    <2> HIDE DEF S
    <2>3. \A i \in 0..n : i \in S
      BY <1>1, <2>1, <2>2, UpInduction
    <2>4. QED
      BY <2>3 DEF S
  <1>7. n \in 0..n
    BY <1>1
  <1> HIDE DEF g
  <1>8. QED
    BY <1>5, <1>6, <1>7

LEMMA SumFacts ==
    ASSUME NEW index \in Seq(IndexRecord)
    PROVE  /\ SumOf(index, 0) = 0
           /\ \A i \in 0..Len(index) : SumOf(index, i) \in Nat
           /\ \A i \in 1..Len(index) :
                 SumOf(index, i) = SumOf(index, i - 1) + index[i].size
  <1> DEFINE L == Len(index)
             size == [i \in 1..L |-> index[i].size]
  <1>1. L \in Nat /\ \A i \in 1..L : index[i].size \in Nat
    BY RecordFacts
  <1>2. size \in [1..L -> Nat] /\ \A i \in 1..L : size[i] = index[i].size
    BY <1>1
  <1>3. PICK f \in [0..L -> Nat] : f[0] = 0 /\ \A i \in 1..L : f[i] = f[i - 1] + size[i]
    <2> HIDE DEF L, size
    <2>1. QED
      BY <1>1, <1>2, SumsExist
  <1>4. \A i \in 1..L : f[i] = f[i - 1] + index[i].size
    BY <1>2, <1>3
  <1>5. \A i \in 0..L : SumOf(index, i) = f[i]
    BY <1>3, <1>4, SumUnfold
  <1>6. 0 \in 0..L /\ \A i \in 1..L : i \in 0..L /\ i - 1 \in 0..L
    BY <1>1
  <1> HIDE DEF L
  <1>7. /\ SumOf(index, 0) = 0
        /\ \A i \in 0..L : SumOf(index, i) \in Nat
        /\ \A i \in 1..L : SumOf(index, i) = SumOf(index, i - 1) + index[i].size
    BY <1>3, <1>4, <1>5, <1>6
  <1>8. QED
    BY <1>7 DEF L

LEMMA SumMonotone ==
    ASSUME NEW index \in Seq(IndexRecord), NEW i \in 0..Len(index), NEW j \in 0..Len(index),
           i <= j
    PROVE  SumOf(index, i) <= SumOf(index, j)
  <1> DEFINE S == {d \in 0 .. Len(index) - i : SumOf(index, i) <= SumOf(index, i + d)}
             n == Len(index) - i
  <1>1. i \in Nat /\ n \in Nat /\ Len(index) \in Nat
    OBVIOUS
  <1>2. 0 \in S
    <2>1. SumOf(index, i) \in Nat /\ i + 0 = i
      BY <1>1, SumFacts
    <2>2. QED
      BY <1>1, <2>1
  <1>3. ASSUME NEW d \in 0 .. n - 1, d \in S PROVE d + 1 \in S
    <2>1. i + d \in 0..Len(index) /\ i + (d + 1) \in 1..Len(index) /\ d + 1 \in 0..n
          /\ (i + (d + 1)) - 1 = i + d
      BY <1>1
    <2>2. index[i + (d + 1)].size \in Nat
      BY <2>1, RecordFacts
    <2>3. /\ SumOf(index, i + (d + 1)) = SumOf(index, i + d) + index[i + (d + 1)].size
          /\ SumOf(index, i + d) \in Nat /\ SumOf(index, i) \in Nat
      BY <2>1, SumFacts
    <2>4. SumOf(index, i) <= SumOf(index, i + d)
      BY <1>3
    <2>5. SumOf(index, i) <= SumOf(index, i + (d + 1))
      BY <2>2, <2>3, <2>4
    <2>6. QED
      BY <2>1, <2>5
  <1> HIDE DEF S, n
  <1>4. \A d \in 0..n : d \in S
    BY <1>1, <1>2, <1>3, UpInduction
  <1>5. j - i \in 0..n /\ i + (j - i) = j
    BY <1>1 DEF n
  <1>6. QED
    BY <1>4, <1>5 DEF S

\* The bytes of a block, found in the content of the entry.
LEMMA ContentLaid ==
    ASSUME NEW s \in Seq(Cell), NEW index \in Seq(IndexRecord)
    PROVE  /\ IndexedContent(s, index) \in Seq(Found)
           /\ Len(IndexedContent(s, index)) = SumOf(index, Len(index))
           /\ \A i \in 1..Len(index) : \A k \in 1..index[i].size :
                 IndexedContent(s, index)[SumOf(index, i - 1) + k] = Piece(s, index, i)[k]
  <1> DEFINE L == Len(index)
             sum(i) == SumOf(index, i)
             piece == [i \in 1..L |-> Piece(s, index, i)]
  <1>1. PICK f \in [0..L -> Seq(Found)] :
              /\ f[0] = <<>>
              /\ \A i \in 1..L : f[i] = f[i - 1] \o Piece(s, index, i)
              /\ IndexedContent(s, index) = f[L]
    BY IndexedUnfold
  <1>2. L \in Nat
    OBVIOUS
  <1>3. \A i \in 1..L : /\ piece[i] = Piece(s, index, i) /\ piece[i] \in Seq(Found)
                        /\ Len(piece[i]) = index[i].size /\ index[i].size \in Nat
    <2> SUFFICES ASSUME NEW i \in 1..L
                 PROVE  /\ Piece(s, index, i) \in Seq(Found) /\ index[i].size \in Nat
                        /\ Len(Piece(s, index, i)) = index[i].size
      OBVIOUS
    <2> DEFINE a == index[i].offset + 2
               b == index[i].offset + 1 + index[i].size
    <2>1. index[i].offset \in Nat /\ index[i].size \in Nat
      BY RecordFacts
    <2>2. a \in Nat /\ b \in Nat /\ a >= 1 /\ b >= a - 1 /\ b - a + 1 = index[i].size
      <3> DEFINE o == index[i].offset
                 z == index[i].size
      <3>1. o \in Nat /\ z \in Nat /\ a = o + 2 /\ b = o + 1 + z
        BY <2>1
      <3> HIDE DEF o, z, a, b
      <3>2. a \in Nat /\ b \in Nat /\ a >= 1 /\ b >= a - 1 /\ b - a + 1 = z
        BY <3>1
      <3>3. QED
        BY <3>2 DEF z
    <2>3. Piece(s, index, i) = BytesAt(s, a, b)
      BY DEF Piece
    <2> HIDE DEF a, b
    <2>4. QED
      BY <2>1, <2>2, <2>3, BytesAtType
  <1>4. /\ sum(0) = 0 /\ \A i \in 0..L : sum(i) \in Nat
        /\ \A i \in 1..L : sum(i) = sum(i - 1) + index[i].size
    BY SumFacts
  <1>5. \A i \in 0..L, j \in 0..L : i <= j => sum(i) <= sum(j)
    BY SumMonotone
  <1>6. \A i \in 1..L : f[i] = f[i - 1] \o piece[i]
    BY <1>1, <1>3
  <1> DEFINE laid(j) == \A i \in 1..j : \A k \in 1..index[i].size :
                           f[j][sum(i - 1) + k] = piece[i][k]
             S == {j \in 0..L : Len(f[j]) = sum(j) /\ laid(j)}
  <1> HIDE DEF L, piece, sum
  <1>7. 0 \in S
    BY <1>1, <1>2, <1>4
  <1>8. ASSUME NEW j \in 0..L - 1, j \in S PROVE j + 1 \in S
    <2>1. j + 1 \in 1..L /\ (j + 1) - 1 = j /\ j \in 0..L /\ j + 1 \in 0..L /\ j \in Nat
      BY <1>2
    <2> DEFINE t == f[j]
               e == piece[j + 1]
    <2>2. /\ f[j + 1] = t \o e /\ t \in Seq(Found) /\ e \in Seq(Found)
          /\ Len(t) = sum(j) /\ Len(e) = index[j + 1].size
      BY <1>3, <1>6, <1>8, <2>1
    <2>3. sum(j + 1) = sum(j) + index[j + 1].size /\ sum(j) \in Nat /\ index[j + 1].size \in Nat
      BY <1>3, <1>4, <2>1
    <2>4. laid(j)
      BY <1>8
    <2> HIDE DEF t, e
    <2>5. Len(f[j + 1]) = sum(j + 1)
      <3>1. Len(t \o e) = Len(t) + Len(e)
        BY <2>2, ConcatType
      <3>2. QED
        BY <2>2, <2>3, <3>1
    <2>6. ASSUME NEW i \in 1..j + 1, NEW k \in 1..index[i].size
          PROVE  f[j + 1][sum(i - 1) + k] = piece[i][k]
      <3>1. i \in 1..L /\ i \in 0..L /\ i - 1 \in 0..L
        BY <1>2, <2>1
      <3>2. /\ sum(i - 1) \in Nat /\ sum(i) = sum(i - 1) + index[i].size
            /\ index[i].size \in Nat
        BY <1>3, <1>4, <3>1
      <3>3. CASE i <= j
        <4>1. i \in 1..j /\ sum(i) <= sum(j)
          BY <1>5, <2>1, <3>1, <3>3
        <4>2. sum(i - 1) + k \in 1..Len(t)
          <5> DEFINE x == sum(i - 1)
                     y == sum(j)
                     z == index[i].size
          <5>1. x \in Nat /\ y \in Nat /\ z \in Nat /\ k \in 1..z /\ x + z <= y
            BY <2>3, <3>2, <4>1
          <5>2. Len(t) = y
            BY <2>2
          <5> HIDE DEF x, y, z
          <5>3. x + k \in 1..y
            BY <5>1
          <5>4. QED
            BY <5>2, <5>3 DEF x
        <4>3. (t \o e)[sum(i - 1) + k] = t[sum(i - 1) + k]
          BY <2>2, <4>2, ConcatAt
        <4>4. t[sum(i - 1) + k] = piece[i][k]
          BY <2>4, <4>1 DEF t
        <4>5. QED
          BY <2>2, <4>3, <4>4
      <3>4. CASE i = j + 1
        <4>1. i - 1 = j /\ k \in 1..Len(e) /\ e = piece[i]
          BY <2>1, <2>2, <3>4 DEF e
        <4>2. (t \o e)[Len(t) + k] = e[k]
          <5>1. t \in Seq(Found) /\ e \in Seq(Found)
            BY <2>2
          <5>2. \A x \in 1..Len(e) : (t \o e)[Len(t) + x] = e[x]
            BY <5>1, ConcatAt
          <5>3. QED
            BY <4>1, <5>2
        <4>3. QED
          BY <2>2, <4>1, <4>2
      <3>5. i <= j \/ i = j + 1
        BY <2>1
      <3>6. QED
        BY <3>3, <3>4, <3>5
    <2>7. QED
      BY <2>1, <2>5, <2>6
  <1> HIDE DEF laid, S
  <1>9. \A j \in 0..L : j \in S
    BY <1>2, <1>7, <1>8, UpInduction
  <1>10. L \in 0..L
    BY <1>2
  <1>11. Len(f[L]) = sum(L) /\ laid(L) /\ f[L] \in Seq(Found)
    BY <1>1, <1>9, <1>10 DEF S
  <1>12. \A i \in 1..L : \A k \in 1..index[i].size :
            IndexedContent(s, index)[sum(i - 1) + k] = Piece(s, index, i)[k]
    BY <1>1, <1>3, <1>11 DEF laid
  <1>13. QED
    BY <1>1, <1>11, <1>12 DEF L, sum

LEMMA FromTo ==
    \A from, n \in Nat : /\ (from + n) - (from + 1) + 1 = n
                         /\ \A k \in 1..n : from + 1 + k - 1 = from + k
  OBVIOUS

\* What a read takes out of a block is the same part of the content.
LEMMA PartRead ==
    ASSUME NEW s \in Seq(Cell), NEW index \in Seq(IndexRecord), NEW i \in 1..Len(index),
           NEW a \in Nat, NEW n \in Nat, a + n <= index[i].size
    PROVE  LET from == index[i].offset + 1 + a
               pos == SumOf(index, i - 1) + a
           IN  /\ pos \in Nat /\ pos + n <= Len(IndexedContent(s, index))
               /\ BytesAt(s, from + 1, from + n)
                    = SubSeq(IndexedContent(s, index), pos + 1, pos + n)
  <1> DEFINE offset == index[i].offset
             size == index[i].size
             before == SumOf(index, i - 1)
             from == offset + 1 + a
             pos == before + a
             content == IndexedContent(s, index)
             found(p) == IF p <= Len(s) /\ s[p].kind = "Byte" THEN s[p].val ELSE NoByte
             got == BytesAt(s, from + 1, from + n)
             piece == Piece(s, index, i)
             part == SubSeq(content, pos + 1, pos + n)
  <1> HIDE DEF from, pos, offset, size, before, content, found, got, piece, part
  <1>1. offset \in Nat /\ size \in Nat /\ a + n <= size
    BY RecordFacts DEF offset, size
  <1>2. before \in Nat /\ SumOf(index, i) = before + size /\ SumOf(index, Len(index)) \in Nat
    <2>1. i - 1 \in 0..Len(index) /\ Len(index) \in 0..Len(index)
      OBVIOUS
    <2>2. QED
      BY <2>1, SumFacts DEF before, size
  <1>3. before + size <= Len(content)
    <2>1. SumOf(index, i) <= SumOf(index, Len(index))
      <3>1. i \in 0..Len(index) /\ Len(index) \in 0..Len(index) /\ i <= Len(index)
        OBVIOUS
      <3>2. QED
        BY <3>1, SumMonotone
    <2>2. QED
      BY <1>2, <2>1, ContentLaid DEF content
  <1>4. content \in Seq(Found) /\ \A k \in 1..size : content[before + k] = piece[k]
    BY ContentLaid DEF content, before, piece, size
  <1>5. piece = [k \in 1..size |-> found(offset + 1 + k)]
    <2>1. /\ (offset + 1 + size) - (offset + 2) + 1 = size
          /\ \A k \in 1..size : offset + 2 + k - 1 = offset + 1 + k
      BY <1>1
    <2>3. piece = [k \in 1..size |-> found(offset + 2 + k - 1)]
      BY <2>1 DEF Piece, BytesAt, piece, found, offset, size
    <2>4. QED
      BY <2>1, <2>3
  <1>6. /\ from \in Nat /\ pos \in Nat /\ pos + n <= Len(content)
        /\ \A k \in 1..n : from + k = offset + 1 + (a + k) /\ pos + k = before + (a + k)
                           /\ a + k \in 1..size
    <2>1. Len(content) \in Nat
      BY <1>4
    <2>2. QED
      BY <1>1, <1>2, <1>3, <2>1 DEF from, pos
  <1>7. got = [k \in 1..n |-> found(from + k)]
    <2>2. /\ (from + n) - (from + 1) + 1 = n
          /\ \A k \in 1..n : from + 1 + k - 1 = from + k
      BY <1>6, FromTo
    <2>3. got = [k \in 1..n |-> found(from + 1 + k - 1)]
      BY <2>2 DEF BytesAt, got, found
    <2>4. QED
      BY <2>2, <2>3
  <1>9. part \in Seq(Found) /\ Len(part) = n /\ \A k \in 1..n : part[k] = content[pos + k]
    <2>1. content \in Seq(Found)
      BY <1>4
    <2>2. pos \in Nat /\ pos + n <= Len(content)
      BY <1>6
    <2>3. QED
      BY <2>1, <2>2, PieceFacts DEF part
  <1>10. part = [k \in 1..n |-> part[k]]
    BY <1>9
  <1>11. ASSUME NEW k \in 1..n PROVE part[k] = found(from + k)
    <2>1. content[before + (a + k)] = found(offset + 1 + (a + k))
      BY <1>4, <1>5, <1>6
    <2>2. QED
      BY <1>6, <1>9, <2>1
  <1>12. part = got
    BY <1>7, <1>10, <1>11
  <1>13. QED
    BY <1>6, <1>12 DEF content, part, got, from, pos, offset, before

-----------------------------------------------------------------------------
(***************************************************************************)
(* The inductive invariant.                                                *)
(***************************************************************************)
\* The last cell of the block whose header is at p.
BlockEnd(s, p) == IF s[p].kind = "EntryContent" THEN p + s[p].length ELSE p

\* While no call failed, the next header follows a block immediately.
Orderly ==
    damaged = {} /\ state # "Dropped" =>
        \A p \in 1..Len(dest) :
            dest[p].kind \in EntryBlockKinds /\ BlockEnd(dest, p) < Len(dest) =>
                dest[BlockEnd(dest, p) + 1].kind \in EntryBlockKinds \cup {"EndOfArchiveData"}

\* Without a reader there is no index, and nothing to report but a hash.
Idle ==
    reader_state = "None" =>
        offsets_and_sizes = <<>> /\ (result = [op |-> "none"] \/ result.op = "hash")

\* The reader holds the index of an entry whose calls succeeded.
Holds ==
    /\ state = "Finalized"
    /\ reader_id \in DOMAIN ids_info \ damaged
    /\ offsets_and_sizes = ids_info[reader_id]
    /\ reader_state \in {"Ready", "InEntryContent", "Finish"}
    /\ result.op # "hash"

\* In state Ready the stream is at the header of the block to read, or just
\* behind the block before it, or lost.
Placed ==
    reader_state = "Ready" =>
        /\ current_index \in 0..LastIndex
        /\ \/ src = Lost
           \/ src = OffsetOf(current_index)
           \/ /\ current_index >= 1
              /\ src = OffsetOf(current_index - 1) + 1 + SizeOf(current_index - 1)

\* Inside a block, remaining counts the bytes up to its end.
Inside ==
    reader_state = "InEntryContent" =>
        /\ current_index \in 0..LastIndex
        /\ HeaderAt(OffsetOf(current_index)).kind = "EntryContent"
        /\ remaining \in 1..SizeOf(current_index)
        /\ src = OffsetOf(current_index) + 1 + (SizeOf(current_index) - remaining)

AtEnd == reader_state = "Finish" => src \in Nat

HashKnown ==
    result.op = "hash" =>
        /\ state = "Finalized"
        /\ result.hash = IndexedContent(dest, Metadata[result.name])

ErrorKnown == result.op = "read_error" => Opened /\ damaged # {}

ReaderInv ==
    /\ ContentInv /\ Orderly
    /\ Idle
    /\ Opened => Holds /\ Placed /\ Inside /\ AtEnd
    /\ HashKnown
    /\ ErrorKnown

-----------------------------------------------------------------------------
(***************************************************************************)
(* The steps of the writer.                                                *)
(***************************************************************************)
LEMMA CellFacts ==
    ASSUME NEW c \in Cell
    PROVE  /\ c.kind = "EntryContent" => c.length \in Nat
           /\ c.kind = "EndOfEntry" => c.hash \in Seq(Bytes)
           /\ c.kind \in EntryBlockKinds => c.id \in Ids
  BY DEF Cell, EntryBlockKinds, EntriesMagic, EndOfArchiveData, Torn

\* Without a failed call every block lies inside the stream.
LEMMA EndsInside ==
    ASSUME IndexInv, damaged = {}, NEW p \in 1..Len(dest), dest[p].kind \in EntryBlockKinds
    PROVE  BlockEnd(dest, p) \in p..Len(dest)
  <1>1. dest \in Seq(Cell) /\ dest[p] \in Cell
    BY DEF IndexInv, TypeInv, TypeOK
  <1>2. CASE dest[p].kind = "EntryContent"
    <2> DEFINE id == dest[p].id
    <2>1. id \in DOMAIN ids_info
      BY DEF IndexInv, HeadersKnown
    <2>2. p \in BlocksOf(dest, id)
      BY DEF BlocksOf
    <2>3. BlocksIndexed(id) /\ RecordsPoint(id)
      BY <2>1 DEF IndexInv, IndexFaithful
    <2>4. PICK i \in DOMAIN ids_info[id] : ids_info[id][i].offset + 1 = p
      BY <2>2, <2>3 DEF BlocksIndexed
    <2>5. Whole(ids_info[id][i].offset + 1)
      BY <1>2, <2>3, <2>4 DEF RecordsPoint, BlockAt
    <2>6. p + dest[p].length <= Len(dest)
      BY <2>4, <2>5 DEF Whole
    <2>7. dest[p].length \in Nat
      BY <1>1, <1>2, CellFacts
    <2>8. QED
      BY <1>2, <2>6, <2>7 DEF BlockEnd
  <1>3. CASE dest[p].kind # "EntryContent"
    BY <1>3 DEF BlockEnd
  <1>4. QED
    BY <1>2, <1>3

\* Cells that start with a header and hold one whole block keep the order.
LEMMA OrderlyGrows ==
    ASSUME IndexInv, Orderly, damaged = {}, state # "Dropped",
           NEW cells \in Seq(Cell), dest' = dest \o cells, Len(cells) >= 1,
           cells[1].kind \in EntryBlockKinds \cup {"EndOfArchiveData"},
           \A k \in 1..Len(cells) :
              cells[k].kind \in EntryBlockKinds => BlockEnd(cells, k) = Len(cells)
    PROVE  Orderly'
  <1> DEFINE n == Len(dest)
             m == Len(cells)
  <1>1. /\ n \in Nat /\ m \in Nat /\ Len(dest') = n + m /\ m >= 1
        /\ \A p \in 1..n : dest'[p] = dest[p]
        /\ \A p \in n + 1 .. n + m : dest'[p] = cells[p - n]
    BY DestExtended DEF IndexInv, TypeInv
  <1>2. dest'[n + 1].kind \in EntryBlockKinds \cup {"EndOfArchiveData"}
    <2>1. n + 1 \in n + 1 .. n + m /\ (n + 1) - n = 1
      BY <1>1
    <2>2. dest'[n + 1] = cells[1]
      BY <1>1, <2>1
    <2>3. QED
      BY <2>2
  <1>3. ASSUME NEW p \in 1..Len(dest'), dest'[p].kind \in EntryBlockKinds,
               BlockEnd(dest', p) < Len(dest')
        PROVE  dest'[BlockEnd(dest', p) + 1].kind \in EntryBlockKinds \cup {"EndOfArchiveData"}
    <2>1. CASE p \in 1..n
      <3>1. dest[p].kind \in EntryBlockKinds /\ BlockEnd(dest', p) = BlockEnd(dest, p)
        BY <1>1, <1>3, <2>1 DEF BlockEnd
      <3>2. BlockEnd(dest, p) \in p..n
        BY <2>1, <3>1, EndsInside
      <3>3. CASE BlockEnd(dest, p) = n
        BY <1>2, <3>1, <3>3
      <3>4. CASE BlockEnd(dest, p) < n
        <4>1. dest[BlockEnd(dest, p) + 1].kind \in EntryBlockKinds \cup {"EndOfArchiveData"}
          BY <2>1, <3>1, <3>4 DEF Orderly
        <4>2. BlockEnd(dest, p) + 1 \in 1..n
          BY <1>1, <2>1, <3>2, <3>4
        <4>3. QED
          BY <1>1, <3>1, <4>1, <4>2
      <3>5. BlockEnd(dest, p) = n \/ BlockEnd(dest, p) < n
        BY <1>1, <3>2
      <3>6. QED
        BY <3>3, <3>4, <3>5
    <2>2. CASE p \in n + 1 .. n + m
      <3> DEFINE k == p - n
      <3>1. k \in 1..m /\ k + n = p /\ k \in Nat
        BY <1>1, <2>2
      <3>2. dest'[p] = cells[k]
        BY <1>1, <2>2
      <3> HIDE DEF k
      <3>3. BlockEnd(cells, k) = m /\ cells[k] \in Cell
        BY <1>3, <3>1, <3>2
      <3>4. cells[k].kind = "EntryContent" => cells[k].length \in Nat
        BY <3>3, CellFacts
      <3>5. CASE cells[k].kind = "EntryContent"
        <4>1. p + cells[k].length = n + m
          <5>1. k + cells[k].length = m
            BY <3>3, <3>5 DEF BlockEnd
          <5>2. n \in Nat /\ m \in Nat /\ k \in Nat /\ k + n = p /\ cells[k].length \in Nat
            BY <1>1, <3>1, <3>4, <3>5
          <5> DEFINE z == cells[k].length
          <5> HIDE DEF n, m, z
          <5>3. k \in Nat /\ n \in Nat /\ m \in Nat /\ z \in Nat /\ k + z = m
            BY <5>1, <5>2 DEF z
          <5>4. (k + n) + z = n + m
            BY <5>3
          <5>5. QED
            BY <5>2, <5>4, Zenon DEF z
        <4>2. BlockEnd(dest', p) = n + m
          BY <3>2, <3>5, <4>1 DEF BlockEnd
        <4>3. QED
          BY <1>1, <1>3, <4>2
      <3>6. CASE cells[k].kind # "EntryContent"
        <4>1. BlockEnd(dest', p) = p /\ k = m
          BY <3>2, <3>3, <3>6 DEF BlockEnd
        <4>2. QED
          BY <1>1, <1>3, <3>1, <4>1
      <3>7. QED
        BY <3>5, <3>6
    <2>3. p \in 1..n \/ p \in n + 1 .. n + m
      BY <1>1, <1>3
    <2>4. QED
      BY <2>1, <2>2, <2>3
  <1>4. QED
    BY <1>3 DEF Orderly

LEMMA OrderlyNext ==
    ASSUME IndexInv, Orderly, [Next]_vars
    PROVE  Orderly'
  <1>0. TypeOK
    BY DEF IndexInv, TypeInv
  <1>1. SUFFICES ASSUME damaged' = {}, state' # "Dropped" PROVE Orderly'
    BY DEF Orderly
  <1>2. ASSUME NEW name \in Names, StartEntry(name) PROVE Orderly'
    <2> DEFINE cell == EntryStart(name, next_id)
    <2>1. cell \in Cell /\ cell.kind = "EntryStart"
      BY <1>0, HeaderCells DEF TypeOK, EntryStart, Cell
    <2>2. /\ dest' = dest \o <<cell>> /\ dest \in Seq(Cell) /\ damaged = {} /\ state # "Dropped"
      <3> HIDE DEF cell
      <3>1. dest' = Append(dest, cell) /\ dest \in Seq(Cell) /\ damaged = {}
        BY <1>0, <1>1, <1>2 DEF StartEntry, TypeOK, cell
      <3>2. state # "Dropped"
        BY <1>2 DEF StartEntry, ReserveEntry
      <3>3. QED
        BY <2>1, <3>1, <3>2
    <2> HIDE DEF cell
    <2> DEFINE cells == <<cell>>
    <2>3. cells \in Seq(Cell) /\ Len(cells) = 1 /\ cells[1] = cell /\ dest' = dest \o cells
      BY <2>1, <2>2
    <2> HIDE DEF cells
    <2>4. /\ cells[1].kind \in EntryBlockKinds \cup {"EndOfArchiveData"} /\ Len(cells) >= 1
          /\ \A k \in 1..Len(cells) : BlockEnd(cells, k) = Len(cells)
      <3>1. \A k \in 1..Len(cells) : k = 1
        BY <2>3
      <3>2. QED
        BY <2>1, <2>3, <3>1 DEF BlockEnd, EntryBlockKinds
    <2>5. QED
      BY <2>2, <2>3, <2>4, OrderlyGrows
  <1>3. ASSUME NEW id \in ids, EndEntry(id) PROVE Orderly'
    <2> DEFINE cell == EndOfEntry(id, hashes[id])
    <2>1. cell \in Cell /\ cell.kind = "EndOfEntry"
      <3>1. id \in Ids /\ hashes[id] \in Seq(Bytes)
        BY <1>0, <1>3 DEF TypeOK, EndEntry, CloseEntry, FileOpened
      <3>2. QED
        BY <3>1 DEF EndOfEntry, Cell
    <2>2. /\ dest' = dest \o <<cell>> /\ dest \in Seq(Cell) /\ damaged = {} /\ state # "Dropped"
      <3> HIDE DEF cell
      <3>1. dest' = Append(dest, cell) /\ dest \in Seq(Cell) /\ damaged = {}
        BY <1>0, <1>1, <1>3 DEF EndEntry, TypeOK, cell
      <3>2. state # "Dropped"
        BY <1>3 DEF EndEntry, CloseEntry, FileOpened
      <3>3. QED
        BY <2>1, <3>1, <3>2
    <2> HIDE DEF cell
    <2> DEFINE cells == <<cell>>
    <2>3. cells \in Seq(Cell) /\ Len(cells) = 1 /\ cells[1] = cell /\ dest' = dest \o cells
      BY <2>1, <2>2
    <2> HIDE DEF cells
    <2>4. /\ cells[1].kind \in EntryBlockKinds \cup {"EndOfArchiveData"} /\ Len(cells) >= 1
          /\ \A k \in 1..Len(cells) : BlockEnd(cells, k) = Len(cells)
      <3>1. \A k \in 1..Len(cells) : k = 1
        BY <2>3
      <3>2. QED
        BY <2>1, <2>3, <3>1 DEF BlockEnd, EntryBlockKinds
    <2>5. QED
      BY <2>2, <2>3, <2>4, OrderlyGrows
  <1>4. ASSUME NEW id \in ids, NEW data \in Data, AppendContent(id, data) PROVE Orderly'
    <2> DEFINE cells == ContentBlock(id, Len(data), data)
    <2>1. id \in Ids /\ data \in Seq(Bytes) /\ Len(data) \in Nat
      BY <1>0, DataAssumption DEF TypeOK
    <2>2. /\ cells \in Seq(Cell) /\ Len(cells) = Len(data) + 1
          /\ cells[1] = EntryContent(id, Len(data))
          /\ \A k \in 2..Len(data) + 1 : cells[k] = Byte(data[k - 1])
      BY <2>1, ContentBlockCells
    <2>3. dest' = dest \o cells /\ damaged = {} /\ state # "Dropped"
      BY <1>1, <1>4 DEF AppendContent, FileOpened
    <2> HIDE DEF cells
    <2>4. cells[1].kind = "EntryContent" /\ BlockEnd(cells, 1) = Len(cells)
      BY <2>1, <2>2 DEF EntryContent, BlockEnd
    <2>5. \A k \in 1..Len(cells) : k = 1 \/ cells[k].kind = "Byte"
      <3>1. \A k \in 1..Len(cells) : k = 1 \/ k \in 2..Len(data) + 1
        BY <2>1, <2>2
      <3>2. \A x : Byte(x).kind = "Byte"
        BY DEF Byte
      <3>3. QED
        BY <2>2, <3>1, <3>2
    <2>6. /\ cells[1].kind \in EntryBlockKinds \cup {"EndOfArchiveData"} /\ Len(cells) >= 1
          /\ \A k \in 1..Len(cells) :
                cells[k].kind \in EntryBlockKinds => BlockEnd(cells, k) = Len(cells)
      BY <2>1, <2>2, <2>4, <2>5 DEF EntryBlockKinds
    <2>7. QED
      BY <2>2, <2>3, <2>6, OrderlyGrows
  <1>5. CASE Finalize
    <2> DEFINE end == EndOfArchiveData
               footer == ArchiveFooter(FooterIndex)
               tail == <<end, footer>>
    <2>1. /\ end \in Cell /\ footer \in Cell
          /\ end.kind = "EndOfArchiveData" /\ footer.kind \notin EntryBlockKinds
          /\ end.kind \notin EntryBlockKinds
      <3>1. FooterIndex \in [Names -> Seq(IndexRecord)]
        BY <1>0 DEF FooterIndex, TypeOK, IndexInv, TypeInv, Bookkeeping
      <3>2. QED
        BY <3>1 DEF Cell, ArchiveFooter, EndOfArchiveData, EntryBlockKinds
    <2>2. dest' = dest \o tail /\ damaged = {} /\ state # "Dropped"
      BY <1>1, <1>5 DEF Finalize
    <2> HIDE DEF end, footer
    <2>3. /\ tail \in Seq(Cell) /\ Len(tail) = 2 /\ tail[1] = end /\ tail[2] = footer
      BY <2>1
    <2> HIDE DEF tail
    <2>4. \A k \in 1..Len(tail) : tail[k].kind \notin EntryBlockKinds
      BY <2>1, <2>3
    <2>5. tail[1].kind \in EntryBlockKinds \cup {"EndOfArchiveData"} /\ Len(tail) >= 1
      BY <2>1, <2>3
    <2>6. QED
      BY <2>2, <2>3, <2>4, <2>5, OrderlyGrows
  <1>6. CASE UNCHANGED vars
    BY <1>6 DEF vars, Orderly, BlockEnd
  <1>7. ASSUME NEW name \in Names, StartEntryFails(name) PROVE FALSE
    BY <1>1, <1>7 DEF StartEntryFails, Fault
  <1>8. QED
    BY <1>1, <1>2, <1>3, <1>4, <1>5, <1>6, <1>7, StepKinds DEF Spoils, Loses

-----------------------------------------------------------------------------
(***************************************************************************)
(* How the entry being read lies in the stream.  Records are counted from  *)
(* 1 here, as in the index.                                                *)
(***************************************************************************)
Offset(i) == offsets_and_sizes[i].offset
Size(i) == offsets_and_sizes[i].size
Blocks == Len(offsets_and_sizes)

Laid ==
    /\ dest \in Seq(Cell) /\ Len(dest) \in Nat /\ reader_id \in Ids
    /\ offsets_and_sizes \in Seq(IndexRecord) /\ Blocks \in Nat /\ Blocks >= 2
    /\ \A i \in 1..Blocks :
          /\ Offset(i) \in Nat /\ Size(i) \in Nat /\ Offset(i) + 1 <= Len(dest)
          /\ HeaderAt(Offset(i)).id = reader_id
          /\ HeaderAt(Offset(i)).kind =
                IF i = 1 THEN "EntryStart" ELSE IF i = Blocks THEN "EndOfEntry" ELSE "EntryContent"
          /\ i \in {1, Blocks} => Size(i) = 0
          /\ i \notin {1, Blocks} => HeaderAt(Offset(i)).length = Size(i)
    /\ \A i \in 1 .. Blocks - 1 : Offset(i) + 1 + Size(i) <= Offset(i + 1)
    /\ \A i, j \in 1..Blocks : i < j => Offset(i) < Offset(j)
    /\ \A p \in Nat :
          p < Len(dest) /\ HeaderAt(p).kind \in EntryBlockKinds /\ HeaderAt(p).id = reader_id =>
              \E i \in 1..Blocks : p = Offset(i)

\* Steps that ascend make the whole ascend.
LEMMA Ascends ==
    ASSUME NEW n \in Nat, NEW f \in [1..n -> Nat],
           \A i \in 2..n : f[i - 1] < f[i], NEW i \in 1..n, NEW j \in 1..n, i < j
    PROVE  f[i] < f[j]
  <1> DEFINE d == n - i - 1
             S == {k \in 0..d : f[i] < f[i + 1 + k]}
  <1>1. d \in Nat /\ i \in Nat /\ i + 1 + d = n
    OBVIOUS
  <1>2. 0 \in S
    <2>1. i + 1 \in 2..n /\ (i + 1) - 1 = i /\ i + 1 + 0 = i + 1 /\ 0 \in 0..d
      BY <1>1
    <2>2. QED
      BY <2>1
  <1>3. ASSUME NEW k \in 0..d - 1, k \in S PROVE k + 1 \in S
    <2>1. /\ i + 1 + (k + 1) \in 2..n /\ (i + 1 + (k + 1)) - 1 = i + 1 + k
          /\ i + 1 + k \in 1..n /\ k + 1 \in 0..d /\ i + 1 + (k + 1) \in 1..n
      BY <1>1
    <2>2. f[i + 1 + k] < f[i + 1 + (k + 1)] /\ f[i] < f[i + 1 + k]
      BY <1>3, <2>1
    <2>3. f[i] \in Nat /\ f[i + 1 + k] \in Nat /\ f[i + 1 + (k + 1)] \in Nat
      BY <2>1
    <2>4. f[i] < f[i + 1 + (k + 1)]
      BY <2>2, <2>3
    <2>5. QED
      BY <2>1, <2>4
  <1> HIDE DEF S, d
  <1>4. \A k \in 0..d : k \in S
    BY <1>1, <1>2, <1>3, UpInduction
  <1>5. j - i - 1 \in 0..d /\ i + 1 + (j - i - 1) = j
    BY <1>1
  <1>6. QED
    BY <1>4, <1>5 DEF S

LEMMA EntryLaid ==
    ASSUME ContentInv, Holds
    PROVE  Laid
  <1> DEFINE id == reader_id
             index == offsets_and_sizes
             L == Len(index)
             block(i) == dest[index[i].offset + 1]
  <1>1. /\ IndexInv /\ TypeOK /\ state = "Finalized" /\ id \in DOMAIN ids_info
        /\ id \notin damaged /\ index = ids_info[id]
    BY DEF ContentInv, Holds, IndexInv, TypeInv
  <1>2. /\ dest \in Seq(Cell) /\ Len(dest) \in Nat /\ id \in Ids
        /\ index \in Seq(IndexRecord) /\ L \in Nat /\ L >= 1 /\ id \notin ids
    BY <1>1 DEF TypeOK, IndexInv, IndexNonempty, ContentInv, SealShape
  <1>3. DOMAIN index = 1..L
    BY <1>2
  <1>4. /\ \A p \in BlocksOf(dest, id) : \E i \in 1..L : index[i].offset + 1 = p
        /\ \A i \in 1..L :
              /\ index[i].offset + 1 \in BlocksOf(dest, id)
              /\ i > 1 => index[i - 1].offset < index[i].offset
              /\ block(i).kind = "EntryStart" <=> i = 1
              /\ block(i).kind = "EndOfEntry" <=> i = L
              /\ block(i).kind = "EntryContent" =>
                    index[i].size = block(i).length /\ Whole(index[i].offset + 1)
              /\ block(i).kind # "EntryContent" => index[i].size = 0
    <2>1. BlocksIndexed(id) /\ RecordsPoint(id)
      BY <1>1 DEF IndexInv, IndexFaithful
    <2>2. DOMAIN ids_info[id] = 1..L /\ index = ids_info[id] /\ L = Len(ids_info[id])
      BY <1>1, <1>3
    <2> HIDE DEF index, L, id
    <2>3. \A p \in BlocksOf(dest, id) : \E i \in 1..L : index[i].offset + 1 = p
      BY <2>1, <2>2 DEF BlocksIndexed
    <2>4. ASSUME NEW i \in 1..L
          PROVE  /\ index[i].offset + 1 \in BlocksOf(dest, id)
                 /\ i > 1 => index[i - 1].offset < index[i].offset
                 /\ block(i).kind = "EntryStart" <=> i = 1
                 /\ block(i).kind = "EndOfEntry" <=> i = L
                 /\ block(i).kind = "EntryContent" =>
                       index[i].size = block(i).length /\ Whole(index[i].offset + 1)
                 /\ block(i).kind # "EntryContent" => index[i].size = 0
      BY <1>2, <2>1, <2>2 DEF RecordsPoint, BlockAt
    <2>5. QED
      BY <2>3, <2>4
  <1>5. \A i \in 1..L : /\ index[i].offset \in Nat /\ index[i].size \in Nat
                        /\ index[i].offset + 1 <= Len(dest)
                        /\ block(i).id = id /\ block(i).kind \in EntryBlockKinds
                        /\ index[i].offset + 1 + index[i].size <= Len(dest)
    <2> SUFFICES ASSUME NEW i \in 1..L
                 PROVE  /\ index[i].offset \in Nat /\ index[i].size \in Nat
                        /\ index[i].offset + 1 <= Len(dest)
                        /\ block(i).id = id /\ block(i).kind \in EntryBlockKinds
                        /\ index[i].offset + 1 + index[i].size <= Len(dest)
      OBVIOUS
    <2>1. block(i).id = id /\ block(i).kind \in EntryBlockKinds
      BY <1>4 DEF BlocksOf
    <2>2. QED
      BY <1>1, <2>1, RecordsInside
  <1> HIDE DEF index, id, L, block
  <1>6. L >= 2
    <2>1. L # 1
      <3>1. ASSUME L = 1 PROVE FALSE
        <4>1. 1 \in 1..L
          BY <3>1
        <4>2. block(1).kind = "EntryStart" /\ block(1).kind = "EndOfEntry"
          BY <1>4, <3>1, <4>1
        <4>3. QED
          BY <4>2
      <3>2. QED
        BY <3>1
    <2>2. QED
      BY <1>2, <2>1
  <1>7. ASSUME NEW i \in 1..L
        PROVE  /\ block(i).kind =
                     IF i = 1 THEN "EntryStart" ELSE IF i = L THEN "EndOfEntry" ELSE "EntryContent"
               /\ i \in {1, L} => index[i].size = 0
               /\ i \notin {1, L} => block(i).length = index[i].size
    BY <1>4, <1>5 DEF EntryBlockKinds
  <1>8. \A i, j \in 1..L : i < j => index[i].offset < index[j].offset
    <2> DEFINE f == [i \in 1..L |-> index[i].offset]
    <2>1. f \in [1..L -> Nat] /\ \A i \in 1..L : f[i] = index[i].offset
      BY <1>5
    <2>2. \A i \in 2..L : f[i - 1] < f[i]
      <3>1. \A i \in 2..L : i \in 1..L /\ i - 1 \in 1..L /\ i > 1
        BY <1>2
      <3>2. QED
        BY <1>4, <3>1
    <2> HIDE DEF f
    <2>3. \A i, j \in 1..L : i < j => f[i] < f[j]
      BY <1>2, <2>1, <2>2, Ascends
    <2>4. QED
      BY <2>1, <2>3
  <1>9. ASSUME NEW i \in 1 .. L - 1
        PROVE  index[i].offset + 1 + index[i].size <= index[i + 1].offset
    <2> DEFINE o == index[i].offset
               z == index[i].size
               q == index[i + 1].offset
    <2>1. i \in 1..L /\ i + 1 \in 1..L /\ i < i + 1
      BY <1>2
    <2>2. o \in Nat /\ z \in Nat /\ q \in Nat /\ o < q
      BY <1>5, <1>8, <2>1
    <2>3. dest[q + 1].kind \in EntryBlockKinds
      BY <1>5, <2>1 DEF block
    <2>4. CASE z = 0
      BY <2>2, <2>4
    <2>5. CASE z # 0
      <3>1. Whole(o + 1) /\ dest[o + 1].length = z
        BY <1>4, <2>1, <2>5 DEF block
      <3>2. \A p \in (o + 1) + 1 .. (o + 1) + z : dest[p].kind = "Byte"
        BY <3>1 DEF Whole
      <3> HIDE DEF o, z, q
      <3>3. ~ (q + 1 \in (o + 1) + 1 .. (o + 1) + z)
        BY <2>3, <3>2 DEF EntryBlockKinds
      <3>4. o + 1 + z <= q
        BY <2>2, <3>3
      <3>5. QED
        BY <3>4 DEF o, z, q
    <2>6. QED
      BY <2>4, <2>5
  <1>10. ASSUME NEW p \in Nat, p < Len(dest), dest[p + 1].kind \in EntryBlockKinds,
                dest[p + 1].id = id
         PROVE  \E i \in 1..L : p = index[i].offset
    <2>1. p + 1 \in 1..Len(dest)
      BY <1>2, <1>10
    <2>2. p + 1 \in BlocksOf(dest, id)
      BY <1>10, <2>1 DEF BlocksOf
    <2>3. PICK i \in 1..L : index[i].offset + 1 = p + 1
      BY <1>4, <2>2
    <2>4. index[i].offset = p
      BY <1>5, <2>3
    <2>5. QED
      BY <2>4
  <1>11. QED
    BY <1>2, <1>5, <1>6, <1>7, <1>8, <1>9, <1>10
       DEF Laid, Offset, Size, Blocks, HeaderAt, index, id, L, block

-----------------------------------------------------------------------------
(***************************************************************************)
(* The block that read goes to.                                            *)
(***************************************************************************)
LEMMA Counting ==
    ASSUME Laid
    PROVE  /\ LastIndex = Blocks - 1 /\ LastIndex \in Nat /\ LastIndex >= 1
           /\ \A i : OffsetOf(i) = Offset(i + 1) /\ SizeOf(i) = Size(i + 1)
           /\ \A i \in 0..LastIndex : i + 1 \in 1..Blocks
  BY DEF Laid, LastIndex, Blocks, OffsetOf, SizeOf, Offset, Size

\* The place of the reader in state Ready, with its bounds.
LEMMA PlaceFacts ==
    ASSUME Laid, Placed, reader_state = "Ready", src # Lost
    PROVE  LET i == current_index + 1 IN
           /\ current_index \in Nat /\ i \in 1..Blocks
           /\ src \in Nat /\ src < Len(dest) /\ src <= Offset(i)
           /\ i = 1 => src = Offset(1)
           /\ i > 1 => /\ i - 1 \in 1..Blocks /\ Offset(i - 1) < src
                       /\ src = Offset(i) \/ src = Offset(i - 1) + 1 + Size(i - 1)
  <1> DEFINE i == current_index + 1
  <1>1. /\ current_index \in 0..LastIndex
        /\ \/ src = OffsetOf(current_index)
           \/ /\ current_index >= 1
              /\ src = OffsetOf(current_index - 1) + 1 + SizeOf(current_index - 1)
    BY DEF Placed
  <1>2. /\ current_index \in Nat /\ i \in 1..Blocks /\ Blocks \in Nat
        /\ current_index >= 1 <=> i > 1
    <2>1. current_index \in 0..LastIndex /\ LastIndex \in Nat /\ i \in 1..Blocks
      BY <1>1, Counting
    <2>2. Blocks \in Nat
      BY DEF Laid
    <2>3. \A c \in Nat : c >= 1 <=> c + 1 > 1
      OBVIOUS
    <2>4. QED
      BY <2>1, <2>2, <2>3
  <1>3. \/ src = Offset(i)
        \/ i > 1 /\ src = Offset(i - 1) + 1 + Size(i - 1)
    <2>1. (current_index - 1) + 1 = i - 1
      BY <1>2
    <2>2. QED
      BY <1>1, <1>2, <2>1, Counting
  <1> HIDE DEF i
  <1>4. Offset(i) \in Nat /\ Offset(i) + 1 <= Len(dest) /\ Len(dest) \in Nat
    BY <1>2 DEF Laid
  <1>5. CASE i = 1
    <2>1. src = Offset(i)
      BY <1>3, <1>5
    <2>2. QED
      BY <1>2, <1>4, <1>5, <2>1 DEF i
  <1>6. CASE i > 1
    <2>1. i - 1 \in 1..Blocks /\ i - 1 \in 1..Blocks - 1 /\ (i - 1) + 1 = i /\ i - 1 < i
      BY <1>2, <1>6
    <2>2. Offset(i - 1) \in Nat /\ Size(i - 1) \in Nat
      BY <2>1 DEF Laid
    <2>3. Offset(i - 1) + 1 + Size(i - 1) <= Offset(i)
      BY <2>1 DEF Laid
    <2> DEFINE o == Offset(i - 1)
               z == Size(i - 1)
               q == Offset(i)
    <2> HIDE DEF o, z, q
    <2>4. /\ o \in Nat /\ z \in Nat /\ q \in Nat /\ o + 1 + z <= q /\ q + 1 <= Len(dest)
          /\ Len(dest) \in Nat /\ (src = q \/ src = o + 1 + z)
      BY <1>3, <1>4, <2>2, <2>3 DEF o, z, q
    <2>5. src \in Nat /\ src < Len(dest) /\ src <= q /\ o < src
      BY <2>4
    <2>6. i # 1
      BY <1>2, <1>6
    <2>7. QED
      BY <1>2, <1>6, <2>1, <2>4, <2>5, <2>6 DEF i, o, z, q
  <1>7. i = 1 \/ i > 1
    BY <1>2
  <1>8. QED
    BY <1>5, <1>6, <1>7

\* A header of the entry at src is that of the block to read.
LEMMA OwnHeader ==
    ASSUME Laid, Placed, reader_state = "Ready", src # Lost,
           HeaderAt(src).kind \in EntryBlockKinds, HeaderAt(src).id = reader_id
    PROVE  src = Offset(current_index + 1)
  <1> DEFINE i == current_index + 1
  <1>1. /\ i \in 1..Blocks /\ src \in Nat /\ src < Len(dest) /\ src <= Offset(i)
        /\ i = 1 => src = Offset(1)
        /\ i > 1 => i - 1 \in 1..Blocks /\ Offset(i - 1) < src
    BY PlaceFacts
  <1> HIDE DEF i
  <1>2. PICK j \in 1..Blocks : src = Offset(j)
    BY <1>1 DEF Laid
  <1>3. /\ Blocks \in Nat /\ Offset(i) \in Nat /\ Offset(j) \in Nat
        /\ \A x, y \in 1..Blocks : x < y => Offset(x) < Offset(y)
    BY <1>1 DEF Laid
  <1>4. ~ (i < j)
    BY <1>1, <1>2, <1>3
  <1>5. ~ (j < i)
    <2> SUFFICES ASSUME j < i PROVE FALSE
      OBVIOUS
    <2>1. i > 1 /\ i - 1 \in 1..Blocks /\ Offset(i - 1) < src
      BY <1>1, <1>3
    <2>2. j = i - 1 \/ j < i - 1
      BY <1>1, <1>3
    <2>3. Offset(i - 1) \in Nat /\ (j = i - 1 \/ Offset(j) < Offset(i - 1))
      BY <1>3, <2>1, <2>2 DEF Laid
    <2>4. QED
      BY <1>2, <1>3, <2>1, <2>3
  <1>6. i = j
    BY <1>1, <1>3, <1>4, <1>5
  <1>7. QED
    BY <1>2, <1>6 DEF i

Sought == IF current_index = 0 THEN 1 ELSE current_index

\* read finds the next block of the entry, by itself or through the index.
LEMMA LandsOn ==
    ASSUME Laid, Placed, reader_state = "Ready", Parses
    PROVE  /\ current_index \in 0..LastIndex /\ Sought \in 1..LastIndex
           /\ Sought + 1 \in 2..Blocks
           /\ Landing.index = Sought
           /\ Landing.at = Offset(Sought + 1)
  <1> DEFINE block == HeaderAt(src)
             i == current_index + 1
  <1>1. src # Lost /\ block.kind \in EntryBlockKinds
    BY DEF Parses
  <1>2. current_index \in 0..LastIndex
    BY DEF Placed
  <1>3. /\ LastIndex \in Nat /\ LastIndex >= 1 /\ LastIndex = Blocks - 1 /\ Blocks \in Nat
        /\ \A k : OffsetOf(k) = Offset(k + 1)
    BY Counting DEF Laid
  <1>4. Sought \in 1..LastIndex /\ Sought + 1 \in 2..Blocks
    BY <1>2, <1>3 DEF Sought
  <1>5. block.id = reader_id => src = Offset(i)
    BY <1>1, OwnHeader
  <1>6. i = 1 => block.kind = "EntryStart" /\ block.id = reader_id
    <2>1. i = 1 => src = Offset(1)
      BY <1>1, PlaceFacts
    <2>2. 1 \in 1..Blocks
      BY <1>3
    <2>3. QED
      BY <2>1, <2>2 DEF Laid
  <1>7. block.id = reader_id => (block.kind = "EntryStart" <=> i = 1)
    <2>1. i \in 1..Blocks
      BY <1>2, Counting
    <2>2. HeaderAt(Offset(i)).kind = "EntryStart" <=> i = 1
      BY <2>1 DEF Laid
    <2>3. QED
      BY <1>5, <2>2
  <1>8. i = 1 <=> current_index = 0
    BY <1>2, <1>3
  <1> HIDE DEF block
  <1>9. CASE block.kind \in {"EntryContent", "EndOfEntry"} /\ block.id = reader_id
    <2>1. i # 1 /\ src = Offset(i) /\ Sought = current_index
      BY <1>5, <1>7, <1>8, <1>9 DEF Sought
    <2>2. Landing = [at |-> src, index |-> current_index]
      BY <1>9 DEF Landing, block
    <2>3. QED
      BY <1>2, <1>4, <2>1, <2>2
  <1>10. CASE ~ (block.kind \in {"EntryContent", "EndOfEntry"} /\ block.id = reader_id)
    <2> DEFINE next == IF block.kind = "EntryStart" /\ block.id = reader_id
                       THEN current_index + 1 ELSE current_index
    <2>1. Landing = [at |-> OffsetOf(next), index |-> next]
      BY <1>10 DEF Landing, block
    <2>2. next = Sought
      <3>1. block.kind = "EntryStart" /\ block.id = reader_id <=> current_index = 0
        BY <1>6, <1>7, <1>8
      <3>2. QED
        BY <1>2, <3>1 DEF Sought
    <2> HIDE DEF next
    <2>3. QED
      BY <1>2, <1>3, <1>4, <2>1, <2>2
  <1>11. QED
    BY <1>9, <1>10

LEMMA EndsRecursion ==
    ASSUME ReaderInv
    PROVE  RecursionEnds
  <1> SUFFICES ASSUME reader_state = "Ready", Parses
               PROVE  /\ HeaderAt(Landing.at).kind \in {"EntryContent", "EndOfEntry"}
                      /\ HeaderAt(Landing.at).id = reader_id
    BY DEF RecursionEnds
  <1>1. Laid /\ Placed
    BY EntryLaid DEF ReaderInv, Opened
  <1>2. Landing.at = Offset(Sought + 1) /\ Sought + 1 \in 2..Blocks /\ Blocks \in Nat
    BY <1>1, LandsOn DEF Laid
  <1>3. Sought + 1 \in 1..Blocks /\ Sought + 1 # 1
    BY <1>2
  <1>4. QED
    BY <1>1, <1>2, <1>3 DEF Laid

-----------------------------------------------------------------------------
(***************************************************************************)
(* The position of the cursor.                                             *)
(***************************************************************************)
Content == IndexedContent(dest, offsets_and_sizes)
Before(i) == SumOf(offsets_and_sizes, i - 1)

CursorAt(rs, index, at, rem) ==
    CASE rs = "None" -> 0
      [] rs = "Finish" -> SumOf(index, Len(index))
      [] rs = "InEntryContent" -> SumOf(index, at + 1) - rem
      [] OTHER -> SumOf(index, at)

LEMMA CursorIs ==
    ASSUME offsets_and_sizes \in Seq(IndexRecord)
    PROVE  CursorNow = CursorAt(reader_state, offsets_and_sizes,
                                current_offsets_and_sizes_index, remaining)
  <1>1. Len(offsets_and_sizes) \in Nat
    OBVIOUS
  <1>2. LastIndex + 1 = Len(offsets_and_sizes)
    BY <1>1 DEF LastIndex
  <1>3. Total = SumOf(offsets_and_sizes, Len(offsets_and_sizes))
    BY <1>2, SumIs DEF Total
  <1>4. QED
    BY <1>3, SumIs DEF CursorNow, CursorAt, OffsetFromStart, current_index

LEMMA CursorWillBe ==
    ASSUME offsets_and_sizes' \in Seq(IndexRecord)
    PROVE  CursorNow' = CursorAt(reader_state', offsets_and_sizes',
                                 current_offsets_and_sizes_index', remaining')
  <1>1. Len(offsets_and_sizes') \in Nat
    OBVIOUS
  <1>2. (LastIndex + 1)' = Len(offsets_and_sizes')
    BY <1>1 DEF LastIndex
  <1>3. \A n : SumOfFirst(n)' = SumOf(offsets_and_sizes', n)
    BY DEF SumOfFirst, SumOf, SizeOf
  <1>4. Total' = SumOf(offsets_and_sizes', Len(offsets_and_sizes'))
    BY <1>2, <1>3 DEF Total
  <1>5. QED
    BY <1>3, <1>4 DEF CursorNow, CursorAt, OffsetFromStart, current_index, SumOfFirst, SumOf, SizeOf

\* Positions and sizes of an entry's blocks.
LEMMA PositionFacts ==
    ASSUME Laid
    PROVE  /\ \A i \in 1..Blocks : /\ Before(i) \in Nat
                                   /\ SumOf(offsets_and_sizes, i) = Before(i) + Size(i)
                                   /\ Before(i + 1) = Before(i) + Size(i)
           /\ Before(1) = 0 /\ Before(2) = 0
           /\ Content \in Seq(Found) /\ Len(Content) \in Nat
           /\ Len(Content) = SumOf(offsets_and_sizes, Blocks)
           /\ Len(Content) = Before(Blocks)
           /\ \A i \in 1..Blocks : Before(i) + Size(i) <= Len(Content)
  <1> DEFINE index == offsets_and_sizes
  <1>1. /\ index \in Seq(IndexRecord) /\ dest \in Seq(Cell) /\ Len(index) = Blocks
        /\ Blocks \in Nat /\ Blocks >= 2
        /\ \A i \in 1..Blocks : index[i].size = Size(i) /\ Size(i) \in Nat
        /\ Size(1) = 0 /\ Size(Blocks) = 0
    <2>1. Blocks \in Nat /\ Blocks >= 2
      BY DEF Laid
    <2>2. 1 \in 1..Blocks /\ Blocks \in 1..Blocks
      BY <2>1
    <2>3. QED
      BY <2>1, <2>2 DEF Laid, Blocks, Size
  <1> HIDE DEF index
  <1>2. /\ SumOf(index, 0) = 0
        /\ \A i \in 0..Blocks : SumOf(index, i) \in Nat
        /\ \A i \in 1..Blocks : SumOf(index, i) = SumOf(index, i - 1) + Size(i)
    BY <1>1, SumFacts
  <1>3. \A i \in 1..Blocks : i - 1 \in 0..Blocks /\ i \in 0..Blocks /\ (i + 1) - 1 = i
    BY <1>1
  <1>4. \A i \in 1..Blocks : /\ SumOf(index, i - 1) \in Nat
                             /\ SumOf(index, i) = SumOf(index, i - 1) + Size(i)
                             /\ SumOf(index, (i + 1) - 1) = SumOf(index, i - 1) + Size(i)
    BY <1>2, <1>3
  <1>5. SumOf(index, 1 - 1) = 0 /\ SumOf(index, 2 - 1) = 0
    <2>1. 1 \in 1..Blocks /\ 1 - 1 = 0 /\ 2 - 1 = 1
      BY <1>1
    <2>2. SumOf(index, 1) = SumOf(index, 0) + Size(1)
      BY <1>2, <2>1
    <2>3. QED
      BY <1>1, <1>2, <2>1, <2>2
  <1>6. Content \in Seq(Found) /\ Len(Content) = SumOf(index, Blocks)
    BY <1>1, ContentLaid DEF Content, index
  <1>7. Len(Content) \in Nat /\ Len(Content) = SumOf(index, Blocks - 1)
    <2>1. Blocks \in 1..Blocks /\ Blocks \in 0..Blocks
      BY <1>1
    <2>2. SumOf(index, Blocks) = SumOf(index, Blocks - 1) + Size(Blocks)
      BY <1>2, <2>1
    <2>3. SumOf(index, Blocks - 1) \in Nat
      BY <1>4, <2>1
    <2>4. QED
      BY <1>1, <1>6, <2>2, <2>3
  <1>8. ASSUME NEW i \in 1..Blocks PROVE SumOf(index, i - 1) + Size(i) <= Len(Content)
    <2>1. i \in 0..Len(index) /\ Len(index) \in 0..Len(index) /\ i <= Len(index)
      BY <1>1
    <2>2. SumOf(index, i) <= SumOf(index, Len(index))
      BY <1>1, <2>1, SumMonotone
    <2>3. QED
      BY <1>1, <1>4, <1>6, <2>2
  <1>9. QED
    BY <1>4, <1>5, <1>6, <1>7, <1>8 DEF Before, index

-----------------------------------------------------------------------------
(***************************************************************************)
(* read.                                                                   *)
(***************************************************************************)
StaysOpen == Holds' /\ Placed' /\ Inside' /\ AtEnd'
Same == UNCHANGED <<reader_id, offsets_and_sizes>> /\ UNCHANGED vars

LEMMA Remainder ==
    ASSUME NEW z \in Nat, NEW a \in Nat, NEW count \in Nat, NEW o \in Nat, NEW b \in Nat,
           a + count <= z, z - a > count
    PROVE  /\ (z - a) - count \in 1..z
           /\ o + 1 + a + count = o + 1 + (z - ((z - a) - count))
           /\ (b + z) - ((z - a) - count) = b + a + count
  OBVIOUS

\* Where taking count bytes of block b, behind the first a, leaves the reader.
LEMMA Took ==
    ASSUME Laid, Holds, NEW b \in 2 .. Blocks - 1, NEW a \in Nat, NEW count \in Nat,
           a + count <= Size(b),
           Taken(Offset(b) + 1 + a, Size(b) - a, b - 1, count), Same, result'.op # "hash"
    PROVE  StaysOpen /\ CursorNow' = Before(b) + a + count
  <1> DEFINE o == Offset(b)
             z == Size(b)
             c == Before(b)
             index == offsets_and_sizes
  <1>1. /\ b \in Nat /\ b - 1 \in Nat /\ (b - 1) + 1 = b /\ b \in 1..Blocks /\ b # 1 /\ b # Blocks
        /\ b - 1 \in 0..Blocks - 1 /\ b \in 0..Blocks - 1 /\ b >= 1
    <2>1. Blocks \in Nat
      BY DEF Laid
    <2>2. QED
      BY <2>1
  <1>2. /\ o \in Nat /\ z \in Nat /\ HeaderAt(o).kind = "EntryContent"
        /\ index \in Seq(IndexRecord) /\ c \in Nat
        /\ SumOf(index, b) = c + z
    BY <1>1, PositionFacts DEF Laid
  <1>3. offsets_and_sizes' = index /\ dest' = dest /\ Blocks = Len(index)
    BY DEF Same, vars, Blocks
  <1>4. o = index[b].offset /\ z = index[b].size
    BY DEF Offset, Size
  <1>5. CursorNow' = CursorAt(reader_state', index, current_offsets_and_sizes_index', remaining')
    BY <1>2, <1>3, CursorWillBe
  <1>6. ASSUME reader_state' \in {"Ready", "InEntryContent"} PROVE Holds'
    BY <1>6 DEF Holds, Same, vars
  <1>7. CASE z - a > count
    <2> DEFINE rest == (z - a) - count
    <2>1. /\ src' = o + 1 + a + count /\ current_offsets_and_sizes_index' = b - 1
          /\ remaining' = rest /\ reader_state' = "InEntryContent"
      BY <1>7 DEF Taken
    <2> HIDE DEF o, z, c
    <2>2. /\ rest \in 1..z
          /\ o + 1 + a + count = o + 1 + (z - rest)
          /\ (c + z) - rest = c + a + count
      <3>1. a + count <= z /\ z \in Nat /\ o \in Nat /\ c \in Nat /\ z - a > count
        BY <1>2, <1>7 DEF z
      <3>2. QED
        BY <3>1, Remainder
    <2> HIDE DEF rest, index
    <2>3. CursorNow' = c + a + count
      BY <1>1, <1>2, <1>5, <2>1, <2>2 DEF CursorAt
    <2>4. Inside'
      <3>1. /\ current_index' = b - 1 /\ LastIndex' = Blocks - 1
            /\ OffsetOf(current_index)' = o /\ SizeOf(current_index)' = z
        BY <1>1, <1>3, <1>4, <2>1 DEF current_index, LastIndex, OffsetOf, SizeOf
      <3>2. HeaderAt(OffsetOf(current_index))' = HeaderAt(o)
        BY <1>3, <3>1 DEF HeaderAt
      <3>3. QED
        BY <1>1, <1>2, <2>1, <2>2, <3>1, <3>2 DEF Inside
    <2>5. Placed' /\ AtEnd'
      BY <2>1 DEF Placed, AtEnd
    <2>6. QED
      BY <1>6, <2>1, <2>3, <2>4, <2>5 DEF StaysOpen, c
  <1>8. CASE ~ (z - a > count)
    <2>1. /\ src' = o + 1 + a + count /\ current_offsets_and_sizes_index' = (b - 1) + 1
          /\ reader_state' = "Ready"
      BY <1>8 DEF Taken
    <2> HIDE DEF o, z, c
    <2>2. a + count = z /\ o + 1 + a + count = o + 1 + z /\ c + z = c + a + count
      <3>1. a + count <= z
        BY DEF z
      <3>2. QED
        BY <1>2, <1>8, <3>1
    <2> HIDE DEF index
    <2>3. CursorNow' = c + a + count
      BY <1>1, <1>2, <1>5, <2>1, <2>2 DEF CursorAt
    <2>4. Placed'
      <3>1. /\ current_index' = b /\ LastIndex' = Blocks - 1
            /\ OffsetOf(current_index - 1)' = o /\ SizeOf(current_index - 1)' = z
        BY <1>1, <1>3, <1>4, <2>1 DEF current_index, LastIndex, OffsetOf, SizeOf
      <3>2. QED
        BY <1>1, <2>1, <2>2, <3>1 DEF Placed
    <2>5. Inside' /\ AtEnd'
      BY <2>1 DEF Inside, AtEnd
    <2>6. QED
      BY <1>6, <2>1, <2>3, <2>4, <2>5 DEF StaysOpen, c
  <1>9. QED
    BY <1>7, <1>8

\* What a read of count bytes is to the cursor.
Advances(size, count) ==
    /\ count \in 0..size /\ CursorNow + count <= Len(Content)
    /\ count = 0 => size = 0 \/ CursorNow = Len(Content)
    /\ CursorNow' = CursorNow + count
    /\ result' = [op |-> "read", size |-> size,
                  data |-> SubSeq(Content, CursorNow + 1, CursorNow + count)]

LEMMA DeliveredFacts ==
    ASSUME NEW size \in Nat, NEW left \in Nat, NEW count \in Delivered(size, left)
    PROVE  count \in 0..size /\ count <= left /\ (count = 0 => size = 0)
  BY DEF Delivered

\* Taking part of a block is a read of the cursor.
LEMMA TookReads ==
    ASSUME Laid, Holds, NEW b \in 2 .. Blocks - 1, NEW a \in Nat, a <= Size(b),
           NEW size \in Nat, NEW count \in Delivered(size, Size(b) - a),
           CursorNow = Before(b) + a,
           Taken(Offset(b) + 1 + a, Size(b) - a, b - 1, count),
           Got(size, Offset(b) + 1 + a, count), Same
    PROVE  StaysOpen /\ Advances(size, count)
  <1>1. b \in 1..Blocks /\ b \in 1..Len(offsets_and_sizes)
    <2>1. Blocks \in Nat /\ Blocks = Len(offsets_and_sizes)
      BY DEF Laid, Blocks
    <2>2. QED
      BY <2>1
  <1>2. /\ Size(b) \in Nat /\ Offset(b) \in Nat /\ Before(b) \in Nat
        /\ dest \in Seq(Cell) /\ offsets_and_sizes \in Seq(IndexRecord)
    BY <1>1, PositionFacts DEF Laid
  <1>3. count \in 0..size /\ count <= Size(b) - a /\ (count = 0 => size = 0) /\ count \in Nat
    <2>1. Size(b) - a \in Nat
      BY <1>2
    <2>2. QED
      BY <2>1, DeliveredFacts
  <1>4. a + count <= Size(b)
    BY <1>2, <1>3
  <1>5. result' = [op |-> "read", size |-> size,
                   data |-> BytesAt(dest, Offset(b) + 1 + a + 1, Offset(b) + 1 + a + count)]
    BY DEF Got
  <1>6. StaysOpen /\ CursorNow' = Before(b) + a + count
    <2>1. result'.op # "hash"
      BY <1>5
    <2>2. QED
      BY <1>3, <1>4, <2>1, Took
  <1>7. /\ Before(b) + a + count <= Len(Content)
        /\ BytesAt(dest, Offset(b) + 1 + a + 1, Offset(b) + 1 + a + count)
             = SubSeq(Content, Before(b) + a + 1, Before(b) + a + count)
    <2> DEFINE index == offsets_and_sizes
    <2>1. /\ dest \in Seq(Cell) /\ index \in Seq(IndexRecord) /\ b \in 1..Len(index)
          /\ a + count <= index[b].size
      BY <1>1, <1>2, <1>4 DEF Size
    <2> HIDE DEF index
    <2>2. LET from == index[b].offset + 1 + a
              pos == SumOf(index, b - 1) + a
          IN  /\ pos \in Nat /\ pos + count <= Len(IndexedContent(dest, index))
              /\ BytesAt(dest, from + 1, from + count)
                   = SubSeq(IndexedContent(dest, index), pos + 1, pos + count)
      BY <1>3, <2>1, PartRead
    <2>3. QED
      BY <2>2 DEF Offset, Before, Content, index
  <1>8. QED
    BY <1>3, <1>5, <1>6, <1>7 DEF Advances

LEMMA OpenFacts ==
    ASSUME ReaderInv, Opened
    PROVE  /\ Laid /\ Holds /\ Placed /\ Inside /\ AtEnd /\ ContentInv /\ Orderly
           /\ offsets_and_sizes \in Seq(IndexRecord)
           /\ CursorNow = CursorAt(reader_state, offsets_and_sizes,
                                   current_offsets_and_sizes_index, remaining)
  <1>1. Laid /\ Holds /\ Placed /\ Inside /\ AtEnd /\ ContentInv /\ Orderly
    BY EntryLaid DEF ReaderInv
  <1>2. offsets_and_sizes \in Seq(IndexRecord)
    BY <1>1 DEF Laid
  <1>3. QED
    BY <1>1, <1>2, CursorIs

LEMMA SizeFacts == \A size \in Sizes : size \in Nat
  BY SizesAssumption

LEMMA ContinuesReads ==
    ASSUME ReaderInv, NEW size \in Sizes, ReadContinues(size)
    PROVE  StaysOpen /\ \E count : Advances(size, count)
  <1> DEFINE b == current_index + 1
             a == Size(b) - remaining
  <1>1. Opened /\ reader_state = "InEntryContent"
    BY DEF ReadContinues, Opened
  <1>2. /\ current_index \in 0..LastIndex
        /\ HeaderAt(OffsetOf(current_index)).kind = "EntryContent"
        /\ remaining \in 1..SizeOf(current_index)
        /\ src = OffsetOf(current_index) + 1 + (SizeOf(current_index) - remaining)
    BY <1>1, OpenFacts DEF Inside
  <1>3. /\ OffsetOf(current_index) = Offset(b) /\ SizeOf(current_index) = Size(b)
        /\ LastIndex = Blocks - 1 /\ b \in 1..Blocks /\ Blocks \in Nat
    BY <1>1, <1>2, OpenFacts, Counting DEF Laid
  <1>4. Size(b) \in Nat /\ Offset(b) \in Nat
    BY <1>1, <1>3, OpenFacts DEF Laid
  <1>5. b \in 2..Blocks - 1
    <2>1. HeaderAt(Offset(b)).kind = "EntryContent"
      BY <1>2, <1>3
    <2>2. b # 1 /\ b # Blocks
      BY <1>1, <1>3, <2>1, OpenFacts DEF Laid
    <2> HIDE DEF b
    <2>3. QED
      BY <1>3, <2>2
  <1>6. a \in Nat /\ a <= Size(b) /\ Size(b) - a = remaining /\ src = Offset(b) + 1 + a
        /\ b - 1 = current_index /\ remaining \in Nat
    <2>1. b - 1 = current_index
      BY <1>2
    <2>2. remaining \in 1..Size(b)
      BY <1>2, <1>3
    <2>3. src = Offset(b) + 1 + a
      BY <1>2, <1>3
    <2> HIDE DEF b
    <2>4. QED
      BY <1>4, <2>1, <2>2, <2>3
  <1>7. CursorNow = Before(b) + a
    <2>1. CursorNow = SumOf(offsets_and_sizes, b) - remaining
      BY <1>1, OpenFacts DEF CursorAt, current_index
    <2>2. SumOf(offsets_and_sizes, b) = Before(b) + Size(b) /\ Before(b) \in Nat
      BY <1>1, <1>3, OpenFacts, PositionFacts
    <2> HIDE DEF b
    <2>3. QED
      BY <1>4, <1>6, <2>1, <2>2
  <1> HIDE DEF b, a
  <1>8. PICK count \in Delivered(size, remaining) :
           Taken(src, remaining, current_index, count) /\ Got(size, src, count)
    BY DEF ReadContinues
  <1>9. Same
    BY DEF ReadContinues, Same
  <1>10. /\ count \in Delivered(size, Size(b) - a) /\ Got(size, Offset(b) + 1 + a, count)
         /\ Taken(Offset(b) + 1 + a, Size(b) - a, b - 1, count)
    BY <1>6, <1>8
  <1>11. StaysOpen /\ Advances(size, count)
    BY <1>1, <1>5, <1>6, <1>7, <1>9, <1>10, OpenFacts, SizeFacts, TookReads
  <1>12. QED
    BY <1>11

\* The cursor in state Ready stands before the block sought.
LEMMA CursorReady ==
    ASSUME ReaderInv, reader_state = "Ready", Parses
    PROVE  /\ Sought + 1 \in 2..Blocks /\ Blocks \in Nat
           /\ Landing.at = Offset(Sought + 1) /\ Landing.index = (Sought + 1) - 1
           /\ CursorNow = Before(Sought + 1)
  <1>1. Opened
    BY DEF Opened
  <1>2. Laid /\ Placed /\ CursorNow = SumOf(offsets_and_sizes, current_index)
    BY <1>1, OpenFacts DEF CursorAt, current_index
  <1>3. /\ current_index \in 0..LastIndex /\ Sought \in 1..LastIndex /\ Sought + 1 \in 2..Blocks
        /\ Landing.at = Offset(Sought + 1) /\ Landing.index = Sought /\ LastIndex \in Nat
        /\ Blocks \in Nat
    BY <1>2, LandsOn, Counting DEF Laid
  <1>4. (Sought + 1) - 1 = Sought
    BY <1>3
  <1>5. CursorNow = Before(Sought + 1)
    <2>1. CASE current_index = 0
      <3>1. Sought = 1
        BY <2>1 DEF Sought
      <3>2. Before(1) = 0 /\ Before(2) = 0
        BY <1>2, PositionFacts
      <3>3. 1 - 1 = 0 /\ 1 + 1 = 2
        OBVIOUS
      <3>4. SumOf(offsets_and_sizes, 0) = 0
        BY <3>2, <3>3 DEF Before
      <3>5. QED
        BY <1>2, <2>1, <3>1, <3>2, <3>3, <3>4
    <2>2. CASE current_index # 0
      <3>1. Sought = current_index
        BY <2>2 DEF Sought
      <3>2. QED
        BY <1>2, <1>4, <3>1 DEF Before
    <2>3. QED
      BY <2>1, <2>2
  <1>6. QED
    BY <1>3, <1>4, <1>5

LEMMA NextBlockReads ==
    ASSUME ReaderInv, NEW size \in Sizes, ReadNextBlock(size)
    PROVE  StaysOpen /\ \E count : Advances(size, count)
  <1> DEFINE b == Sought + 1
             block == HeaderAt(Landing.at)
  <1>1. Opened /\ reader_state = "Ready" /\ Parses /\ block.kind = "EntryContent"
    BY DEF ReadNextBlock, Opened
  <1>2. /\ b \in 2..Blocks /\ Blocks \in Nat /\ Landing.at = Offset(b) /\ Landing.index = b - 1
        /\ CursorNow = Before(b)
    BY <1>1, CursorReady
  <1> HIDE DEF b
  <1>3. b \in 1..Blocks /\ b # 1
    BY <1>2
  <1>4. b # Blocks /\ Size(b) \in Nat /\ Offset(b) \in Nat /\ block.length = Size(b)
        /\ Before(b) \in Nat
    BY <1>1, <1>2, <1>3, OpenFacts, PositionFacts DEF Laid
  <1>5. b \in 2..Blocks - 1
    BY <1>2, <1>4
  <1>6. PICK count \in Delivered(size, block.length) :
           /\ Taken(Landing.at + 1, block.length, Landing.index, count)
           /\ Got(size, Landing.at + 1, count)
    BY DEF ReadNextBlock
  <1>7. Same
    BY DEF ReadNextBlock, Same
  <1>8. /\ Offset(b) + 1 + 0 = Offset(b) + 1 /\ Size(b) - 0 = Size(b) /\ 0 <= Size(b)
        /\ Before(b) + 0 = Before(b)
    BY <1>4
  <1> HIDE DEF block
  <1>9. /\ count \in Delivered(size, Size(b) - 0) /\ Got(size, Offset(b) + 1 + 0, count)
        /\ Taken(Offset(b) + 1 + 0, Size(b) - 0, b - 1, count)
    BY <1>2, <1>4, <1>6, <1>8
  <1>10. CursorNow = Before(b) + 0 /\ 0 \in Nat
    BY <1>2, <1>8
  <1>11. StaysOpen /\ Advances(size, count)
    BY <1>1, <1>5, <1>7, <1>8, <1>9, <1>10, OpenFacts, SizeFacts, TookReads
  <1>12. QED
    BY <1>11

\* A read of no bytes at the end of the entry.
LEMMA NothingRead ==
    ASSUME Laid, CursorNow = Len(Content), CursorNow' = CursorNow, NEW size \in Sizes,
           Got(size, src, 0), src \in Int
    PROVE  Advances(size, 0)
  <1>1. Content \in Seq(Found) /\ Len(Content) \in Nat
    BY PositionFacts
  <1>2. BytesAt(dest, src + 1, src + 0) = <<>>
    <2>1. (src + 0) - (src + 1) + 1 = 0 /\ 1..0 = {}
      OBVIOUS
    <2>2. QED
      BY <2>1 DEF BytesAt
  <1>3. SubSeq(Content, CursorNow + 1, CursorNow + 0) = <<>>
    BY <1>1
  <1>4. size \in Nat
    BY SizeFacts
  <1>5. result' = [op |-> "read", size |-> size, data |-> BytesAt(dest, src + 1, src + 0)]
    BY DEF Got
  <1>6. CursorNow + 0 = CursorNow /\ CursorNow + 0 <= Len(Content) /\ 0 \in 0..size
    BY <1>1, <1>4
  <1>7. QED
    BY <1>2, <1>3, <1>5, <1>6 DEF Advances

LEMMA EndReads ==
    ASSUME ReaderInv, NEW size \in Sizes, ReadEndOfEntry(size)
    PROVE  StaysOpen /\ \E count : Advances(size, count)
  <1> DEFINE b == Sought + 1
  <1>1. Opened /\ reader_state = "Ready" /\ Parses /\ HeaderAt(Landing.at).kind = "EndOfEntry"
    BY DEF ReadEndOfEntry, Opened
  <1>2. /\ b \in 2..Blocks /\ Blocks \in Nat /\ Landing.at = Offset(b) /\ CursorNow = Before(b)
    BY <1>1, CursorReady
  <1> HIDE DEF b
  <1>3. b \in 1..Blocks /\ b # 1 /\ Laid /\ Holds
    BY <1>1, <1>2, OpenFacts
  <1>4. b = Blocks /\ Offset(b) \in Nat
    BY <1>1, <1>2, <1>3 DEF Laid
  <1>5. /\ reader_state' = "Finish" /\ src' = Offset(b) + 1 /\ Same /\ Got(size, src, 0)
        /\ offsets_and_sizes' = offsets_and_sizes
    BY <1>2 DEF ReadEndOfEntry, Same
  <1>6. CursorNow = Len(Content) /\ Len(Content) = SumOf(offsets_and_sizes, Blocks)
    BY <1>2, <1>3, <1>4, PositionFacts
  <1>7. CursorNow' = CursorNow
    <2>1. CursorNow' = CursorAt(reader_state', offsets_and_sizes',
                                current_offsets_and_sizes_index', remaining')
      BY <1>3, <1>5, CursorWillBe DEF Laid
    <2>2. QED
      BY <1>5, <1>6, <2>1 DEF CursorAt, Blocks
  <1>8. StaysOpen
    <2>1. result'.op # "hash"
      BY <1>5 DEF Got
    <2>2. Holds'
      BY <1>3, <1>5, <2>1 DEF Holds, Same, vars
    <2>3. Placed' /\ Inside' /\ AtEnd'
      BY <1>4, <1>5 DEF Placed, Inside, AtEnd
    <2>4. QED
      BY <2>2, <2>3 DEF StaysOpen
  <1>9. src \in Int
    <2>1. src # Lost
      BY <1>1 DEF Parses
    <2>2. QED
      BY <1>1, <2>1, OpenFacts, PlaceFacts
  <1>10. Advances(size, 0)
    BY <1>3, <1>5, <1>6, <1>7, <1>9, NothingRead
  <1>11. QED
    BY <1>8, <1>10

LEMMA FinishedReads ==
    ASSUME ReaderInv, NEW size \in Sizes, ReadFinished(size)
    PROVE  StaysOpen /\ \E count : Advances(size, count)
  <1>1. Opened /\ reader_state = "Finish"
    BY DEF ReadFinished, Opened
  <1>2. Laid /\ Holds /\ src \in Int
    BY <1>1, OpenFacts DEF AtEnd
  <1>3. /\ UNCHANGED <<reader_state, remaining, current_offsets_and_sizes_index,
                       offsets_and_sizes, src>>
        /\ Same /\ Got(size, src, 0)
    BY DEF ReadFinished, Same
  <1>4. CursorNow = Len(Content)
    <2>1. CursorNow = SumOf(offsets_and_sizes, Blocks)
      BY <1>1, OpenFacts DEF CursorAt, Blocks
    <2>2. QED
      BY <1>2, <2>1, PositionFacts
  <1>5. CursorNow' = CursorNow
    BY <1>1, <1>2, <1>3, OpenFacts, CursorWillBe
  <1>6. StaysOpen
    <2>1. result'.op # "hash"
      BY <1>3 DEF Got
    <2>2. Holds'
      BY <1>2, <1>3, <2>1 DEF Holds, Same, vars
    <2>3. Placed' /\ Inside' /\ AtEnd'
      BY <1>1, <1>3, OpenFacts DEF Placed, Inside, AtEnd
    <2>4. QED
      BY <2>2, <2>3 DEF StaysOpen
  <1>7. Advances(size, 0)
    BY <1>2, <1>3, <1>4, <1>5, NothingRead
  <1>8. QED
    BY <1>6, <1>7

\* Without a failed call, what follows a block of the entry is a header.
LEMMA HeaderFollows ==
    ASSUME ReaderInv, reader_state = "Ready", src # Lost, damaged = {}
    PROVE  Parses
  <1> DEFINE i == current_index + 1
  <1>1. Opened /\ Laid /\ Placed /\ Orderly /\ state = "Finalized" /\ ContentInv
    BY OpenFacts DEF Opened, Holds
  <1>2. /\ i \in 1..Blocks /\ src \in Nat /\ src < Len(dest) /\ src <= Offset(i)
        /\ i = 1 => src = Offset(1)
        /\ i > 1 => /\ i - 1 \in 1..Blocks
                    /\ src = Offset(i) \/ src = Offset(i - 1) + 1 + Size(i - 1)
    BY <1>1, PlaceFacts
  <1> HIDE DEF i
  <1>3. /\ Blocks \in Nat /\ Len(dest) \in Nat /\ Offset(i) \in Nat /\ Offset(i) + 1 <= Len(dest)
        /\ HeaderAt(Offset(i)).kind \in EntryBlockKinds
    <2>1. /\ Blocks \in Nat /\ Len(dest) \in Nat /\ Offset(i) \in Nat
          /\ Offset(i) + 1 <= Len(dest)
          /\ HeaderAt(Offset(i)).kind =
                IF i = 1 THEN "EntryStart" ELSE IF i = Blocks THEN "EndOfEntry" ELSE "EntryContent"
      BY <1>1, <1>2 DEF Laid
    <2>2. QED
      BY <2>1 DEF EntryBlockKinds
  <1>4. CASE src = Offset(i)
    BY <1>3, <1>4 DEF Parses
  <1>5. CASE src # Offset(i)
    <2> DEFINE j == i - 1
               p == Offset(j) + 1
    <2>1. i > 1
      BY <1>2, <1>3, <1>5
    <2>2. j \in 1..Blocks /\ j # Blocks /\ src = Offset(j) + 1 + Size(j)
      BY <1>2, <1>3, <1>5, <2>1
    <2> HIDE DEF j
    <2>3. /\ Offset(j) \in Nat /\ Size(j) \in Nat /\ Offset(j) + 1 <= Len(dest)
          /\ HeaderAt(Offset(j)).kind =
                (IF j = 1 THEN "EntryStart" ELSE "EntryContent")
          /\ j = 1 => Size(j) = 0
          /\ j # 1 => HeaderAt(Offset(j)).length = Size(j)
      BY <1>1, <2>2 DEF Laid
    <2>4. p \in 1..Len(dest) /\ p \in Nat /\ src = p + Size(j)
      BY <1>3, <2>2, <2>3
    <2>5. dest[p].kind \in EntryBlockKinds /\ BlockEnd(dest, p) = src
      <3>1. dest[p] = HeaderAt(Offset(j))
        BY DEF HeaderAt
      <3> HIDE DEF p
      <3>2. CASE j = 1
        BY <2>3, <2>4, <3>1, <3>2 DEF BlockEnd, EntryBlockKinds
      <3>3. CASE j # 1
        BY <2>3, <2>4, <3>1, <3>3 DEF BlockEnd, EntryBlockKinds
      <3>4. QED
        BY <3>2, <3>3
    <2> HIDE DEF p
    <2>6. dest[src + 1].kind \in EntryBlockKinds \cup {"EndOfArchiveData"}
      BY <1>1, <1>2, <2>4, <2>5 DEF Orderly
    <2>7. dest[src + 1].kind # "EndOfArchiveData"
      <3> SUFFICES ASSUME dest[src + 1].kind = "EndOfArchiveData" PROVE FALSE
        OBVIOUS
      <3>1. /\ dest[Len(dest)] = ArchiveFooter(FooterIndex)
            /\ \A q \in 1..Len(dest) : dest[q].kind = "EndOfArchiveData" <=> q = Len(dest) - 1
        BY <1>1 DEF ContentInv, SealShape
      <3>2. src + 1 \in 1..Len(dest)
        BY <1>2, <1>3
      <3>3. src + 1 = Len(dest) - 1
        BY <3>1, <3>2
      <3>4. Offset(i) + 1 = Len(dest)
        BY <1>2, <1>3, <1>5, <3>3
      <3>5. HeaderAt(Offset(i)).kind = "ArchiveFooter"
        BY <3>1, <3>4 DEF HeaderAt, ArchiveFooter
      <3>6. QED
        BY <1>3, <3>5 DEF EntryBlockKinds
    <2>8. QED
      BY <2>6, <2>7 DEF Parses, HeaderAt
  <1>6. QED
    BY <1>4, <1>5

LEMMA FailsReads ==
    ASSUME ReaderInv, NEW size \in Sizes, ReadFails(size)
    PROVE  StaysOpen /\ CursorNow' = CursorNow /\ damaged' # {} /\ Same
  <1>1. Opened /\ reader_state = "Ready" /\ src # Lost /\ ~Parses
    BY DEF ReadFails, Opened
  <1>2. /\ UNCHANGED <<reader_state, remaining, current_offsets_and_sizes_index,
                       offsets_and_sizes>>
        /\ src' = Lost /\ Same /\ result' = [op |-> "read_error", size |-> size]
    BY DEF ReadFails, Same
  <1>3. CursorNow' = CursorNow
    BY <1>1, <1>2, OpenFacts, CursorWillBe
  <1>4. Holds'
    <2>1. result'.op # "hash"
      BY <1>2
    <2>2. QED
      BY <1>1, <1>2, <2>1, OpenFacts DEF Holds, Same, vars
  <1>5. Placed' /\ Inside' /\ AtEnd'
    <2>1. current_index \in 0..LastIndex
      BY <1>1, OpenFacts DEF Placed
    <2>2. current_index' \in 0..LastIndex'
      BY <1>2, <2>1 DEF current_index, LastIndex
    <2>3. QED
      BY <1>1, <1>2, <2>2 DEF Placed, Inside, AtEnd, Lost
  <1>6. damaged' # {}
    BY <1>1, <1>2, HeaderFollows DEF Same, vars
  <1>7. QED
    BY <1>2, <1>3, <1>4, <1>5, <1>6 DEF StaysOpen

-----------------------------------------------------------------------------
(***************************************************************************)
(* seek.                                                                   *)
(***************************************************************************)
LEMMA FirstFacts ==
    ASSUME NEW S \in SUBSET Nat, S # {}
    PROVE  First(S) \in S /\ \A j \in S : First(S) <= j
  <1>1. \E i \in S : \A j \in S : i <= j
    BY LeastNumber
  <1>2. QED
    BY <1>1 DEF First

LEMMA LastFacts ==
    ASSUME NEW n \in Nat, NEW S \in SUBSET (0..n), S # {}
    PROVE  Last(S) \in S /\ \A j \in S : j <= Last(S)
  <1> DEFINE T == {k \in 0..n : n - k \in S}
  <1>1. T \in SUBSET Nat /\ T # {}
    <2>1. PICK i \in S : TRUE
      OBVIOUS
    <2>2. n - i \in 0..n /\ n - (n - i) = i
      BY <2>1
    <2>3. n - i \in T
      BY <2>2
    <2>4. T \in SUBSET Nat
      OBVIOUS
    <2> HIDE DEF T
    <2>5. QED
      BY <2>3, <2>4
  <1>2. PICK m \in T : \A k \in T : m <= k
    <2> HIDE DEF T
    <2>1. QED
      BY <1>1, LeastNumber
  <1>3. n - m \in S
    OBVIOUS
  <1>4. ASSUME NEW j \in S PROVE j <= n - m
    <2>1. n - j \in 0..n /\ n - (n - j) = j
      OBVIOUS
    <2>2. n - j \in T
      BY <2>1
    <2>3. m <= n - j
      BY <1>2, <2>2
    <2>4. QED
      BY <2>3
  <1>5. \E i \in S : \A j \in S : j <= i
    BY <1>3, <1>4
  <1>6. QED
    BY <1>5 DEF Last

Upto(i) == SumOf(offsets_and_sizes, i)

\* A place to seek to: distance bytes into a block, target bytes from the start.
Reaches(i, distance, target) ==
    /\ i \in 0..LastIndex /\ distance \in Nat
    /\ Upto(i) + distance = target
    /\ distance > 0 => i + 1 \in 2 .. Blocks - 1 /\ distance <= Size(i + 1)

LEMMA UptoFacts ==
    ASSUME Laid
    PROVE  /\ LastIndex \in Nat /\ LastIndex + 1 = Blocks
           /\ \A i : SumOfFirst(i) = Upto(i)
           /\ Total = Len(Content) /\ Len(Content) \in Nat
           /\ Upto(0) = 0 /\ Upto(LastIndex) = Len(Content) /\ Upto(LastIndex + 1) = Len(Content)
           /\ \A i \in 0..LastIndex : /\ Upto(i) \in Nat /\ Upto(i + 1) \in Nat
                                      /\ Size(i + 1) \in Nat
                                      /\ Upto(i + 1) = Upto(i) + Size(i + 1)
                                      /\ Upto(i + 1) <= Len(Content)
                                      /\ Size(i + 1) > 0 => i + 1 \in 2 .. Blocks - 1
  <1>1. LastIndex \in Nat /\ LastIndex = Blocks - 1 /\ Blocks \in Nat /\ LastIndex + 1 = Blocks
    <2>1. LastIndex \in Nat /\ LastIndex = Blocks - 1 /\ Blocks \in Nat
      BY Counting DEF Laid
    <2>2. QED
      BY <2>1
  <1>2. \A i : SumOfFirst(i) = Upto(i)
    BY SumIs DEF Upto
  <1>3. /\ Len(Content) \in Nat /\ Len(Content) = Upto(Blocks) /\ Len(Content) = Upto(Blocks - 1)
    BY PositionFacts DEF Upto, Before
  <1>4. Upto(0) = 0
    <2>1. Before(1) = 0 /\ 1 - 1 = 0
      BY PositionFacts
    <2>2. QED
      BY <2>1 DEF Before, Upto
  <1>5. ASSUME NEW i \in 0..LastIndex
        PROVE  /\ Upto(i) \in Nat /\ Upto(i + 1) \in Nat /\ Size(i + 1) \in Nat
               /\ Upto(i + 1) = Upto(i) + Size(i + 1)
               /\ Upto(i + 1) <= Len(Content)
               /\ Size(i + 1) > 0 => i + 1 \in 2 .. Blocks - 1
    <2>1. i + 1 \in 1..Blocks /\ (i + 1) - 1 = i
      BY <1>1
    <2>2. /\ Before(i + 1) \in Nat /\ SumOf(offsets_and_sizes, i + 1) = Before(i + 1) + Size(i + 1)
          /\ Before(i + 1) + Size(i + 1) <= Len(Content)
      BY <2>1, PositionFacts
    <2>3. Before(i + 1) = Upto(i) /\ Upto(i + 1) = SumOf(offsets_and_sizes, i + 1)
      BY <2>1 DEF Before, Upto
    <2>4. Size(i + 1) \in Nat /\ (i + 1 \in {1, Blocks} => Size(i + 1) = 0)
      BY <2>1 DEF Laid
    <2>5. Size(i + 1) > 0 => i + 1 \in 2 .. Blocks - 1
      <3>1. Size(i + 1) > 0 => i + 1 # 1 /\ i + 1 # Blocks
        BY <2>4
      <3>2. QED
        BY <1>1, <2>1, <3>1
    <2>6. Upto(i) + Size(i + 1) \in Nat
      BY <2>2, <2>3, <2>4
    <2>7. QED
      BY <2>2, <2>3, <2>4, <2>5, <2>6
  <1>6. Total = Len(Content)
    BY <1>1, <1>2, <1>3 DEF Total
  <1>7. QED
    BY <1>1, <1>2, <1>3, <1>4, <1>5, <1>6

\* The only place a set of places holds, if the target is in the entry.
Hits(places, target) ==
    IF target \in 0..Len(Content)
    THEN \E i, distance : /\ places = {[index |-> i, distance |-> distance]}
                          /\ Reaches(i, distance, target)
    ELSE places = {}

LEMMA SeekStartHits ==
    ASSUME Laid, NEW asked \in Int
    PROVE  Hits(SeekStart(asked), asked)
  <1> DEFINE holds == {i \in 0..LastIndex : Upto(i + 1) > asked}
             n == Len(Content)
  <1>1. /\ LastIndex \in Nat /\ Total = n /\ n \in Nat
        /\ Upto(0) = 0 /\ Upto(LastIndex) = n /\ Upto(LastIndex + 1) = n
        /\ \A i \in 0..LastIndex : /\ Upto(i) \in Nat /\ Upto(i + 1) \in Nat
                                   /\ Size(i + 1) \in Nat
                                   /\ Upto(i + 1) = Upto(i) + Size(i + 1)
                                   /\ Upto(i + 1) <= n
                                   /\ Size(i + 1) > 0 => i + 1 \in 2 .. Blocks - 1
    BY UptoFacts
  <1>2. SeekStart(asked) =
           IF asked < 0 THEN {}
           ELSE IF holds # {}
           THEN {[index |-> First(holds), distance |-> asked - Upto(First(holds))]}
           ELSE IF asked = n THEN {[index |-> LastIndex, distance |-> 0]} ELSE {}
    BY <1>1, UptoFacts DEF SeekStart
  <1> HIDE DEF n
  <1>3. CASE asked < 0
    <2>1. asked \notin 0..n
      BY <1>1, <1>3
    <2>2. QED
      BY <1>2, <1>3, <2>1 DEF Hits, n
  <1>4. CASE asked >= 0 /\ holds # {}
    <2> DEFINE m == First(holds)
               d == asked - Upto(m)
    <2>1. holds \in SUBSET Nat
      BY <1>1
    <2>2. m \in holds /\ \A j \in holds : m <= j
      <3> HIDE DEF holds
      <3>1. QED
        BY <1>4, <2>1, FirstFacts
    <2> HIDE DEF m
    <2>3. m \in 0..LastIndex /\ Upto(m + 1) > asked
      BY <2>2
    <2>4. /\ Upto(m) \in Nat /\ Upto(m + 1) \in Nat /\ Size(m + 1) \in Nat
          /\ Upto(m + 1) = Upto(m) + Size(m + 1) /\ Upto(m + 1) <= n
          /\ Size(m + 1) > 0 => m + 1 \in 2 .. Blocks - 1
      BY <1>1, <2>3
    <2>5. Upto(m) <= asked
      <3>1. CASE m = 0
        BY <1>1, <1>4, <3>1
      <3>2. CASE m # 0
        <4>1. m - 1 \in 0..LastIndex /\ (m - 1) + 1 = m /\ ~ (m <= m - 1)
          BY <1>1, <2>3, <3>2
        <4>2. m - 1 \notin holds
          <5> HIDE DEF holds
          <5>1. QED
            BY <2>2, <4>1
        <4>3. ~ (Upto(m) > asked)
          BY <4>1, <4>2
        <4>4. QED
          BY <2>4, <4>3
      <3>3. QED
        BY <3>1, <3>2
    <2> HIDE DEF holds
    <2>6. /\ d \in Nat /\ Upto(m) + d = asked /\ d <= Size(m + 1) /\ asked \in 0..n
          /\ d > 0 => Size(m + 1) > 0
      <3> DEFINE u == Upto(m)
                 v == Upto(m + 1)
                 z == Size(m + 1)
      <3>1. /\ u \in Nat /\ v \in Nat /\ z \in Nat /\ v = u + z /\ v <= n /\ v > asked
            /\ u <= asked /\ n \in Nat /\ asked >= 0 /\ d = asked - u
        BY <1>1, <1>4, <2>3, <2>4, <2>5
      <3> HIDE DEF u, v, z, d
      <3>2. d \in Nat /\ u + d = asked /\ d <= z /\ asked \in 0..n /\ (d > 0 => z > 0)
        BY <3>1
      <3>3. QED
        BY <3>2 DEF u, z
    <2>7. ~ (asked < 0)
      BY <1>4
    <2> HIDE DEF d
    <2>8. SeekStart(asked) = {[index |-> m, distance |-> d]}
      BY <1>2, <1>4, <2>7 DEF m, d
    <2>9. Reaches(m, d, asked)
      BY <2>3, <2>4, <2>6 DEF Reaches
    <2>10. QED
      BY <2>6, <2>8, <2>9 DEF Hits, n
  <1>5. CASE asked >= 0 /\ holds = {}
    <2>1. asked >= n
      <3>1. LastIndex \in 0..LastIndex
        BY <1>1
      <3>2. ~ (Upto(LastIndex + 1) > asked)
        BY <1>5, <3>1
      <3>3. QED
        BY <1>1, <3>2
    <2>2. ~ (asked < 0) /\ (asked \in 0..n <=> asked = n)
      BY <1>1, <1>5, <2>1
    <2> HIDE DEF holds
    <2>3. CASE asked = n
      <3>1. SeekStart(asked) = {[index |-> LastIndex, distance |-> 0]}
        BY <1>2, <1>5, <2>2, <2>3
      <3>2. Reaches(LastIndex, 0, asked)
        BY <1>1, <2>3 DEF Reaches
      <3>3. QED
        BY <2>2, <2>3, <3>1, <3>2 DEF Hits, n
    <2>4. CASE asked # n
      <3>1. SeekStart(asked) = {}
        BY <1>2, <1>5, <2>2, <2>4
      <3>2. QED
        BY <2>2, <2>4, <3>1 DEF Hits, n
    <2>5. QED
      BY <2>3, <2>4
  <1>6. QED
    BY <1>3, <1>4, <1>5

LEMMA SeekEndHits ==
    ASSUME Laid, NEW asked \in Int
    PROVE  Hits(SeekEnd(asked), Len(Content) + asked)
  <1> DEFINE n == Len(Content)
             target == n + asked
             holds == {i \in 0..LastIndex : n - Upto(i) > -asked}
  <1>1. /\ LastIndex \in Nat /\ Total = n /\ n \in Nat
        /\ Upto(0) = 0 /\ Upto(LastIndex) = n /\ Upto(LastIndex + 1) = n
        /\ \A i \in 0..LastIndex : /\ Upto(i) \in Nat /\ Upto(i + 1) \in Nat
                                   /\ Size(i + 1) \in Nat
                                   /\ Upto(i + 1) = Upto(i) + Size(i + 1)
                                   /\ Upto(i + 1) <= n
                                   /\ Size(i + 1) > 0 => i + 1 \in 2 .. Blocks - 1
    BY UptoFacts
  <1>2. SeekEnd(asked) =
           IF asked > 0 THEN {}
           ELSE IF holds # {}
           THEN {[index |-> Last(holds), distance |-> n - Upto(Last(holds)) + asked]}
           ELSE IF -asked = n THEN {[index |-> 0, distance |-> 0]} ELSE {}
    BY <1>1, UptoFacts DEF SeekEnd
  <1> HIDE DEF n
  <1>3. CASE asked > 0
    <2>1. target \notin 0..n
      BY <1>1, <1>3
    <2>2. QED
      BY <1>2, <1>3, <2>1 DEF Hits, n
  <1>4. CASE asked <= 0 /\ holds # {}
    <2> DEFINE m == Last(holds)
               d == n - Upto(m) + asked
    <2>1. holds \in SUBSET (0..LastIndex)
      BY <1>1
    <2>2. m \in holds /\ \A j \in holds : j <= m
      <3> HIDE DEF holds
      <3>1. QED
        BY <1>1, <1>4, <2>1, LastFacts
    <2> HIDE DEF m
    <2>3. m \in 0..LastIndex /\ n - Upto(m) > -asked
      BY <2>2
    <2>4. /\ Upto(m) \in Nat /\ Upto(m + 1) \in Nat /\ Size(m + 1) \in Nat
          /\ Upto(m + 1) = Upto(m) + Size(m + 1) /\ Upto(m + 1) <= n
          /\ Size(m + 1) > 0 => m + 1 \in 2 .. Blocks - 1
      BY <1>1, <2>3
    <2>5. ~ (n - Upto(m + 1) > -asked)
      <3>1. m # LastIndex
        <4>1. ~ (n - n > -asked)
          BY <1>1, <1>4
        <4>2. QED
          BY <1>1, <2>3, <4>1
      <3>2. m + 1 \in 0..LastIndex /\ ~ (m + 1 <= m)
        BY <1>1, <2>3, <3>1
      <3>3. m + 1 \notin holds
        <4> HIDE DEF holds
        <4>1. QED
          BY <2>2, <3>2
      <3>4. QED
        BY <3>2, <3>3
    <2> HIDE DEF holds
    <2>6. /\ d \in Nat /\ Upto(m) + d = target /\ d <= Size(m + 1) /\ target \in 0..n
          /\ d > 0 => Size(m + 1) > 0
      <3> DEFINE u == Upto(m)
                 v == Upto(m + 1)
                 z == Size(m + 1)
      <3>1. /\ u \in Nat /\ v \in Nat /\ z \in Nat /\ v = u + z /\ v <= n /\ n - u > -asked
            /\ ~ (n - v > -asked) /\ n \in Nat /\ asked <= 0 /\ d = n - u + asked
            /\ target = n + asked
        BY <1>1, <1>4, <2>3, <2>4, <2>5
      <3> HIDE DEF u, v, z, d, target
      <3>2. d \in Nat /\ u + d = target /\ d <= z /\ target \in 0..n /\ (d > 0 => z > 0)
        BY <3>1
      <3>3. QED
        BY <3>2 DEF u, z
    <2>7. ~ (asked > 0)
      BY <1>4
    <2> HIDE DEF d, target
    <2>8. SeekEnd(asked) = {[index |-> m, distance |-> d]}
      BY <1>2, <1>4, <2>7 DEF m, d
    <2>9. Reaches(m, d, target)
      BY <2>3, <2>4, <2>6 DEF Reaches
    <2>10. Hits(SeekEnd(asked), target)
      BY <2>6, <2>8, <2>9 DEF Hits, n
    <2>11. QED
      BY <2>10 DEF target, n
  <1>5. CASE asked <= 0 /\ holds = {}
    <2>1. target <= 0
      <3>1. 0 \in 0..LastIndex
        BY <1>1
      <3>2. ~ (n - Upto(0) > -asked)
        BY <1>5, <3>1
      <3>3. QED
        BY <1>1, <3>2
    <2>2. ~ (asked > 0) /\ (target \in 0..n <=> -asked = n) /\ (-asked = n => target = 0)
      BY <1>1, <1>5, <2>1
    <2> HIDE DEF holds, target
    <2>3. CASE -asked = n
      <3>1. SeekEnd(asked) = {[index |-> 0, distance |-> 0]}
        BY <1>2, <1>5, <2>2, <2>3
      <3>2. Reaches(0, 0, target)
        BY <1>1, <2>2, <2>3 DEF Reaches
      <3>3. Hits(SeekEnd(asked), target)
        BY <2>2, <2>3, <3>1, <3>2 DEF Hits, n
      <3>4. QED
        BY <3>3 DEF target, n
    <2>4. CASE -asked # n
      <3>1. SeekEnd(asked) = {}
        BY <1>2, <1>5, <2>2, <2>4
      <3>2. Hits(SeekEnd(asked), target)
        BY <2>2, <2>4, <3>1 DEF Hits, n
      <3>3. QED
        BY <3>2 DEF target, n
    <2>5. QED
      BY <2>3, <2>4
  <1>6. QED
    BY <1>3, <1>4, <1>5

\* The target of a seek, as EntryCursor counts it.
TargetOf(whence, by) ==
    CASE whence = "Start" -> by
      [] whence = "Current" -> CursorNow + by
      [] whence = "End" -> Len(Content) + by

LEMMA CursorInt ==
    ASSUME ReaderInv, Opened
    PROVE  CursorNow \in Int
  <1>1. /\ Laid /\ Holds /\ Placed /\ Inside
        /\ CursorNow = CursorAt(reader_state, offsets_and_sizes,
                                current_offsets_and_sizes_index, remaining)
    BY OpenFacts
  <1>2. CASE reader_state = "Ready"
    <2>1. current_index \in 0..LastIndex
      BY <1>1, <1>2 DEF Placed
    <2>2. Upto(current_index) \in Nat
      BY <1>1, <2>1, UptoFacts
    <2>3. QED
      BY <1>1, <1>2, <2>2 DEF CursorAt, Upto, current_index
  <1>3. CASE reader_state = "InEntryContent"
    <2>1. current_index \in 0..LastIndex /\ remaining \in 1..SizeOf(current_index)
      BY <1>1, <1>3 DEF Inside
    <2>2. Upto(current_index + 1) \in Nat /\ SizeOf(current_index) \in Nat
      BY <1>1, <2>1, UptoFacts, Counting
    <2>3. CursorNow = Upto(current_index + 1) - remaining
      BY <1>1, <1>3 DEF CursorAt, Upto, current_index
    <2>4. remaining \in Int
      BY <2>1, <2>2
    <2>5. QED
      BY <2>2, <2>3, <2>4
  <1>4. CASE reader_state = "Finish"
    <2>1. CursorNow = Upto(Blocks)
      BY <1>1, <1>4 DEF CursorAt, Upto, Blocks
    <2>2. QED
      BY <1>1, <2>1, UptoFacts
  <1>5. QED
    BY <1>1, <1>2, <1>3, <1>4 DEF Holds

LEMMA PlacesHit ==
    ASSUME ReaderInv, Opened, NEW whence \in {"Start", "End", "Current"}, NEW by \in Moves
    PROVE  Hits(Places(whence, by), TargetOf(whence, by))
  <1>1. Laid /\ CursorNow \in Int /\ by \in Int
    BY OpenFacts, CursorInt, MovesAssumption
  <1>2. CASE whence = "Start"
    <2>1. Places(whence, by) = SeekStart(by) /\ TargetOf(whence, by) = by
      BY <1>2 DEF Places, TargetOf
    <2>2. QED
      BY <1>1, <2>1, SeekStartHits
  <1>3. CASE whence = "End"
    <2>1. Places(whence, by) = SeekEnd(by) /\ TargetOf(whence, by) = Len(Content) + by
      BY <1>3 DEF Places, TargetOf
    <2>2. QED
      BY <1>1, <2>1, SeekEndHits
  <1>4. CASE whence = "Current"
    <2>1. Places(whence, by) = SeekCurrent(by) /\ TargetOf(whence, by) = CursorNow + by
      BY <1>4 DEF Places, TargetOf
    <2>2. CASE reader_state = "Finish"
      <3>1. CursorNow = Len(Content)
        BY <1>1, <2>2, UptoFacts DEF CursorNow
      <3>2. SeekCurrent(by) = SeekEnd(by)
        BY <2>2 DEF SeekCurrent
      <3>3. QED
        BY <1>1, <2>1, <3>1, <3>2, SeekEndHits
    <2>3. CASE reader_state # "Finish"
      <3>1. CursorNow = OffsetFromStart
        BY <2>3 DEF CursorNow, Opened
      <3>2. SeekCurrent(by) = SeekStart(CursorNow + by)
        BY <2>3, <3>1 DEF SeekCurrent
      <3>3. CursorNow + by \in Int
        BY <1>1
      <3>4. QED
        BY <1>1, <2>1, <3>2, <3>3, SeekStartHits
    <2>4. QED
      BY <2>2, <2>3
  <1>5. QED
    BY <1>2, <1>3, <1>4

LEMMA Skips ==
    ASSUME Laid, Holds, NEW i, NEW distance, NEW target, Reaches(i, distance, target),
           SkipInto(i, distance), Same, result'.op # "hash"
    PROVE  StaysOpen /\ CursorNow' = target
  <1>1. /\ i \in 0..LastIndex /\ distance \in Nat /\ Upto(i) + distance = target
        /\ distance > 0 => i + 1 \in 2 .. Blocks - 1 /\ distance <= Size(i + 1)
        /\ LastIndex \in Nat /\ Upto(i) \in Nat
    BY UptoFacts DEF Reaches
  <1>2. offsets_and_sizes' = offsets_and_sizes /\ offsets_and_sizes \in Seq(IndexRecord)
    BY DEF Same, Laid
  <1>3. CASE distance = 0
    <2>1. /\ src' = OffsetOf(i) /\ reader_state' = "Ready"
          /\ current_offsets_and_sizes_index' = i
      BY <1>3 DEF SkipInto
    <2>2. Holds'
      BY <2>1 DEF Holds, Same, vars
    <2>3. Placed'
      <3>1. current_index' = i /\ LastIndex' = LastIndex /\ OffsetOf(current_index)' = OffsetOf(i)
        BY <1>2, <2>1 DEF current_index, LastIndex, OffsetOf
      <3>2. QED
        BY <1>1, <2>1, <3>1 DEF Placed
    <2>4. Inside' /\ AtEnd'
      BY <2>1 DEF Inside, AtEnd
    <2>5. CursorNow' = target
      <3>1. CursorNow' = CursorAt(reader_state', offsets_and_sizes',
                                  current_offsets_and_sizes_index', remaining')
        BY <1>2, CursorWillBe
      <3>2. CursorNow' = Upto(i)
        BY <1>2, <2>1, <3>1 DEF CursorAt, Upto
      <3>3. Upto(i) = target
        BY <1>1, <1>3
      <3>4. QED
        BY <3>2, <3>3
    <2>6. QED
      BY <2>2, <2>3, <2>4, <2>5 DEF StaysOpen
  <1>4. CASE distance # 0
    <2> DEFINE b == i + 1
    <2>1. b \in 2 .. Blocks - 1 /\ distance <= Size(b) /\ b - 1 = i /\ Blocks \in Nat
      <3>1. distance > 0 /\ (i + 1) - 1 = i
        BY <1>1, <1>4
      <3>2. QED
        BY <1>1, <3>1 DEF Laid
    <2> HIDE DEF b
    <2>2. b \in 1..Blocks /\ b # 1 /\ b # Blocks
      BY <2>1
    <2>3. OffsetOf(i) = Offset(b) /\ HeaderAt(Offset(b)).length = Size(b)
          /\ Offset(b) \in Nat /\ Size(b) \in Nat
      BY <2>2, Counting DEF Laid, b
    <2>4. Taken(OffsetOf(i) + 1, HeaderAt(OffsetOf(i)).length, i, distance)
      BY <1>4 DEF SkipInto
    <2>5. /\ Offset(b) + 1 + 0 = Offset(b) + 1 /\ Size(b) - 0 = Size(b)
          /\ 0 + distance = distance /\ 0 \in Nat
      BY <1>1, <2>3
    <2>6. Taken(Offset(b) + 1 + 0, Size(b) - 0, b - 1, distance)
      BY <2>1, <2>3, <2>4, <2>5
    <2>7. StaysOpen /\ CursorNow' = Before(b) + 0 + distance
      BY <1>1, <2>1, <2>5, <2>6, Took
    <2>8. Before(b) = Upto(i)
      BY <2>1 DEF Before, Upto
    <2>9. Before(b) + 0 + distance = target
      BY <1>1, <2>8
    <2>10. QED
      BY <2>7, <2>9
  <1>5. QED
    BY <1>3, <1>4

\* A seek goes to its target, or is refused because there is none.
LEMMA SeekMoves ==
    ASSUME ReaderInv, NEW whence \in {"Start", "End", "Current"}, NEW by \in Moves,
           Seek(whence, by)
    PROVE  /\ StaysOpen /\ Same
           /\ TargetOf(whence, by) \in 0..Len(Content)
           /\ CursorNow' = TargetOf(whence, by)
           /\ result' = [op |-> "seek", whence |-> whence, by |-> by, ok |-> TRUE]
  <1>1. Opened /\ Same /\ result' = [op |-> "seek", whence |-> whence, by |-> by, ok |-> TRUE]
    BY DEF Seek, Opened, Same
  <1>2. PICK place \in Places(whence, by) : SkipInto(place.index, place.distance)
    BY DEF Seek
  <1> DEFINE target == TargetOf(whence, by)
  <1>3. Hits(Places(whence, by), target)
    BY <1>1, PlacesHit
  <1> HIDE DEF target
  <1>4. target \in 0..Len(Content)
    BY <1>2, <1>3 DEF Hits
  <1>5. PICK i, distance : /\ Places(whence, by) = {[index |-> i, distance |-> distance]}
                           /\ Reaches(i, distance, target)
    BY <1>3, <1>4 DEF Hits
  <1>6. SkipInto(i, distance)
    <2>1. place = [index |-> i, distance |-> distance]
      BY <1>2, <1>5
    <2>2. place.index = i /\ place.distance = distance
      BY <2>1
    <2>3. QED
      BY <1>2, <2>2
  <1>7. result'.op # "hash"
    BY <1>1
  <1>8. StaysOpen /\ CursorNow' = target
    BY <1>1, <1>5, <1>6, <1>7, OpenFacts, Skips
  <1>9. QED
    BY <1>1, <1>4, <1>8 DEF target

LEMMA SeekStays ==
    ASSUME ReaderInv, NEW whence \in {"Start", "End", "Current"}, NEW by \in Moves,
           SeekRefused(whence, by)
    PROVE  /\ StaysOpen /\ Same
           /\ TargetOf(whence, by) \notin 0..Len(Content)
           /\ CursorNow' = CursorNow
           /\ result' = [op |-> "seek", whence |-> whence, by |-> by, ok |-> FALSE]
  <1>1. /\ Opened /\ Same /\ Places(whence, by) = {}
        /\ UNCHANGED <<reader_state, remaining, current_offsets_and_sizes_index,
                       offsets_and_sizes, src>>
        /\ result' = [op |-> "seek", whence |-> whence, by |-> by, ok |-> FALSE]
    BY DEF SeekRefused, Opened, Same
  <1>2. Hits(Places(whence, by), TargetOf(whence, by))
    BY <1>1, PlacesHit
  <1>3. TargetOf(whence, by) \notin 0..Len(Content)
    <2>1. \A i, d : {[index |-> i, distance |-> d]} # {}
      OBVIOUS
    <2>2. QED
      BY <1>1, <1>2, <2>1 DEF Hits
  <1>4. Laid /\ Holds /\ Placed /\ Inside /\ AtEnd
    BY <1>1, OpenFacts
  <1>5. CursorNow' = CursorNow
    BY <1>1, OpenFacts, CursorWillBe
  <1>6. Holds'
    <2>1. result'.op # "hash"
      BY <1>1
    <2>2. QED
      BY <1>1, <1>4, <2>1 DEF Holds, Same, vars
  <1>7. Placed' /\ Inside' /\ AtEnd'
    BY <1>1, <1>4 DEF Placed, Inside, AtEnd, Same, vars, current_index, LastIndex, OffsetOf,
                      SizeOf, HeaderAt, Lost
  <1>8. QED
    BY <1>1, <1>3, <1>5, <1>6, <1>7 DEF StaysOpen

-----------------------------------------------------------------------------
(***************************************************************************)
(* get_entry, get_hash, and the invariant.                                 *)
(***************************************************************************)
LEMMA ListedFacts ==
    ASSUME ContentInv, NEW name \in Names, Listed(name)
    PROVE  LET id == entries_info[name]
               index == Metadata[name]
           IN  /\ id \in DOMAIN ids_info \ damaged /\ index = ids_info[id]
               /\ index \in Seq(IndexRecord) /\ Len(index) \in Nat /\ Len(index) >= 2
               /\ index[1].offset \in Nat /\ index[1].size = 0
               /\ HeaderAt(index[1].offset).id = id
               /\ HeaderAt(index[Len(index)].offset).hash = IndexedContent(dest, index)
               /\ IndexedContent(dest, index) \in Seq(Bytes)
  <1> DEFINE id == entries_info[name]
             index == ids_info[id]
             L == Len(index)
             block(i) == dest[index[i].offset + 1]
  <1>1. /\ state = "Finalized" /\ Metadata[name] # <<>> /\ id \notin damaged
        /\ IndexInv /\ TypeOK /\ Bookkeeping
    BY DEF Listed, ContentInv, IndexInv, TypeInv
  <1>2. ids = {} /\ Metadata = FooterIndex
    BY <1>1 DEF ContentInv, SealShape, Metadata, ArchiveFooter
  <1>3. name \in DOMAIN entries_info /\ Metadata[name] = index
    BY <1>1, <1>2 DEF FooterIndex
  <1>4. id \in DOMAIN ids_info /\ index \in Seq(IndexRecord) /\ L \in Nat /\ L >= 1
        /\ dest \in Seq(Cell)
    BY <1>1, <1>3 DEF Bookkeeping, TypeOK, IndexInv, IndexNonempty
  <1>5. block(1) = EntryStart(name, id)
    BY <1>1, <1>3 DEF ContentInv, NamesRecorded, BlockAt
  <1>6. RecordsPoint(id) /\ DOMAIN index = 1..L
    BY <1>1, <1>4 DEF IndexInv, IndexFaithful
  <1> HIDE DEF id
  <1>7. 1 \in 1..L /\ L \in 1..L
    BY <1>4
  <1>8. /\ block(L).kind = "EndOfEntry" /\ index[L].offset + 1 \in BlocksOf(dest, id)
        /\ block(1).kind # "EntryContent" => index[1].size = 0
    BY <1>2, <1>6, <1>7 DEF RecordsPoint, BlockAt
  <1>9. block(1).kind = "EntryStart" /\ block(1).id = id
    BY <1>5 DEF EntryStart
  <1>10. L # 1
    BY <1>8, <1>9
  <1>11. L >= 2
    <2>1. \A k \in Nat : k >= 1 /\ k # 1 => k >= 2
      OBVIOUS
    <2> HIDE DEF L
    <2>2. QED
      BY <1>4, <1>10, <2>1
  <1>12. index[1].offset \in Nat
    BY <1>4, <1>7, RecordFacts
  <1>13. block(L).hash = IndexedContent(dest, index)
    <2>1. HashNow(id) = IndexedContent(dest, index)
      BY <1>1, <1>4 DEF ContentInv, HashesMatch
    <2>2. HashNow(id) = block(L).hash
      BY <1>2 DEF HashNow, BlockAt
    <2>3. QED
      BY <2>1, <2>2
  <1>14. block(L).hash \in Seq(Bytes)
    <2>1. block(L) \in Cell
      BY <1>4, <1>8 DEF BlocksOf
    <2> HIDE DEF block
    <2>2. QED
      BY <1>8, <2>1, CellFacts
  <1>15. index[1].size = 0
    BY <1>8, <1>9
  <1> HIDE DEF index, L, block
  <1>16. /\ id \in DOMAIN ids_info \ damaged
         /\ index \in Seq(IndexRecord) /\ Len(index) \in Nat /\ Len(index) >= 2
         /\ index[1].offset \in Nat /\ index[1].size = 0
         /\ HeaderAt(index[1].offset).id = id
         /\ HeaderAt(index[Len(index)].offset).hash = IndexedContent(dest, index)
         /\ IndexedContent(dest, index) \in Seq(Bytes)
    BY <1>1, <1>4, <1>9, <1>11, <1>12, <1>13, <1>14, <1>15 DEF L, block, HeaderAt
  <1>17. Metadata[name] = index /\ index = ids_info[id]
    BY <1>3 DEF index
  <1>18. QED
    BY <1>16, <1>17 DEF id

LEMMA GetEntryOpens ==
    ASSUME ContentInv, NEW name \in Names, GetEntry(name)
    PROVE  /\ StaysOpen /\ CursorNow' = 0 /\ Content' \in Seq(Bytes)
           /\ result' = [op |-> "open"] /\ UNCHANGED vars /\ ~Opened /\ Opened'
  <1> DEFINE index == Metadata[name]
             id == entries_info[name]
  <1>1. Listed(name)
    BY DEF GetEntry
  <1>2. /\ id \in DOMAIN ids_info \ damaged /\ index = ids_info[id]
        /\ index \in Seq(IndexRecord) /\ Len(index) \in Nat /\ Len(index) >= 2
        /\ index[1].offset \in Nat /\ index[1].size = 0
        /\ HeaderAt(index[1].offset).id = id
        /\ IndexedContent(dest, index) \in Seq(Bytes)
    BY <1>1, ListedFacts
  <1>3. /\ reader_id' = id /\ src' = index[1].offset + 1
        /\ reader_state' = "Ready" /\ current_offsets_and_sizes_index' = 1
        /\ offsets_and_sizes' = index /\ result' = [op |-> "open"] /\ UNCHANGED vars
    BY <1>2 DEF GetEntry
  <1>4. state = "Finalized" /\ ~Opened
    BY <1>1 DEF Listed, Opened
  <1> HIDE DEF index, id
  <1>5. Holds'
    <2>1. result'.op # "hash"
      BY <1>3
    <2>2. QED
      BY <1>2, <1>3, <1>4, <2>1 DEF Holds, vars
  <1>6. Placed'
    <2>1. /\ current_index' = 1 /\ LastIndex' = Len(index) - 1
          /\ OffsetOf(current_index - 1)' = index[1].offset
          /\ SizeOf(current_index - 1)' = index[1].size
      <3>1. (1 - 1) + 1 = 1
        OBVIOUS
      <3>2. QED
        BY <1>3, <3>1 DEF current_index, LastIndex, OffsetOf, SizeOf
    <2>2. 1 \in 0..Len(index) - 1
      BY <1>2
    <2>3. index[1].offset + 1 = index[1].offset + 1 + index[1].size
      BY <1>2
    <2>4. QED
      BY <1>3, <2>1, <2>2, <2>3 DEF Placed
  <1>7. Inside' /\ AtEnd'
    BY <1>3 DEF Inside, AtEnd
  <1>8. CursorNow' = 0
    <2>1. CursorNow' = SumOf(index, 1)
      BY <1>2, <1>3, CursorWillBe DEF CursorAt
    <2>2. 1 \in 1..Len(index) /\ 1 - 1 = 0
      BY <1>2
    <2>3. SumOf(index, 1) = SumOf(index, 0) + index[1].size /\ SumOf(index, 0) = 0
      BY <1>2, <2>2, SumFacts
    <2>4. QED
      BY <1>2, <2>1, <2>3
  <1>9. Content' \in Seq(Bytes)
    <2>1. Content' = IndexedContent(dest, index)
      BY <1>3 DEF Content, vars
    <2>2. QED
      BY <1>2, <2>1
  <1>10. QED
    BY <1>3, <1>4, <1>5, <1>6, <1>7, <1>8, <1>9 DEF StaysOpen, Opened

LEMMA NothingWritten ==
    ASSUME ContentInv, Orderly, UNCHANGED vars
    PROVE  ContentInv' /\ Orderly'
  <1>1. IndexInv
    BY DEF ContentInv
  <1>2. QED
    BY <1>1, ContentInvNext, OrderlyNext

\* What every call on an open reader keeps.
LEMMA OpenStep ==
    ASSUME ContentInv, Orderly, StaysOpen, UNCHANGED vars,
           result'.op = "read_error" => damaged' # {}
    PROVE  ReaderInv'
  <1>1. ContentInv' /\ Orderly'
    BY NothingWritten
  <1>2. reader_state' # "None" /\ result'.op # "hash"
    BY DEF StaysOpen, Holds
  <1>3. Idle' /\ HashKnown' /\ ErrorKnown'
    BY <1>2 DEF Idle, HashKnown, ErrorKnown, Opened
  <1>4. QED
    BY <1>1, <1>3 DEF ReaderInv, StaysOpen

LEMMA ReaderInvInit == ReaderInit => ReaderInv
  <1> SUFFICES ASSUME ReaderInit PROVE ReaderInv
    OBVIOUS
  <1>1. ContentInv
    BY ContentInvInit DEF ReaderInit
  <1>2. dest = <<EntriesMagic>>
    BY DEF ReaderInit, Init
  <1>3. Len(dest) = 1 /\ dest[1].kind \notin EntryBlockKinds
    BY <1>2 DEF EntriesMagic, EntryBlockKinds
  <1>4. Orderly
    BY <1>3 DEF Orderly
  <1>5. reader_state = "None" /\ offsets_and_sizes = <<>> /\ result = [op |-> "none"]
    BY DEF ReaderInit
  <1>6. Idle /\ HashKnown /\ ErrorKnown /\ ~Opened
    BY <1>5 DEF Idle, HashKnown, ErrorKnown, Opened
  <1>7. QED
    BY <1>1, <1>4, <1>6 DEF ReaderInv

LEMMA GetHashKeeps ==
    ASSUME ReaderInv, NEW name \in Names, GetHash(name)
    PROVE  /\ ReaderInv' /\ ~Opened /\ ~Opened' /\ UNCHANGED <<vars, offsets_and_sizes>>
           /\ result'.op = "hash"
  <1>1. Listed(name) /\ ContentInv
    BY DEF GetHash, ReaderInv
  <1> DEFINE index == Metadata[name]
             last == index[Len(index)]
  <1>2. HeaderAt(last.offset).hash = IndexedContent(dest, index)
    BY <1>1, ListedFacts
  <1>3. /\ result' = [op |-> "hash", name |-> name, hash |-> HeaderAt(last.offset).hash]
        /\ UNCHANGED <<reader_state, offsets_and_sizes>> /\ UNCHANGED vars
    BY DEF GetHash
  <1>4. /\ state = "Finalized" /\ reader_state = "None" /\ offsets_and_sizes = <<>>
    BY <1>1 DEF Listed, ReaderInv, Idle
  <1>5. ContentInv' /\ Orderly'
    BY <1>3, NothingWritten DEF ReaderInv
  <1>6. result'.op = "hash" /\ result'.hash = IndexedContent(dest, index) /\ result'.name = name
    BY <1>2, <1>3
  <1>7. Idle' /\ ErrorKnown' /\ ~Opened /\ ~Opened'
    BY <1>3, <1>4, <1>6 DEF Idle, ErrorKnown, Opened
  <1>8. HashKnown'
    <2>1. dest' = dest /\ state' = "Finalized"
      BY <1>3, <1>4 DEF vars
    <2>2. Metadata' = Metadata
      BY <2>1 DEF Metadata
    <2>3. QED
      BY <1>6, <2>1, <2>2 DEF HashKnown
  <1>9. QED
    BY <1>3, <1>5, <1>6, <1>7, <1>8 DEF ReaderInv

LEMMA CloseKeeps ==
    ASSUME ReaderInv, CloseReader
    PROVE  ReaderInv'
  <1>1. /\ reader_state' = "None" /\ offsets_and_sizes' = <<>> /\ result' = [op |-> "none"]
        /\ UNCHANGED vars
    BY DEF CloseReader
  <1>2. ContentInv' /\ Orderly'
    BY <1>1, NothingWritten DEF ReaderInv
  <1>3. Idle' /\ HashKnown' /\ ErrorKnown' /\ ~Opened'
    BY <1>1 DEF Idle, HashKnown, ErrorKnown, Opened
  <1>4. QED
    BY <1>2, <1>3 DEF ReaderInv

\* After finalize the writer is gone.
LEMMA NextNeedsWriter == Next => state = "OpenedFiles"
  BY ZenonT(60) DEF Next, StartEntry, StartEntryFails, ReserveEntry, AppendContent, AppendContentShort,
         AppendContentHeaderFails, AppendContentCopyFails, EndEntry, EndEntryFails, CloseEntry,
         FileOpened, Finalize, FinalizeRefused, FinalizeFails

LEMMA WriterKeeps ==
    ASSUME ReaderInv, WriterNext
    PROVE  ReaderInv'
  <1>1. reader_state = "None" /\ Next /\ UNCHANGED readerVars
    BY DEF WriterNext
  <1>2. ContentInv' /\ Orderly'
    BY <1>1, ContentInvNext, OrderlyNext DEF ReaderInv, ContentInv
  <1>3. /\ reader_state' = reader_state /\ offsets_and_sizes' = offsets_and_sizes
        /\ result' = result
    BY <1>1 DEF readerVars
  <1>4. ~Opened /\ ~Opened'
    BY <1>1, <1>3 DEF Opened
  <1>5. result.op # "hash" /\ result.op # "read_error"
    BY <1>1, <1>4, NextNeedsWriter DEF ReaderInv, HashKnown, ErrorKnown
  <1>6. Idle' /\ HashKnown' /\ ErrorKnown'
    BY <1>3, <1>5 DEF ReaderInv, Idle, HashKnown, ErrorKnown
  <1>7. QED
    BY <1>2, <1>4, <1>6 DEF ReaderInv

LEMMA StutterKeeps ==
    ASSUME ReaderInv, UNCHANGED <<vars, readerVars>>
    PROVE  ReaderInv'
  <1>1. ContentInv' /\ Orderly'
    BY NothingWritten DEF ReaderInv
  <1>2. Idle' /\ HashKnown' /\ ErrorKnown'
    BY DEF ReaderInv, Idle, HashKnown, ErrorKnown, Opened, readerVars, vars, Metadata
  <1>3. (Opened => Holds /\ Placed /\ Inside /\ AtEnd)'
    BY DEF ReaderInv, Opened, Holds, Placed, Inside, AtEnd, readerVars, vars, current_index,
           LastIndex, OffsetOf, SizeOf, HeaderAt, Lost
  <1>4. QED
    BY <1>1, <1>2, <1>3 DEF ReaderInv

LEMMA ReadKeeps ==
    ASSUME ReaderInv, NEW size \in Sizes,
           ReadContinues(size) \/ ReadNextBlock(size) \/ ReadEndOfEntry(size) \/ ReadFinished(size)
    PROVE  /\ ReaderInv' /\ StaysOpen /\ Opened /\ Same
           /\ \E count : Advances(size, count)
  <1>1. StaysOpen /\ \E count : Advances(size, count)
    BY ContinuesReads, NextBlockReads, EndReads, FinishedReads
  <1>2. Opened /\ Same
    BY DEF ReadContinues, ReadNextBlock, ReadEndOfEntry, ReadFinished, Opened, Same
  <1>3. result'.op = "read"
    BY <1>1 DEF Advances
  <1>4. ReaderInv'
    BY <1>1, <1>2, <1>3, OpenStep DEF ReaderInv, Same
  <1>5. QED
    BY <1>1, <1>2, <1>4

LEMMA FailsKeeps ==
    ASSUME ReaderInv, NEW size \in Sizes, ReadFails(size)
    PROVE  ReaderInv'
  BY FailsReads, OpenStep DEF ReaderInv, Same

LEMMA SeekKeeps ==
    ASSUME ReaderInv, NEW whence \in {"Start", "End", "Current"}, NEW by \in Moves,
           Seek(whence, by) \/ SeekRefused(whence, by)
    PROVE  ReaderInv'
  <1>1. StaysOpen /\ Same /\ result'.op = "seek"
    BY SeekMoves, SeekStays
  <1>2. QED
    BY <1>1, OpenStep DEF ReaderInv, Same

LEMMA OpenKeeps ==
    ASSUME ReaderInv, NEW name \in Names, GetEntry(name)
    PROVE  ReaderInv'
  <1>1. StaysOpen /\ UNCHANGED vars /\ result'.op = "open"
    BY GetEntryOpens DEF ReaderInv
  <1>2. QED
    BY <1>1, OpenStep DEF ReaderInv

LEMMA ReaderInvNext ==
    ReaderInv /\ [WriterNext \/ ReaderNext]_<<vars, readerVars>> => ReaderInv'
  <1> SUFFICES ASSUME ReaderInv, [WriterNext \/ ReaderNext]_<<vars, readerVars>>
               PROVE  ReaderInv'
    OBVIOUS
  <1>1. CASE WriterNext
    BY <1>1, WriterKeeps
  <1>2. CASE ReaderNext
    BY <1>2, OpenKeeps, GetHashKeeps, ReadKeeps, FailsKeeps, SeekKeeps, CloseKeeps
       DEF ReaderNext
  <1>3. CASE UNCHANGED <<vars, readerVars>>
    BY <1>3, StutterKeeps
  <1>4. QED
    BY <1>1, <1>2, <1>3

\* read calls itself at most once: the block it seeks to is the entry's own.
THEOREM ReadRecursesOnce == ReadSpec => []RecursionEnds
  <1>1. ReaderInit => ReaderInv
    BY ReaderInvInit
  <1>2. ReaderInv /\ [WriterNext \/ ReaderNext]_<<vars, readerVars>> => ReaderInv'
    BY ReaderInvNext
  <1>3. ReaderInv => RecursionEnds
    BY EndsRecursion
  <1>4. QED
    BY <1>1, <1>2, <1>3, PTL DEF ReadSpec

\* get_hash returns the hash of the bytes that the entry's index leads to.
THEOREM HashesAreOfContent == ReadSpec => []HashIsOfContent
  <1>1. ReaderInit => ReaderInv
    BY ReaderInvInit
  <1>2. ReaderInv /\ [WriterNext \/ ReaderNext]_<<vars, readerVars>> => ReaderInv'
    BY ReaderInvNext
  <1>3. ReaderInv => HashIsOfContent
    BY DEF ReaderInv, HashKnown, HashIsOfContent
  <1>4. QED
    BY <1>1, <1>2, <1>3, PTL DEF ReadSpec

\* read returns an error only on an archive one of whose writing calls failed.
THEOREM ReadsFailAfterDamage == ReadSpec => []ErrorsNeedDamage
  <1>1. ReaderInit => ReaderInv
    BY ReaderInvInit
  <1>2. ReaderInv /\ [WriterNext \/ ReaderNext]_<<vars, readerVars>> => ReaderInv'
    BY ReaderInvNext
  <1>3. ReaderInv => ErrorsNeedDamage
    BY DEF ReaderInv, ErrorKnown, ErrorsNeedDamage
  <1>4. QED
    BY <1>1, <1>2, <1>3, PTL DEF ReadSpec

-----------------------------------------------------------------------------
(***************************************************************************)
(* The cursor.                                                             *)
(***************************************************************************)
LEMMA NoContent ==
    ASSUME NEW s \in Seq(Cell)
    PROVE  IndexedContent(s, <<>>) = <<>>
  <1> DEFINE none == <<>>
  <1>1. none \in Seq(IndexRecord) /\ Len(none) = 0
    OBVIOUS
  <1> HIDE DEF none
  <1>2. PICK f \in [0..Len(none) -> Seq(Found)] :
           f[0] = <<>> /\ IndexedContent(s, none) = f[Len(none)]
    BY <1>1, IndexedUnfold
  <1>3. IndexedContent(s, none) = <<>>
    BY <1>1, <1>2
  <1>4. QED
    BY <1>3 DEF none

LEMMA Cells == ContentInv => dest \in Seq(Cell)
  BY DEF ContentInv, IndexInv, TypeInv, TypeOK

\* Every call is a call on the cursor, or changes nothing of it.
LEMMA CursorStep ==
    ASSUME ReaderInv, ReaderInv', [WriterNext \/ ReaderNext]_<<vars, readerVars>>
    PROVE  [Cursor!CursorNext]_(Cursor!cursorVars)
  <1> DEFINE shown == IF result.op = "hash" THEN [op |-> "none"] ELSE result
  <1>1. ASSUME NEW name \in Names, GetEntry(name) PROVE Cursor!Open
    <2>1. /\ CursorNow' = 0 /\ Content' \in Seq(Bytes) /\ result' = [op |-> "open"]
          /\ ~Opened /\ Opened'
      BY <1>1, GetEntryOpens DEF ReaderInv
    <2>2. result'.op # "hash"
      BY <2>1
    <2>3. QED
      BY <2>1, <2>2 DEF Cursor!Open, Content
  <1>2. ASSUME StaysOpen, Opened, Same
        PROVE  Opened' /\ Content' = Content /\ shown' = result'
    BY <1>2 DEF StaysOpen, Holds, Opened, Same, vars, Content
  <1>3. ASSUME NEW size \in Sizes,
               ReadContinues(size) \/ ReadNextBlock(size) \/ ReadEndOfEntry(size)
               \/ ReadFinished(size)
        PROVE  \E count \in 0..size : Cursor!Get(size, count)
    <2>1. StaysOpen /\ Opened /\ Same
      BY <1>3, ReadKeeps
    <2>2. PICK count : Advances(size, count)
      BY <1>3, ReadKeeps
    <2>3. /\ count \in 0..size /\ size \in Nat
      BY <2>2, SizeFacts DEF Advances
    <2>4. Cursor!Get(size, count)
      BY <1>2, <2>1, <2>2, <2>3 DEF Cursor!Get, Advances, Content
    <2>5. QED
      BY <2>3, <2>4
  <1>4. ASSUME NEW size \in Sizes, ReadFails(size) PROVE Cursor!GetFails(size)
    <2>1. StaysOpen /\ Same /\ CursorNow' = CursorNow
      BY <1>4, FailsReads
    <2>2. Opened /\ result' = [op |-> "read_error", size |-> size]
      BY <1>4 DEF ReadFails, Opened
    <2>3. QED
      BY <1>2, <2>1, <2>2 DEF Cursor!GetFails, Content
  <1>5. ASSUME NEW whence \in {"Start", "End", "Current"}, NEW by \in Moves,
               Seek(whence, by) \/ SeekRefused(whence, by)
        PROVE  Cursor!Move(whence, by)
    <2>1. Cursor!Target(whence, by) = TargetOf(whence, by)
      BY DEF Cursor!Target, TargetOf, Content
    <2>2. Opened
      BY <1>5 DEF Seek, SeekRefused, Opened
    <2>3. CASE Seek(whence, by)
      <3>1. /\ StaysOpen /\ Same /\ TargetOf(whence, by) \in 0..Len(Content)
            /\ CursorNow' = TargetOf(whence, by)
            /\ result' = [op |-> "seek", whence |-> whence, by |-> by, ok |-> TRUE]
        BY <2>3, SeekMoves
      <3>2. QED
        BY <1>2, <2>1, <2>2, <3>1 DEF Cursor!Move, Content
    <2>4. CASE SeekRefused(whence, by)
      <3>1. /\ StaysOpen /\ Same /\ TargetOf(whence, by) \notin 0..Len(Content)
            /\ CursorNow' = CursorNow
            /\ result' = [op |-> "seek", whence |-> whence, by |-> by, ok |-> FALSE]
        BY <2>4, SeekStays
      <3>2. (Cursor!Target(whence, by) \in 0..Len(Content)) = FALSE
        BY <2>1, <3>1
      <3>3. QED
        BY <1>2, <2>2, <3>1, <3>2 DEF Cursor!Move, Content
    <2>5. QED
      BY <1>5, <2>3, <2>4
  <1>6. ASSUME CloseReader PROVE Cursor!Close
    <2>1. /\ Opened /\ ~Opened' /\ offsets_and_sizes' = <<>> /\ result' = [op |-> "none"]
          /\ reader_state' = "None"
      BY <1>6 DEF CloseReader, Opened
    <2>2. CursorNow' = 0
      BY <2>1 DEF CursorNow
    <2>3. dest' = dest
      BY <1>6 DEF CloseReader, vars
    <2>4. IndexedContent(dest, offsets_and_sizes)' = <<>>
      BY <2>1, <2>3, NoContent, Cells DEF ReaderInv
    <2>5. QED
      BY <2>1, <2>2, <2>4 DEF Cursor!Close
  <1>7. ASSUME reader_state = "None", reader_state' = "None",
               shown' = shown
        PROVE  UNCHANGED Cursor!cursorVars
    <2>1. offsets_and_sizes = <<>> /\ offsets_and_sizes' = <<>>
      BY <1>7 DEF ReaderInv, Idle
    <2>2. IndexedContent(dest, offsets_and_sizes) = <<>>
      BY <2>1, NoContent, Cells DEF ReaderInv
    <2>3. IndexedContent(dest, offsets_and_sizes)' = <<>>
      <3>1. dest' \in Seq(Cell)
        BY DEF ReaderInv, ContentInv, IndexInv, TypeInv, TypeOK
      <3>2. QED
        BY <2>1, <3>1, NoContent
    <2>4. CursorNow = 0 /\ CursorNow' = 0 /\ Opened = FALSE /\ Opened' = FALSE
      BY <1>7 DEF CursorNow, Opened
    <2>5. QED
      BY <1>7, <2>2, <2>3, <2>4 DEF Cursor!cursorVars
  <1>8. ASSUME NEW name \in Names, GetHash(name) PROVE UNCHANGED Cursor!cursorVars
    <2>1. result'.op = "hash" /\ ~Opened /\ ~Opened'
      BY <1>8, GetHashKeeps
    <2>2. shown' = [op |-> "none"]
      BY <2>1
    <2>3. shown = [op |-> "none"] /\ reader_state = "None" /\ reader_state' = "None"
      BY <2>1 DEF ReaderInv, Idle, Opened
    <2>4. QED
      BY <1>7, <2>2, <2>3
  <1>9. ASSUME WriterNext PROVE UNCHANGED Cursor!cursorVars
    BY <1>7, <1>9 DEF WriterNext, readerVars
  <1>10. ASSUME UNCHANGED <<vars, readerVars>> PROVE UNCHANGED Cursor!cursorVars
    BY <1>10 DEF vars, readerVars, Cursor!cursorVars, Opened, CursorNow, Total, LastIndex,
                 OffsetFromStart, SumOfFirst, SizeOf, current_index
  <1>11. QED
    BY <1>1, <1>3, <1>4, <1>5, <1>6, <1>8, <1>9, <1>10 DEF ReaderNext, Cursor!CursorNext

\* The reader implements the cursor: over every archive the writer can produce
\* and every sequence of calls, a read returns the bytes of the entry at the
\* position, and a seek goes where it was asked or fails and stays.
THEOREM ReaderImplementsCursor == ReadSpec => ReaderRefinesCursor
  <1>1. ReaderInit => ReaderInv
    BY ReaderInvInit
  <1>2. ReaderInv /\ [WriterNext \/ ReaderNext]_<<vars, readerVars>> => ReaderInv'
    BY ReaderInvNext
  <1>3. ReaderInit => Cursor!CursorInit
    <2> SUFFICES ASSUME ReaderInit PROVE Cursor!CursorInit
      OBVIOUS
    <2>1. reader_state = "None" /\ offsets_and_sizes = <<>> /\ result = [op |-> "none"]
      BY DEF ReaderInit
    <2>2. IndexedContent(dest, offsets_and_sizes) = <<>>
      BY <2>1, <1>1, NoContent, Cells DEF ReaderInv
    <2>3. CursorNow = 0 /\ ~Opened /\ result.op # "hash"
      BY <2>1 DEF CursorNow, Opened
    <2>4. QED
      BY <2>1, <2>2, <2>3 DEF Cursor!CursorInit
  <1>4. ReaderInv /\ ReaderInv' /\ [WriterNext \/ ReaderNext]_<<vars, readerVars>> =>
           [Cursor!CursorNext]_(Cursor!cursorVars)
    BY CursorStep
  <1>5. QED
    BY <1>1, <1>2, <1>3, <1>4, PTL DEF ReadSpec, ReaderRefinesCursor, Cursor!CursorSpec
=============================================================================
