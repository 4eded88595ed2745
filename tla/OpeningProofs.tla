---------------------------- MODULE OpeningProofs ----------------------------
(****************************************************************************)
(* Proofs about ArchiveOpening, for any archives and configurations, any    *)
(* cell changed and any source put in the place of the first one.           *)
(*                                                                          *)
(* None of the properties is inductive: they are about an opened archive,   *)
(* which is four steps and three layers away from the bytes. OpeningInv     *)
(* says for each phase which part of the archive the stack of windows       *)
(* shows. It has three parts.  A stack of StripHeadTailReaders is a cursor  *)
(* (Good, View, Here), whatever lengths the archive gives for its tails.    *)
(* The hash that verification computes is that of what the signature layer  *)
(* shows, each cell once (ReadSignedStands), and a signature of a signer is *)
(* over what was written, so the two agree (SignedIsShown). What decrypts   *)
(* under the key of the header is what was encrypted (Decrypted), also      *)
(* after the source was replaced.                                           *)
(****************************************************************************)
EXTENDS ArchiveOpening, DataInduction

(***************************************************************************)
(* The cells of the archive a, signed under the hash h, one of them        *)
(* changed perhaps.                                                        *)
(***************************************************************************)
PlainCells(a) ==
    {MLA_MAGIC, SIGNATURE_LAYER_MAGIC, ENCRYPTION_LAYER_MAGIC, COMPRESSION_LAYER_MAGIC,
     ENTRIES_LAYER_MAGIC, END_MLA_MAGIC, MLA_FORMAT_VERSION, Opts,
     [t |-> "blocks", of |-> a.id], Index(a), [t |-> "packed", of |-> a.id],
     [t |-> "sizes_info"], [t |-> "method"], HeaderConfig(a),
     [t |-> "sealed", key |-> ArchiveKey(a)], [t |-> "changed"]}
    \cup {Length(n) : n \in Nat}

Methods == {"ed25519", "mldsa87"}

SignatureCells(a, h) == {Signature(key, method, h) : key \in Range(a.signers), method \in Methods}

ArchiveCells(a, h) == PlainCells(a) \cup SignatureCells(a, h)

\* What a cell of the archive can say.
LEMMA CellFacts ==
  ASSUME NEW a, NEW h, NEW c \in ArchiveCells(a, h)
  PROVE  /\ c.t = "persistent" => c = HeaderConfig(a)
         /\ c.t = "packed" => c.of = a.id
         /\ c.t = "length" => c.n \in Nat
         /\ c.t = "signature" => c.hash = h /\ c.key \in Range(a.signers)
  <1>1. CASE c \in PlainCells(a)
    <2>1. CASE \E n \in Nat : c = Length(n)
      BY <2>1 DEF Length
    <2>2. CASE c = HeaderConfig(a)
      BY <2>2 DEF HeaderConfig, PersistentConfig
    <2>3. CASE ~ (\E n \in Nat : c = Length(n)) /\ c # HeaderConfig(a)
      BY <1>1, <2>3 DEF PlainCells, MLA_MAGIC, SIGNATURE_LAYER_MAGIC, ENCRYPTION_LAYER_MAGIC,
         COMPRESSION_LAYER_MAGIC, ENTRIES_LAYER_MAGIC, END_MLA_MAGIC, Magic,
         MLA_FORMAT_VERSION, Opts, Index
    <2>4. QED
      BY <2>1, <2>2, <2>3
  <1>2. CASE c \in SignatureCells(a, h)
    BY <1>2 DEF SignatureCells, Signature
  <1>3. QED
    BY <1>1, <1>2 DEF ArchiveCells

\* Archives as the writer is asked for them.
Describes(a) == a.tail \in Nat \ {0} /\ a.signers \in Seq(Range(a.signers))

\* The tail options end with their own length.
LEMMA TailCells ==
  ASSUME NEW a, Describes(a)
  PROVE  /\ TailOpts(a) \in Seq(PlainCells(a)) /\ Len(TailOpts(a)) = a.tail + 1
         /\ TailOpts(a)[1] = Opts /\ TailOpts(a)[Len(TailOpts(a))] = Length(a.tail)
  <1> DEFINE o == [i \in 1..a.tail |-> Opts]
             l == << Length(a.tail) >>
  <1>1. a.tail \in Nat /\ a.tail >= 1
    BY DEF Describes
  <1>2. Opts \in PlainCells(a) /\ Length(a.tail) \in PlainCells(a)
    BY <1>1 DEF PlainCells
  <1>3. o \in Seq(PlainCells(a)) /\ Len(o) = a.tail /\ o[1] = Opts
    BY <1>1, <1>2
  <1>4. l \in Seq(PlainCells(a)) /\ Len(l) = 1 /\ l[1] = Length(a.tail)
    BY <1>2
  <1>5. TailOpts(a) = o \o l
    BY DEF TailOpts
  <1> HIDE DEF o, l
  <1>6. /\ o \o l \in Seq(PlainCells(a)) /\ Len(o \o l) = a.tail + 1
    BY <1>1, <1>3, <1>4, ConcatType
  <1>7. (o \o l)[1] = Opts
    BY <1>1, <1>3, <1>4
  <1>8. (o \o l)[a.tail + 1] = Length(a.tail)
    <2>1. (o \o l)[Len(o) + 1] = l[1]
      BY <1>3, <1>4, ConcatAt
    <2>2. QED
      BY <1>3, <1>4, <2>1
  <1>9. QED
    BY <1>5, <1>6, <1>7, <1>8

\* A stream that is not empty and ends with a length.
Stream(s, cells) == /\ s \in Seq(cells) /\ Len(s) \in Nat /\ Len(s) >= 1
                    /\ s[Len(s)].t = "length"

Joined(s, e, cells) ==
    /\ Stream(s \o e, cells) /\ Len(s \o e) = Len(s) + Len(e)
    /\ \A k \in 1..Len(s) : (s \o e)[k] = s[k]
    /\ \A k \in 1..Len(e) : (s \o e)[Len(s) + k] = e[k]

\* A nonempty stream behind any cells: what begins and ends the two together.
LEMMA StreamAfter ==
  ASSUME NEW cells, NEW s \in Seq(cells), NEW e, Stream(e, cells)
  PROVE  Joined(s, e, cells)
  <1>1. e \in Seq(cells) /\ Len(e) \in Nat /\ Len(e) >= 1 /\ e[Len(e)].t = "length"
    BY DEF Stream
  <1>2. s \o e \in Seq(cells) /\ Len(s \o e) = Len(s) + Len(e)
    BY <1>1
  <1>3. /\ \A k \in 1..Len(s) : (s \o e)[k] = s[k]
        /\ \A k \in 1..Len(e) : (s \o e)[Len(s) + k] = e[k]
    BY <1>1, ConcatAt
  <1>4. (s \o e)[Len(s) + Len(e)] = e[Len(e)]
    BY <1>1, <1>3
  <1>5. QED
    BY <1>1, <1>2, <1>3, <1>4 DEF Stream, Joined

\* The tail options are such a stream.
LEMMA TailIsStream ==
  ASSUME NEW a, Describes(a) PROVE Stream(TailOpts(a), PlainCells(a))
  <1>1. TailOpts(a)[Len(TailOpts(a))].t = "length"
    <2>1. TailOpts(a)[Len(TailOpts(a))] = Length(a.tail)
      BY TailCells
    <2>2. Length(a.tail).t = "length"
      BY DEF Length
    <2>3. QED
      BY <2>1, <2>2
  <1>2. a.tail + 1 \in Nat /\ a.tail + 1 >= 1
    BY DEF Describes
  <1>3. QED
    BY <1>1, <1>2, TailCells DEF Stream
\* The streams, from the inside out: their cells, where they begin and end.
LEMMA EntriesCells ==
  ASSUME NEW a, Describes(a)
  PROVE  /\ Stream(EntriesStream(a), PlainCells(a))
         /\ EntriesStream(a)[1] = ENTRIES_LAYER_MAGIC
  <1> DEFINE s == << ENTRIES_LAYER_MAGIC, Opts, [t |-> "blocks", of |-> a.id],
                     Index(a), Length(1) >>
  <1>1. s \in Seq(PlainCells(a)) /\ Len(s) = 5 /\ s[1] = ENTRIES_LAYER_MAGIC
    <2>1. Length(1) \in PlainCells(a)
      BY DEF PlainCells
    <2>2. QED
      BY <2>1 DEF PlainCells
  <1>2. EntriesStream(a) = s \o TailOpts(a)
    BY DEF EntriesStream
  <1> HIDE DEF s
  <1>3. Joined(s, TailOpts(a), PlainCells(a))
    BY <1>1, TailIsStream, StreamAfter
  <1>4. QED
    BY <1>1, <1>2, <1>3 DEF Joined

\* What the compression layer writes begins with its magic, or is the entries layer.
LEMMA CompressionCells ==
  ASSUME NEW a, Describes(a)
  PROVE  /\ Stream(CompressionStream(a), PlainCells(a))
         /\ a.compressed => CompressionStream(a)[1] = COMPRESSION_LAYER_MAGIC
         /\ ~a.compressed => CompressionStream(a) = EntriesStream(a)
         /\ CompressionStream(a)[1] # ENCRYPTION_LAYER_MAGIC
  <1> DEFINE s == << COMPRESSION_LAYER_MAGIC, Opts, [t |-> "packed", of |-> a.id] >>
             e == << [t |-> "sizes_info"], Length(1) >>
  <1>1. CASE a.compressed
    <2>1. s \in Seq(PlainCells(a)) /\ Len(s) = 3 /\ s[1] = COMPRESSION_LAYER_MAGIC
      BY DEF PlainCells
    <2>2. Stream(e, PlainCells(a))
      <3>1. Length(1) \in PlainCells(a) /\ Length(1).t = "length"
        BY DEF PlainCells, Length
      <3>2. QED
        BY <3>1 DEF Stream, PlainCells
    <2>3. CompressionStream(a) = (s \o TailOpts(a)) \o e
      BY <1>1 DEF CompressionStream
    <2> HIDE DEF s, e
    <2>4. /\ s \o TailOpts(a) \in Seq(PlainCells(a)) /\ Len(s \o TailOpts(a)) >= 1
          /\ Len(s \o TailOpts(a)) \in Nat /\ (s \o TailOpts(a))[1] = COMPRESSION_LAYER_MAGIC
      <3> DEFINE e1 == TailOpts(a)
      <3>1. Stream(e1, PlainCells(a))
        BY TailIsStream
      <3> HIDE DEF e1
      <3>2. Joined(s, e1, PlainCells(a))
        BY <2>1, <3>1, StreamAfter
      <3>3. QED
        BY <2>1, <3>2 DEF Joined, Stream, e1
    <2> DEFINE u == s \o TailOpts(a)
    <2>7. /\ u \in Seq(PlainCells(a)) /\ Len(u) \in Nat /\ Len(u) >= 1
          /\ u[1] = COMPRESSION_LAYER_MAGIC
      BY <2>4
    <2> HIDE DEF u
    <2>5. Stream(u \o e, PlainCells(a)) /\ (u \o e)[1] = COMPRESSION_LAYER_MAGIC
      <3>1. Joined(u, e, PlainCells(a))
        BY <2>2, <2>7, StreamAfter
      <3>2. QED
        BY <2>7, <3>1 DEF Joined
    <2>6. QED
      BY <1>1, <2>3, <2>5 DEF u, COMPRESSION_LAYER_MAGIC, ENCRYPTION_LAYER_MAGIC, Magic
  <1>2. CASE ~a.compressed
    <2>1. CompressionStream(a) = EntriesStream(a)
      BY <1>2 DEF CompressionStream
    <2>2. QED
      BY <1>2, <2>1, EntriesCells DEF ENTRIES_LAYER_MAGIC, ENCRYPTION_LAYER_MAGIC, Magic
  <1>3. QED
    BY <1>1, <1>2

\* What the encryption layer writes begins with its magic if and only if there are recipients.
LEMMA EncryptionCells ==
  ASSUME NEW a, Describes(a)
  PROVE  /\ Stream(EncryptionStream(a), PlainCells(a))
         /\ a.recipients # <<>> <=> EncryptionStream(a)[1] = ENCRYPTION_LAYER_MAGIC
         /\ a.recipients = <<>> => EncryptionStream(a) = CompressionStream(a)
  <1> DEFINE s == << ENCRYPTION_LAYER_MAGIC, Opts, [t |-> "method"], HeaderConfig(a),
                     [t |-> "sealed", key |-> ArchiveKey(a)] >>
  <1>1. CASE a.recipients # <<>>
    <2>1. s \in Seq(PlainCells(a)) /\ Len(s) = 5 /\ s[1] = ENCRYPTION_LAYER_MAGIC
      BY DEF PlainCells
    <2>2. EncryptionStream(a) = s \o TailOpts(a)
      BY <1>1 DEF EncryptionStream
    <2> HIDE DEF s
    <2>3. QED
      <3>1. Joined(s, TailOpts(a), PlainCells(a))
        BY <2>1, TailIsStream, StreamAfter
      <3>2. QED
        BY <1>1, <2>1, <2>2, <3>1 DEF Joined
  <1>2. CASE a.recipients = <<>>
    <2>1. EncryptionStream(a) = CompressionStream(a)
      BY <1>2 DEF EncryptionStream
    <2>2. QED
      BY <1>2, <2>1, CompressionCells
  <1>3. QED
    BY <1>1, <1>2

\* What the signature layer is given to sign.
LEMMA SignedCells ==
  ASSUME NEW a, Describes(a)
  PROVE  /\ Stream(SignedBytes(a), PlainCells(a))
         /\ Len(SignedBytes(a)) = 5 + Len(EncryptionStream(a))
         /\ SignedBytes(a)[3] = Opts /\ SignedBytes(a)[5] = Opts
         /\ SignedBytes(a)[4] = SIGNATURE_LAYER_MAGIC
         /\ \A k \in 1..Len(EncryptionStream(a)) :
              SignedBytes(a)[5 + k] = EncryptionStream(a)[k]
  <1> DEFINE s == << MLA_MAGIC, MLA_FORMAT_VERSION, Opts, SIGNATURE_LAYER_MAGIC, Opts >>
  <1>1. /\ s \in Seq(PlainCells(a)) /\ Len(s) = 5
        /\ s[3] = Opts /\ s[4] = SIGNATURE_LAYER_MAGIC /\ s[5] = Opts
    BY DEF PlainCells
  <1>2. SignedBytes(a) = s \o EncryptionStream(a)
    <2>1. Header \o << SIGNATURE_LAYER_MAGIC, Opts >> = s
      <3> DEFINE x == << MLA_MAGIC, MLA_FORMAT_VERSION, Opts >>
                 y == << SIGNATURE_LAYER_MAGIC, Opts >>
      <3>1. x \in Seq(PlainCells(a)) /\ Len(x) = 3 /\ \A i \in 1..Len(x) : x[i] = s[i]
        BY DEF PlainCells
      <3>2. y \in Seq(PlainCells(a)) /\ Len(y) = 2 /\ \A i \in 1..Len(y) : y[i] = s[Len(x) + i]
        BY DEF PlainCells
      <3> HIDE DEF x, y, s
      <3>3. x \o y = s
        <4>1. s \in Seq(PlainCells(a)) /\ Len(s) = Len(x) + Len(y)
          BY <1>1, <3>1, <3>2
        <4>2. QED
          BY <3>1, <3>2, <4>1, ConcatIs
      <3>4. QED
        BY <3>3 DEF Header, x, y
    <2>2. QED
      BY <2>1 DEF SignedBytes
  <1> DEFINE e == EncryptionStream(a)
  <1>3. Stream(e, PlainCells(a))
    BY EncryptionCells
  <1> HIDE DEF s, e
  <1>4. /\ Stream(s \o e, PlainCells(a)) /\ Len(s \o e) = Len(s) + Len(e)
        /\ \A k \in 1..Len(s) : (s \o e)[k] = s[k]
        /\ \A k \in 1..Len(e) : (s \o e)[Len(s) + k] = e[k]
    <2>1. Joined(s, e, PlainCells(a))
      BY <1>1, <1>3, StreamAfter
    <2>2. QED
      BY <2>1 DEF Joined
  <1>5. SignedBytes(a) = s \o e
    BY <1>2 DEF e
  <1>6. /\ Stream(SignedBytes(a), PlainCells(a)) /\ Len(SignedBytes(a)) = 5 + Len(e)
        /\ SignedBytes(a)[3] = Opts /\ SignedBytes(a)[5] = Opts
        /\ SignedBytes(a)[4] = SIGNATURE_LAYER_MAGIC
        /\ \A k \in 1..Len(e) : SignedBytes(a)[5 + k] = e[k]
    BY <1>1, <1>4, <1>5
  <1>7. QED
    BY <1>6 DEF e
\* With signers, what was written is what the signature covers.
LEMMA WrittenCells ==
  ASSUME Describes(archive)
  PROVE  /\ Stream(Written, PlainCells(archive))
         /\ archive.signers # <<>> => Written = SignedBytes(archive)
  <1> DEFINE s == << MLA_MAGIC, MLA_FORMAT_VERSION, Opts >>
  <1>1. CASE archive.signers # <<>>
    <2>1. Written = SignedBytes(archive)
      BY <1>1 DEF Written
    <2>2. Stream(SignedBytes(archive), PlainCells(archive))
      BY SignedCells
    <2>3. QED
      BY <2>1, <2>2
  <1>2. CASE archive.signers = <<>>
    <2>1. Written = s \o EncryptionStream(archive)
      BY <1>2 DEF Written, Header
    <2>2. s \in Seq(PlainCells(archive))
      BY DEF PlainCells
    <2> HIDE DEF s
    <2>3. Joined(s, EncryptionStream(archive), PlainCells(archive))
      BY <2>2, EncryptionCells, StreamAfter
    <2>4. QED
      BY <1>2, <2>1, <2>3 DEF Joined
  <1>3. QED
    BY <1>1, <1>2

-----------------------------------------------------------------------------
(***************************************************************************)
(* Writing.  The cells put into the hash are those written, and a cell     *)
(* that was offered twice is twice in it: m leads from each cell of the    *)
(* hash to the cell of the stream w that it is, and never skips one.       *)
(***************************************************************************)
Leads(m, hashed, w, upto) ==
    /\ m \in [1..Len(hashed) -> 1..Len(w)]
    /\ \A i \in 1..Len(hashed) : hashed[i] = w[m[i]]
    /\ \A i \in 1..Len(hashed) - 1 : m[i + 1] \in {m[i], m[i] + 1}
    /\ hashed # <<>> => m[1] = 1 /\ m[Len(hashed)] \in {upto, upto + 1}

Follows(hashed, w, n, short) ==
    /\ hashed \in Seq(PlainCells(archive)) /\ Len(hashed) = n + short
    /\ short = 0 => hashed = SubSeq(w, 1, n)
    /\ \E m : Leads(m, hashed, w, n)

\* The hash of a stream with a cell twice in it is that of no beginning of the archive.
NoBeginning(hashed, bytes) == \A e \in 0..Len(bytes) : SubSeq(bytes, 1, e) # hashed

\* A hash that took cells twice is not the hash of the beginning of an archive.
LEMMA TwiceIsNoBeginning ==
  ASSUME NEW C, NEW w \in Seq(C), NEW t \in Seq(C), NEW hashed \in Seq(C), NEW m,
         Leads(m, hashed, w, Len(w)), Len(hashed) > Len(w), Len(w) >= 1,
         Len(t) >= 1, t[1] # w[Len(w)]
  PROVE  NoBeginning(hashed, w \o t)
  <1> DEFINE L == Len(w)
             bytes == w \o t
  <1> SUFFICES ASSUME NEW e \in 0..Len(bytes), SubSeq(bytes, 1, e) = hashed PROVE FALSE
    BY DEF NoBeginning
  <1>1. /\ bytes \in Seq(C) /\ Len(bytes) = L + Len(t) /\ L \in Nat /\ L >= 1
        /\ \A k \in 1..L : bytes[k] = w[k]
    BY ConcatAt, ConcatType
  <1>2. bytes[L + 1] = t[1]
    BY ConcatAt
  <1> HIDE DEF bytes
  <1>3. /\ Len(hashed) = e /\ e \in Nat /\ e > L /\ \A i \in 1..e : hashed[i] = bytes[i]
    BY <1>1
  <1>4. /\ m \in [1..e -> 1..L] /\ \A i \in 1..e : hashed[i] = w[m[i]]
        /\ \A i \in 1..e - 1 : m[i + 1] \in {m[i], m[i] + 1}
        /\ m[1] = 1
    BY <1>3 DEF Leads
  <1> DEFINE S == {j \in 0 .. L - 1 : m[j + 1] <= j + 1
                                      /\ \A k \in m[j + 1] .. j + 1 : w[k] = w[j + 1]}
  <1>5. 0 \in S
    BY <1>1, <1>4
  <1>6. ASSUME NEW j \in 0 .. (L - 1) - 1, j \in S PROVE j + 1 \in S
    <2> DEFINE i == j + 1
    <2>1. i \in 1..L - 1 /\ i + 1 \in 1..L /\ i \in 1..e - 1 /\ i + 1 \in 1..e /\ i \in 1..e
      BY <1>1, <1>3
    <2>2. m[i] \in 1..L /\ m[i] <= i /\ \A k \in m[i] .. i : w[k] = w[i]
      BY <1>4, <1>6, <2>1
    <2>3. m[i + 1] \in {m[i], m[i] + 1} /\ m[i + 1] \in 1..L
      BY <1>4, <2>1
    <2>4. w[i + 1] = w[m[i + 1]]
      BY <1>1, <1>3, <1>4, <2>1
    <2> HIDE DEF i
    <2>5. m[i + 1] <= i + 1
      BY <2>1, <2>2, <2>3
    <2>6. \A k \in m[i + 1] .. i + 1 : w[k] = w[i + 1]
      <3>1. CASE m[i + 1] <= i
        <4>1. m[i + 1] \in m[i] .. i
          BY <2>1, <2>2, <2>3, <3>1
        <4>2. w[i + 1] = w[i]
          BY <2>2, <2>4, <4>1
        <4>3. ASSUME NEW k \in m[i + 1] .. i + 1 PROVE w[k] = w[i + 1]
          <5>1. k = i + 1 \/ k \in m[i] .. i
            BY <2>1, <2>2, <2>3
          <5>2. QED
            BY <2>2, <4>2, <5>1
        <4>4. QED
          BY <4>3
      <3>2. CASE m[i + 1] = i + 1
        BY <2>1, <3>2
      <3>3. QED
        BY <2>1, <2>3, <2>5, <3>1, <3>2
    <2>7. j + 1 \in 0 .. L - 1 /\ (j + 1) + 1 = i + 1
      BY <1>1 DEF i
    <2>8. QED
      BY <2>5, <2>6, <2>7
  <1>7. \A j \in 0 .. L - 1 : j \in S
    <2>1. L - 1 \in Nat
      BY <1>1
    <2> HIDE DEF S, L
    <2>2. QED
      BY <1>5, <1>6, <2>1, UpInduction
  <1>8. m[L] <= L /\ \A k \in m[L] .. L : w[k] = w[L]
    <2>1. L - 1 \in S /\ (L - 1) + 1 = L
      <3>1. L - 1 \in 0 .. L - 1 /\ (L - 1) + 1 = L
        BY <1>1
      <3> HIDE DEF S, L
      <3>2. QED
        BY <1>7, <3>1
    <2>2. QED
      BY <2>1
  <1>9. m[L + 1] \in m[L] .. L
    <2>1. L \in 1..e - 1 /\ L + 1 \in 1..e /\ L \in 1..e
      BY <1>1, <1>3
    <2>2. m[L + 1] \in {m[L], m[L] + 1} /\ m[L + 1] \in 1..L /\ m[L] \in 1..L
      BY <1>4, <2>1
    <2>3. QED
      BY <1>1, <2>2
  <1>10. hashed[L + 1] = w[L] /\ hashed[L + 1] = t[1]
    <2>1. L + 1 \in 1..e
      BY <1>1, <1>3
    <2>2. QED
      BY <1>2, <1>3, <1>4, <1>8, <1>9, <2>1
  <1>11. QED
    BY <1>10
\* A write puts the k cells behind the first n into the hash, and takes some of them.
LEMMA WriteFollows ==
  ASSUME NEW C, NEW w \in Seq(C), NEW hashed \in Seq(C), NEW n \in Nat, NEW m,
         NEW k \in {1, 2}, NEW taken \in 1..k, n + k <= Len(w),
         Leads(m, hashed, w, n), hashed = <<>> => n = 0
  PROVE  \E f : Leads(f, hashed \o SubSeq(w, n + 1, n + k), w, n + taken)
  <1> DEFINE p == SubSeq(w, n + 1, n + k)
             h == hashed \o p
             L == Len(hashed)
             f == [i \in 1..L + k |-> IF i <= L THEN m[i] ELSE n + (i - L)]
  <1>1. p \in Seq(C) /\ Len(p) = k /\ \A i \in 1..k : p[i] = w[n + i]
    BY PieceFacts
  <1>2. L \in Nat /\ Len(w) \in Nat
    OBVIOUS
  <1> HIDE DEF p
  <1>3. /\ h \in Seq(C) /\ Len(h) = L + k /\ \A i \in 1..L : h[i] = hashed[i]
        /\ \A i \in 1..k : h[L + i] = p[i]
    BY <1>1, ConcatAt, ConcatType
  <1>4. /\ m \in [1..L -> 1..Len(w)] /\ \A i \in 1..L : hashed[i] = w[m[i]]
        /\ \A i \in 1..L - 1 : m[i + 1] \in {m[i], m[i] + 1}
        /\ L # 0 => m[1] = 1 /\ m[L] \in {n, n + 1}
    BY DEF Leads
  <1>5. \A i \in 1..L + k : /\ i <= L => i \in 1..L /\ f[i] = m[i]
                            /\ i > L => i - L \in 1..k /\ f[i] = n + (i - L)
    BY <1>2
  <1>6. f \in [1..L + k -> 1..Len(w)]
    <2>1. ASSUME NEW i \in 1..L + k PROVE f[i] \in 1..Len(w)
      BY <1>2, <1>4, <1>5, SMTT(60)
    <2>2. QED
      BY <2>1
  <1>7. L = 0 => n = 0
    OBVIOUS
  <1> HIDE DEF f, h
  <1>8. ASSUME NEW i \in 1..L + k PROVE h[i] = w[f[i]]
    <2>1. CASE i <= L
      BY <1>3, <1>4, <1>5, <2>1
    <2>2. CASE i > L
      <3>1. i - L \in 1..k /\ f[i] = n + (i - L) /\ L + (i - L) = i
        BY <1>2, <1>5, <2>2
      <3>2. h[i] = p[i - L]
        BY <1>3, <3>1
      <3>3. QED
        BY <1>1, <3>1, <3>2
    <2>3. QED
      BY <1>2, <2>1, <2>2
  <1>9. ASSUME NEW i \in 1..(L + k) - 1 PROVE f[i + 1] \in {f[i], f[i] + 1}
    <2>0. i \in Nat /\ i \in 1..L + k /\ i + 1 \in 1..L + k
      BY <1>2
    <2>1. CASE i < L
      <3>1. i \in 1..L - 1 /\ f[i] = m[i] /\ f[i + 1] = m[i + 1]
        BY <1>2, <1>5, <2>0, <2>1
      <3>2. QED
        BY <1>4, <3>1
    <2>2. CASE i = L
      <3>1. f[i] = m[L] /\ f[i + 1] = n + 1 /\ L # 0
        BY <1>2, <1>5, <2>0, <2>2
      <3>2. QED
        BY <1>4, <3>1
    <2>3. CASE i > L
      <3>1. f[i] = n + (i - L) /\ f[i + 1] = n + (i + 1 - L)
        BY <1>2, <1>5, <2>0, <2>3
      <3>2. QED
        BY <1>2, <3>1
    <2>4. QED
      BY <1>2, <2>0, <2>1, <2>2, <2>3
  <1>10. f[1] = 1 /\ f[L + k] \in {n + taken, (n + taken) + 1}
    <2>1. 1 \in 1..L + k /\ L + k \in 1..L + k /\ L + k > L
      BY <1>2
    <2>2. f[L + k] = n + k
      BY <1>2, <1>5, <2>1
    <2>3. CASE L = 0
      BY <1>5, <1>7, <2>1, <2>2, <2>3
    <2>4. CASE L # 0
      BY <1>2, <1>4, <1>5, <2>1, <2>2, <2>4
    <2>5. QED
      BY <2>3, <2>4
  <1>11. Leads(f, h, w, n + taken)
    BY <1>3, <1>6, <1>8, <1>9, <1>10 DEF Leads
  <1>12. QED
    BY <1>11 DEF h, p
(***************************************************************************)
(* What holds of the writer.  Sealed is what a reader relies on: who made  *)
(* each cell, and that the signatures are over what was written, or over   *)
(* something that no beginning of the archive hashes to.                   *)
(***************************************************************************)
Sealed ==
    /\ out \in Seq(ArchiveCells(archive, signed))
    /\ archive.signers # <<>> => IF shorts = 0 THEN signed = SignedBytes(archive)
                                 ELSE NoBeginning(signed, out)

WritingInv ==
    /\ archive \in Archives /\ shorts \in Nat
    /\ phase = "writing" =>
         /\ Len(out) \in 0..Len(Written) /\ out = SubSeq(Written, 1, Len(out))
         /\ Follows(signed, Written, Len(out), shorts)
    /\ phase # "writing" => Sealed

\* Every archive of the instance is a description of one.
LEMMA ArchiveDescribed == archive \in Archives => Describes(archive)
  BY OpeningAssumption DEF Describes

\* Nothing is written at first.
LEMMA WritingInit == Init => WritingInv
  <1> SUFFICES ASSUME Init PROVE WritingInv
    OBVIOUS
  <1>1. /\ archive \in Archives /\ out = <<>> /\ signed = <<>> /\ shorts = 0 /\ phase = "writing"
    BY DEF Init
  <1>2. Written \in Seq(PlainCells(archive)) /\ Len(Written) \in Nat
    BY <1>1, ArchiveDescribed, WrittenCells DEF Stream
  <1>3. Len(<<>>) = 0 /\ SubSeq(Written, 1, 0) = <<>> /\ <<>> \in Seq(PlainCells(archive))
    BY <1>2
  <1>4. Leads([i \in 1..0 |-> 1], <<>>, Written, 0)
    BY DEF Leads
  <1>5. Follows(<<>>, Written, 0, 0)
    BY <1>3, <1>4 DEF Follows
  <1>6. QED
    BY <1>1, <1>2, <1>3, <1>5 DEF WritingInv

\* A beginning followed by the next cells is a longer beginning.
LEMMA BeginningGrows ==
  ASSUME NEW C, NEW w \in Seq(C), NEW n \in Nat, NEW k \in Nat, n + k <= Len(w)
  PROVE  /\ SubSeq(w, 1, n) \o SubSeq(w, n + 1, n + k) = SubSeq(w, 1, n + k)
         /\ SubSeq(w, 1, n + k) \in Seq(C) /\ Len(SubSeq(w, 1, n + k)) = n + k
  <1> DEFINE x == SubSeq(w, 1, n)
             y == SubSeq(w, n + 1, n + k)
             z == SubSeq(w, 1, n + k)
  <1>1. x \in Seq(C) /\ Len(x) = n /\ \A i \in 1..n : x[i] = w[i]
    OBVIOUS
  <1>2. y \in Seq(C) /\ Len(y) = k /\ \A i \in 1..k : y[i] = w[n + i]
    BY PieceFacts
  <1>3. z \in Seq(C) /\ Len(z) = n + k /\ \A i \in 1..n + k : z[i] = w[i]
    OBVIOUS
  <1> HIDE DEF x, y, z
  <1>4. \A i \in 1..Len(x) : x[i] = z[i]
    BY <1>1, <1>3
  <1>5. ASSUME NEW i \in 1..Len(y) PROVE y[i] = z[Len(x) + i]
    <2>1. i \in 1..k /\ n + i \in 1..n + k
      BY <1>2
    <2>2. QED
      BY <1>1, <1>2, <1>3, <2>1
  <1>6. x \o y = z
    BY <1>1, <1>2, <1>3, <1>4, <1>5, ConcatIs
  <1>7. QED
    BY <1>3, <1>6 DEF x, y, z

\* A write, short or whole, puts into the hash what it says.
LEMMA WriteKeeps ==
  ASSUME WritingInv, Write PROVE WritingInv'
  <1> DEFINE w == Written
             n == Len(out)
             k == Len(Offered)
  <1>1. /\ archive \in Archives /\ shorts \in Nat /\ phase = "writing"
        /\ n \in 0..Len(w) /\ out = SubSeq(w, 1, n) /\ Follows(signed, w, n, shorts)
    BY DEF WritingInv, Write
  <1>2. w \in Seq(PlainCells(archive)) /\ Len(w) \in Nat
    BY <1>1, ArchiveDescribed, WrittenCells DEF Stream
  <1>3. n \in Nat /\ n < Len(w) /\ archive' = archive /\ phase' = "writing"
    BY <1>1, <1>2 DEF Write
  <1>4. k \in {1, 2} /\ n + k <= Len(w) /\ Offered = SubSeq(w, n + 1, n + k)
    <2> DEFINE j == Least(n + 2, Len(w)) - n
    <2>1. j \in {1, 2} /\ n + j <= Len(w) /\ n + j = Least(n + 2, Len(w)) /\ j \in Nat
      BY <1>2, <1>3 DEF Least
    <2>2. Offered = SubSeq(w, n + 1, n + j)
      BY <2>1 DEF Offered
    <2> HIDE DEF j, w, n
    <2>3. Len(SubSeq(w, n + 1, n + j)) = j
      BY <1>2, <1>3, <2>1, PieceFacts
    <2>4. k = j
      BY <2>2, <2>3
    <2>5. QED
      BY <2>1, <2>2, <2>4
  <1>5. PICK taken \in 1..k :
          /\ out' = out \o SubSeq(Offered, 1, taken)
          /\ shorts' = IF taken < k THEN shorts + 1 ELSE shorts
          /\ signed' = signed \o Offered
    BY DEF Write, HashUpdate
  <1>6. taken \in Nat /\ taken >= 1 /\ taken <= k /\ k \in Nat /\ n + taken <= Len(w)
    BY <1>2, <1>3, <1>4, <1>5
  <1>7. SubSeq(Offered, 1, taken) = SubSeq(w, n + 1, n + taken)
    <2> HIDE DEF w, n, k
    <2> DEFINE x == SubSeq(w, n + 1, n + k)
               y == SubSeq(x, 1, taken)
               z == SubSeq(w, n + 1, n + taken)
    <2>1. /\ x \in Seq(PlainCells(archive)) /\ Len(x) = k /\ \A i \in 1..k : x[i] = w[n + i]
      BY <1>2, <1>3, <1>4, <1>6, PieceFacts
    <2>2. /\ z \in Seq(PlainCells(archive)) /\ Len(z) = taken
          /\ \A i \in 1..taken : z[i] = w[n + i]
      BY <1>2, <1>3, <1>6, PieceFacts
    <2> HIDE DEF x, z
    <2>3. /\ y \in Seq(PlainCells(archive)) /\ Len(y) = taken
          /\ \A i \in 1..taken : y[i] = x[i]
      BY <1>6, <2>1
    <2> HIDE DEF y
    <2>4. \A i \in 1..taken : y[i] = z[i]
      BY <1>6, <2>1, <2>2, <2>3
    <2>5. y = z
      BY <2>2, <2>3, <2>4
    <2>6. QED
      BY <1>4, <2>5 DEF x, y, z
  <1> HIDE DEF w, n, k
  <1>8. out' = SubSeq(w, 1, n + taken) /\ Len(out') = n + taken
    <2>1. /\ SubSeq(w, 1, n) \o SubSeq(w, n + 1, n + taken) = SubSeq(w, 1, n + taken)
          /\ Len(SubSeq(w, 1, n + taken)) = n + taken
      BY <1>2, <1>3, <1>6, BeginningGrows
    <2>2. QED
      BY <1>1, <1>5, <1>7, <2>1
  <1>9. /\ signed \in Seq(PlainCells(archive)) /\ Len(signed) = n + shorts
        /\ shorts = 0 => signed = SubSeq(w, 1, n)
    BY <1>1 DEF Follows
  <1>10. PICK m : Leads(m, signed, w, n)
    BY <1>1 DEF Follows
  <1>11. \E f : Leads(f, signed', w, n + taken)
    <2>1. signed = <<>> => n = 0
      BY <1>1, <1>3, <1>9
    <2>2. \E f : Leads(f, signed \o SubSeq(w, n + 1, n + k), w, n + taken)
      BY <1>2, <1>3, <1>4, <1>5, <1>9, <1>10, <2>1, WriteFollows
    <2>3. QED
      BY <1>4, <1>5, <2>2
  <1>12. signed' \in Seq(PlainCells(archive)) /\ Len(signed') = (n + taken) + shorts'
    <2>1. Offered \in Seq(PlainCells(archive)) /\ Len(Offered) = k
      BY <1>2, <1>3, <1>4, <1>6, PieceFacts
    <2>2. signed' \in Seq(PlainCells(archive)) /\ Len(signed') = Len(signed) + k
      BY <1>5, <1>9, <2>1, ConcatType
    <2>3. k = taken \/ k = taken + 1
      BY <1>4, <1>6
    <2>4. Len(signed') = (n + shorts) + k /\ n \in Nat /\ shorts \in Nat /\ taken \in Nat
      BY <1>1, <1>3, <1>6, <1>9, <2>2
    <2>5. CASE k = taken
      <3>1. shorts' = shorts
        BY <1>5, <1>6, <2>5
      <3>2. QED
        BY <2>2, <2>4, <2>5, <3>1
    <2>6. CASE k = taken + 1
      <3>1. shorts' = shorts + 1
        BY <1>5, <1>6, <2>6
      <3>2. QED
        BY <2>2, <2>4, <2>6, <3>1
    <2>7. QED
      BY <2>3, <2>5, <2>6
  <1>13. shorts' = 0 => signed' = SubSeq(w, 1, n + taken)
    <2> SUFFICES ASSUME shorts' = 0 PROVE signed' = SubSeq(w, 1, n + taken)
      OBVIOUS
    <2>1. taken = k /\ shorts = 0
      BY <1>1, <1>4, <1>5, <1>6
    <2>2. SubSeq(w, 1, n) \o SubSeq(w, n + 1, n + k) = SubSeq(w, 1, n + k)
      BY <1>2, <1>3, <1>4, <1>6, BeginningGrows
    <2>3. QED
      BY <1>4, <1>5, <1>9, <2>1, <2>2
  <1>15. w' = w /\ shorts' \in Nat
    BY <1>1, <1>3, <1>5 DEF w, Written
  <1>16. Follows(signed, w, Len(out), shorts)'
    BY <1>3, <1>8, <1>11, <1>12, <1>13, <1>15 DEF Follows
  <1>17. (Len(out) \in 0..Len(w) /\ out = SubSeq(w, 1, Len(out)))'
    BY <1>2, <1>3, <1>6, <1>8, <1>15
  <1>18. QED
    BY <1>1, <1>3, <1>15, <1>16, <1>17 DEF WritingInv, w
\* The signature layer ends the archive with options, signatures and their length.
LEMMA SignatureTailCells ==
  ASSUME NEW a, NEW h, Describes(a)
  PROVE  /\ SignatureTail(a, h) \in Seq(ArchiveCells(a, h))
         /\ Len(SignatureTail(a, h)) >= 1 /\ SignatureTail(a, h)[1] = Opts
  <1> DEFINE C == ArchiveCells(a, h)
             n == Len(a.signers)
             data == [i \in 1..2 * n |->
                        Signature(a.signers[(i + 1) \div 2],
                                  IF i % 2 = 1 THEN "ed25519" ELSE "mldsa87", h)]
             l1 == << Length(2 * n) >>
             l2 == << Length(1 + 2 * n) >>
             t == TailOpts(a)
  <1>1. n \in Nat /\ 2 * n \in Nat /\ 1 + 2 * n \in Nat
    BY DEF Describes
  <1>2. data \in Seq(C) /\ Len(data) \in Nat
    <2>1. ASSUME NEW i \in 1..2 * n PROVE data[i] \in C
      <3>1. (i + 1) \div 2 \in 1..n
        BY <1>1
      <3>2. a.signers[(i + 1) \div 2] \in Range(a.signers)
        BY <3>1 DEF Describes, Range
      <3>3. (IF i % 2 = 1 THEN "ed25519" ELSE "mldsa87") \in Methods
        BY DEF Methods
      <3> DEFINE key == a.signers[(i + 1) \div 2]
                 method == IF i % 2 = 1 THEN "ed25519" ELSE "mldsa87"
      <3>4. data[i] = Signature(key, method, h)
        OBVIOUS
      <3> HIDE DEF key, method, data
      <3>5. QED
        BY <3>2, <3>3, <3>4 DEF ArchiveCells, SignatureCells, key, method
    <2>2. DOMAIN data = 1..2 * n /\ data = [i \in 1..2 * n |-> data[i]]
      OBVIOUS
    <2> HIDE DEF data, C, n
    <2>3. data \in [1..2 * n -> C]
      BY <2>1, <2>2
    <2>4. QED
      BY <1>1, <2>3
  <1>3. l1 \in Seq(C) /\ l2 \in Seq(C)
    BY <1>1 DEF ArchiveCells, PlainCells
  <1>4. t \in Seq(C) /\ Len(t) \in Nat /\ Len(t) >= 1 /\ t[1] = Opts
    <2>1. Stream(t, PlainCells(a)) /\ t[1] = Opts
      BY TailIsStream, TailCells
    <2> HIDE DEF t
    <2>2. QED
      BY <2>1 DEF Stream, ArchiveCells
  <1>5. SignatureTail(a, h) = (t \o (l1 \o data)) \o l2
    BY DEF SignatureTail, SignatureData
  <1> HIDE DEF C, data, l1, l2, t, n
  <1>6. l1 \o data \in Seq(C)
    BY <1>2, <1>3, ConcatType
  <1> DEFINE d == l1 \o data
  <1> HIDE DEF d
  <1>7. d \in Seq(C)
    BY <1>6 DEF d
  <1>8. t \o d \in Seq(C) /\ Len(t \o d) \in Nat /\ Len(t \o d) >= 1 /\ (t \o d)[1] = Opts
    BY <1>4, <1>7, ConcatType, ConcatAt
  <1> DEFINE u == t \o d
  <1> HIDE DEF u
  <1>9. u \in Seq(C) /\ Len(u) \in Nat /\ Len(u) >= 1 /\ u[1] = Opts
    BY <1>8 DEF u
  <1>10. u \o l2 \in Seq(C) /\ Len(u \o l2) >= 1 /\ (u \o l2)[1] = Opts
    BY <1>3, <1>9, ConcatType, ConcatAt
  <1>11. QED
    BY <1>5, <1>10 DEF u, d, C

\* The end of the archive consists of cells of the archive.
LEMMA EndCells ==
  ASSUME NEW a, NEW h, Describes(a) PROVE EndOfArchive(a) \in Seq(ArchiveCells(a, h))
  <1> DEFINE t == TailOpts(a)
             e == << END_MLA_MAGIC >>
  <1>1. t \in Seq(ArchiveCells(a, h))
    <2>1. t \in Seq(PlainCells(a))
      BY TailCells
    <2> HIDE DEF t
    <2>2. QED
      BY <2>1 DEF ArchiveCells
  <1>2. e \in Seq(ArchiveCells(a, h))
    BY DEF ArchiveCells, PlainCells
  <1> HIDE DEF t, e
  <1>3. t \o e \in Seq(ArchiveCells(a, h))
    BY <1>1, <1>2, ConcatType
  <1>4. QED
    BY <1>3 DEF EndOfArchive, t, e

\* finalize seals what was hashed.
LEMMA FinalizeKeeps ==
  ASSUME WritingInv, Finalize PROVE WritingInv'
  <1> DEFINE C == ArchiveCells(archive, signed)
             w == Written
             s == SignatureTail(archive, signed)
             e == EndOfArchive(archive)
  <1>1. /\ archive \in Archives /\ shorts \in Nat /\ out = w
        /\ Follows(signed, w, Len(w), shorts)
        /\ phase' = "closed" /\ UNCHANGED <<archive, signed, shorts>>
        /\ out' = out \o (IF archive.signers = <<>> THEN <<>> ELSE s) \o e
    BY DEF WritingInv, Finalize
  <1>2. Describes(archive)
    BY <1>1, ArchiveDescribed
  <1>3. Stream(w, PlainCells(archive)) /\ (archive.signers # <<>> => w = SignedBytes(archive))
    BY <1>2, WrittenCells
  <1> HIDE DEF w
  <1>4. w \in Seq(C) /\ Len(w) \in Nat /\ Len(w) >= 1 /\ w[Len(w)].t = "length"
    BY <1>3 DEF Stream, ArchiveCells
  <1>5. s \in Seq(C) /\ Len(s) >= 1 /\ s[1] = Opts /\ e \in Seq(C) /\ <<>> \in Seq(C)
    BY <1>2, SignatureTailCells, EndCells
  <1> HIDE DEF s, e, C
  <1>6. CASE archive.signers = <<>>
    <2>1. out' = (w \o <<>>) \o e
      BY <1>1, <1>6
    <2>2. out' \in Seq(C)
      BY <1>4, <1>5, <2>1, ConcatType
    <2>3. QED
      BY <1>1, <1>6, <2>2 DEF WritingInv, Sealed, C
  <1>7. CASE archive.signers # <<>>
    <2>1. out' = (w \o s) \o e
      BY <1>1, <1>7
    <2>2. out' = w \o (s \o e)
      <3>1. w \in Seq(C) /\ s \in Seq(C) /\ e \in Seq(C)
        BY <1>4, <1>5
      <3>2. (w \o s) \o e = w \o (s \o e)
        BY ONLY <3>1, ConcatFacts
      <3>3. QED
        BY <2>1, <3>2
    <2> DEFINE t == s \o e
    <2>3. t \in Seq(C) /\ Len(t) >= 1 /\ t[1] = Opts
      BY <1>5
    <2> HIDE DEF t
    <2>4. out' = w \o t /\ out' \in Seq(C)
      BY <1>4, <2>2, <2>3, ConcatType DEF t
    <2>5. shorts = 0 => signed = SignedBytes(archive)
      <3>1. SubSeq(w, 1, Len(w)) = w
        BY <1>4
      <3>2. QED
        BY <1>1, <1>3, <1>7, <3>1 DEF Follows
    <2>6. shorts # 0 => NoBeginning(signed, w \o t)
      <3> SUFFICES ASSUME shorts # 0 PROVE NoBeginning(signed, w \o t)
        OBVIOUS
      <3>1. PICK m : Leads(m, signed, w, Len(w))
        BY <1>1 DEF Follows
      <3>2. signed \in Seq(C) /\ Len(signed) > Len(w)
        <4>1. signed \in Seq(PlainCells(archive)) /\ Len(signed) = Len(w) + shorts
          BY <1>1 DEF Follows
        <4>2. signed \in Seq(C)
          BY <4>1 DEF C, ArchiveCells
        <4>3. QED
          BY <1>1, <1>4, <4>1, <4>2
      <3>3. t[1] # w[Len(w)]
        BY <1>4, <2>3 DEF Opts
      <3>4. QED
        BY <1>4, <2>3, <3>1, <3>2, <3>3, TwiceIsNoBeginning
    <2>7. QED
      BY <1>1, <2>4, <2>5, <2>6 DEF WritingInv, Sealed, C
  <1>8. QED
    BY <1>6, <1>7

\* One changed cell leaves the rest of the archive as it was.
LEMMA ChangeKeeps ==
  ASSUME WritingInv, NEW i \in DOMAIN out, Change(i) PROVE WritingInv'
  <1>1. /\ archive \in Archives /\ shorts = 0 /\ shorts \in Nat /\ phase = "closed" /\ Sealed
        /\ UNCHANGED <<archive, signed, shorts, phase>>
        /\ out' = [out EXCEPT ![i] = [t |-> "changed"]]
    BY DEF WritingInv, Change, Regular
  <1>2. [t |-> "changed"] \in ArchiveCells(archive, signed)
    BY DEF ArchiveCells, PlainCells
  <1> DEFINE c == [t |-> "changed"]
             C == ArchiveCells(archive, signed)
  <1>3. out \in Seq(C) /\ c \in C /\ out' = [out EXCEPT ![i] = c]
    BY <1>1, <1>2 DEF Sealed
  <1> HIDE DEF c, C
  <1>4. out' \in Seq(C)
    BY <1>3
  <1>5. QED
    BY <1>1, <1>4 DEF WritingInv, Sealed, C

\* The other steps leave the archive alone.
LEMMA OpeningKeepsWriting ==
  ASSUME WritingInv, UNCHANGED writeVars, phase # "writing", phase' # "writing"
  PROVE  WritingInv'
  BY DEF WritingInv, writeVars, Sealed, NoBeginning
-----------------------------------------------------------------------------
(***************************************************************************)
(* A stack of windows is a cursor over the cells that the window on top    *)
(* shows: the windows lie inside each other, and their counts agree on the *)
(* place.                                                                  *)
(***************************************************************************)
Windows == [head_len : Int, tail_len : Int, inner_len : Int, current : Int]

Stacks(C) == [bytes : Seq(C), pos : Int, offset_pos : Int, strips : Seq(Windows)]

\* Where the window i begins in the source, and how many cells it shows.
HeadOf(src, i) == src.strips[i].head_len

Base(src, d) == CASE d = 0 -> src.offset_pos
                 [] d = 1 -> src.offset_pos + HeadOf(src, 1)
                 [] d = 2 -> src.offset_pos + HeadOf(src, 1) + HeadOf(src, 2)
                 [] d = 3 -> src.offset_pos + HeadOf(src, 1) + HeadOf(src, 2) + HeadOf(src, 3)

Shown(src, d) == IF d = 0 THEN Len(src.bytes) - src.offset_pos ELSE StripLength(src.strips[d])

Inside(src, i) ==
    /\ src.strips[i].head_len >= 0 /\ src.strips[i].tail_len >= 0
    /\ src.strips[i].inner_len = Shown(src, i - 1)
    /\ Shown(src, i) >= 0

Agrees(src, i) == src.strips[i].current = src.pos - Base(src, i)

Stacked(src, C) ==
    /\ src \in Stacks(C) /\ Len(src.strips) \in 0..3
    /\ src.offset_pos \in 0..Len(src.bytes)
    /\ \A i \in 1..Len(src.strips) : Inside(src, i)

Top(src) == Len(src.strips)
Here(src) == src.pos - Base(src, Top(src))

Good(src, C) == /\ Stacked(src, C) /\ Here(src) >= 0
                /\ \A i \in 1..Len(src.strips) : Agrees(src, i)

Size(src) == Shown(src, Top(src))
View(src) == SubSeq(src.bytes, Base(src, Top(src)) + 1, Base(src, Top(src)) + Size(src))

\* A window inside a window lies within the bytes.
LEMMA Narrower ==
  ASSUME NEW b \in Nat, NEW n \in Nat, NEW all \in Nat, b + n <= all,
         NEW head \in Nat, NEW tail \in Nat, NEW c, c = n - head - tail, c >= 0,
         NEW e, e = b + head
  PROVE  e \in Nat /\ c \in Nat /\ e + c <= all
  OBVIOUS

\* The fields of a stack of windows have their types.
LEMMA StackTypes ==
  ASSUME NEW C, NEW src \in Stacks(C)
  PROVE  /\ src.bytes \in Seq(C) /\ Len(src.bytes) \in Nat /\ src.pos \in Int
         /\ src.offset_pos \in Int /\ src.strips \in Seq(Windows) /\ Len(src.strips) \in Nat
         /\ \A i \in 1..Len(src.strips) :
              /\ src.strips[i] \in Windows
              /\ src.strips[i].head_len \in Int /\ src.strips[i].tail_len \in Int
              /\ src.strips[i].inner_len \in Int /\ src.strips[i].current \in Int
  <1>1. /\ src.bytes \in Seq(C) /\ src.pos \in Int
        /\ src.offset_pos \in Int /\ src.strips \in Seq(Windows)
    BY DEF Stacks
  <1>2. ASSUME NEW i \in 1..Len(src.strips)
        PROVE  /\ src.strips[i] \in Windows
               /\ src.strips[i].head_len \in Int /\ src.strips[i].tail_len \in Int
               /\ src.strips[i].inner_len \in Int /\ src.strips[i].current \in Int
    <2>1. src.strips[i] \in Windows
      BY <1>1
    <2>2. QED
      BY <2>1 DEF Windows
  <1>3. QED
    BY <1>1, <1>2

\* The windows lie inside each other.
LEMMA WindowsNest ==
  ASSUME NEW C, NEW src, Stacked(src, C), NEW d \in 0..Len(src.strips)
  PROVE  /\ Base(src, d) \in Nat /\ Shown(src, d) \in Nat
         /\ Base(src, d) + Shown(src, d) <= Len(src.bytes)
         /\ d # 0 => /\ Base(src, d) = Base(src, d - 1) + src.strips[d].head_len
                     /\ Shown(src, d) = Shown(src, d - 1) - src.strips[d].head_len
                                                       - src.strips[d].tail_len
  <1>1. /\ src \in Stacks(C) /\ Len(src.strips) \in 0..3 /\ src.offset_pos \in 0..Len(src.bytes)
        /\ \A i \in 1..Len(src.strips) : Inside(src, i)
    BY DEF Stacked
  <1>2. /\ Len(src.bytes) \in Nat /\ src.offset_pos \in Nat /\ src.offset_pos <= Len(src.bytes)
        /\ \A i \in 1..Len(src.strips) :
              /\ src.strips[i].head_len \in Int /\ src.strips[i].tail_len \in Int
              /\ src.strips[i].inner_len \in Int
    BY <1>1, StackTypes
  <1>3. ASSUME NEW i \in 1..Len(src.strips)
        PROVE  /\ src.strips[i].head_len \in Nat /\ src.strips[i].tail_len \in Nat
               /\ src.strips[i].inner_len = Shown(src, i - 1)
               /\ Shown(src, i) >= 0
               /\ Shown(src, i) = src.strips[i].inner_len - src.strips[i].head_len
                                                        - src.strips[i].tail_len
    BY <1>1, <1>2 DEF Inside, Shown, StripLength
  <1>4. /\ Base(src, 0) = src.offset_pos /\ Shown(src, 0) = Len(src.bytes) - src.offset_pos
        /\ Base(src, 0) \in Nat /\ Shown(src, 0) \in Nat
        /\ Base(src, 0) + Shown(src, 0) <= Len(src.bytes)
    BY <1>2 DEF Base, Shown
  <1>5. CASE d = 0
    BY <1>4, <1>5
  <1>6. Base(src, 1) = Base(src, 0) + src.strips[1].head_len
    BY DEF Base, HeadOf
  <1>7. Base(src, 2) = Base(src, 1) + src.strips[2].head_len
    BY DEF Base, HeadOf
  <1>8. Base(src, 3) = Base(src, 2) + src.strips[3].head_len
    BY DEF Base, HeadOf
  <1>9. ASSUME 1 \in 1..Len(src.strips)
        PROVE  /\ Base(src, 1) \in Nat /\ Shown(src, 1) \in Nat
               /\ Base(src, 1) + Shown(src, 1) <= Len(src.bytes)
               /\ Shown(src, 1) = Shown(src, 0) - src.strips[1].head_len - src.strips[1].tail_len
    <2>2. /\ src.strips[1].head_len \in Nat /\ src.strips[1].tail_len \in Nat
          /\ Shown(src, 1) >= 0
          /\ Shown(src, 1) = Shown(src, 0) - src.strips[1].head_len - src.strips[1].tail_len
      <3>1. 1 - 1 = 0
        OBVIOUS
      <3>2. QED
        BY <1>3, <1>9, <3>1
    <2>3. /\ Base(src, 0) \in Nat /\ Shown(src, 0) \in Nat
          /\ Base(src, 0) + Shown(src, 0) <= Len(src.bytes)
      BY <1>4
    <2>4. Len(src.bytes) \in Nat
      BY <1>2
    <2> DEFINE b == Base(src, 0)
               e == Base(src, 1)
               n == Shown(src, 0)
               c == Shown(src, 1)
               head == src.strips[1].head_len
               tail == src.strips[1].tail_len
               all == Len(src.bytes)
    <2>5. /\ b \in Nat /\ n \in Nat /\ all \in Nat /\ b + n <= all /\ head \in Nat
          /\ tail \in Nat /\ c = n - head - tail /\ c >= 0 /\ e = b + head
      BY <1>6, <2>2, <2>3, <2>4
    <2> HIDE DEF b, e, n, c, head, tail, all
    <2>6. e \in Nat /\ c \in Nat /\ e + c <= all
      BY <2>5, Narrower
    <2>7. QED
      BY <2>5, <2>6 DEF b, e, n, c, head, tail, all
  <1>10. ASSUME 2 \in 1..Len(src.strips)
         PROVE  /\ Base(src, 2) \in Nat /\ Shown(src, 2) \in Nat
                /\ Base(src, 2) + Shown(src, 2) <= Len(src.bytes)
                /\ Shown(src, 2) = Shown(src, 1) - src.strips[2].head_len - src.strips[2].tail_len
    <2>1. 1 \in 1..Len(src.strips)
      BY <1>1, <1>10
    <2>2. /\ src.strips[2].head_len \in Nat /\ src.strips[2].tail_len \in Nat
          /\ Shown(src, 2) >= 0
          /\ Shown(src, 2) = Shown(src, 1) - src.strips[2].head_len - src.strips[2].tail_len
      <3>1. 2 - 1 = 1
        OBVIOUS
      <3>2. QED
        BY <1>3, <1>10, <3>1
    <2>3. /\ Base(src, 1) \in Nat /\ Shown(src, 1) \in Nat
          /\ Base(src, 1) + Shown(src, 1) <= Len(src.bytes)
      BY <1>9, <2>1
    <2>4. Len(src.bytes) \in Nat
      BY <1>2
    <2> DEFINE b == Base(src, 1)
               e == Base(src, 2)
               n == Shown(src, 1)
               c == Shown(src, 2)
               head == src.strips[2].head_len
               tail == src.strips[2].tail_len
               all == Len(src.bytes)
    <2>5. /\ b \in Nat /\ n \in Nat /\ all \in Nat /\ b + n <= all /\ head \in Nat
          /\ tail \in Nat /\ c = n - head - tail /\ c >= 0 /\ e = b + head
      BY <1>7, <2>2, <2>3, <2>4
    <2> HIDE DEF b, e, n, c, head, tail, all
    <2>6. e \in Nat /\ c \in Nat /\ e + c <= all
      BY <2>5, Narrower
    <2>7. QED
      BY <2>5, <2>6 DEF b, e, n, c, head, tail, all
  <1>11. ASSUME 3 \in 1..Len(src.strips)
         PROVE  /\ Base(src, 3) \in Nat /\ Shown(src, 3) \in Nat
                /\ Base(src, 3) + Shown(src, 3) <= Len(src.bytes)
                /\ Shown(src, 3) = Shown(src, 2) - src.strips[3].head_len - src.strips[3].tail_len
    <2>1. 2 \in 1..Len(src.strips)
      BY <1>1, <1>11
    <2>2. /\ src.strips[3].head_len \in Nat /\ src.strips[3].tail_len \in Nat
          /\ Shown(src, 3) >= 0
          /\ Shown(src, 3) = Shown(src, 2) - src.strips[3].head_len - src.strips[3].tail_len
      <3>1. 3 - 1 = 2
        OBVIOUS
      <3>2. QED
        BY <1>3, <1>11, <3>1
    <2>3. /\ Base(src, 2) \in Nat /\ Shown(src, 2) \in Nat
          /\ Base(src, 2) + Shown(src, 2) <= Len(src.bytes)
      BY <1>10, <2>1
    <2>4. Len(src.bytes) \in Nat
      BY <1>2
    <2> DEFINE b == Base(src, 2)
               e == Base(src, 3)
               n == Shown(src, 2)
               c == Shown(src, 3)
               head == src.strips[3].head_len
               tail == src.strips[3].tail_len
               all == Len(src.bytes)
    <2>5. /\ b \in Nat /\ n \in Nat /\ all \in Nat /\ b + n <= all /\ head \in Nat
          /\ tail \in Nat /\ c = n - head - tail /\ c >= 0 /\ e = b + head
      BY <1>8, <2>2, <2>3, <2>4
    <2> HIDE DEF b, e, n, c, head, tail, all
    <2>6. e \in Nat /\ c \in Nat /\ e + c <= all
      BY <2>5, Narrower
    <2>7. QED
      BY <2>5, <2>6 DEF b, e, n, c, head, tail, all
  <1>12. CASE d = 1
    BY <1>6, <1>9, <1>12
  <1>13. CASE d = 2
    BY <1>7, <1>10, <1>13
  <1>14. CASE d = 3
    BY <1>8, <1>11, <1>14
  <1>15. d = 0 \/ d = 1 \/ d = 2 \/ d = 3
    <2> DEFINE n == Len(src.strips)
    <2>1. n \in 0..3 /\ d \in 0..n
      BY <1>1
    <2> HIDE DEF n
    <2>2. QED
      BY <2>1
  <1>16. QED
    BY <1>5, <1>12, <1>13, <1>14, <1>15
\* The same windows, at another place perhaps.
SameWindows(s, r, C) ==
    /\ r \in Stacks(C) /\ r.bytes = s.bytes /\ r.offset_pos = s.offset_pos
    /\ Len(r.strips) = Len(s.strips)
    /\ \A i \in 1..Len(s.strips) : /\ r.strips[i].head_len = s.strips[i].head_len
                                   /\ r.strips[i].tail_len = s.strips[i].tail_len
                                   /\ r.strips[i].inner_len = s.strips[i].inner_len

\* Windows that are the same lie in the same place.
LEMMA SameGeometry ==
  ASSUME NEW C, NEW s, NEW r, Stacked(s, C), SameWindows(s, r, C)
  PROVE  /\ \A d \in 0..Len(s.strips) : Base(r, d) = Base(s, d) /\ Shown(r, d) = Shown(s, d)
         /\ Stacked(r, C)
  <1>1. /\ s \in Stacks(C) /\ Len(s.strips) \in 0..3 /\ s.offset_pos \in 0..Len(s.bytes)
        /\ \A i \in 1..Len(s.strips) : Inside(s, i)
    BY DEF Stacked
  <1> DEFINE n == Len(s.strips)
  <1>2. n \in 0..3 /\ n \in Nat
    BY <1>1
  <1>3. /\ r \in Stacks(C) /\ r.bytes = s.bytes /\ r.offset_pos = s.offset_pos
        /\ Len(r.strips) = n
        /\ \A i \in 1..n : /\ r.strips[i].head_len = s.strips[i].head_len
                           /\ r.strips[i].tail_len = s.strips[i].tail_len
                           /\ r.strips[i].inner_len = s.strips[i].inner_len
    BY DEF SameWindows
  <1> HIDE DEF n
  <1>4. ASSUME NEW d \in 0..n PROVE Base(r, d) = Base(s, d) /\ Shown(r, d) = Shown(s, d)
    <2>1. CASE d = 0
      BY <1>3, <2>1 DEF Base, Shown
    <2>2. CASE d # 0
      <3>1. d \in 1..n
        BY <1>2, <2>2
      <3>2. Shown(r, d) = Shown(s, d)
        BY <1>3, <2>2, <3>1 DEF Shown, StripLength
      <3>3. CASE d = 1
        BY <1>3, <3>1, <3>2, <3>3 DEF Base, HeadOf
      <3>4. CASE d = 2
        <4>1. 1 \in 1..n /\ 2 \in 1..n
          BY <1>2, <3>1, <3>4
        <4>2. QED
          BY <1>3, <3>2, <3>4, <4>1 DEF Base, HeadOf
      <3>5. CASE d = 3
        <4>1. 1 \in 1..n /\ 2 \in 1..n /\ 3 \in 1..n
          BY <1>2, <3>1, <3>5
        <4>2. QED
          BY <1>3, <3>2, <3>5, <4>1 DEF Base, HeadOf
      <3>6. d = 1 \/ d = 2 \/ d = 3
        BY <1>2, <3>1
      <3>7. QED
        BY <3>3, <3>4, <3>5, <3>6
    <2>3. QED
      BY <2>1, <2>2
  <1>5. ASSUME NEW i \in 1..n PROVE Inside(r, i)
    <2>1. Inside(s, i)
      BY <1>1 DEF n
    <2>2. i - 1 \in 0..n /\ i \in 0..n
      BY <1>2
    <2>3. Shown(r, i - 1) = Shown(s, i - 1) /\ Shown(r, i) = Shown(s, i)
      BY <1>4, <2>2
    <2>4. QED
      BY <1>3, <2>1, <2>3 DEF Inside
  <1>6. Stacked(r, C)
    BY <1>1, <1>2, <1>3, <1>5 DEF Stacked, n
  <1>7. QED
    BY <1>4, <1>6 DEF n

\* A stack whose counts follow its place is a cursor over the same view.
LEMMA PlacedIsGood ==
  ASSUME NEW C, NEW s, NEW r, Stacked(s, C), SameWindows(s, r, C), r.pos - Base(s, Top(s)) >= 0,
         \A i \in 1..Len(s.strips) : r.strips[i].current = r.pos - Base(s, i)
  PROVE  /\ Good(r, C) /\ View(r) = View(s) /\ Size(r) = Size(s) /\ Top(r) = Top(s)
         /\ Here(r) = r.pos - Base(s, Top(s))
  <1>1. /\ \A d \in 0..Len(s.strips) : Base(r, d) = Base(s, d) /\ Shown(r, d) = Shown(s, d)
        /\ Stacked(r, C)
    BY SameGeometry
  <1>2. Len(r.strips) = Len(s.strips) /\ Len(s.strips) \in Nat /\ r.bytes = s.bytes
    BY DEF SameWindows, Stacked
  <1>3. Top(s) \in 0..Len(s.strips) /\ Top(r) = Top(s)
    BY <1>2 DEF Top
  <1>4. ASSUME NEW i \in 1..Len(r.strips) PROVE Agrees(r, i)
    <2>1. i \in 0..Len(s.strips) /\ i \in 1..Len(s.strips)
      BY <1>2
    <2>2. QED
      BY <1>1, <2>1 DEF Agrees
  <1>5. Good(r, C)
    BY <1>1, <1>3, <1>4 DEF Good, Here
  <1>6. QED
    BY <1>1, <1>2, <1>3, <1>5 DEF View, Size, Here

\* Setting one count, and moving them all.
LEMMA CountSet ==
  ASSUME NEW C, NEW s \in Stacks(C), NEW d \in 1..Len(s.strips), NEW v \in Int,
         NEW r, r = StandAt(s, d, v)
  PROVE  /\ SameWindows(s, r, C) /\ r.pos = s.pos /\ r.strips[d].current = v
         /\ \A i \in 1..Len(s.strips) : i # d => r.strips[i].current = s.strips[i].current
  <1>1. /\ s.strips \in Seq(Windows) /\ Len(s.strips) \in Nat /\ s.strips[d] \in Windows
    BY StackTypes
  <1> DEFINE w == [s.strips[d] EXCEPT !.current = v]
             t == [s.strips EXCEPT ![d] = w]
  <1>2. r = [s EXCEPT !.strips = t]
    BY DEF StandAt
  <1>3. /\ w \in Windows /\ w.current = v /\ w.head_len = s.strips[d].head_len
        /\ w.tail_len = s.strips[d].tail_len /\ w.inner_len = s.strips[d].inner_len
    BY <1>1 DEF Windows
  <1> HIDE DEF w
  <1>4. /\ t \in Seq(Windows) /\ Len(t) = Len(s.strips)
        /\ \A i \in 1..Len(s.strips) : t[i] = IF i = d THEN w ELSE s.strips[i]
    BY <1>1, <1>3
  <1> HIDE DEF t
  <1>5. /\ r \in Stacks(C) /\ r.strips = t /\ r.pos = s.pos /\ r.bytes = s.bytes
        /\ r.offset_pos = s.offset_pos
    BY <1>2, <1>4 DEF Stacks
  <1>6. SameWindows(s, r, C)
    BY <1>3, <1>4, <1>5 DEF SameWindows
  <1>7. QED
    BY <1>3, <1>4, <1>5, <1>6

ReadOn(s, n) == [s EXCEPT !.pos = s.pos + n, !.strips = Advance(s.strips, n)]

\* A read advances the source and every window above it alike.
LEMMA AllAdvance ==
  ASSUME NEW C, NEW s \in Stacks(C), NEW n \in Int, NEW r, r = ReadOn(s, n)
  PROVE  /\ SameWindows(s, r, C) /\ r.pos = s.pos + n
         /\ \A i \in 1..Len(s.strips) : r.strips[i].current = s.strips[i].current + n
  <1>1. /\ s.strips \in Seq(Windows) /\ Len(s.strips) \in Nat /\ s.pos \in Int
        /\ \A i \in 1..Len(s.strips) : s.strips[i] \in Windows
    BY StackTypes
  <1> DEFINE t == Advance(s.strips, n)
             L == Len(s.strips)
  <1>2. r = [s EXCEPT !.pos = s.pos + n, !.strips = t]
    BY DEF ReadOn
  <1>3. DOMAIN t = 1..L
    BY <1>1 DEF Advance
  <1>4. ASSUME NEW i \in 1..L
        PROVE  /\ t[i] \in Windows /\ t[i].current = s.strips[i].current + n
               /\ t[i].head_len = s.strips[i].head_len /\ t[i].tail_len = s.strips[i].tail_len
               /\ t[i].inner_len = s.strips[i].inner_len
    <2> DEFINE w == s.strips[i]
    <2>1. w \in Windows /\ t[i] = [w EXCEPT !.current = w.current + n]
      BY <1>1 DEF Advance
    <2> HIDE DEF w, t
    <2>2. /\ t[i] \in Windows /\ t[i].current = w.current + n
          /\ t[i].head_len = w.head_len /\ t[i].tail_len = w.tail_len
          /\ t[i].inner_len = w.inner_len
      BY <2>1 DEF Windows
    <2>3. QED
      BY <2>2 DEF w
  <1>5. t \in Seq(Windows) /\ Len(t) = L
    <2>1. t = [i \in 1..L |-> t[i]]
      BY <1>1 DEF Advance
    <2> HIDE DEF t, L
    <2>2. t \in [1..L -> Windows]
      BY <1>4, <2>1
    <2>3. L \in Nat
      BY <1>1 DEF L
    <2>4. QED
      BY <2>2, <2>3
  <1> HIDE DEF t
  <1>6. /\ r \in Stacks(C) /\ r.strips = t /\ r.pos = s.pos + n /\ r.bytes = s.bytes
        /\ r.offset_pos = s.offset_pos
    <2> DEFINE p == s.pos + n
    <2>1. p \in Int /\ r = [s EXCEPT !.pos = p, !.strips = t]
      BY <1>1, <1>2
    <2> HIDE DEF p
    <2>2. /\ r \in Stacks(C) /\ r.strips = t /\ r.pos = p /\ r.bytes = s.bytes
          /\ r.offset_pos = s.offset_pos
      BY <1>5, <2>1 DEF Stacks
    <2>3. QED
      BY <2>2 DEF p
  <1>7. SameWindows(s, r, C)
    BY <1>4, <1>5, <1>6 DEF SameWindows
  <1>8. QED
    BY <1>4, <1>6, <1>7
(***************************************************************************)
(* seek, window by window.  Moved: the windows up to d stand on the place  *)
(* `to` of the window d; those above it were not told.                     *)
(***************************************************************************)
Moved(s, r, d, to, C) ==
    /\ SameWindows(s, r, C) /\ r.pos = Base(s, d) + to
    /\ \A i \in 1..d : r.strips[i].current = r.pos - Base(s, i)
    /\ \A i \in d + 1..Len(s.strips) : r.strips[i].current = s.strips[i].current

\* Setting the position of the source moves it and no window.
LEMMA MovedSource ==
  ASSUME NEW C, NEW s, Stacked(s, C), NEW to \in Int, NEW r, r = [s EXCEPT !.pos = to]
  PROVE  Moved(s, r, 0, to - s.offset_pos, C)
  <1>1. s \in Stacks(C) /\ s.offset_pos \in Int /\ Len(s.strips) \in Nat
    BY StackTypes DEF Stacked
  <1>2. /\ r \in Stacks(C) /\ r.bytes = s.bytes /\ r.offset_pos = s.offset_pos
        /\ r.strips = s.strips /\ r.pos = to
    BY <1>1 DEF Stacks
  <1>3. SameWindows(s, r, C)
    BY <1>2 DEF SameWindows
  <1>4. r.pos = Base(s, 0) + (to - s.offset_pos)
    BY <1>1, <1>2 DEF Base
  <1>5. QED
    BY <1>2, <1>3, <1>4 DEF Moved

Whences == {"Start", "Current", "End"}

\* The place in the window d that a seek asks for.
Wanted(s, d, whence, by) ==
    CASE whence = "Start" -> by
      [] whence = "Current" -> s.pos - Base(s, d) + by
      [] whence = "End" -> Shown(s, d) + by

\* A raw seek to before the start ends on the start, or is refused.
RawLands(s, whence, by, r, C) ==
    /\ Wanted(s, 0, whence, by) >= 0 => r.ok /\ r.value = Wanted(s, 0, whence, by)
    /\ Wanted(s, 0, whence, by) < 0 /\ r.ok => r.value = 0
    /\ r.ok => Moved(s, r.io, 0, r.value, C)

\* A seek of the innermost reader lands where it says.
LEMMA SeekRawLands ==
  ASSUME NEW C, NEW s, Stacked(s, C), NEW whence \in Whences, NEW by \in Int,
         whence = "Start" => by >= 0, NEW r \in SeekRaw(s, whence, by)
  PROVE  RawLands(s, whence, by, r, C)
  <1> DEFINE o == s.offset_pos
             n == Len(s.bytes)
             at(to) == [s EXCEPT !.pos = to]
             wanted == Wanted(s, 0, whence, by)
  <1>1. s \in Stacks(C) /\ o \in Nat /\ s.pos \in Int /\ n \in Nat
    <2>1. s \in Stacks(C) /\ s.offset_pos \in 0..Len(s.bytes)
      BY DEF Stacked
    <2>2. Len(s.bytes) \in Nat /\ s.pos \in Int
      BY <2>1, StackTypes
    <2>3. QED
      BY <2>1, <2>2
  <1>2. ASSUME NEW to \in Int PROVE Moved(s, at(to), 0, to - o, C)
    BY MovedSource
  <1>3. CASE whence = "Start"
    <2>1. r = [ok |-> TRUE, io |-> at(o + by), value |-> by] /\ o + by \in Int
      BY <1>1, <1>3 DEF SeekRaw, Then, SeekSource, Ok, Error
    <2>2. r.ok /\ r.io = at(o + by) /\ r.value = by
      BY <2>1
    <2>3. wanted = by /\ (o + by) - o = by /\ ~(by < 0)
      BY <1>1, <1>3 DEF Wanted
    <2> DEFINE to == o + by
    <2> HIDE DEF to
    <2>4. Moved(s, at(to), 0, to - o, C)
      BY <1>2, <2>1 DEF to
    <2>5. QED
      BY <2>2, <2>3, <2>4 DEF to, RawLands
  <1>4. ASSUME NEW to \in Int, whence # "Start", to - o = wanted,
               SeekSource(s, whence, by) =
                 (IF to < 0 THEN Error("io") ELSE Ok([s EXCEPT !.pos = to], to))
        PROVE  RawLands(s, whence, by, r, C)
    <2> HIDE DEF wanted
    <2>1. CASE to < 0
      <3>1. SeekSource(s, whence, by) = Error("io")
        BY <1>4, <2>1
      <3>2. ~r.ok
        BY <1>4, <3>1 DEF SeekRaw, Then, Error
      <3>3. wanted < 0 /\ ~(wanted >= 0)
        BY <1>1, <1>4, <2>1
      <3>4. QED
        BY <3>2, <3>3 DEF RawLands, wanted
    <2>2. CASE ~(to < 0)
      <3> DEFINE x == [ok |-> TRUE, io |-> at(to), value |-> to]
      <3>1. SeekSource(s, whence, by) = {x}
        BY <1>4, <2>2 DEF Ok
      <3>2. x.ok = TRUE /\ x.io = at(to) /\ x.value = to
        OBVIOUS
      <3> HIDE DEF x
      <3>3. r \in (IF x.value < o THEN Then(SeekSource(x.io, "Start", o), LAMBDA q : Ok(q.io, 0))
                   ELSE Ok(x.io, x.value - o))
        BY <1>4, <3>1, <3>2 DEF SeekRaw, Then
      <3>4. CASE to < o
        <4>1. r \in Then(SeekSource(at(to), "Start", o), LAMBDA q : Ok(q.io, 0))
          BY <3>2, <3>3, <3>4
        <4>2. SeekSource(at(to), "Start", o) = Ok([at(to) EXCEPT !.pos = o], o)
          BY <1>1 DEF SeekSource
        <4>3. [at(to) EXCEPT !.pos = o] = at(o)
          BY <1>1 DEF Stacks
        <4>4. r.ok /\ r.value = 0 /\ r.io = at(o)
          BY <4>1, <4>2, <4>3 DEF Then, Ok
        <4>5. wanted < 0 /\ ~(wanted >= 0) /\ o - o = 0 /\ o \in Int
          BY <1>1, <1>4, <3>4
        <4>6. Moved(s, at(o), 0, o - o, C)
          BY <1>2, <4>5
        <4>7. QED
          BY <4>4, <4>5, <4>6 DEF RawLands, wanted
      <3>5. CASE ~(to < o)
        <4>1. r \in Ok(at(to), to - o)
          BY <3>2, <3>3, <3>5
        <4>2. r.ok /\ r.io = at(to) /\ r.value = wanted
          BY <1>4, <4>1 DEF Ok
        <4>3. ~(wanted < 0)
          BY <1>1, <1>4, <3>5
        <4>4. QED
          BY <1>2, <1>4, <4>2, <4>3 DEF RawLands, wanted
      <3>6. QED
        BY <3>4, <3>5
    <2>3. QED
      BY <2>1, <2>2
  <1>5. CASE whence = "Current"
    <2> DEFINE to == s.pos + by
    <2>1. to \in Int /\ to - o = wanted
      BY <1>1, <1>5 DEF Wanted, Base
    <2>2. SeekSource(s, whence, by) = (IF to < 0 THEN Error("io") ELSE Ok([s EXCEPT !.pos = to], to))
      BY <1>5 DEF SeekSource
    <2> HIDE DEF to
    <2>3. QED
      BY <1>4, <1>5, <2>1, <2>2
  <1>6. CASE whence = "End"
    <2> DEFINE to == Len(s.bytes) + by
    <2>1. to \in Int /\ to - o = wanted
      BY <1>1, <1>6 DEF Wanted, Shown
    <2>2. SeekSource(s, whence, by) = (IF to < 0 THEN Error("io") ELSE Ok([s EXCEPT !.pos = to], to))
      BY <1>6 DEF SeekSource
    <2> HIDE DEF to
    <2>3. QED
      BY <1>4, <1>6, <2>1, <2>2
  <1>7. QED
    BY <1>3, <1>5, <1>6 DEF Whences

\* What a good stack says of one of its windows.
LEMMA GoodFacts ==
  ASSUME NEW C, NEW s, Good(s, C), NEW d \in 1..Len(s.strips)
  PROVE  /\ s \in Stacks(C) /\ s.pos \in Int /\ d \in {1, 2, 3} /\ d - 1 \in 0..Len(s.strips)
         /\ Base(s, d - 1) \in Nat /\ Shown(s, d - 1) \in Nat
         /\ Base(s, d) \in Nat /\ Shown(s, d) \in Nat
         /\ s.strips[d].head_len \in Nat /\ s.strips[d].tail_len \in Nat
         /\ Base(s, d) = Base(s, d - 1) + s.strips[d].head_len
         /\ Shown(s, d) = Shown(s, d - 1) - s.strips[d].head_len - s.strips[d].tail_len
         /\ s.strips[d].inner_len = Shown(s, d - 1)
         /\ s.strips[d].current = s.pos - Base(s, d)
         /\ StripLength(s.strips[d]) = Shown(s, d)
  <1>1. /\ Stacked(s, C) /\ s \in Stacks(C) /\ Len(s.strips) \in 0..3 /\ Inside(s, d)
        /\ Agrees(s, d)
    BY DEF Good, Stacked
  <1> DEFINE n == Len(s.strips)
  <1>2. n \in 0..3 /\ d \in 1..n
    BY <1>1
  <1>3. d \in {1, 2, 3} /\ d - 1 \in 0..n /\ d \in 0..n /\ d # 0
    <2> HIDE DEF n
    <2>1. QED
      BY <1>2
  <1>4. /\ Base(s, d - 1) \in Nat /\ Shown(s, d - 1) \in Nat
    BY <1>1, <1>3, WindowsNest
  <1>5. /\ Base(s, d) \in Nat /\ Shown(s, d) \in Nat
        /\ Base(s, d) = Base(s, d - 1) + s.strips[d].head_len
        /\ Shown(s, d) = Shown(s, d - 1) - s.strips[d].head_len - s.strips[d].tail_len
    BY <1>1, <1>3, WindowsNest
  <1>6. /\ s.pos \in Int /\ s.strips[d].head_len \in Int /\ s.strips[d].tail_len \in Int
    BY <1>1, StackTypes
  <1>7. /\ s.strips[d].head_len >= 0 /\ s.strips[d].tail_len >= 0
        /\ s.strips[d].inner_len = Shown(s, d - 1)
    BY <1>1 DEF Inside
  <1>8. StripLength(s.strips[d]) = Shown(s, d)
    BY <1>3 DEF Shown
  <1>9. s.strips[d].current = s.pos - Base(s, d)
    BY <1>1 DEF Agrees
  <1>10. QED
    BY <1>1, <1>3, <1>4, <1>5, <1>6, <1>7, <1>8, <1>9

\* A window shows what is between its head and its tail.
LEMMA ShownNarrows ==
  ASSUME NEW C, NEW s, Good(s, C)
  PROVE  \A d \in 1..Len(s.strips) :
           /\ Shown(s, d - 1) \in Nat /\ Shown(s, d) \in Nat
           /\ s.strips[d].head_len \in Nat /\ s.strips[d].tail_len \in Nat
           /\ Shown(s, d) = Shown(s, d - 1) - s.strips[d].head_len - s.strips[d].tail_len
  <1> TAKE d \in 1..Len(s.strips)
  <1> QED
    BY GoodFacts

\* The place a window asks the layer below for is its own, shifted by the head.
LEMMA WantedBelow ==
  ASSUME NEW C, NEW s, Good(s, C), NEW d \in 1..Len(s.strips), NEW whence \in Whences,
         NEW by \in Int
  PROVE  /\ Wanted(s, d, whence, by) \in Int /\ Lowered(s, d, whence, by) \in Int
         /\ Wanted(s, d - 1, whence, Lowered(s, d, whence, by)) =
              s.strips[d].head_len + Wanted(s, d, whence, by)
  <1> DEFINE p == s.pos
             b0 == Base(s, d - 1)
             b1 == Base(s, d)
             n0 == Shown(s, d - 1)
             n1 == Shown(s, d)
             h == s.strips[d].head_len
             t == s.strips[d].tail_len
  <1>1. /\ p \in Int /\ b0 \in Nat /\ n0 \in Nat /\ b1 \in Nat /\ n1 \in Nat /\ h \in Nat
        /\ t \in Nat /\ b1 = b0 + h /\ n1 = n0 - h - t
    BY GoodFacts
  <1>2. /\ Wanted(s, d, whence, by) = CASE whence = "Start" -> by
                                        [] whence = "Current" -> p - b1 + by
                                        [] whence = "End" -> n1 + by
        /\ Lowered(s, d, whence, by) = CASE whence = "Start" -> by + h
                                         [] whence = "Current" -> by
                                         [] whence = "End" -> by - t
    BY DEF Wanted, Lowered
  <1> DEFINE l == Lowered(s, d, whence, by)
  <1>3. Wanted(s, d - 1, whence, l) = CASE whence = "Start" -> l
                                        [] whence = "Current" -> p - b0 + l
                                        [] whence = "End" -> n0 + l
    BY DEF Wanted
  <1> HIDE DEF p, b0, b1, n0, n1, h, t
  <1>4. CASE whence = "Start"
    <2>1. l = by + h /\ Wanted(s, d, whence, by) = by /\ Wanted(s, d - 1, whence, l) = l
      BY <1>2, <1>3, <1>4
    <2>2. QED
      BY <1>1, <2>1, SMTT(60) DEF h
  <1>5. CASE whence = "Current"
    <2>1. /\ l = by /\ Wanted(s, d, whence, by) = p - b1 + by
          /\ Wanted(s, d - 1, whence, l) = p - b0 + l
      BY <1>2, <1>3, <1>5
    <2>2. p - b0 + by = h + (p - b1 + by) /\ p - b1 + by \in Int
      BY ONLY <1>1, by \in Int
    <2>3. QED
      BY <2>1, <2>2 DEF h
  <1>6. CASE whence = "End"
    <2>1. /\ l = by - t /\ Wanted(s, d, whence, by) = n1 + by
          /\ Wanted(s, d - 1, whence, l) = n0 + l
      BY <1>2, <1>3, <1>6
    <2>2. n0 + (by - t) = h + (n1 + by) /\ n1 + by \in Int /\ by - t \in Int
      BY ONLY <1>1, by \in Int
    <2>3. QED
      BY <2>1, <2>2 DEF h
  <1>7. QED
    BY <1>4, <1>5, <1>6 DEF Whences

\* A window that stands where its layer below stands has moved.
LEMMA StripMoves ==
  ASSUME NEW C, NEW s, Good(s, C), NEW d \in 1..Len(s.strips), NEW to \in Int, NEW b,
         Moved(s, b, d - 1, s.strips[d].head_len + to, C),
         NEW r, r = StandAt(b, d, to)
  PROVE  Moved(s, r, d, to, C)
  <1> DEFINE n == Len(s.strips)
             h == s.strips[d].head_len
  <1>1. /\ d \in {1, 2, 3} /\ d \in Nat /\ n \in Nat /\ Base(s, d) = Base(s, d - 1) + h
        /\ Base(s, d - 1) \in Nat /\ h \in Nat
    <2>1. n \in Nat
      BY StackTypes DEF Good, Stacked
    <2>2. QED
      BY <2>1, GoodFacts
  <1>2. /\ SameWindows(s, b, C) /\ b.pos = Base(s, d - 1) + (h + to)
        /\ \A i \in 1..d - 1 : b.strips[i].current = b.pos - Base(s, i)
        /\ \A i \in (d - 1) + 1..n : b.strips[i].current = s.strips[i].current
    BY DEF Moved
  <1>3. b \in Stacks(C) /\ Len(b.strips) = n
    BY <1>2 DEF SameWindows
  <1>4. /\ SameWindows(b, r, C) /\ r.pos = b.pos /\ r.strips[d].current = to
        /\ \A i \in 1..n : i # d => r.strips[i].current = b.strips[i].current
    BY <1>3, CountSet, SMTT(60)
  <1>5. SameWindows(s, r, C)
    BY <1>2, <1>4 DEF SameWindows
  <1> HIDE DEF n, h
  <1>6. r.pos = Base(s, d) + to
    BY <1>1, <1>2, <1>4
  <1>7. ASSUME NEW i \in 1..d PROVE r.strips[i].current = r.pos - Base(s, i)
    <2>1. CASE i = d
      BY <1>1, <1>4, <1>6, <2>1
    <2>2. CASE i # d
      <3>1. i \in 1..d - 1 /\ i \in 1..n
        BY <1>1, <2>2 DEF n
      <3>2. QED
        BY <1>2, <1>4, <2>2, <3>1
    <2>3. QED
      BY <2>1, <2>2
  <1>8. ASSUME NEW i \in d + 1..n PROVE r.strips[i].current = s.strips[i].current
    <2>1. i \in (d - 1) + 1..n /\ i # d /\ i \in 1..n
      BY <1>1
    <2>2. QED
      BY <1>2, <1>4, <2>1
  <1>9. QED
    BY <1>5, <1>6, <1>7, <1>8 DEF Moved, n
\* What a seek through the window d answers.
Lands(s, d, whence, by, r, C) ==
    IF r.ok THEN /\ Moved(s, r.io, d, r.value, C) /\ r.value = Wanted(s, d, whence, by)
                 /\ r.value \in 0..Shown(s, d)
    ELSE Wanted(s, d, whence, by) \notin 0..Shown(s, d)

\* What it does with the answer of the one below: it takes the place it was asked for.
StripAnswers(s, d, whence, by, b, r) ==
    IF b.ok THEN /\ r.ok /\ r.value = Wanted(s, d, whence, by)
                 /\ r.io = StandAt(b.io, d, Wanted(s, d, whence, by))
    ELSE ~r.ok

\* The place is refused, or asked of the window below.
StripAsks(s, d, whence, by, r, below) ==
    \/ ~r.ok /\ Wanted(s, d, whence, by) \notin 0..Shown(s, d)
    \/ /\ Wanted(s, d, whence, by) \in 0..Shown(s, d)
       /\ \E b \in below : StripAnswers(s, d, whence, by, b, r)

\* StripHeadTailReader::seek fails, or asks the layer below once.
LEMMA SeekStripAsks ==
  ASSUME NEW C, NEW s, Good(s, C), NEW d \in 1..Len(s.strips), NEW whence \in Whences,
         NEW by \in Int, whence = "Start" => by >= 0, NEW below,
         NEW r \in SeekStrip(s, d, whence, by, below)
  PROVE  StripAsks(s, d, whence, by, r, below)
  <1> DEFINE w == s.strips[d]
             h == w.head_len
             t == w.tail_len
             n == Shown(s, d)
             c == w.current
             inner == w.inner_len
             to == Wanted(s, d, whence, by)
             current == CASE whence = "Start" -> by
                          [] whence = "Current" -> c + by
                          [] whence = "End" -> StripLength(w) + by
             refused == CASE whence = "Start" -> by + h > inner - t
                          [] whence = "Current" -> current < 0 \/ current > StripLength(w)
                          [] whence = "End" -> current < 0 \/ by > 0
  <1>1. /\ h \in Nat /\ t \in Nat /\ n \in Nat /\ c \in Int /\ StripLength(w) = n
        /\ inner - t = n + h /\ c = s.pos - Base(s, d)
    <2>1. /\ h \in Nat /\ t \in Nat /\ n \in Nat /\ c = s.pos - Base(s, d) /\ s.pos \in Int
          /\ StripLength(w) = n /\ Base(s, d) \in Nat /\ inner = Shown(s, d - 1)
          /\ n = Shown(s, d - 1) - h - t /\ Shown(s, d - 1) \in Nat
      BY GoodFacts
    <2>2. QED
      BY <2>1, SMTT(60)
  <1>2. r \in IF refused THEN Error("InvalidInput")
              ELSE Then(below, LAMBDA q : Ok(StandAt(q.io, d, current), current))
    BY DEF SeekStrip
  <1>3. to \in Int /\ current = to /\ (refused <=> to \notin 0..n)
    <2>1. CASE whence = "Start"
      <3>1. to = by /\ current = by /\ (refused <=> by + h > inner - t)
        BY <2>1 DEF Wanted
      <3> HIDE DEF to, current, refused, n, h, inner, t
      <3>2. QED
        BY <1>1, <2>1, <3>1
    <2>2. CASE whence = "Current"
      <3>1. to = c + by /\ current = c + by /\ (refused <=> current < 0 \/ current > n)
        BY <1>1, <2>2 DEF Wanted
      <3> HIDE DEF to, current, refused, n, h, inner, t, c
      <3>2. QED
        BY <1>1, <2>2, <3>1
    <2>3. CASE whence = "End"
      <3>1. to = n + by /\ current = n + by /\ (refused <=> current < 0 \/ by > 0)
        BY <1>1, <2>3 DEF Wanted
      <3> HIDE DEF to, current, refused, n, h, inner, t, c
      <3>2. QED
        BY <1>1, <2>3, <3>1
    <2>4. QED
      BY <2>1, <2>2, <2>3 DEF Whences
  <1> HIDE DEF refused, current, to, n
  <1>4. CASE refused
    <2>1. ~r.ok
      BY <1>2, <1>4 DEF Error
    <2>2. QED
      BY <1>3, <1>4, <2>1 DEF StripAsks, to, n
  <1>5. CASE ~refused
    <2>1. r \in Then(below, LAMBDA q : Ok(StandAt(q.io, d, to), to))
      BY <1>2, <1>3, <1>5
    <2>2. \E b \in below : IF b.ok THEN r \in Ok(StandAt(b.io, d, to), to) ELSE r = b
      BY <2>1 DEF Then
    <2>3. \E b \in below : StripAnswers(s, d, whence, by, b, r)
      BY <2>2 DEF Ok, StripAnswers, to
    <2>4. QED
      BY <1>3, <1>5, <2>3 DEF StripAsks, to, n
  <1>6. QED
    BY <1>4, <1>5
\* From the window below to this one.
LEMMA StripLands ==
  ASSUME NEW C, NEW s, Good(s, C), NEW d \in 1..Len(s.strips), NEW whence \in Whences,
         NEW by \in Int, whence = "Start" => by >= 0, NEW below,
         NEW r \in SeekStrip(s, d, whence, by, below),
         Wanted(s, d, whence, by) \in 0..Shown(s, d) =>
           \A b \in below :
             b.ok /\ Moved(s, b.io, d - 1, s.strips[d].head_len + Wanted(s, d, whence, by), C)
  PROVE  Lands(s, d, whence, by, r, C)
  <1> DEFINE to == Wanted(s, d, whence, by)
             n == Shown(s, d)
  <1>1. StripAsks(s, d, whence, by, r, below)
    BY SeekStripAsks
  <1>2. CASE to \notin 0..n
    BY <1>1, <1>2 DEF StripAsks, Lands
  <1>3. CASE to \in 0..n
    <2>1. PICK b \in below : StripAnswers(s, d, whence, by, b, r)
      BY <1>1, <1>3 DEF StripAsks
    <2>2. b.ok /\ Moved(s, b.io, d - 1, s.strips[d].head_len + to, C) /\ to \in Int
      BY <1>3
    <2>3. r.ok /\ r.value = to /\ r.io = StandAt(b.io, d, to)
      BY <2>1, <2>2 DEF StripAnswers
    <2> HIDE DEF to, n
    <2>4. Moved(s, r.io, d, to, C)
      BY <2>2, <2>3, StripMoves
    <2>5. QED
      BY <1>3, <2>3, <2>4 DEF Lands, to, n
  <1>4. QED
    BY <1>2, <1>3

\* A place from the start stays one in the layer below.
LEMMA LowersStart ==
  ASSUME NEW C, NEW s, Good(s, C), NEW d \in 1..Len(s.strips), NEW by \in Int, by >= 0
  PROVE  Lowered(s, d, "Start", by) >= 0
  <1>1. Lowered(s, d, "Start", by) = by + s.strips[d].head_len
    BY DEF Lowered
  <1>2. s.strips[d].head_len \in Nat
    BY GoodFacts
  <1>3. QED
    BY <1>1, <1>2

\* A seek through one window lands where it says.
LEMMA SeekOneLands ==
  ASSUME NEW C, NEW s, Good(s, C), Len(s.strips) >= 1, NEW whence \in Whences,
         NEW by \in Int, whence = "Start" => by >= 0, NEW r \in SeekOne(s, whence, by)
  PROVE  Lands(s, 1, whence, by, r, C)
  <1> DEFINE low == Lowered(s, 1, whence, by)
             to == Wanted(s, 1, whence, by)
             n == Shown(s, 1)
             h == s.strips[1].head_len
  <1>1. 1 \in 1..Len(s.strips) /\ Stacked(s, C)
    BY StackTypes DEF Good, Stacked
  <1>2. to \in Int /\ low \in Int /\ Wanted(s, 1 - 1, whence, low) = h + to
    BY <1>1, WantedBelow
  <1>3. h \in Nat /\ n \in Nat
    BY <1>1, GoodFacts
  <1>4. whence = "Start" => low >= 0
    BY <1>1, LowersStart
  <1>5. r \in SeekStrip(s, 1, whence, by, SeekRaw(s, whence, low))
    BY DEF SeekOne
  <1> HIDE DEF low, to, n, h
  <1>6. ASSUME to \in 0..n, NEW b \in SeekRaw(s, whence, low)
        PROVE  b.ok /\ Moved(s, b.io, 1 - 1, h + to, C)
    <2>1. RawLands(s, whence, low, b, C)
      BY <1>1, <1>2, <1>4, SeekRawLands
    <2>2. Wanted(s, 0, whence, low) = h + to /\ h + to >= 0
      BY <1>2, <1>3, <1>6
    <2>3. b.ok /\ Moved(s, b.io, 0, h + to, C)
      BY <2>1, <2>2 DEF RawLands
    <2>4. QED
      BY <2>3
  <1>7. QED
    BY <1>1, <1>5, <1>6, StripLands DEF low, to, n, h

\* A seek through two windows lands where it says.
LEMMA SeekTwoLands ==
  ASSUME NEW C, NEW s, Good(s, C), Len(s.strips) >= 2, NEW whence \in Whences,
         NEW by \in Int, whence = "Start" => by >= 0, NEW r \in SeekTwo(s, whence, by)
  PROVE  Lands(s, 2, whence, by, r, C)
  <1> DEFINE low == Lowered(s, 2, whence, by)
             to == Wanted(s, 2, whence, by)
             n == Shown(s, 2)
             m == Shown(s, 1)
             h == s.strips[2].head_len
             t == s.strips[2].tail_len
  <1>1. 2 \in 1..Len(s.strips) /\ 2 - 1 = 1 /\ Len(s.strips) >= 1
    BY StackTypes DEF Good, Stacked
  <1>2. to \in Int /\ low \in Int /\ Wanted(s, 1, whence, low) = h + to
    BY <1>1, WantedBelow
  <1>3. h \in Nat /\ n \in Nat /\ m \in Nat /\ t \in Nat /\ n = m - h - t
    BY <1>1, ShownNarrows
  <1>4. whence = "Start" => low >= 0
    BY <1>1, LowersStart
  <1>5. r \in SeekStrip(s, 2, whence, by, SeekOne(s, whence, low))
    BY DEF SeekTwo
  <1> HIDE DEF low, to, n, h, m, t
  <1>6. ASSUME to \in 0..n, NEW b \in SeekOne(s, whence, low)
        PROVE  b.ok /\ Moved(s, b.io, 1, h + to, C)
    <2>1. Lands(s, 1, whence, low, b, C)
      BY <1>1, <1>2, <1>4, SeekOneLands
    <2>2. h + to \in 0..m
      BY <1>2, <1>3, <1>6
    <2>3. QED
      BY <1>2, <2>1, <2>2 DEF Lands, m
  <1>7. QED
    BY <1>1, <1>5, <1>6, StripLands DEF low, to, n, h

\* A seek through three windows lands where it says.
LEMMA SeekThreeLands ==
  ASSUME NEW C, NEW s, Good(s, C), Len(s.strips) = 3, NEW whence \in Whences,
         NEW by \in Int, whence = "Start" => by >= 0, NEW r \in SeekThree(s, whence, by)
  PROVE  Lands(s, 3, whence, by, r, C)
  <1> DEFINE low == Lowered(s, 3, whence, by)
             to == Wanted(s, 3, whence, by)
             n == Shown(s, 3)
             m == Shown(s, 2)
             h == s.strips[3].head_len
             t == s.strips[3].tail_len
  <1>1. 3 \in 1..Len(s.strips) /\ 3 - 1 = 2 /\ Len(s.strips) >= 2
    BY StackTypes DEF Good, Stacked
  <1>2. to \in Int /\ low \in Int /\ Wanted(s, 2, whence, low) = h + to
    BY <1>1, WantedBelow
  <1>3. h \in Nat /\ n \in Nat /\ m \in Nat /\ t \in Nat /\ n = m - h - t
    BY <1>1, ShownNarrows
  <1>4. whence = "Start" => low >= 0
    BY <1>1, LowersStart
  <1>5. r \in SeekStrip(s, 3, whence, by, SeekTwo(s, whence, low))
    BY DEF SeekThree
  <1> HIDE DEF low, to, n, h, m, t
  <1>6. ASSUME to \in 0..n, NEW b \in SeekTwo(s, whence, low)
        PROVE  b.ok /\ Moved(s, b.io, 2, h + to, C)
    <2>1. Lands(s, 2, whence, low, b, C)
      BY <1>1, <1>2, <1>4, SeekTwoLands
    <2>2. h + to \in 0..m
      BY <1>2, <1>3, <1>6
    <2>3. QED
      BY <1>2, <2>1, <2>2 DEF Lands, m
  <1>7. QED
    BY <1>1, <1>5, <1>6, StripLands DEF low, to, n, h
-----------------------------------------------------------------------------
(***************************************************************************)
(* The calls of the layers, over the view.                                 *)
(***************************************************************************)
Stands(s, r, at, C) ==
    /\ Good(r, C) /\ SameWindows(s, r, C) /\ Here(r) = at
    /\ View(r) = View(s) /\ Size(r) = Size(s) /\ Top(r) = Top(s)

\* A good stack is a cursor over what its top window shows.
LEMMA CursorTypes ==
  ASSUME NEW C, NEW s, Good(s, C)
  PROVE  /\ Stacked(s, C) /\ s \in Stacks(C) /\ Here(s) \in Nat /\ Size(s) \in Nat
         /\ Top(s) \in 0..3 /\ Base(s, Top(s)) \in Nat /\ s.pos = Base(s, Top(s)) + Here(s)
         /\ s.bytes \in Seq(C) /\ Base(s, Top(s)) + Size(s) <= Len(s.bytes)
         /\ View(s) \in Seq(C) /\ Len(View(s)) = Size(s)
         /\ \A i \in 1..Size(s) : View(s)[i] = s.bytes[Base(s, Top(s)) + i]
  <1>1. Stacked(s, C) /\ Here(s) >= 0
    BY DEF Good
  <1>2. s \in Stacks(C) /\ Len(s.strips) \in 0..3
    BY <1>1 DEF Stacked
  <1>3. s.pos \in Int /\ s.bytes \in Seq(C) /\ Len(s.bytes) \in Nat
    BY <1>2, StackTypes
  <1> DEFINE t == Top(s)
             b == Base(s, t)
             n == Size(s)
  <1>4. t \in 0..3 /\ t \in 0..Len(s.strips)
    BY <1>2 DEF Top
  <1>5. b \in Nat /\ n \in Nat /\ b + n <= Len(s.bytes)
    BY <1>1, <1>4, WindowsNest DEF Size
  <1>6. View(s) = SubSeq(s.bytes, b + 1, b + n)
    BY DEF View
  <1>7. Here(s) = s.pos - b
    BY DEF Here
  <1> HIDE DEF t, b, n
  <1>8. View(s) \in Seq(C) /\ Len(View(s)) = n /\ \A i \in 1..n : View(s)[i] = s.bytes[b + i]
    BY <1>3, <1>5, <1>6, PieceFacts
  <1>9. Here(s) \in Nat /\ s.pos = b + Here(s)
    BY <1>1, <1>3, <1>5, <1>7
  <1>10. QED
    BY <1>1, <1>2, <1>3, <1>4, <1>5, <1>8, <1>9 DEF t, b, n

\* A stack whose top window moved stands there.
LEMMA MovedStands ==
  ASSUME NEW C, NEW s, Stacked(s, C), NEW r, NEW to \in Nat, Moved(s, r, Top(s), to, C)
  PROVE  Stands(s, r, to, C)
  <1>1. /\ SameWindows(s, r, C) /\ r.pos = Base(s, Top(s)) + to
        /\ \A i \in 1..Len(s.strips) : r.strips[i].current = r.pos - Base(s, i)
    BY DEF Moved, Top
  <1>2. Base(s, Top(s)) \in Nat
    <2>1. Top(s) \in 0..Len(s.strips)
      BY StackTypes DEF Top, Stacked
    <2>2. QED
      BY <2>1, WindowsNest
  <1>3. r.pos - Base(s, Top(s)) = to /\ r.pos - Base(s, Top(s)) >= 0
    BY <1>1, <1>2
  <1>4. /\ Good(r, C) /\ View(r) = View(s) /\ Size(r) = Size(s) /\ Top(r) = Top(s)
        /\ Here(r) = r.pos - Base(s, Top(s))
    BY <1>1, <1>3, PlacedIsGood
  <1>5. QED
    BY <1>1, <1>3, <1>4 DEF Stands

\* Where a seek goes: a place before the start is the start, or refused.
Goal(s, whence, by) ==
    CASE whence = "Start" -> by
      [] whence = "Current" -> Here(s) + by
      [] whence = "End" -> Size(s) + by

Sought(s, whence, by, r, C) ==
    /\ r.ok => /\ r.value \in Nat /\ Stands(s, r.io, r.value, C)
               /\ r.value = IF Goal(s, whence, by) < 0 THEN 0 ELSE Goal(s, whence, by)
               /\ Top(s) # 0 => Goal(s, whence, by) \in 0..Size(s)
    /\ ~r.ok => Goal(s, whence, by) \notin 0..Size(s)

\* Seek moves the cursor to the place asked for.
LEMMA SeekStands ==
  ASSUME NEW C, NEW s, Good(s, C), NEW whence \in Whences, NEW by \in Int,
         whence = "Start" => by >= 0, NEW r \in Seek(s, whence, by)
  PROVE  Sought(s, whence, by, r, C)
  <1> DEFINE t == Top(s)
             goal == Goal(s, whence, by)
             n == Size(s)
  <1>1. /\ Stacked(s, C) /\ Here(s) \in Nat /\ n \in Nat /\ t \in 0..3 /\ t = Len(s.strips)
    BY CursorTypes DEF Top
  <1>2. goal \in Int /\ Wanted(s, t, whence, by) = goal /\ Shown(s, t) = n
    BY <1>1 DEF Goal, Wanted, Here, Size, Whences
  <1> HIDE DEF t, goal, n
  <1>3. CASE t = 0
    <2>1. r \in SeekRaw(s, whence, by)
      BY <1>1, <1>3 DEF Seek
    <2>2. RawLands(s, whence, by, r, C)
      BY <1>1, <2>1, SeekRawLands
    <2>3. /\ goal >= 0 => r.ok /\ r.value = goal
          /\ goal < 0 /\ r.ok => r.value = 0
          /\ r.ok => Moved(s, r.io, t, r.value, C)
      BY <1>2, <1>3, <2>2 DEF RawLands
    <2>4. r.ok => r.value \in Nat /\ r.value = IF goal < 0 THEN 0 ELSE goal
      BY <1>2, <2>3
    <2>5. r.ok => Stands(s, r.io, r.value, C)
      BY <1>1, <2>3, <2>4, MovedStands DEF t
    <2>6. ~r.ok => goal \notin 0..n
      BY <1>1, <1>2, <2>3
    <2>7. QED
      BY <1>3, <2>4, <2>5, <2>6 DEF Sought, t, goal, n
  <1>4. CASE t # 0
    <2>1. Lands(s, t, whence, by, r, C)
      <3>1. CASE t = 1
        <4>1. r \in SeekOne(s, whence, by) /\ Len(s.strips) >= 1
          BY <1>1, <3>1 DEF Seek
        <4>2. QED
          BY <3>1, <4>1, SeekOneLands
      <3>2. CASE t = 2
        <4>1. r \in SeekTwo(s, whence, by) /\ Len(s.strips) >= 2
          BY <1>1, <3>2 DEF Seek
        <4>2. QED
          BY <3>2, <4>1, SeekTwoLands
      <3>3. CASE t = 3
        <4>1. r \in SeekThree(s, whence, by) /\ Len(s.strips) = 3
          BY <1>1, <3>3 DEF Seek
        <4>2. QED
          BY <3>3, <4>1, SeekThreeLands
      <3>4. QED
        BY <1>1, <1>4, <3>1, <3>2, <3>3
    <2>2. /\ r.ok => /\ Moved(s, r.io, t, r.value, C) /\ r.value = goal /\ r.value \in 0..n
          /\ ~r.ok => goal \notin 0..n
      BY <1>2, <2>1 DEF Lands
    <2>3. r.ok => r.value \in Nat /\ r.value = IF goal < 0 THEN 0 ELSE goal
      BY <1>1, <1>2, <2>2
    <2>4. r.ok => Stands(s, r.io, r.value, C)
      BY <1>1, <2>2, <2>3, MovedStands DEF t
    <2>5. QED
      BY <1>2, <2>2, <2>3, <2>4 DEF Sought, t, goal, n
  <1>5. QED
    BY <1>3, <1>4
\* Where the window d ends in the source: no window reaches behind the one below.
Ending(src, d) == Base(src, d) + Shown(src, d)

\* No window ends behind one that is below it.
LEMMA EndingsNest ==
  ASSUME NEW C, NEW s, Good(s, C), NEW i \in 0..Top(s)
  PROVE  /\ Ending(s, i) \in Nat /\ Ending(s, Top(s)) <= Ending(s, i)
         /\ Ending(s, 0) = Len(s.bytes)
  <1>1. Stacked(s, C) /\ Top(s) \in 0..3 /\ Top(s) = Len(s.strips)
    BY CursorTypes DEF Top
  <1> DEFINE E(d) == Ending(s, d)
             t == Top(s)
  <1>2. ASSUME NEW d \in 0..t PROVE E(d) \in Nat
    BY <1>1, WindowsNest DEF Ending
  <1>3. ASSUME NEW d \in 1..t PROVE E(d) <= E(d - 1)
    <2> DEFINE b0 == Base(s, d - 1)
               b1 == Base(s, d)
               n0 == Shown(s, d - 1)
               n1 == Shown(s, d)
               h == s.strips[d].head_len
               l == s.strips[d].tail_len
    <2>1. /\ b0 \in Nat /\ n0 \in Nat /\ b1 \in Nat /\ n1 \in Nat /\ h \in Nat
          /\ l \in Nat /\ b1 = b0 + h /\ n1 = n0 - h - l
      BY <1>1, GoodFacts
    <2>2. E(d) = b1 + n1 /\ E(d - 1) = b0 + n0
      BY DEF Ending
    <2> HIDE DEF b0, b1, n0, n1, h, l, E
    <2>3. QED
      BY <2>1, <2>2
  <1>4. E(0) = Len(s.bytes)
    <2>1. s.offset_pos \in Int /\ Len(s.bytes) \in Nat
      BY <1>1, StackTypes DEF Stacked
    <2>2. QED
      BY <2>1 DEF Ending, Base, Shown
  <1>5. t \in 0..3 /\ i \in 0..t
    BY <1>1
  <1> HIDE DEF E, t
  <1>6. E(t) <= E(i)
    <2>1. CASE i = t
      BY <1>2, <1>5, <2>1
    <2>2. CASE i + 1 = t
      BY <1>2, <1>3, <1>5, <2>2
    <2>3. CASE i + 2 = t
      <3>1. E(t) <= E(t - 1) /\ E(t - 1) <= E((t - 1) - 1) /\ (t - 1) - 1 = i
        BY <1>3, <1>5, <2>3
      <3>2. E(t) \in Nat /\ E(t - 1) \in Nat /\ E(i) \in Nat
        BY <1>2, <1>5, <2>3
      <3>3. QED
        BY <3>1, <3>2
    <2>4. CASE i + 3 = t
      <3>1. i = 0 /\ t = 3
        BY <1>5, <2>4
      <3>2. E(3) <= E(2) /\ E(2) <= E(1) /\ E(1) <= E(0)
        <4>1. 3 - 1 = 2 /\ 2 - 1 = 1 /\ 1 - 1 = 0 /\ 1 \in 1..t /\ 2 \in 1..t /\ 3 \in 1..t
          BY <3>1
        <4>2. QED
          BY <1>3, <4>1
      <3>3. E(3) \in Nat /\ E(2) \in Nat /\ E(1) \in Nat /\ E(0) \in Nat
        BY <1>2, <3>1
      <3>4. QED
        BY <3>1, <3>2, <3>3
    <2>5. QED
      BY <1>5, <2>1, <2>2, <2>3, <2>4
  <1>7. QED
    BY <1>2, <1>4, <1>5, <1>6 DEF E, t

\* What can be read is what the window on top has left.
LEMMA MostReadableIs ==
  ASSUME NEW C, NEW s, Good(s, C)
  PROVE  MostReadable(s) = Size(s) - Here(s)
  <1> DEFINE t == Top(s)
             p == s.pos
             left(i) == Left(s.strips[i])
             windows == {left(i) : i \in DOMAIN s.strips}
             all == windows \cup {Len(s.bytes) - p}
             m == Ending(s, t) - p
  <1>1. /\ s \in Stacks(C) /\ t \in 0..3 /\ t = Len(s.strips) /\ p \in Int
        /\ Len(s.bytes) \in Nat /\ DOMAIN s.strips = 1..t
    <2>1. s \in Stacks(C) /\ t \in 0..3 /\ t = Len(s.strips)
      BY CursorTypes DEF Top
    <2>2. p \in Int /\ Len(s.bytes) \in Nat /\ s.strips \in Seq(Windows)
      BY <2>1, StackTypes
    <2>3. QED
      BY <2>1, <2>2
  <1>2. \A i \in 0..t : Ending(s, i) \in Nat /\ Ending(s, t) <= Ending(s, i)
    BY EndingsNest
  <1>3. Ending(s, 0) = Len(s.bytes)
    BY <1>1, EndingsNest
  <1>4. ASSUME NEW i \in 1..t PROVE left(i) = Ending(s, i) - p
    <2>1. /\ StripLength(s.strips[i]) = Shown(s, i) /\ s.strips[i].current = p - Base(s, i)
          /\ Base(s, i) \in Nat /\ Shown(s, i) \in Nat
      BY <1>1, GoodFacts
    <2> DEFINE b == Base(s, i)
               n == Shown(s, i)
    <2>2. left(i) = n - (p - b) /\ Ending(s, i) = b + n /\ b \in Nat /\ n \in Nat
      BY <2>1 DEF Left, Ending
    <2> HIDE DEF b, n, p, left
    <2>3. QED
      BY <1>1, <2>2
  <1>5. ASSUME NEW x \in all PROVE x \in Int /\ m <= x
    <2>1. CASE x = Len(s.bytes) - p
      <3> DEFINE e == Ending(s, t)
      <3>1. e \in Nat /\ e <= Len(s.bytes) /\ m = e - p
        BY <1>1, <1>2, <1>3
      <3> HIDE DEF e, m, p
      <3>2. QED
        BY <1>1, <2>1, <3>1
    <2>2. CASE x \in windows
      <3>1. PICK i \in 1..t : x = left(i)
        BY <1>1, <2>2
      <3> DEFINE e == Ending(s, t)
                 f == Ending(s, i)
      <3>2. x = f - p /\ e \in Nat /\ f \in Nat /\ e <= f /\ m = e - p
        BY <1>1, <1>2, <1>4, <3>1
      <3> HIDE DEF e, f, m, p, left
      <3>3. QED
        BY <1>1, <3>2
    <2>3. QED
      BY <2>1, <2>2
  <1>6. m \in all
    <2>1. CASE t = 0
      BY <1>3, <2>1
    <2>2. CASE t # 0
      <3>1. t \in 1..t
        BY <1>1, <2>2
      <3>2. m = left(t)
        BY <1>4, <3>1
      <3>3. QED
        BY <1>1, <3>1, <3>2
    <2>3. QED
      BY <2>1, <2>2
  <1>7. MostReadable(s) = CHOOSE n \in all : \A k \in all : n <= k
    BY DEF MostReadable
  <1> HIDE DEF all, m
  <1>8. (CHOOSE n \in all : \A k \in all : n <= k) = m
    <2> DEFINE c == CHOOSE n \in all : \A k \in all : n <= k
    <2>1. \E n \in all : \A k \in all : n <= k
      BY <1>5, <1>6
    <2>2. c \in all /\ \A k \in all : c <= k
      BY <2>1
    <2> HIDE DEF c
    <2>3. c <= m /\ m <= c /\ c \in Int /\ m \in Int
      BY <1>5, <1>6, <2>2
    <2>4. c = m
      BY <2>3
    <2>5. QED
      BY <2>4 DEF c
  <1>9. m = Size(s) - Here(s)
    <2>1. Base(s, t) \in Nat /\ Size(s) \in Nat /\ Here(s) \in Nat /\ p = Base(s, t) + Here(s)
      BY CursorTypes
    <2>2. Ending(s, t) = Base(s, t) + Size(s)
      BY DEF Ending, Size
    <2>3. QED
      BY <2>1, <2>2 DEF m
  <1>10. QED
    BY <1>7, <1>8, <1>9
\* Reading n cells, one cell, a length, options.
Passed(s, r, n, C) ==
    /\ r.ok /\ Stands(s, r.io, Here(s) + n, C)
    /\ r.value = SubSeq(View(s), Here(s) + 1, Here(s) + n)

\* A read moves the cursor past the cells it delivers.
LEMMA ReadSomeStands ==
  ASSUME NEW C, NEW s, Good(s, C), NEW n \in Nat, n <= Size(s) - Here(s),
         NEW r \in ReadSome(s, n)
  PROVE  Passed(s, r, n, C)
  <1> DEFINE p == s.pos
             b == Base(s, Top(s))
             h == Here(s)
             k == Size(s)
             q == ReadOn(s, n)
  <1>1. r.ok /\ r.io = q /\ r.value = SubSeq(s.bytes, p + 1, p + n)
    BY DEF ReadSome, Ok, ReadOn
  <1>2. /\ Stacked(s, C) /\ s \in Stacks(C) /\ h \in Nat /\ k \in Nat /\ b \in Nat /\ p = b + h
        /\ s.bytes \in Seq(C) /\ b + k <= Len(s.bytes) /\ n \in Nat /\ n <= k - h
        /\ View(s) \in Seq(C) /\ Len(View(s)) = k
        /\ \A i \in 1..k : View(s)[i] = s.bytes[b + i]
    BY CursorTypes
  <1>3. /\ SameWindows(s, q, C) /\ q.pos = p + n
        /\ \A i \in 1..Len(s.strips) : q.strips[i].current = s.strips[i].current + n
    <2>1. s \in Stacks(C) /\ n \in Int /\ q = ReadOn(s, n)
      BY <1>2
    <2> HIDE DEF q
    <2>2. QED
      BY ONLY <2>1, AllAdvance DEF p
  <1> HIDE DEF q, p, b, h, k
  <1>4. q.pos - b = h + n /\ h + n >= 0
    BY <1>2, <1>3
  <1>5. ASSUME NEW i \in 1..Len(s.strips) PROVE q.strips[i].current = q.pos - Base(s, i)
    <2> DEFINE e == Base(s, i)
               c == s.strips[i].current
    <2>1. c = p - e /\ e \in Nat /\ p \in Int
      BY GoodFacts DEF p
    <2>2. q.strips[i].current = c + n
      BY <1>3
    <2> HIDE DEF e, c
    <2>3. q.strips[i].current = q.pos - e
      BY <1>2, <1>3, <2>1, <2>2
    <2>4. QED
      BY <2>3 DEF e
  <1>6. /\ Good(q, C) /\ View(q) = View(s) /\ Size(q) = Size(s) /\ Top(q) = Top(s)
        /\ Here(q) = q.pos - Base(s, Top(s))
    <2>1. q.pos - Base(s, Top(s)) >= 0
      BY <1>4 DEF b
    <2>2. QED
      BY <1>2, <1>3, <1>5, <2>1, PlacedIsGood
  <1>7. Stands(s, q, h + n, C)
    BY <1>3, <1>4, <1>6 DEF Stands, b
  <1>8. SubSeq(s.bytes, p + 1, p + n) = SubSeq(View(s), h + 1, h + n)
    <2> DEFINE x == SubSeq(s.bytes, p + 1, p + n)
               y == SubSeq(View(s), h + 1, h + n)
    <2>0. p + n <= Len(s.bytes) /\ p \in Nat /\ h + n <= k /\ Len(s.bytes) \in Nat
      BY <1>2
    <2>1. x \in Seq(C) /\ Len(x) = n /\ \A i \in 1..n : x[i] = s.bytes[p + i]
      BY <1>2, <2>0, PieceFacts
    <2>2. y \in Seq(C) /\ Len(y) = n /\ \A i \in 1..n : y[i] = View(s)[h + i]
      BY <1>2, <2>0, PieceFacts
    <2> HIDE DEF x, y
    <2>3. ASSUME NEW i \in 1..n PROVE x[i] = y[i]
      <3>1. h + i \in 1..k /\ b + (h + i) = p + i
        BY <1>2, <2>0, SMTT(60)
      <3>2. QED
        BY <1>2, <2>1, <2>2, <3>1
    <2>4. x = y
      BY <2>1, <2>2, <2>3
    <2>5. QED
      BY <2>4 DEF x, y
  <1>9. QED
    BY <1>1, <1>7, <1>8 DEF Passed, h

Got(s, r, C) ==
    IF r.ok THEN /\ Here(s) < Size(s) /\ Stands(s, r.io, Here(s) + 1, C)
                 /\ r.value = View(s)[Here(s) + 1] /\ r.value \in C
    ELSE Size(s) <= Here(s)

\* Reading one cell delivers the cell at the cursor.
LEMMA GetStands ==
  ASSUME NEW C, NEW s, Good(s, C), NEW r \in Get(s)
  PROVE  Got(s, r, C)
  <1>1. /\ Here(s) \in Nat /\ Size(s) \in Nat /\ View(s) \in Seq(C) /\ Len(View(s)) = Size(s)
    BY CursorTypes
  <1>2. MostReadable(s) = Size(s) - Here(s)
    BY MostReadableIs
  <1> DEFINE h == Here(s)
             k == Size(s)
             v == View(s)
  <1> HIDE DEF h, k, v
  <1>3. CASE k - h < 1
    <2>1. ~r.ok
      BY <1>2, <1>3 DEF Get, Error, h, k
    <2>2. k <= h
      BY <1>1, <1>3 DEF h, k
    <2>3. QED
      BY <2>1, <2>2 DEF Got, h, k
  <1>4. CASE ~(k - h < 1)
    <2>1. PICK q \in ReadSome(s, 1) : r.ok /\ r.io = q.io /\ r.value = q.value[1]
      <3>1. r \in Then(ReadSome(s, 1), LAMBDA x : Ok(x.io, x.value[1]))
        BY <1>2, <1>4 DEF Get, h, k
      <3>2. \A q \in ReadSome(s, 1) : q.ok
        BY DEF ReadSome, Ok
      <3>3. QED
        BY <3>1, <3>2 DEF Then, Ok
    <2>2. 1 <= k - h /\ h < k
      BY <1>1, <1>4 DEF h, k
    <2>3. Passed(s, q, 1, C)
      BY <2>1, <2>2, ReadSomeStands DEF h, k
    <2>4. Stands(s, q.io, h + 1, C) /\ q.value = SubSeq(v, h + 1, h + 1)
      BY <2>3 DEF Passed, h, v
    <2>5. q.value[1] = v[h + 1] /\ v[h + 1] \in C
      <3>1. v \in Seq(C) /\ h \in Nat /\ h + 1 <= Len(v)
        BY <1>1, <2>2 DEF h, k, v
      <3>2. /\ \A i \in 1..1 : SubSeq(v, h + 1, h + 1)[i] = v[h + i]
        BY <3>1, PieceFacts
      <3>3. QED
        BY <2>4, <3>1, <3>2
    <2>6. QED
      BY <2>1, <2>2, <2>4, <2>5 DEF Got, h, k, v
  <1>5. QED
    BY <1>3, <1>4

\* Lengths of the archive are numbers, and so is what is taken for one.
Counts(C) == \A c \in C : c.t = "length" => c.n \in Nat

LengthGot(s, r, C) ==
    r.ok => Here(s) < Size(s) /\ Stands(s, r.io, Here(s) + 1, C) /\ r.value \in Nat

\* Reading a length delivers a number.
LEMMA GetLengthStands ==
  ASSUME NEW C, NEW s, Good(s, C), Counts(C), NEW r \in GetLength(s)
  PROVE  LengthGot(s, r, C)
  <1> SUFFICES ASSUME r.ok PROVE LengthGot(s, r, C)
    BY DEF LengthGot
  <1>1. PICK q \in Get(s) : /\ q.ok /\ r.io = q.io
                            /\ (r.value = q.value.n /\ q.value.t = "length") \/ r.value \in Misread
    BY DEF GetLength, Then, Ok
  <1>2. Got(s, q, C)
    BY GetStands
  <1>3. r.value \in Nat
    BY <1>1, <1>2, MisreadAssumption DEF Got, Counts
  <1>4. QED
    BY <1>1, <1>2, <1>3 DEF Got, LengthGot

OptsGot(s, r, C) ==
    r.ok => /\ Stands(s, r.io, Here(r.io), C) /\ Here(r.io) \in Here(s) + 1..Size(s)
            /\ View(s)[Here(s) + 1] = Opts => Here(r.io) = Here(s) + 1

\* Reading options leaves the cursor behind them.
LEMMA GetOptsStands ==
  ASSUME NEW C, NEW s, Good(s, C), NEW r \in GetOpts(s)
  PROVE  OptsGot(s, r, C)
  <1> SUFFICES ASSUME r.ok PROVE OptsGot(s, r, C)
    BY DEF OptsGot
  <1>1. PICK q \in Get(s) :
          /\ q.ok
          /\ \/ q.value = Opts /\ r.io = q.io
             \/ /\ q.value # Opts
                /\ \E n \in Misread : r \in ReadSome(q.io, Least(n, MostReadable(q.io)))
    BY DEF GetOpts, Then, Ok, Error
  <1>2. /\ Here(s) < Size(s) /\ Stands(s, q.io, Here(s) + 1, C)
        /\ q.value = View(s)[Here(s) + 1]
    BY <1>1, GetStands DEF Got
  <1>3. Here(s) \in Nat /\ Size(s) \in Nat
    BY CursorTypes
  <1> DEFINE h == Here(s)
             k == Size(s)
  <1>4. /\ Good(q.io, C) /\ SameWindows(s, q.io, C) /\ Here(q.io) = h + 1
        /\ View(q.io) = View(s) /\ Size(q.io) = k /\ Top(q.io) = Top(s)
    BY <1>2 DEF Stands
  <1>5. CASE q.value = Opts
    <2>1. Here(r.io) = h + 1 /\ Stands(s, r.io, h + 1, C)
      BY <1>1, <1>2, <1>4, <1>5
    <2>2. h + 1 \in h + 1..k
      BY <1>2, <1>3
    <2>3. QED
      BY <2>1, <2>2 DEF OptsGot
  <1>6. CASE q.value # Opts
    <2>1. PICK n \in Misread : r \in ReadSome(q.io, Least(n, MostReadable(q.io)))
      BY <1>1, <1>6
    <2> DEFINE m == Least(n, MostReadable(q.io))
    <2> HIDE DEF h, k
    <2>2. MostReadable(q.io) = k - (h + 1)
      BY <1>4, MostReadableIs
    <2>3. m \in Nat /\ m <= k - (h + 1)
      <3>1. n \in Nat
        BY MisreadAssumption
      <3>2. h \in Nat /\ k \in Nat /\ h < k
        BY <1>2, <1>3 DEF h, k
      <3>3. QED
        BY <2>2, <3>1, <3>2 DEF Least
    <2> HIDE DEF m
    <2>4. Passed(q.io, r, m, C)
      <3>1. r \in ReadSome(q.io, m) /\ m <= Size(q.io) - Here(q.io)
        BY <1>4, <2>1, <2>3 DEF m
      <3>2. QED
        BY <1>4, <2>3, <3>1, ReadSomeStands
    <2>5. Stands(q.io, r.io, (h + 1) + m, C)
      BY <1>4, <2>4 DEF Passed
    <2>6. /\ Good(r.io, C) /\ SameWindows(q.io, r.io, C) /\ Here(r.io) = (h + 1) + m
          /\ View(r.io) = View(s) /\ Size(r.io) = k /\ Top(r.io) = Top(s)
      BY <1>4, <2>5 DEF Stands
    <2>7. SameWindows(s, r.io, C)
      BY <1>4, <2>6 DEF SameWindows
    <2>8. Here(r.io) \in h + 1..k
      <3>1. h \in Nat /\ k \in Nat
        BY <1>3 DEF h, k
      <3>2. QED
        BY <2>3, <2>6, <3>1
    <2>9. QED
      BY <1>2, <1>6, <2>6, <2>7, <2>8 DEF OptsGot, Stands, h, k
  <1>7. QED
    BY <1>5, <1>6
\* Stands, once more.
LEMMA StandsAgain ==
  ASSUME NEW C, NEW s, NEW q, NEW r, NEW i, NEW j, Stands(s, q, i, C), Stands(q, r, j, C)
  PROVE  Stands(s, r, j, C)
  BY DEF Stands, SameWindows

\* A window around the place where the cursor stands.
Stripped(s, r, head, tail, C) ==
    /\ Good(r, C) /\ Here(r) = 0 /\ Top(r) = Top(s) + 1 /\ r.bytes = s.bytes
    /\ Size(r) = Size(s) - head - tail /\ Base(r, Top(r)) = Base(s, Top(s)) + head
    /\ r.offset_pos = s.offset_pos

NewWindow(head, tail, length) ==
    [head_len |-> head, tail_len |-> tail, inner_len |-> length, current |-> 0]

Frames(w, head, tail, length) ==
    /\ w \in Windows /\ w.head_len = head /\ w.tail_len = tail /\ w.inner_len = length
    /\ w.current = 0 /\ StripLength(w) = length - head - tail

\* The fields of a new window.
LEMMA NewWindowFacts ==
  ASSUME NEW head \in Int, NEW tail \in Int, NEW length \in Int
  PROVE  Frames(NewWindow(head, tail, length), head, tail, length)
  BY DEF NewWindow, Windows, StripLength, Frames

\* StripHeadTailReader::new shows what lies between head and tail.
LEMMA StripStands ==
  ASSUME NEW C, NEW s, Good(s, C), NEW head \in Nat, NEW tail \in Nat, head = Here(s),
         Top(s) <= 2, NEW r \in Strip(s, head, tail, Size(s)), r.ok
  PROVE  Stripped(s, r.io, head, tail, C)
  <1> DEFINE t == Top(s)
             k == Size(s)
             b == Base(s, t)
             w == NewWindow(head, tail, k)
             q == r.io
  <1>1. /\ Stacked(s, C) /\ s \in Stacks(C) /\ k \in Nat /\ t \in 0..2 /\ t = Len(s.strips)
        /\ b \in Nat /\ s.pos = b + head /\ Here(s) = head
    <2>1. /\ Stacked(s, C) /\ s \in Stacks(C) /\ k \in Nat /\ t \in 0..3 /\ b \in Nat
          /\ s.pos = b + Here(s)
      BY CursorTypes
    <2>2. t = Len(s.strips)
      BY DEF Top
    <2>3. t \in 0..2
      <3> HIDE DEF t
      <3>1. t <= 2
        BY DEF t
      <3>2. QED
        BY <2>1, <3>1
    <2>4. QED
      BY <2>1, <2>2, <2>3
  <1>2. /\ s.bytes \in Seq(C) /\ s.pos \in Int /\ s.offset_pos \in Int
        /\ s.strips \in Seq(Windows) /\ s.offset_pos \in 0..Len(s.bytes)
        /\ \A i \in 1..t : Inside(s, i) /\ Agrees(s, i)
    BY <1>1, StackTypes DEF Stacked, Good
  <1>3. ~(head + tail > k) /\ q = [s EXCEPT !.strips = Append(s.strips, w)]
    <2>1. Strip(s, head, tail, k) = IF head + tail > k THEN Error("WrongReaderState")
                                    ELSE Ok([s EXCEPT !.strips = Append(s.strips, w)], 0)
      BY DEF Strip, NewWindow
    <2> DEFINE v == [s EXCEPT !.strips = Append(s.strips, w)]
    <2>2. r \in IF head + tail > k THEN Error("WrongReaderState") ELSE Ok(v, 0)
      BY <2>1
    <2> HIDE DEF v
    <2>3. ~(head + tail > k) /\ q = v
      BY <2>2 DEF Error, Ok
    <2>4. QED
      BY <2>3 DEF v
  <1>4. /\ w \in Windows /\ w.head_len = head /\ w.tail_len = tail /\ w.inner_len = k
        /\ w.current = 0 /\ StripLength(w) = k - head - tail
    <2>1. head \in Int /\ tail \in Int /\ k \in Int /\ w = NewWindow(head, tail, k)
      BY <1>1
    <2> HIDE DEF w, k
    <2>2. Frames(w, head, tail, k)
      BY ONLY <2>1, NewWindowFacts
    <2>3. QED
      BY <2>2 DEF Frames
  <1> HIDE DEF w, q
  <1> DEFINE z == Append(s.strips, w)
  <1>5. /\ z \in Seq(Windows) /\ Len(z) = t + 1 /\ z[t + 1] = w
        /\ \A i \in 1..t : z[i] = s.strips[i]
    BY <1>1, <1>2, <1>4, SMTT(60)
  <1> HIDE DEF z
  <1>6. /\ q \in Stacks(C) /\ q.bytes = s.bytes /\ q.pos = s.pos /\ q.offset_pos = s.offset_pos
        /\ q.strips = z
    BY <1>1, <1>2, <1>3, <1>5 DEF Stacks, z
  <1>7. ASSUME NEW i \in 0..t PROVE Base(q, i) = Base(s, i) /\ Shown(q, i) = Shown(s, i)
    <2>1. i # 0 => i \in 1..t
      BY <1>1
    <2>2. Shown(q, i) = Shown(s, i)
      BY <1>5, <1>6, <2>1 DEF Shown
    <2>3. i = 0 \/ i = 1 \/ i = 2
      BY <1>1
    <2>4. CASE i = 0
      BY <1>6, <2>2, <2>4 DEF Base
    <2>5. CASE i = 1
      BY <1>5, <1>6, <2>1, <2>2, <2>5 DEF Base, HeadOf
    <2>6. CASE i = 2
      <3>1. 1 \in 1..t /\ 2 \in 1..t
        BY <1>1, <2>6
      <3>2. QED
        BY <1>5, <1>6, <2>2, <2>6, <3>1 DEF Base, HeadOf
    <2>7. QED
      BY <2>3, <2>4, <2>5, <2>6
  <1>8. HeadOf(q, t + 1) = head /\ Shown(q, t + 1) = k - head - tail
    <2>1. t + 1 # 0
      BY <1>1
    <2>2. QED
      BY <1>4, <1>5, <1>6, <2>1 DEF HeadOf, Shown
  <1>9. Base(q, t + 1) = b + head
    <2>1. Base(q, t) = b
      <3>1. t \in 0..t
        BY <1>1
      <3>2. QED
        BY <1>7, <3>1
    <2>2. t = 0 \/ t = 1 \/ t = 2
      BY <1>1
    <2>3. Base(q, t + 1) = Base(q, t) + HeadOf(q, t + 1)
      <3>1. 0 + 1 = 1 /\ 1 + 1 = 2 /\ 2 + 1 = 3
        OBVIOUS
      <3>2. QED
        BY <2>2, <3>1 DEF Base
    <2>4. QED
      BY <1>8, <2>1, <2>3
  <1>10. Top(q) = t + 1
    BY <1>5, <1>6 DEF Top
  <1> HIDE DEF t, k, b
  <1>11. ASSUME NEW i \in 1..t + 1 PROVE Inside(q, i) /\ Agrees(q, i)
    <2>1. CASE i \in 1..t
      <3>1. i \in 0..t /\ i - 1 \in 0..t
        BY <1>1, <2>1
      <3>2. /\ Shown(q, i) = Shown(s, i) /\ Shown(q, i - 1) = Shown(s, i - 1)
            /\ Base(q, i) = Base(s, i)
        BY <1>7, <3>1
      <3>3. q.strips[i] = s.strips[i] /\ q.pos = s.pos
        BY <1>5, <1>6, <2>1
      <3>4. Inside(s, i) /\ Agrees(s, i)
        BY <1>2, <2>1
      <3>5. QED
        BY <3>2, <3>3, <3>4 DEF Inside, Agrees
    <2>2. CASE i = t + 1
      <3>1. t \in 0..t /\ (t + 1) - 1 = t
        BY <1>1
      <3>2. Shown(q, t) = k
        BY <1>7, <3>1 DEF k, t, Size
      <3>3. q.strips[t + 1] = w
        BY <1>5, <1>6
      <3>4. k - head - tail >= 0
        BY <1>1, <1>3
      <3>5. Inside(q, t + 1)
        BY <1>4, <1>8, <3>1, <3>2, <3>3, <3>4 DEF Inside
      <3>6. Agrees(q, t + 1)
        <4>1. q.pos - Base(q, t + 1) = 0
          BY <1>1, <1>6, <1>9
        <4>2. QED
          BY <1>4, <3>3, <4>1 DEF Agrees
      <3>7. QED
        BY <2>2, <3>5, <3>6
    <2>3. QED
      BY <1>1, <2>1, <2>2
  <1>12. Here(q) = 0
    BY <1>1, <1>6, <1>9, <1>10 DEF Here
  <1>13. Len(q.strips) = t + 1 /\ t + 1 \in 0..3
    <2>1. t \in 0..2 /\ Len(z) = t + 1 /\ q.strips = z
      BY <1>1, <1>5, <1>6
    <2>2. QED
      BY ONLY <2>1
  <1>14. Good(q, C)
    BY <1>2, <1>6, <1>11, <1>12, <1>13 DEF Good, Stacked
  <1>15. Size(q) = k - head - tail
    BY <1>8, <1>10 DEF Size
  <1>16. QED
    BY <1>6, <1>9, <1>10, <1>12, <1>14, <1>15 DEF Stripped, q, t, k, b
(***************************************************************************)
(* The same of a call that follows others: q stands on the place i of s.   *)
(***************************************************************************)
LEMMA StandsHere ==
  ASSUME NEW C, NEW s, Good(s, C) PROVE Stands(s, s, Here(s), C)
  <1>1. s \in Stacks(C)
    BY CursorTypes
  <1>2. SameWindows(s, s, C)
    BY <1>1 DEF SameWindows
  <1>3. QED
    BY <1>2 DEF Stands

\* What it means to stand at a place of s.
LEMMA StandsFacts ==
  ASSUME NEW C, NEW s, NEW q, NEW i, Stands(s, q, i, C)
  PROVE  /\ Good(q, C) /\ Here(q) = i /\ i \in Nat /\ Size(q) = Size(s) /\ Size(s) \in Nat
         /\ View(q) = View(s) /\ Top(q) = Top(s) /\ q.bytes = s.bytes
         /\ q.offset_pos = s.offset_pos
  <1>1. /\ Good(q, C) /\ Here(q) = i /\ Size(q) = Size(s) /\ View(q) = View(s)
        /\ Top(q) = Top(s) /\ SameWindows(s, q, C)
    BY DEF Stands
  <1>2. Here(q) \in Nat /\ Size(q) \in Nat
    BY <1>1, CursorTypes
  <1>3. QED
    BY <1>1, <1>2 DEF SameWindows

\* SeekFrom::Start from anywhere.
LEMMA SeekStart ==
  ASSUME NEW C, NEW s, NEW q, NEW i, Stands(s, q, i, C), NEW k \in Nat,
         NEW r \in Seek(q, "Start", k), r.ok
  PROVE  r.value = k /\ Stands(s, r.io, k, C) /\ (Top(s) # 0 => k <= Size(s))
  <1>1. Good(q, C) /\ Size(q) = Size(s) /\ Top(q) = Top(s) /\ Size(s) \in Nat
    BY StandsFacts
  <1>2. Sought(q, "Start", k, r, C)
    BY <1>1, SeekStands DEF Whences
  <1>3. Goal(q, "Start", k) = k
    BY DEF Goal
  <1>4. r.value = k /\ Stands(q, r.io, k, C) /\ (Top(q) # 0 => k \in 0..Size(q))
    BY <1>2, <1>3 DEF Sought
  <1>5. Stands(s, r.io, k, C)
    BY <1>4, StandsAgain
  <1>6. QED
    BY <1>1, <1>4, <1>5

\* SeekFrom::End from anywhere.
LEMMA SeekEnd ==
  ASSUME NEW C, NEW s, NEW q, NEW i, Stands(s, q, i, C), NEW by \in Int, by <= 0,
         NEW r \in Seek(q, "End", by), r.ok
  PROVE  /\ r.value \in Nat /\ r.value <= Size(s) /\ Stands(s, r.io, r.value, C)
         /\ Size(s) + by >= 0 => r.value = Size(s) + by
  <1>1. Good(q, C) /\ Size(q) = Size(s) /\ Size(s) \in Nat
    BY StandsFacts
  <1>2. Sought(q, "End", by, r, C)
    BY <1>1, SeekStands DEF Whences
  <1>3. Goal(q, "End", by) = Size(s) + by
    BY <1>1 DEF Goal
  <1>4. /\ r.value \in Nat /\ Stands(q, r.io, r.value, C)
        /\ r.value = IF Size(s) + by < 0 THEN 0 ELSE Size(s) + by
    BY <1>2, <1>3 DEF Sought
  <1>5. Stands(s, r.io, r.value, C)
    BY <1>4, StandsAgain
  <1>6. QED
    BY <1>1, <1>4, <1>5

\* SeekFrom::Current from anywhere.
LEMMA SeekCurrent ==
  ASSUME NEW C, NEW s, NEW q, NEW i, Stands(s, q, i, C), NEW by \in Int,
         NEW r \in Seek(q, "Current", by), r.ok
  PROVE  /\ r.value \in Nat /\ Stands(s, r.io, r.value, C)
         /\ i + by >= 0 => r.value = i + by
  <1>1. Good(q, C) /\ Here(q) = i /\ i \in Nat
    BY StandsFacts
  <1>2. Sought(q, "Current", by, r, C)
    BY <1>1, SeekStands DEF Whences
  <1>3. Goal(q, "Current", by) = i + by
    BY <1>1 DEF Goal
  <1>4. /\ r.value \in Nat /\ Stands(q, r.io, r.value, C)
        /\ r.value = IF i + by < 0 THEN 0 ELSE i + by
    BY <1>2, <1>3 DEF Sought
  <1>5. Stands(s, r.io, r.value, C)
    BY <1>4, StandsAgain
  <1>6. QED
    BY <1>1, <1>4, <1>5

\* Reading a cell from anywhere.
LEMMA OneCell ==
  ASSUME NEW C, NEW s, NEW q, NEW i, Stands(s, q, i, C), NEW r \in Get(q), r.ok
  PROVE  /\ i < Size(s) /\ Stands(s, r.io, i + 1, C) /\ r.value = View(s)[i + 1]
         /\ r.value \in C
  <1>1. Good(q, C) /\ Here(q) = i /\ Size(q) = Size(s) /\ View(q) = View(s)
    BY StandsFacts
  <1>2. Got(q, r, C)
    BY <1>1, GetStands
  <1>3. /\ i < Size(s) /\ Stands(q, r.io, i + 1, C) /\ r.value = View(s)[i + 1] /\ r.value \in C
    BY <1>1, <1>2 DEF Got
  <1>4. Stands(s, r.io, i + 1, C)
    BY <1>3, StandsAgain
  <1>5. QED
    BY <1>3, <1>4

\* Reading a length from anywhere.
LEMMA OneLength ==
  ASSUME NEW C, NEW s, NEW q, NEW i, Stands(s, q, i, C), Counts(C),
         NEW r \in GetLength(q), r.ok
  PROVE  /\ i < Size(s) /\ Stands(s, r.io, i + 1, C) /\ r.value \in Nat
  <1>1. Good(q, C) /\ Here(q) = i /\ Size(q) = Size(s)
    BY StandsFacts
  <1>2. LengthGot(q, r, C)
    BY <1>1, GetLengthStands
  <1>3. i < Size(s) /\ Stands(q, r.io, i + 1, C) /\ r.value \in Nat
    BY <1>1, <1>2 DEF LengthGot
  <1>4. Stands(s, r.io, i + 1, C)
    BY <1>3, StandsAgain
  <1>5. QED
    BY <1>3, <1>4

\* Reading options from anywhere.
LEMMA SomeOpts ==
  ASSUME NEW C, NEW s, NEW q, NEW i, Stands(s, q, i, C), NEW r \in GetOpts(q), r.ok
  PROVE  /\ Stands(s, r.io, Here(r.io), C) /\ Here(r.io) \in i + 1..Size(s)
         /\ View(s)[i + 1] = Opts => Here(r.io) = i + 1
  <1>1. Good(q, C) /\ Here(q) = i /\ Size(q) = Size(s) /\ View(q) = View(s)
    BY StandsFacts
  <1>2. OptsGot(q, r, C)
    BY <1>1, GetOptsStands
  <1>3. /\ Stands(q, r.io, Here(r.io), C) /\ Here(r.io) \in i + 1..Size(s)
        /\ View(s)[i + 1] = Opts => Here(r.io) = i + 1
    BY <1>1, <1>2 DEF OptsGot
  <1>4. Stands(s, r.io, Here(r.io), C)
    BY <1>3, StandsAgain
  <1>5. QED
    BY <1>3, <1>4

\* Standing elsewhere does not shift the window.
LEMMA StandsBase ==
  ASSUME NEW C, NEW s, NEW q, NEW i, Stands(s, q, i, C), Good(s, C)
  PROVE  Base(q, Top(q)) = Base(s, Top(s)) /\ q.pos = Base(s, Top(s)) + i
  <1>1. /\ SameWindows(s, q, C) /\ Top(q) = Top(s) /\ Good(q, C) /\ Here(q) = i
    BY DEF Stands
  <1>2. Stacked(s, C) /\ Top(s) \in 0..Len(s.strips)
    BY CursorTypes DEF Top
  <1>3. Base(q, Top(s)) = Base(s, Top(s))
    BY <1>1, <1>2, SameGeometry
  <1>4. q.pos = Base(q, Top(q)) + Here(q)
    BY <1>1, CursorTypes
  <1>5. QED
    BY <1>1, <1>3, <1>4

\* A window put around what follows the cursor.
LEMMA StripAround ==
  ASSUME NEW C, NEW s, NEW q, NEW i, Stands(s, q, i, C), Good(s, C), Top(s) <= 2,
         NEW tail \in Nat, NEW r \in Strip(q, i, tail, Size(s)), r.ok
  PROVE  Stripped(s, r.io, i, tail, C)
  <1>1. /\ Good(q, C) /\ Here(q) = i /\ i \in Nat /\ Size(q) = Size(s) /\ Top(q) = Top(s)
        /\ q.bytes = s.bytes /\ q.offset_pos = s.offset_pos
    BY StandsFacts
  <1>2. Stripped(q, r.io, i, tail, C)
    BY <1>1, StripStands
  <1>3. Base(q, Top(q)) = Base(s, Top(s))
    BY StandsBase
  <1>4. QED
    BY <1>1, <1>2, <1>3 DEF Stripped
-----------------------------------------------------------------------------
(***************************************************************************)
(* Opening, step by step.  A source that nothing was read of.              *)
(***************************************************************************)
LEMMA SourceIsGood ==
  ASSUME NEW C, NEW b \in Seq(C), NEW s, s = Source(b)
  PROVE  /\ Good(s, C) /\ Here(s) = 0 /\ Top(s) = 0 /\ Size(s) = Len(b) /\ View(s) = b
         /\ Base(s, 0) = 0 /\ s.bytes = b
  <1>1. s.bytes = b /\ s.pos = 0 /\ s.offset_pos = 0 /\ s.strips = <<>> /\ Len(b) \in Nat
    BY DEF Source
  <1>2. s \in Stacks(C)
    <2>1. <<>> \in Seq(Windows)
      OBVIOUS
    <2>2. QED
      BY <2>1 DEF Source, Stacks
  <1>3. Len(s.strips) = 0 /\ Top(s) = 0
    BY <1>1 DEF Top
  <1>4. Base(s, 0) = 0 /\ Shown(s, 0) = Len(b)
    BY <1>1 DEF Base, Shown
  <1>5. Here(s) = 0 /\ Size(s) = Len(b)
    BY <1>1, <1>3, <1>4 DEF Here, Size
  <1>6. Good(s, C)
    BY <1>1, <1>2, <1>3, <1>5 DEF Good, Stacked
  <1>7. SubSeq(b, 0 + 1, 0 + Len(b)) = b
    OBVIOUS
  <1>8. View(s) = b
    BY <1>1, <1>3, <1>4, <1>5, <1>7 DEF View
  <1>9. QED
    BY <1>1, <1>3, <1>4, <1>5, <1>6, <1>8

\* After the header the positions are counted anew.
LEMMA ResetIsGood ==
  ASSUME NEW C, NEW b \in Seq(C), NEW q, NEW i, Stands(Source(b), q, i, C), i <= Len(b),
         NEW r, r = ResetPosition(q)
  PROVE  /\ Good(r, C) /\ Here(r) = 0 /\ Top(r) = 0 /\ Size(r) = Len(b) - i
         /\ r.bytes = b /\ r.offset_pos = i /\ Base(r, 0) = i
  <1> DEFINE s == Source(b)
  <1>1. /\ Good(s, C) /\ Top(s) = 0 /\ Base(s, 0) = 0 /\ s.bytes = b
    BY SourceIsGood
  <1> HIDE DEF s
  <1>2. /\ Good(q, C) /\ i \in Nat /\ Top(q) = 0 /\ q.bytes = b
    BY <1>1, StandsFacts DEF s
  <1>3. q.pos = i
    <2>1. q.pos = Base(s, Top(s)) + i
      BY <1>1, StandsBase DEF s
    <2>2. QED
      BY <1>1, <1>2, <2>1
  <1>4. q \in Stacks(C) /\ Len(q.strips) = 0
    BY <1>2, CursorTypes DEF Top
  <1>5. /\ r \in Stacks(C) /\ r.bytes = b /\ r.pos = i /\ r.offset_pos = i
        /\ r.strips = q.strips
    BY <1>2, <1>3, <1>4 DEF ResetPosition, Stacks
  <1>6. Len(r.strips) = 0 /\ Top(r) = 0 /\ Len(b) \in Nat
    BY <1>4, <1>5 DEF Top
  <1>7. Base(r, 0) = i /\ Shown(r, 0) = Len(b) - i
    BY <1>5 DEF Base, Shown
  <1>8. Here(r) = 0 /\ Size(r) = Len(b) - i
    BY <1>2, <1>5, <1>6, <1>7 DEF Here, Size
  <1>9. Good(r, C)
    BY <1>2, <1>5, <1>6, <1>8 DEF Good, Stacked
  <1>10. QED
    BY <1>5, <1>6, <1>7, <1>8, <1>9

HeaderRead(b, header, C) ==
    /\ Stands(Source(b), header.io, Here(header.io), C) /\ Here(header.io) \in 1..Len(b)
    /\ header.value = SubSeq(b, 1, Here(header.io))
    /\ b[3] = Opts => Here(header.io) = 3

\* The archive header is read from the start of the file.
LEMMA ReadHeaderStands ==
  ASSUME NEW C, NEW b \in Seq(C), NEW header \in ReadHeader(Source(b)), header.ok
  PROVE  HeaderRead(b, header, C)
  <1> DEFINE s == Source(b)
  <1>1. /\ Good(s, C) /\ Here(s) = 0 /\ Top(s) = 0 /\ Size(s) = Len(b) /\ View(s) = b
        /\ Base(s, 0) = 0 /\ s.bytes = b
    BY SourceIsGood
  <1>2. s.pos = 0
    BY DEF Source
  <1> HIDE DEF s
  <1>3. PICK m \in Get(s) : m.ok /\ \E v \in Get(m.io) : v.ok /\ \E o \in GetOpts(v.io) :
          o.ok /\ header.io = o.io /\ header.value = SubSeq(s.bytes, s.pos + 1, o.io.pos)
    BY DEF s, ReadHeader, Then, Ok, Error
  <1>4. PICK v \in Get(m.io) : v.ok /\ \E o \in GetOpts(v.io) :
          o.ok /\ header.io = o.io /\ header.value = SubSeq(s.bytes, s.pos + 1, o.io.pos)
    BY <1>3
  <1>5. PICK o \in GetOpts(v.io) :
          o.ok /\ header.io = o.io /\ header.value = SubSeq(s.bytes, s.pos + 1, o.io.pos)
    BY <1>4
  <1>6. Stands(s, s, 0, C)
    BY <1>1, StandsHere
  <1>7. Stands(s, m.io, 1, C)
    <2>1. Stands(s, m.io, 0 + 1, C)
      BY <1>3, <1>6, OneCell
    <2>2. 0 + 1 = 1
      OBVIOUS
    <2>3. QED
      BY <2>1, <2>2
  <1>8. Stands(s, v.io, 2, C)
    <2>1. Stands(s, v.io, 1 + 1, C)
      BY <1>4, <1>7, OneCell
    <2>2. 1 + 1 = 2
      OBVIOUS
    <2>3. QED
      BY <2>1, <2>2
  <1> DEFINE at == Here(o.io)
  <1>9. /\ Stands(s, o.io, at, C) /\ at \in 2 + 1..Size(s)
        /\ View(s)[2 + 1] = Opts => at = 2 + 1
    BY <1>5, <1>8, SomeOpts
  <1>10. o.io.pos = at
    <2>1. o.io.pos = Base(s, Top(s)) + at
      BY <1>1, <1>9, StandsBase
    <2> HIDE DEF at
    <2>2. QED
      BY <1>1, <1>9, <2>1
  <1>11. header.value = SubSeq(b, 1, at)
    BY <1>1, <1>2, <1>5, <1>10
  <1> HIDE DEF at
  <1>12. at \in 1..Len(b) /\ (b[3] = Opts => at = 3)
    BY <1>1, <1>9
  <1>13. QED
    BY <1>5, <1>9, <1>11, <1>12 DEF HeaderRead, at, s
\* The tail of the archive is cut off, whatever length it claims.
LEMMA StripTailStands ==
  ASSUME NEW C, Counts(C), NEW s, Good(s, C), Top(s) = 0, NEW r \in StripTail(s), r.ok
  PROVE  \E tail \in Nat : Stripped(s, r.io, 0, tail, C)
  <1> DEFINE at == Here(s)
  <1>1. Stands(s, s, at, C)
    BY StandsHere
  <1> HIDE DEF at
  <1>2. PICK end \in Seek(s, "End", -1) : end.ok /\ \E m \in Get(end.io) : m.ok
          /\ \E before \in Seek(m.io, "End", -2) : before.ok
          /\ \E options \in GetLength(before.io) : options.ok
          /\ \E start \in Seek(options.io, "Start", 0) : start.ok
          /\ r \in Strip(start.io, 0, options.value + 2, end.value + 1)
    BY DEF StripTail, Then, Error
  <1>3. PICK m \in Get(end.io) : m.ok
          /\ \E before \in Seek(m.io, "End", -2) : before.ok
          /\ \E options \in GetLength(before.io) : options.ok
          /\ \E start \in Seek(options.io, "Start", 0) : start.ok
          /\ r \in Strip(start.io, 0, options.value + 2, end.value + 1)
    BY <1>2
  <1>4. PICK before \in Seek(m.io, "End", -2) : before.ok
          /\ \E options \in GetLength(before.io) : options.ok
          /\ \E start \in Seek(options.io, "Start", 0) : start.ok
          /\ r \in Strip(start.io, 0, options.value + 2, end.value + 1)
    BY <1>3
  <1>5. PICK options \in GetLength(before.io) : options.ok
          /\ \E start \in Seek(options.io, "Start", 0) : start.ok
          /\ r \in Strip(start.io, 0, options.value + 2, end.value + 1)
    BY <1>4
  <1>6. PICK start \in Seek(options.io, "Start", 0) : start.ok
          /\ r \in Strip(start.io, 0, options.value + 2, end.value + 1)
    BY <1>5
  <1> DEFINE e == end.value
             n == Size(s)
  <1>7. /\ e \in Nat /\ e <= n /\ Stands(s, end.io, e, C) /\ (n + (-1) >= 0 => e = n + (-1))
    BY <1>1, <1>2, SeekEnd
  <1>8. e < n /\ Stands(s, m.io, e + 1, C) /\ n \in Nat
    BY <1>3, <1>7, OneCell, CursorTypes
  <1>9. Stands(s, before.io, before.value, C)
    BY <1>4, <1>8, SeekEnd
  <1>10. Stands(s, options.io, before.value + 1, C) /\ options.value \in Nat
    BY <1>5, <1>9, OneLength
  <1>11. Stands(s, start.io, 0, C)
    BY <1>6, <1>10, SeekStart
  <1>12. e + 1 = n
    <2> HIDE DEF e, n
    <2>1. QED
      BY <1>7, <1>8
  <1> DEFINE tail == options.value + 2
  <1>13. r \in Strip(start.io, 0, tail, Size(s)) /\ tail \in Nat
    BY <1>6, <1>10, <1>12
  <1> HIDE DEF tail
  <1>14. Stripped(s, r.io, 0, tail, C)
    BY <1>11, <1>13, StripAround
  <1>15. QED
    BY <1>13, <1>14

Cells == ArchiveCells(archive, signed)

\* Behind the first magic, of the window on the archive without its header and tail.
AtSignature ==
    /\ Good(io, Cells) /\ Top(io) = 1 /\ Here(io) = 1 /\ io.bytes = out
    /\ Base(io, 1) \in 1..Len(out) - 1
    /\ hash = SubSeq(out, 1, Base(io, 1) + 1)
    /\ magic = out[Base(io, 1) + 1]
    /\ out[3] = Opts => Base(io, 1) = 3

\* The lengths among the cells of this archive are numbers.
LEMMA CellsCount == Counts(Cells)
  BY CellFacts DEF Counts, Cells

\* A beginning and the next cell.
LEMMA OneMore ==
  ASSUME NEW C, NEW b \in Seq(C), NEW n \in Nat, n < Len(b)
  PROVE  SubSeq(b, 1, n) \o << b[n + 1] >> = SubSeq(b, 1, n + 1)
  <1> DEFINE x == SubSeq(b, 1, n)
             y == << b[n + 1] >>
             z == SubSeq(b, 1, n + 1)
  <1>1. Len(b) \in Nat /\ 0 + n <= Len(b) /\ 0 + (n + 1) <= Len(b) /\ b[n + 1] \in C
    OBVIOUS
  <1>2. x \in Seq(C) /\ Len(x) = n /\ \A i \in 1..n : x[i] = b[i]
    <2>1. /\ SubSeq(b, 0 + 1, 0 + n) \in Seq(C) /\ Len(SubSeq(b, 0 + 1, 0 + n)) = n
          /\ \A i \in 1..n : SubSeq(b, 0 + 1, 0 + n)[i] = b[0 + i]
      BY <1>1, PieceFacts
    <2>2. QED
      BY <2>1
  <1>3. z \in Seq(C) /\ Len(z) = n + 1 /\ \A i \in 1..n + 1 : z[i] = b[i]
    <2> DEFINE k == n + 1
    <2>1. k \in Nat /\ 0 + k <= Len(b)
      BY <1>1
    <2> HIDE DEF k
    <2>2. /\ SubSeq(b, 0 + 1, 0 + k) \in Seq(C) /\ Len(SubSeq(b, 0 + 1, 0 + k)) = k
          /\ \A i \in 1..k : SubSeq(b, 0 + 1, 0 + k)[i] = b[0 + i]
      BY <2>1, PieceFacts
    <2>3. SubSeq(b, 0 + 1, 0 + k) = z
      BY <2>1 DEF k
    <2>4. QED
      BY <2>2, <2>3 DEF k
  <1>4. y \in Seq(C) /\ Len(y) = 1 /\ y[1] = b[n + 1]
    BY <1>1
  <1> HIDE DEF x, y, z
  <1>5. ASSUME NEW i \in 1..Len(y) PROVE y[i] = z[Len(x) + i]
    BY <1>2, <1>3, <1>4
  <1>6. ASSUME NEW i \in 1..Len(x) PROVE x[i] = z[i]
    BY <1>2, <1>3
  <1>7. x \o y = z
    <2>1. x \in Seq(C) /\ y \in Seq(C) /\ z \in Seq(C) /\ Len(z) = Len(x) + Len(y)
      BY <1>2, <1>3, <1>4
    <2>2. QED
      BY ONLY <1>5, <1>6, <2>1, ConcatIs
  <1>8. QED
    BY <1>7 DEF x, y, z
\* from_config with a header that reads leaves the cursor at the signature layer.
LEMMA OpenReaches ==
  ASSUME NEW c, Open(c), Sealed, phase' = "signature" PROVE AtSignature'
  <1> DEFINE C == Cells
  <1>1. out \in Seq(C) /\ UNCHANGED <<archive, out, signed>>
    BY DEF Sealed, Cells, Open, writeVars
  <1>2. PICK header \in ReadHeader(Source(out)) :
          /\ header.ok
          /\ \E first \in Then(StripTail(ResetPosition(header.io)), LAMBDA s : Get(s.io)) :
               /\ first.ok /\ io' = first.io /\ hash' = header.value \o << first.value >>
               /\ magic' = first.value
    BY DEF Open, Refused
  <1>3. PICK first \in Then(StripTail(ResetPosition(header.io)), LAMBDA s : Get(s.io)) :
               /\ first.ok /\ io' = first.io /\ hash' = header.value \o << first.value >>
               /\ magic' = first.value
    BY <1>2
  <1> DEFINE r == ResetPosition(header.io)
  <1>4. PICK l \in StripTail(r) : l.ok /\ first \in Get(l.io)
    BY <1>3 DEF Then
  <1> HIDE DEF r, C
  <1> DEFINE at == Here(header.io)
  <1>5. /\ Stands(Source(out), header.io, at, C) /\ at \in 1..Len(out)
        /\ header.value = SubSeq(out, 1, at) /\ (out[3] = Opts => at = 3)
    BY <1>1, <1>2, ReadHeaderStands DEF HeaderRead
  <1> HIDE DEF at
  <1>6. /\ Good(r, C) /\ Here(r) = 0 /\ Top(r) = 0 /\ Size(r) = Len(out) - at
        /\ r.bytes = out /\ r.offset_pos = at /\ Base(r, 0) = at
    <2>1. at <= Len(out) /\ r = ResetPosition(header.io)
      BY <1>1, <1>5 DEF r
    <2>2. QED
      BY <1>1, <1>5, <2>1, ResetIsGood
  <1>7. PICK tail \in Nat : Stripped(r, l.io, 0, tail, C)
    <2>1. Counts(C)
      BY CellsCount DEF C
    <2>2. QED
      BY <1>4, <1>6, <2>1, StripTailStands
  <1>8. /\ Good(l.io, C) /\ Here(l.io) = 0 /\ Top(l.io) = 1 /\ l.io.bytes = out
        /\ Size(l.io) = (Len(out) - at) - 0 - tail /\ Base(l.io, 1) = at + 0
    <2>1. 0 + 1 = 1
      OBVIOUS
    <2>2. QED
      BY <1>6, <1>7, <2>1 DEF Stripped
  <1>9. Base(l.io, 1) = at /\ at \in Nat
    BY <1>5, <1>8
  <1>10. Stands(l.io, l.io, 0, C)
    BY <1>8, StandsHere
  <1>11. /\ 0 < Size(l.io) /\ Stands(l.io, first.io, 0 + 1, C)
         /\ first.value = View(l.io)[0 + 1]
    BY <1>3, <1>4, <1>10, OneCell
  <1> DEFINE f == first.io
  <1>12. f = io' /\ Stands(l.io, f, 1, C) /\ first.value = View(l.io)[1]
    <2>1. 0 + 1 = 1
      OBVIOUS
    <2>2. QED
      BY <1>3, <1>11, <2>1
  <1> HIDE DEF f
  <1>13. Good(f, C) /\ Here(f) = 1 /\ Top(f) = 1 /\ f.bytes = out /\ Base(f, 1) = at
    <2>1. Good(f, C) /\ Here(f) = 1 /\ Top(f) = 1 /\ f.bytes = out
      BY <1>8, <1>12, StandsFacts
    <2>2. Base(f, Top(f)) = Base(l.io, Top(l.io))
      BY <1>8, <1>12, StandsBase
    <2>3. QED
      BY <1>8, <1>9, <2>1, <2>2
  <1>14. first.value = out[at + 1] /\ at < Len(out)
    <2>1. 1 \in 1..Size(l.io)
      BY <1>5, <1>8, <1>11
    <2>2. View(l.io)[1] = l.io.bytes[Base(l.io, Top(l.io)) + 1]
      BY <1>8, <2>1, CursorTypes
    <2>3. at < Len(out)
      BY <1>1, <1>5, <1>8, <1>11
    <2>4. QED
      BY <1>8, <1>9, <1>12, <2>2, <2>3
  <1>15. hash' = SubSeq(out, 1, at + 1)
    <2>1. SubSeq(out, 1, at) \o << out[at + 1] >> = SubSeq(out, 1, at + 1)
      BY <1>1, <1>9, <1>14, OneMore
    <2>2. QED
      BY <1>3, <1>5, <1>14, <2>1
  <1>16. at \in 1..Len(out) - 1
    BY <1>1, <1>5, <1>14
  <1>17. /\ Good(io', C) /\ Top(io') = 1 /\ Here(io') = 1 /\ io'.bytes = out
         /\ Base(io', 1) = at /\ magic' = out[at + 1]
    BY <1>3, <1>12, <1>13, <1>14
  <1>18. Cells' = C /\ out' = out
    BY <1>1 DEF Cells, C
  <1>19. QED
    BY <1>5, <1>15, <1>16, <1>17, <1>18 DEF AtSignature
VectorGot(s, r, C) ==
    \E j \in Nat, k \in Nat : /\ j + k <= Size(s) /\ Stands(s, r.io, j + k, C)
                              /\ r.value = SubSeq(View(s), j + 1, j + k)

\* Reading a vector delivers cells of the archive.
LEMMA VectorStands ==
  ASSUME NEW C, Counts(C), NEW s, NEW q, NEW i, Stands(s, q, i, C), NEW r \in GetVector(q), r.ok
  PROVE  VectorGot(s, r, C)
  <1>1. PICK n \in GetLength(q) :
          n.ok /\ ~(n.value > MostReadable(n.io)) /\ r \in ReadSome(n.io, n.value)
    BY DEF GetVector, Then, Error
  <1>2. i < Size(s) /\ Stands(s, n.io, i + 1, C) /\ n.value \in Nat
    BY <1>1, OneLength
  <1>3. i \in Nat /\ Size(s) \in Nat
    BY StandsFacts
  <1>4. /\ Good(n.io, C) /\ Here(n.io) = i + 1 /\ Size(n.io) = Size(s) /\ View(n.io) = View(s)
    BY <1>2, StandsFacts
  <1> DEFINE k == n.value
             j == i + 1
  <1>5. MostReadable(n.io) = Size(s) - j
    BY <1>4, MostReadableIs
  <1>6. k \in Nat /\ j \in Nat /\ k <= Size(s) - j /\ j + k <= Size(s)
    BY <1>1, <1>2, <1>3, <1>5
  <1> HIDE DEF k, j
  <1>7. Passed(n.io, r, k, C)
    BY <1>1, <1>4, <1>6, ReadSomeStands DEF k, j
  <1>8. Stands(n.io, r.io, j + k, C) /\ r.value = SubSeq(View(s), j + 1, j + k)
    BY <1>4, <1>7 DEF Passed, j
  <1>9. Stands(s, r.io, j + k, C)
    BY <1>2, <1>8, StandsAgain
  <1>10. QED
    BY <1>6, <1>8, <1>9 DEF VectorGot

\* Cells that lie in the source.
Among(cells, bytes) == \A i \in DOMAIN cells : \E j \in DOMAIN bytes : cells[i] = bytes[j]

\* A piece of what is shown consists of bytes of the source.
LEMMA PieceAmong ==
  ASSUME NEW C, NEW s, Good(s, C), NEW j \in Nat, NEW k \in Nat, j + k <= Size(s)
  PROVE  Among(SubSeq(View(s), j + 1, j + k), s.bytes)
  <1> DEFINE v == View(s)
             n == Size(s)
             b == Base(s, Top(s))
             x == SubSeq(v, j + 1, j + k)
  <1>1. /\ n \in Nat /\ b \in Nat /\ s.bytes \in Seq(C) /\ v \in Seq(C) /\ Len(v) = n
        /\ b + n <= Len(s.bytes) /\ \A m \in 1..n : v[m] = s.bytes[b + m]
    BY CursorTypes
  <1> HIDE DEF v, n, b
  <1>2. j + k <= n
    BY DEF n
  <1>3. x \in Seq(C) /\ Len(x) = k /\ \A i \in 1..k : x[i] = v[j + i]
    <2>1. v \in Seq(C) /\ j \in Nat /\ k \in Nat /\ j + k <= Len(v)
      BY <1>1, <1>2
    <2>2. QED
      BY ONLY <2>1, PieceFacts
  <1> HIDE DEF x
  <1>4. ASSUME NEW i \in DOMAIN x PROVE \E m \in DOMAIN s.bytes : x[i] = s.bytes[m]
    <2>1. i \in 1..k
      BY <1>3
    <2>2. j + i \in 1..n /\ x[i] = v[j + i]
      BY <1>1, <1>2, <1>3, <2>1, SMTT(60)
    <2>3. x[i] = s.bytes[b + (j + i)] /\ b + (j + i) \in DOMAIN s.bytes
      BY <1>1, <2>2
    <2>4. QED
      BY <2>3
  <1>5. QED
    BY <1>4 DEF Among, x, v

SignaturesGot(s, r, C) ==
    /\ \E at : Stands(s, r.io, at, C)
    /\ r.value.length \in Nat /\ Among(r.value.signatures, s.bytes)

\* The signatures that are read are cells of the archive.
LEMMA ReadSignaturesStands ==
  ASSUME NEW C, Counts(C), NEW s, Good(s, C), NEW q, NEW i, Stands(s, q, i, C),
         NEW r \in ReadSignatures(q), r.ok
  PROVE  SignaturesGot(s, r, C)
  <1>1. PICK end \in Seek(q, "End", -1) : end.ok
             /\ \E vector \in GetLength(end.io) : vector.ok
             /\ \E at \in Seek(vector.io, "End", -(1 + vector.value)) : at.ok
             /\ \E data \in GetVector(at.io) : data.ok
             /\ \E before \in Seek(data.io, "End", -(2 + vector.value)) : before.ok
             /\ \E options \in GetLength(before.io) : options.ok
             /\ r.io = options.io
             /\ r.value = [signatures |-> data.value,
                           length |-> 2 + vector.value + options.value]
    BY DEF ReadSignatures, Then, Ok
  <1>2. PICK vector \in GetLength(end.io) : vector.ok
             /\ \E at \in Seek(vector.io, "End", -(1 + vector.value)) : at.ok
             /\ \E data \in GetVector(at.io) : data.ok
             /\ \E before \in Seek(data.io, "End", -(2 + vector.value)) : before.ok
             /\ \E options \in GetLength(before.io) : options.ok
             /\ r.io = options.io
             /\ r.value = [signatures |-> data.value,
                           length |-> 2 + vector.value + options.value]
    BY <1>1
  <1>3. PICK at \in Seek(vector.io, "End", -(1 + vector.value)) : at.ok
             /\ \E data \in GetVector(at.io) : data.ok
             /\ \E before \in Seek(data.io, "End", -(2 + vector.value)) : before.ok
             /\ \E options \in GetLength(before.io) : options.ok
             /\ r.io = options.io
             /\ r.value = [signatures |-> data.value,
                           length |-> 2 + vector.value + options.value]
    BY <1>2
  <1>4. PICK data \in GetVector(at.io) : data.ok
             /\ \E before \in Seek(data.io, "End", -(2 + vector.value)) : before.ok
             /\ \E options \in GetLength(before.io) : options.ok
             /\ r.io = options.io
             /\ r.value = [signatures |-> data.value,
                           length |-> 2 + vector.value + options.value]
    BY <1>3
  <1>5. PICK before \in Seek(data.io, "End", -(2 + vector.value)) : before.ok
             /\ \E options \in GetLength(before.io) : options.ok
             /\ r.io = options.io
             /\ r.value = [signatures |-> data.value,
                           length |-> 2 + vector.value + options.value]
    BY <1>4
  <1>6. PICK options \in GetLength(before.io) : options.ok
             /\ r.io = options.io
             /\ r.value = [signatures |-> data.value,
                           length |-> 2 + vector.value + options.value]
    BY <1>5
  <1>7. Stands(s, end.io, end.value, C)
    BY <1>1, SeekEnd
  <1>8. Stands(s, vector.io, end.value + 1, C) /\ vector.value \in Nat
    BY <1>2, <1>7, OneLength
  <1>9. /\ -(1 + vector.value) \in Int /\ -(1 + vector.value) <= 0
        /\ -(2 + vector.value) \in Int /\ -(2 + vector.value) <= 0
    BY <1>8
  <1>10. Stands(s, at.io, at.value, C)
    BY <1>3, <1>8, <1>9, SeekEnd
  <1>11. PICK j \in Nat, k \in Nat : /\ j + k <= Size(s) /\ Stands(s, data.io, j + k, C)
                                     /\ data.value = SubSeq(View(s), j + 1, j + k)
    <2>1. VectorGot(s, data, C)
      BY <1>4, <1>10, VectorStands
    <2>2. QED
      BY <2>1 DEF VectorGot
  <1>12. Stands(s, before.io, before.value, C)
    BY <1>5, <1>9, <1>11, SeekEnd
  <1>13. Stands(s, options.io, before.value + 1, C) /\ options.value \in Nat
    BY <1>6, <1>12, OneLength
  <1>14. Among(data.value, s.bytes)
    BY <1>11, PieceAmong
  <1>15. /\ r.io = options.io /\ r.value.signatures = data.value
         /\ r.value.length = 2 + vector.value + options.value
    BY <1>6
  <1>16. r.value.length \in Nat
    BY <1>8, <1>13, <1>15
  <1>17. QED
    BY <1>13, <1>14, <1>15, <1>16 DEF SignaturesGot
\* The window on the signed layer; the hash goes on to where it begins.
SignatureParsed(s, layer, inner, tail, C) ==
    /\ Stripped(s, layer.io, inner, tail, C)
    /\ inner > 1 /\ (View(s)[2] = Opts => inner = 2)
    /\ layer.value.hashed = SubSeq(s.bytes, s.pos + 1, Base(s, Top(s)) + inner)
    /\ Among(layer.value.signatures, s.bytes)

\* The signature layer shows the bytes between its magic and its signatures.
LEMMA ParseSignatureStands ==
  ASSUME NEW C, Counts(C), NEW s, Good(s, C), Top(s) = 1, Here(s) = 1,
         NEW layer \in ParseSignatureLayer(s), layer.ok
  PROVE  \E inner \in Nat, tail \in Nat : SignatureParsed(s, layer, inner, tail, C)
  <1> DEFINE Answer(opts, tail, z) ==
               Ok(z.io, [signatures |-> tail.value.signatures,
                         hashed |-> SubSeq(s.bytes, s.pos + 1, opts.io.pos)])
             Last(opts, inner, tail, last, start) ==
               \E z \in Strip(start.io, inner.value, tail.value.length, last.value) :
                 z.ok /\ layer \in Answer(opts, tail, z)
  <1>1. PICK opts \in GetOpts(s) : opts.ok
             /\ \E inner \in Position(opts.io) : inner.ok
             /\ \E tail \in ReadSignatures(inner.io) : tail.ok
             /\ \E last \in Seek(tail.io, "End", 0) : last.ok
             /\ \E start \in Seek(last.io, "Start", inner.value) : start.ok
             /\ Last(opts, inner, tail, last, start)
    <2>1. layer \in
            Then(GetOpts(s), LAMBDA opts :
            Then(Position(opts.io), LAMBDA inner :
            Then(ReadSignatures(inner.io), LAMBDA tail :
            Then(Seek(tail.io, "End", 0), LAMBDA last :
            Then(Seek(last.io, "Start", inner.value), LAMBDA start :
            Then(Strip(start.io, inner.value, tail.value.length, last.value), LAMBDA z :
              Answer(opts, tail, z)))))))
      BY DEF ParseSignatureLayer
    <2> HIDE DEF Answer
    <2>2. QED
      BY <2>1 DEF Then
  <1> HIDE DEF Last, Answer
  <1>2. PICK inner \in Position(opts.io) : inner.ok
             /\ \E tail \in ReadSignatures(inner.io) : tail.ok
             /\ \E last \in Seek(tail.io, "End", 0) : last.ok
             /\ \E start \in Seek(last.io, "Start", inner.value) : start.ok
             /\ Last(opts, inner, tail, last, start)
    BY <1>1
  <1>3. PICK tail \in ReadSignatures(inner.io) : tail.ok
             /\ \E last \in Seek(tail.io, "End", 0) : last.ok
             /\ \E start \in Seek(last.io, "Start", inner.value) : start.ok
             /\ Last(opts, inner, tail, last, start)
    BY <1>2
  <1>4. PICK last \in Seek(tail.io, "End", 0) : last.ok
             /\ \E start \in Seek(last.io, "Start", inner.value) : start.ok
             /\ Last(opts, inner, tail, last, start)
    BY <1>3
  <1>5. PICK start \in Seek(last.io, "Start", inner.value) : start.ok
             /\ Last(opts, inner, tail, last, start)
    BY <1>4
  <1>6. PICK z \in Strip(start.io, inner.value, tail.value.length, last.value) :
             z.ok /\ layer \in Answer(opts, tail, z)
    BY <1>5 DEF Last
  <1>7. Stands(s, s, 1, C)
    BY StandsHere
  <1> DEFINE h == Here(opts.io)
             n == Size(s)
             b == Base(s, Top(s))
  <1>8. /\ Stands(s, opts.io, h, C) /\ h \in 1 + 1..n
        /\ View(s)[1 + 1] = Opts => h = 1 + 1
    BY <1>1, <1>7, SomeOpts
  <1>9. n \in Nat /\ b \in Nat /\ s.pos = b + 1
    BY CursorTypes
  <1> HIDE DEF h, n, b
  <1>10. h \in Nat /\ h > 1 /\ (View(s)[2] = Opts => h = 2)
    BY <1>8, <1>9
  <1>11. inner.value = h /\ Stands(s, inner.io, h, C)
    <2>1. inner \in Seek(opts.io, "Current", 0) /\ h + 0 = h /\ h + 0 >= 0
      BY <1>2, <1>10 DEF Position
    <2>2. /\ Stands(s, inner.io, inner.value, C)
          /\ h + 0 >= 0 => inner.value = h + 0
      BY <1>2, <1>8, <2>1, SeekCurrent
    <2>3. QED
      BY <2>1, <2>2
  <1>12. SignaturesGot(s, tail, C)
    BY <1>3, <1>11, ReadSignaturesStands
  <1> DEFINE l == tail.value.length
  <1>13. PICK at : Stands(s, tail.io, at, C)
    BY <1>12 DEF SignaturesGot
  <1>14. l \in Nat /\ Among(tail.value.signatures, s.bytes)
    BY <1>12 DEF SignaturesGot
  <1>15. Stands(s, last.io, last.value, C) /\ last.value = n
    <2>1. n + 0 >= 0 /\ n + 0 = n
      BY <1>9
    <2>2. /\ Stands(s, last.io, last.value, C)
          /\ Size(s) + 0 >= 0 => last.value = Size(s) + 0
      BY <1>4, <1>13, SeekEnd
    <2>3. QED
      BY <2>1, <2>2 DEF n
  <1>16. Stands(s, start.io, h, C)
    <2>1. start \in Seek(last.io, "Start", h)
      BY <1>5, <1>11
    <2>2. QED
      BY <1>5, <1>10, <1>15, <2>1, SeekStart
  <1>17. z \in Strip(start.io, h, l, Size(s))
    BY <1>6, <1>11, <1>15 DEF n
  <1> HIDE DEF l
  <1>18. Stripped(s, z.io, h, l, C)
    BY <1>6, <1>14, <1>16, <1>17, StripAround
  <1>19. opts.io.pos = b + h
    BY <1>8, StandsBase DEF b
  <1>20. /\ layer.value.hashed = SubSeq(s.bytes, s.pos + 1, opts.io.pos)
         /\ layer.value.signatures = tail.value.signatures /\ layer.io = z.io
    <2> DEFINE x == tail.value.signatures
               y == SubSeq(s.bytes, s.pos + 1, opts.io.pos)
    <2>1. layer \in Ok(z.io, [signatures |-> x, hashed |-> y])
      BY <1>6 DEF Answer
    <2> HIDE DEF x, y
    <2>2. layer.value.hashed = y /\ layer.value.signatures = x /\ layer.io = z.io
      BY <2>1 DEF Ok
    <2>3. QED
      BY <2>2 DEF x, y
  <1>21. SignatureParsed(s, layer, h, l, C)
    BY <1>10, <1>14, <1>18, <1>19, <1>20 DEF SignatureParsed, b
  <1>22. QED
    BY <1>10, <1>14, <1>21

(***************************************************************************)
(* The verification: the hash is that of all cells up to the end of the    *)
(* window, and the configuration met is one that the archive has.          *)
(***************************************************************************)
LEMMA EncryptionHeaderStands ==
  ASSUME NEW C, NEW s, NEW q, NEW i, Stands(s, q, i, C), NEW r \in ReadEncryptionHeader(q), r.ok
  PROVE  /\ r.value \in C /\ r.value.t = "persistent"
         /\ \E at : Stands(s, r.io, at, C) /\ at <= Size(s)
  <1>1. PICK opts \in GetOpts(q) : opts.ok
             /\ \E method \in Get(opts.io) : method.ok
             /\ \E c \in Get(method.io) : c.ok /\ c.value.t = "persistent"
                                          /\ r.io = c.io /\ r.value = c.value
    BY DEF ReadEncryptionHeader, Then, Ok, Error
  <1>2. PICK method \in Get(opts.io) : method.ok
             /\ \E c \in Get(method.io) : c.ok /\ c.value.t = "persistent"
                                          /\ r.io = c.io /\ r.value = c.value
    BY <1>1
  <1>3. PICK c \in Get(method.io) : c.ok /\ c.value.t = "persistent"
                                    /\ r.io = c.io /\ r.value = c.value
    BY <1>2
  <1> DEFINE h == Here(opts.io)
  <1>4. Stands(s, opts.io, h, C)
    BY <1>1, SomeOpts
  <1> HIDE DEF h
  <1>5. Stands(s, method.io, h + 1, C)
    BY <1>2, <1>4, OneCell
  <1> DEFINE j == h + 1
  <1> HIDE DEF j
  <1>6. Stands(s, method.io, j, C)
    BY <1>5 DEF j
  <1>7. j < Size(s) /\ Stands(s, c.io, j + 1, C) /\ c.value \in C
    BY <1>3, <1>6, OneCell
  <1>8. j \in Nat /\ Size(s) \in Nat
    BY <1>6, StandsFacts
  <1>9. j + 1 <= Size(s)
    BY <1>7, <1>8
  <1>10. QED
    BY <1>3, <1>7, <1>9

SignedRead(s, before, r, C) ==
    /\ Stands(s, r.io, 0, C)
    /\ r.value.hash = before \o SubSeq(s.bytes, s.pos + 1, Base(s, Top(s)) + Size(s))
    /\ IF View(s)[1] = ENCRYPTION_LAYER_MAGIC
       THEN \E c \in C : c.t = "persistent" /\ r.value.config = {c}
       ELSE r.value.config = {}

\* Verification hashes all that the signature layer shows, each cell once.
LEMMA ReadSignedStands ==
  ASSUME NEW C, NEW s, Good(s, C), Here(s) = 0, NEW before, NEW r \in ReadSigned(s, before), r.ok
  PROVE  SignedRead(s, before, r, C)
  <1> DEFINE Answer(c, rest, start) ==
               Ok(start.io, [config |-> c.value,
                             hash |-> before \o SubSeq(s.bytes, s.pos + 1, rest.io.pos)])
             Met(next) == IF next.value = ENCRYPTION_LAYER_MAGIC
                          THEN Then(ReadEncryptionHeader(next.io), LAMBDA x : Ok(x.io, {x.value}))
                          ELSE Ok(next.io, {})
  <1>1. PICK next \in Get(s) : next.ok
             /\ \E c \in Met(next) : c.ok
             /\ \E rest \in ReadToEnd(c.io) : rest.ok
             /\ \E start \in Seek(rest.io, "Start", 0) : start.ok
             /\ r \in Answer(c, rest, start)
    <2>1. r \in Then(Get(s), LAMBDA next : Then(Met(next), LAMBDA c :
                 Then(ReadToEnd(c.io), LAMBDA rest : Then(Seek(rest.io, "Start", 0), LAMBDA start :
                   Answer(c, rest, start)))))
      BY DEF ReadSigned
    <2> HIDE DEF Answer, Met
    <2>2. QED
      BY <2>1 DEF Then
  <1> HIDE DEF Answer, Met
  <1>2. PICK c \in Met(next) : c.ok
             /\ \E rest \in ReadToEnd(c.io) : rest.ok
             /\ \E start \in Seek(rest.io, "Start", 0) : start.ok
             /\ r \in Answer(c, rest, start)
    BY <1>1
  <1>3. PICK rest \in ReadToEnd(c.io) : rest.ok
             /\ \E start \in Seek(rest.io, "Start", 0) : start.ok
             /\ r \in Answer(c, rest, start)
    BY <1>2
  <1>4. PICK start \in Seek(rest.io, "Start", 0) : start.ok
             /\ r \in Answer(c, rest, start)
    BY <1>3
  <1> DEFINE n == Size(s)
  <1>5. n \in Nat
    BY CursorTypes
  <1>6. 0 < n /\ Stands(s, next.io, 1, C) /\ next.value = View(s)[1]
    <2>1. Stands(s, s, 0, C)
      BY StandsHere
    <2>2. 0 < n /\ Stands(s, next.io, 0 + 1, C) /\ next.value = View(s)[0 + 1]
      BY <1>1, <2>1, OneCell
    <2>3. 0 + 1 = 1
      OBVIOUS
    <2>4. QED
      BY <2>2, <2>3
  <1> DEFINE Config == IF View(s)[1] = ENCRYPTION_LAYER_MAGIC
                       THEN \E x \in C : x.t = "persistent" /\ c.value = {x}
                       ELSE c.value = {}
  <1>7. Config /\ \E at : Stands(s, c.io, at, C) /\ at <= n
    <2>1. CASE next.value = ENCRYPTION_LAYER_MAGIC
      <3>1. PICK x \in ReadEncryptionHeader(next.io) : x.ok /\ c.io = x.io /\ c.value = {x.value}
        BY <1>2, <2>1 DEF Then, Ok, Met
      <3>2. /\ x.value \in C /\ x.value.t = "persistent"
            /\ \E at : Stands(s, x.io, at, C) /\ at <= n
        BY <1>6, <3>1, EncryptionHeaderStands
      <3>3. QED
        BY <1>6, <2>1, <3>1, <3>2
    <2>2. CASE next.value # ENCRYPTION_LAYER_MAGIC
      <3>1. c.io = next.io /\ c.value = {}
        <4>1. c \in Ok(next.io, {})
          BY <1>2, <2>2 DEF Met
        <4>2. QED
          BY <4>1 DEF Ok
      <3>2. 1 <= n
        BY <1>5, <1>6
      <3>3. QED
        BY <1>6, <2>2, <3>1, <3>2
    <2>3. QED
      BY <2>1, <2>2
  <1> HIDE DEF Config
  <1>8. PICK at : Stands(s, c.io, at, C) /\ at <= n
    BY <1>7
  <1>9. /\ Good(c.io, C) /\ Here(c.io) = at /\ at \in Nat /\ Size(c.io) = n
    BY <1>8, StandsFacts
  <1> DEFINE k == n - at
  <1>10. MostReadable(c.io) = k /\ k \in Nat
    BY <1>5, <1>8, <1>9, MostReadableIs
  <1>11. rest \in ReadSome(c.io, k)
    <2> HIDE DEF k
    <2>1. ~(k < 0)
      BY <1>10
    <2>2. QED
      BY <1>3, <1>10, <2>1 DEF ReadToEnd
  <1>12. Stands(s, rest.io, n, C)
    <2>1. at + k = n
      BY <1>5, <1>9
    <2> HIDE DEF k
    <2>2. k <= Size(c.io) - Here(c.io)
      BY <1>5, <1>9, <1>10 DEF k
    <2>3. Passed(c.io, rest, k, C)
      BY <1>9, <1>10, <1>11, <2>2, ReadSomeStands
    <2>4. Stands(c.io, rest.io, at + k, C)
      BY <1>9, <2>3 DEF Passed
    <2>5. QED
      BY <1>8, <2>1, <2>4, StandsAgain
  <1>13. Stands(s, start.io, 0, C)
    BY <1>4, <1>12, SeekStart
  <1>14. rest.io.pos = Base(s, Top(s)) + n
    BY <1>12, StandsBase
  <1>15. /\ r.value.hash = before \o SubSeq(s.bytes, s.pos + 1, rest.io.pos)
         /\ r.value.config = c.value /\ r.io = start.io
    <2> DEFINE x == c.value
               y == before \o SubSeq(s.bytes, s.pos + 1, rest.io.pos)
    <2>1. r \in Ok(start.io, [config |-> x, hash |-> y])
      BY <1>4 DEF Answer
    <2> HIDE DEF x, y
    <2>2. r.value.hash = y /\ r.value.config = x /\ r.io = start.io
      BY <2>1 DEF Ok
    <2>3. QED
      BY <2>2 DEF x, y
  <1>16. QED
    BY <1>7, <1>13, <1>14, <1>15 DEF SignedRead, Config
\* The cells that the hash of the verification covers are the beginning of the archive.
LEMMA WholeHashed ==
  ASSUME AtSignature, Sealed, NEW layer, NEW inner \in Nat, NEW tail \in Nat,
         SignatureParsed(io, layer, inner, tail, Cells),
         NEW read, SignedRead(layer.io, hash \o layer.value.hashed, read, Cells)
  PROVE  read.value.hash = SubSeq(out, 1, Base(layer.io, 2) + Size(layer.io))
  <1> DEFINE C == Cells
             B == Base(io, 1)
             L == layer.io
             n == Size(L)
  <1>1. out \in Seq(C) /\ Len(out) \in Nat
    BY DEF Sealed, Cells
  <1>2. /\ Good(io, C) /\ Top(io) = 1 /\ Here(io) = 1 /\ io.bytes = out
        /\ hash = SubSeq(out, 1, B + 1)
    BY DEF AtSignature
  <1>3. io.pos = B + 1 /\ B \in Nat
    BY <1>2, CursorTypes
  <1>4. /\ Stripped(io, L, inner, tail, C) /\ inner > 1
        /\ layer.value.hashed = SubSeq(out, io.pos + 1, B + inner)
    BY <1>2 DEF SignatureParsed
  <1>5. Good(L, C) /\ Top(L) = 2 /\ L.bytes = out /\ Base(L, 2) = B + inner /\ Here(L) = 0
    <2>1. 1 + 1 = 2
      OBVIOUS
    <2>2. QED
      BY <1>2, <1>4, <2>1 DEF Stripped
  <1>6. n \in Nat /\ (B + inner) + n <= Len(out) /\ L.pos = B + inner
    <2>1. n \in Nat /\ Base(L, 2) + n <= Len(out) /\ L.pos = Base(L, 2) + 0
      BY <1>5, CursorTypes
    <2>2. QED
      BY <1>3, <1>5, <2>1
  <1>7. read.value.hash = (hash \o layer.value.hashed) \o SubSeq(out, L.pos + 1, (B + inner) + n)
    BY <1>5 DEF SignedRead
  <1> HIDE DEF C, B, L, n
  <1>8. hash \o layer.value.hashed = SubSeq(out, 1, B + inner)
    <2> DEFINE x == B + 1
               y == inner - 1
    <2>1. x \in Nat /\ y \in Nat /\ x + y = B + inner /\ x + y <= Len(out)
      BY <1>1, <1>3, <1>4, <1>6
    <2>2. hash = SubSeq(out, 1, x) /\ layer.value.hashed = SubSeq(out, x + 1, x + y)
      BY <1>2, <1>3, <1>4, <2>1
    <2> HIDE DEF x, y
    <2>3. SubSeq(out, 1, x) \o SubSeq(out, x + 1, x + y) = SubSeq(out, 1, x + y)
      BY <1>1, <2>1, BeginningGrows
    <2>4. QED
      BY <2>1, <2>2, <2>3
  <1>9. read.value.hash = SubSeq(out, 1, (B + inner) + n)
    <2> DEFINE x == B + inner
    <2>1. x \in Nat /\ x + n <= Len(out)
      BY <1>3, <1>6
    <2>2. read.value.hash = SubSeq(out, 1, x) \o SubSeq(out, x + 1, x + n)
      BY <1>6, <1>7, <1>8
    <2> HIDE DEF x
    <2>3. SubSeq(out, 1, x) \o SubSeq(out, x + 1, x + n) = SubSeq(out, 1, x + n)
      BY <1>1, <1>6, <2>1, BeginningGrows
    <2>4. QED
      BY <2>2, <2>3 DEF x
  <1>10. QED
    BY <1>5, <1>9 DEF L, n

\* If that is what was signed, then the window shows the stream that was signed.
LEMMA SignedIsShown ==
  ASSUME archive \in Archives, AtSignature, Sealed, archive.signers # <<>>,
         NEW layer, NEW inner \in Nat, NEW tail \in Nat,
         SignatureParsed(io, layer, inner, tail, Cells),
         SubSeq(out, 1, Base(layer.io, 2) + Size(layer.io)) = signed
  PROVE  shorts = 0 /\ signed = SignedBytes(archive) /\ View(layer.io) = EncryptionStream(archive)
  <1> DEFINE C == Cells
             B == Base(io, 1)
             L == layer.io
             n == Size(L)
             w == SignedBytes(archive)
             v == EncryptionStream(archive)
  <1>1. out \in Seq(C) /\ Len(out) \in Nat
    BY DEF Sealed, Cells
  <1>2. /\ Good(io, C) /\ Top(io) = 1 /\ io.bytes = out /\ (out[3] = Opts => B = 3)
    BY DEF AtSignature
  <1>3. /\ B \in Nat /\ Size(io) \in Nat
        /\ \A i \in 1..Size(io) : View(io)[i] = out[B + i]
    BY <1>2, CursorTypes
  <1>4. /\ Stripped(io, L, inner, tail, C) /\ inner > 1
        /\ View(io)[2] = Opts => inner = 2
    BY DEF SignatureParsed
  <1>5. /\ Good(L, C) /\ Top(L) = 2 /\ L.bytes = out /\ Base(L, 2) = B + inner
        /\ n = Size(io) - inner - tail
    <2>1. 1 + 1 = 2
      OBVIOUS
    <2>2. QED
      BY <1>2, <1>4, <2>1 DEF Stripped
  <1>6. /\ n \in Nat /\ Base(L, 2) + n <= Len(out) /\ View(L) \in Seq(C) /\ Len(View(L)) = n
        /\ \A i \in 1..n : View(L)[i] = out[Base(L, 2) + i]
    BY <1>5, CursorTypes
  <1> DEFINE e == Base(L, 2) + n
  <1>7. e \in 0..Len(out) /\ SubSeq(out, 1, e) = signed
    BY <1>1, <1>3, <1>5, <1>6
  <1>8. shorts = 0 /\ signed = w
    <2>1. ~NoBeginning(signed, out)
      BY <1>7 DEF NoBeginning
    <2>2. QED
      BY <2>1 DEF Sealed
  <1>9. /\ Stream(w, PlainCells(archive)) /\ Len(w) = 5 + Len(v)
        /\ w[3] = Opts /\ w[5] = Opts /\ \A k \in 1..Len(v) : w[5 + k] = v[k]
    BY ArchiveDescribed, SignedCells
  <1>10. v \in Seq(C) /\ Len(v) \in Nat
    <2>1. Stream(v, PlainCells(archive))
      BY ArchiveDescribed, EncryptionCells
    <2> HIDE DEF v
    <2>2. QED
      BY <2>1 DEF Stream, Cells, ArchiveCells
  <1> HIDE DEF C, B, L, n, w, v, e
  <1>11. Len(w) = e /\ \A i \in 1..e : w[i] = out[i]
    BY <1>1, <1>7, <1>8
  <1>12. B = 3
    <2>1. 3 \in 1..e
      BY <1>7, <1>9, <1>10, <1>11
    <2>2. QED
      BY <1>2, <1>9, <1>11, <2>1
  <1>13. inner = 2
    <2>1. 2 \in 1..Size(io)
      BY <1>3, <1>4, <1>5, <1>6
    <2>2. View(io)[2] = out[5]
      BY <1>3, <1>12, <2>1
    <2>3. 5 \in 1..e
      BY <1>7, <1>9, <1>10, <1>11
    <2>4. QED
      BY <1>4, <1>9, <1>11, <2>2, <2>3
  <1>14. Base(L, 2) = 5 /\ e = 5 + n /\ n = Len(v)
    BY <1>5, <1>6, <1>9, <1>10, <1>11, <1>12, <1>13 DEF e
  <1>15. ASSUME NEW i \in 1..n PROVE View(L)[i] = v[i]
    <2>1. 5 + i \in 1..e
      BY <1>6, <1>14
    <2>2. QED
      BY <1>6, <1>9, <1>11, <1>14, <2>1
  <1>16. View(L) = v
    BY <1>6, <1>10, <1>14, <1>15
  <1>17. QED
    BY <1>8, <1>16 DEF w, v, L
(***************************************************************************)
(* What a verified signature is worth: the reported keys signed exactly    *)
(* this archive, with both of their keys.                                  *)
(***************************************************************************)
Vouched ==
    /\ keys_with_valid_signatures # {}
    /\ keys_with_valid_signatures \subseteq Range(archive.signers)
    /\ shorts = 0
    /\ \A key \in keys_with_valid_signatures, method \in {"ed25519", "mldsa87"} :
         \E i \in DOMAIN out : Verifies(key, out[i], SignedBytes(archive))
                               /\ out[i].method = method

OnView(stream) == Good(io, Cells) /\ Top(io) \in {0, 2} /\ View(io) = stream

SignedConfig ==
    signed_persistent_encryption_config =
      IF EncryptionStream(archive)[1] = ENCRYPTION_LAYER_MAGIC THEN {HeaderConfig(archive)}
      ELSE {}

AtNext ==
    /\ SignedConfig
    /\ ~replaced => OnView(EncryptionStream(archive)) /\ Here(io) = 0

AtEncryption ==
    /\ SignedConfig
    /\ ~replaced => magic = EncryptionStream(archive)[1] /\ OnView(EncryptionStream(archive))

\* A verified signature is one that the archive's own signer made over `signed`.
LEMMA VerifiedCell ==
  ASSUME Sealed, NEW cells, Among(cells, out), NEW key, NEW h, NEW method,
         NEW i \in DOMAIN cells, Verifies(key, cells[i], h), cells[i].method = method
  PROVE  /\ h = signed /\ key \in Range(archive.signers) /\ archive.signers # <<>>
         /\ \E j \in DOMAIN out : Verifies(key, out[j], h) /\ out[j].method = method
  <1>1. PICK j \in DOMAIN out : cells[i] = out[j]
    BY DEF Among
  <1>2. out[j] \in ArchiveCells(archive, signed)
    BY DEF Sealed
  <1>3. h = signed /\ key \in Range(archive.signers)
    BY <1>1, <1>2, CellFacts DEF Verifies
  <1>4. archive.signers # <<>>
    BY <1>3 DEF Range
  <1>5. QED
    BY <1>1, <1>3, <1>4

\* A verification that succeeds vouches for what is shown.
LEMMA VerificationReaches ==
  ASSUME archive \in Archives, AtSignature, Sealed, OpenSignature, config.signature_check,
         phase' = "next"
  PROVE  (Vouched /\ AtNext)'
  <1> DEFINE C == Cells
             before(layer) == hash \o layer.value.hashed
             valid(layer, read) == {key \in config.verification_keys :
                                      KeyVerified(key, layer.value.signatures, read.value.hash)}
  <1>1. out \in Seq(C) /\ UNCHANGED <<archive, out, signed, shorts, replaced>>
    BY DEF Sealed, Cells, OpenSignature, writeVars
  <1>2. PICK layer \in ParseSignatureLayer(io) :
          layer.ok /\ Verify(layer.io, layer.value.signatures, before(layer))
    BY DEF OpenSignature, SignatureRefused, Refused
  <1>3. PICK read \in ReadSigned(layer.io, before(layer)) :
          /\ read.ok /\ valid(layer, read) # {}
          /\ LayerVerified(read.io, valid(layer, read), read.value.config)
    BY <1>2 DEF Verify, SignatureRefused, Refused
  <1> DEFINE L == layer.io
             cells == layer.value.signatures
             h == read.value.hash
             V == valid(layer, read)
  <1> HIDE DEF valid
  <1>4. /\ io' = read.io /\ keys_with_valid_signatures' = V
        /\ signed_persistent_encryption_config' = read.value.config
    BY <1>3 DEF LayerVerified
  <1>5. /\ Good(io, C) /\ Top(io) = 1 /\ Here(io) = 1 /\ io.bytes = out /\ Counts(C)
    BY CellsCount DEF AtSignature
  <1> HIDE DEF C
  <1>6. PICK inner \in Nat, tail \in Nat : SignatureParsed(io, layer, inner, tail, C)
    BY <1>2, <1>5, ParseSignatureStands
  <1>7. Among(cells, out) /\ Good(L, C) /\ Here(L) = 0 /\ Top(L) = 2
    <2>1. Stripped(io, L, inner, tail, C) /\ Among(cells, out)
      BY <1>5, <1>6 DEF SignatureParsed
    <2>2. 1 + 1 = 2
      OBVIOUS
    <2>3. QED
      BY <1>5, <2>1, <2>2 DEF Stripped
  <1>8. SignedRead(L, before(layer), read, C)
    BY <1>3, <1>7, ReadSignedStands
  <1>9. h = SubSeq(out, 1, Base(L, 2) + Size(L))
    BY <1>6, <1>8, WholeHashed DEF C
  <1>10. ASSUME NEW key \in V, NEW method \in {"ed25519", "mldsa87"}
         PROVE  /\ h = signed /\ key \in Range(archive.signers) /\ archive.signers # <<>>
                /\ \E j \in DOMAIN out : Verifies(key, out[j], h) /\ out[j].method = method
    <2>1. PICK i \in DOMAIN cells : Verifies(key, cells[i], h) /\ cells[i].method = method
      BY DEF valid, KeyVerified
    <2> HIDE DEF cells, h
    <2>2. QED
      BY <1>7, <2>1, VerifiedCell
  <1>11. V # {}
    BY <1>3
  <1> HIDE DEF V, cells, h, before
  <1>12. h = signed /\ archive.signers # <<>> /\ V \subseteq Range(archive.signers)
    <2>1. "ed25519" \in {"ed25519", "mldsa87"}
      OBVIOUS
    <2>2. QED
      BY <1>10, <1>11, <2>1
  <1>13. shorts = 0 /\ signed = SignedBytes(archive) /\ View(L) = EncryptionStream(archive)
    BY <1>6, <1>9, <1>12, SignedIsShown DEF C, L
  <1> DEFINE v == EncryptionStream(archive)
  <1>14. Vouched'
    <2>1. \A key \in V, method \in {"ed25519", "mldsa87"} :
            \E j \in DOMAIN out : Verifies(key, out[j], SignedBytes(archive))
                                  /\ out[j].method = method
      BY <1>10, <1>12, <1>13
    <2>2. QED
      BY <1>1, <1>4, <1>11, <1>12, <1>13, <2>1 DEF Vouched
  <1>15. /\ Stands(L, read.io, 0, C)
         /\ IF v[1] = ENCRYPTION_LAYER_MAGIC
            THEN \E c \in C : c.t = "persistent" /\ read.value.config = {c}
            ELSE read.value.config = {}
    BY <1>8, <1>13 DEF SignedRead
  <1>16. read.value.config = IF v[1] = ENCRYPTION_LAYER_MAGIC THEN {HeaderConfig(archive)} ELSE {}
    <2>1. \A c \in C : c.t = "persistent" => c = HeaderConfig(archive)
      BY CellFacts DEF C, Cells
    <2>2. QED
      BY <1>15, <2>1
  <1>17. Good(read.io, C) /\ Top(read.io) = 2 /\ View(read.io) = v /\ Here(read.io) = 0
    BY <1>7, <1>13, <1>15, StandsFacts
  <1>18. Cells' = C /\ archive' = archive
    BY <1>1 DEF C, Cells
  <1>19. AtNext'
    <2>1. EncryptionStream(archive)' = v /\ HeaderConfig(archive)' = HeaderConfig(archive)
      BY <1>18
    <2> HIDE DEF v
    <2>2. Good(io', C) /\ Top(io') = 2 /\ View(io') = v /\ Here(io') = 0
      BY <1>4, <1>17
    <2>3. OnView(EncryptionStream(archive))'
      BY <1>18, <2>1, <2>2 DEF OnView
    <2>4. SignedConfig'
      BY <1>4, <1>16, <2>1 DEF SignedConfig
    <2>5. QED
      BY <2>2, <2>3, <2>4 DEF AtNext
  <1>20. QED
    BY <1>14, <1>19

\* The magic that is read once more is the signed one, unless the source changed.
LEMMA NextReaches ==
  ASSUME AtNext, ReadNextMagic, phase' = "encryption"
  PROVE  AtEncryption'
  <1> DEFINE C == Cells
             v == EncryptionStream(archive)
  <1>1. /\ UNCHANGED <<archive, out, signed, replaced>>
        /\ UNCHANGED signed_persistent_encryption_config
    BY DEF ReadNextMagic, writeVars
  <1>2. PICK next \in Get(io) : next.ok /\ io' = next.io /\ magic' = next.value
    BY DEF ReadNextMagic, Refused
  <1>3. Cells' = C /\ EncryptionStream(archive)' = v /\ SignedConfig'
    BY <1>1 DEF Cells, AtNext, SignedConfig
  <1>4. ASSUME ~replaced PROVE magic' = v[1] /\ OnView(EncryptionStream(archive))'
    <2>1. Good(io, C) /\ Top(io) \in {0, 2} /\ View(io) = v /\ Here(io) = 0
      BY <1>4 DEF AtNext, OnView
    <2> HIDE DEF C, v
    <2>2. Stands(io, io, 0, C)
      BY <2>1, StandsHere
    <2>3. Stands(io, next.io, 0 + 1, C) /\ next.value = View(io)[0 + 1]
      BY <1>2, <2>2, OneCell
    <2>4. Good(next.io, C) /\ Top(next.io) = Top(io) /\ View(next.io) = v
      BY <2>1, <2>3, StandsFacts
    <2>5. 0 + 1 = 1
      OBVIOUS
    <2>6. QED
      BY <1>2, <1>3, <2>1, <2>3, <2>4, <2>5 DEF OnView
  <1>5. QED
    BY <1>1, <1>3, <1>4 DEF AtEncryption
(***************************************************************************)
(* The key commitment: whatever a reader finds under a header whose        *)
(* commitment fits the archive's own key only, and keeps, is that key.     *)
(***************************************************************************)
LEMMA LoadedKey ==
  ASSUME Committed, NEW encrypt, NEW key \in LoadPersistent(encrypt, HeaderConfig(archive))
  PROVE  key = ArchiveKey(archive)
  <1>1. HeaderConfig(archive).key_commitment.tag_under =
          {KeySchedule(ss) : ss \in archive.committed}
    BY DEF HeaderConfig, PersistentConfig, Commitment
  <1>2. key \in {KeySchedule(ss) : ss \in archive.committed}
    BY <1>1 DEF LoadPersistent, CheckKeyCommitment
  <1>3. QED
    BY <1>2 DEF Committed, ArchiveKey

\* What holds behind the encryption layer, unless the source may be anything.
Trusted ==
    ~replaced \/ (~config.accept_unencrypted /\ archive.recipients # <<>> /\ Committed)

AtEntries ==
    Trusted => magic = CompressionStream(archive)[1] /\ OnView(CompressionStream(archive))

\* A decryption that succeeds shows what was encrypted.
LEMMA Decrypted ==
  ASSUME ~replaced \/ Committed, NEW src, NEW encrypt,
         NEW l \in EncryptionLayer(src, encrypt, {HeaderConfig(archive)}), l.ok
  PROVE  l.io = Source(CompressionStream(archive))
  <1> DEFINE loaded(read) ==
               LoadPersistent(encrypt, ConfigUsed({HeaderConfig(archive)}, read))
  <1>1. \E read, from : /\ loaded(read) # {}
                        /\ l \in Decrypt(from, CHOOSE key \in loaded(read) : TRUE)
    <2> DEFINE Rest(header, end, options) ==
                 LET length == header.io.pos - src.pos + 1
                 IN  Then(Seek(options.io, "Start", length), LAMBDA start :
                       IF loaded(header.value) = {} THEN Error("ConfigError")
                       ELSE Then(Strip(start.io, length, options.value + 1, end.value), LAMBDA s :
                              Decrypt(s.io, CHOOSE key \in loaded(header.value) : TRUE)))
    <2>1. l \in Then(ReadEncryptionHeader(src), LAMBDA header :
                Then(Seek(header.io, "End", 0), LAMBDA end :
                Then(Seek(end.io, "Current", -1), LAMBDA last :
                Then(GetLength(last.io), LAMBDA options : Rest(header, end, options)))))
      BY DEF EncryptionLayer
    <2>2. \E header, end, options : l \in Rest(header, end, options)
      <3> HIDE DEF Rest
      <3>1. QED
        BY <2>1 DEF Then
    <2>3. PICK header, end, options : l \in Rest(header, end, options)
      BY <2>2
    <2> HIDE DEF loaded
    <2>4. QED
      BY <2>3 DEF Then, Error
  <1>2. PICK read, from : /\ loaded(read) # {}
                          /\ l \in Decrypt(from, CHOOSE key \in loaded(read) : TRUE)
    BY <1>1
  <1>3. ConfigUsed({HeaderConfig(archive)}, read) = HeaderConfig(archive)
    BY DEF ConfigUsed
  <1> DEFINE k == CHOOSE key \in loaded(read) : TRUE
  <1>4. Committed => k = ArchiveKey(archive)
    <2>1. k \in loaded(read)
      BY <1>2
    <2> HIDE DEF k
    <2>2. QED
      BY <1>3, <2>1, LoadedKey
  <1> HIDE DEF k
  <1>5. Committed => k.key_of = archive.id
    BY <1>4 DEF ArchiveKey, KeySchedule
  <1>6. l.io = Source(CompressionStream(OfSecret(k.key_of)))
    <2>1. l \in Decrypt(from, k)
      BY <1>2 DEF k
    <2>2. QED
      BY <2>1 DEF Decrypt, Then, Ok, Error
  <1>7. OfSecret(k.key_of) = archive
    BY <1>5 DEF OfSecret
  <1>8. QED
    BY <1>6, <1>7

\* The encryption layer leaves a good stack, or one over the signed entries.
LEMMA EncryptionReaches ==
  ASSUME archive \in Archives, AtEncryption, OpenEncryption, phase' = "entries"
  PROVE  AtEntries'
  <1> DEFINE C == Cells
             v == CompressionStream(archive)
  <1>1. UNCHANGED <<archive, out, signed, replaced, config>>
    BY DEF OpenEncryption, writeVars
  <1>2. Cells' = C /\ CompressionStream(archive)' = v
    BY <1>1 DEF Cells
  <1>3. v \in Seq(C)
    <2>1. Stream(v, PlainCells(archive))
      BY ArchiveDescribed, CompressionCells
    <2> HIDE DEF v
    <2>2. QED
      BY <2>1 DEF Stream, Cells, ArchiveCells
  <1>4. CASE magic = ENCRYPTION_LAYER_MAGIC
    <2> SUFFICES ASSUME Trusted PROVE AtEntries'
      BY <1>1 DEF AtEntries, Trusted, Committed
    <2>1. PICK layer \in Then(EncryptionLayer(io, config.encrypt,
                                              signed_persistent_encryption_config),
                              LAMBDA l : Get(l.io)) :
            layer.ok /\ io' = layer.io /\ magic' = layer.value
      BY <1>4 DEF OpenEncryption, Refused
    <2>2. PICK l \in EncryptionLayer(io, config.encrypt, {HeaderConfig(archive)}) :
            l.ok /\ layer \in Get(l.io)
      <3>1. signed_persistent_encryption_config = {HeaderConfig(archive)}
        <4>1. EncryptionStream(archive)[1] = ENCRYPTION_LAYER_MAGIC
          <5>1. CASE ~replaced
            BY <1>4, <5>1 DEF AtEncryption
          <5>2. CASE archive.recipients # <<>>
            BY <5>2 DEF EncryptionStream
          <5>3. QED
            BY <5>1, <5>2 DEF Trusted
        <4>2. QED
          BY <4>1 DEF AtEncryption, SignedConfig
      <3>2. QED
        BY <2>1, <3>1 DEF Then
    <2> DEFINE s == l.io
    <2>3. s = Source(v)
      BY <2>2, Decrypted DEF Trusted
    <2> HIDE DEF s, C, v
    <2>4. Good(s, C) /\ Here(s) = 0 /\ Top(s) = 0 /\ View(s) = v
      BY <1>3, <2>3, SourceIsGood
    <2>5. Stands(s, s, 0, C)
      BY <2>4, StandsHere
    <2>6. Stands(s, layer.io, 0 + 1, C) /\ layer.value = View(s)[0 + 1]
      BY <2>1, <2>2, <2>5, OneCell DEF s
    <2>7. Good(layer.io, C) /\ Top(layer.io) = 0 /\ View(layer.io) = v
      BY <2>4, <2>6, StandsFacts
    <2>8. layer.value = v[1]
      <3>1. 0 + 1 = 1
        OBVIOUS
      <3>2. QED
        BY <2>4, <2>6, <3>1
    <2>9. QED
      BY <1>2, <2>1, <2>7, <2>8 DEF AtEntries, OnView
  <1>5. CASE magic # ENCRYPTION_LAYER_MAGIC
    <2>1. config.accept_unencrypted /\ io' = io /\ magic' = magic
      BY <1>5 DEF OpenEncryption, Refused
    <2>2. CASE replaced
      BY <1>1, <2>1, <2>2 DEF AtEntries, Trusted
    <2>3. CASE ~replaced
      <3>1. OnView(EncryptionStream(archive)) /\ magic = EncryptionStream(archive)[1]
        BY <2>3 DEF AtEncryption
      <3>2. EncryptionStream(archive) = v
        BY <1>5, <3>1, ArchiveDescribed, EncryptionCells
      <3> HIDE DEF v
      <3>3. QED
        BY <1>2, <2>1, <3>1, <3>2 DEF AtEntries, OnView, C
    <2>4. QED
      BY <2>2, <2>3
  <1>6. QED
    BY <1>4, <1>5
(***************************************************************************)
(* The compression layer and the footer of the entries.                    *)
(***************************************************************************)
LEMMA CompressedStreamStands ==
  ASSUME NEW C, NEW s, Good(s, C), Top(s) <= 2, NEW r \in CompressedStream(s), r.ok
  PROVE  Good(r.io, C)
  <1>1. PICK opts \in GetOpts(s) : opts.ok
             /\ \E here \in Position(opts.io) : here.ok
             /\ \E end \in Seek(here.io, "End", 0) : end.ok
             /\ \E start \in Seek(end.io, "Start", here.value) : start.ok
             /\ r \in Strip(start.io, here.value, 0, end.value)
    BY DEF CompressedStream, Then
  <1>2. PICK here \in Position(opts.io) : here.ok
             /\ \E end \in Seek(here.io, "End", 0) : end.ok
             /\ \E start \in Seek(end.io, "Start", here.value) : start.ok
             /\ r \in Strip(start.io, here.value, 0, end.value)
    BY <1>1
  <1>3. PICK end \in Seek(here.io, "End", 0) : end.ok
             /\ \E start \in Seek(end.io, "Start", here.value) : start.ok
             /\ r \in Strip(start.io, here.value, 0, end.value)
    BY <1>2
  <1>4. PICK start \in Seek(end.io, "Start", here.value) : start.ok
             /\ r \in Strip(start.io, here.value, 0, end.value)
    BY <1>3
  <1> DEFINE at == Here(s)
             n == Size(s)
             i == here.value
  <1>5. Stands(s, s, at, C) /\ n \in Nat
    BY StandsHere, CursorTypes
  <1>6. Stands(s, opts.io, Here(opts.io), C)
    BY <1>1, <1>5, SomeOpts
  <1>7. i \in Nat /\ Stands(s, here.io, i, C)
    BY <1>2, <1>6, SeekCurrent DEF Position
  <1>8. Stands(s, end.io, end.value, C) /\ end.value = n
    <2>1. n + 0 >= 0 /\ n + 0 = n
      BY <1>5
    <2>2. /\ Stands(s, end.io, end.value, C)
          /\ Size(s) + 0 >= 0 => end.value = Size(s) + 0
      BY <1>3, <1>7, SeekEnd
    <2>3. QED
      BY <2>1, <2>2
  <1>9. Stands(s, start.io, i, C)
    BY <1>4, <1>7, <1>8, SeekStart
  <1>10. r \in Strip(start.io, i, 0, Size(s))
    BY <1>4, <1>8
  <1> HIDE DEF i
  <1>11. Stripped(s, r.io, i, 0, C)
    BY <1>9, <1>10, StripAround
  <1>12. QED
    BY <1>11 DEF Stripped

\* Reading the sizes of the compressed blocks keeps the stack good.
LEMMA SizesInfoStands ==
  ASSUME NEW C, Counts(C), NEW s, Good(s, C), NEW r \in ReadSizesInfo(s), r.ok
  PROVE  Good(r.io, C)
  <1>1. PICK last \in Seek(s, "End", -1) : last.ok
             /\ \E n \in GetLength(last.io) : n.ok /\ ~(n.value > last.value)
             /\ \E sizes \in Seek(n.io, "Start", last.value - n.value) : sizes.ok
             /\ \E c \in Get(sizes.io) : c.ok /\ r.io = c.io
    BY DEF ReadSizesInfo, Then, Ok, Error
  <1>2. PICK n \in GetLength(last.io) : n.ok /\ ~(n.value > last.value)
             /\ \E sizes \in Seek(n.io, "Start", last.value - n.value) : sizes.ok
             /\ \E c \in Get(sizes.io) : c.ok /\ r.io = c.io
    BY <1>1
  <1>3. PICK sizes \in Seek(n.io, "Start", last.value - n.value) : sizes.ok
             /\ \E c \in Get(sizes.io) : c.ok /\ r.io = c.io
    BY <1>2
  <1>4. PICK c \in Get(sizes.io) : c.ok /\ r.io = c.io
    BY <1>3
  <1> DEFINE at == Here(s)
  <1>5. Stands(s, s, at, C)
    BY StandsHere
  <1>6. Stands(s, last.io, last.value, C) /\ last.value \in Nat
    BY <1>1, <1>5, SeekEnd
  <1>7. Stands(s, n.io, last.value + 1, C) /\ n.value \in Nat
    BY <1>2, <1>6, OneLength
  <1> DEFINE k == last.value - n.value
  <1>8. k \in Nat
    BY <1>2, <1>6, <1>7
  <1>9. Stands(s, sizes.io, k, C)
    <2>1. sizes \in Seek(n.io, "Start", k)
      BY <1>3
    <2> HIDE DEF k
    <2>2. QED
      BY <1>3, <1>7, <1>8, <2>1, SeekStart
  <1> HIDE DEF k
  <1>10. Stands(s, c.io, k + 1, C)
    BY <1>4, <1>9, OneCell
  <1>11. QED
    BY <1>4, <1>10, StandsFacts

\* A decompression that succeeds shows the entries that were compressed.
LEMMA Decompressed ==
  ASSUME NEW s, Good(s, Cells), Top(s) <= 2, NEW l \in CompressionLayer(s), l.ok
  PROVE  l.io = Source(EntriesStream(archive))
  <1> DEFINE C == Cells
  <1>0. Counts(C)
    BY CellsCount
  <1> HIDE DEF C
  <1>1. PICK z \in CompressedStream(s) : z.ok
             /\ \E sizes \in ReadSizesInfo(z.io) : sizes.ok
             /\ \E first \in Seek(sizes.io, "Start", 0) : first.ok /\ l \in Decompress(first.io)
    BY DEF CompressionLayer, Then
  <1>2. PICK sizes \in ReadSizesInfo(z.io) : sizes.ok
             /\ \E first \in Seek(sizes.io, "Start", 0) : first.ok /\ l \in Decompress(first.io)
    BY <1>1
  <1>3. PICK first \in Seek(sizes.io, "Start", 0) : first.ok /\ l \in Decompress(first.io)
    BY <1>2
  <1>4. PICK c \in Get(first.io) : /\ c.ok /\ c.value.t = "packed"
                                   /\ l.io = Source(EntriesStream(OfSecret(c.value.of)))
    BY <1>3 DEF Decompress, Then, Ok, Error
  <1>5. Good(z.io, C)
    BY <1>1, CompressedStreamStands DEF C
  <1>6. Good(sizes.io, C)
    BY <1>0, <1>2, <1>5, SizesInfoStands
  <1> DEFINE q == sizes.io
  <1>7. Stands(q, q, Here(q), C)
    BY <1>6, StandsHere
  <1>8. Stands(q, first.io, 0, C)
    BY <1>3, <1>7, SeekStart
  <1>9. c.value \in C
    BY <1>4, <1>8, OneCell
  <1>10. c.value.of = archive.id
    BY <1>4, <1>9, CellFacts DEF C, Cells
  <1>11. QED
    BY <1>4, <1>10 DEF OfSecret

\* Reading the footer moves the cursor only.
LEMMA FooterStands ==
  ASSUME NEW C, Counts(C), NEW s, Good(s, C), NEW r \in ReadFooter(s), r.ok
  PROVE  \E at : Stands(s, r.io, at, C)
  <1>1. PICK end \in Seek(s, "End", -1) : end.ok
             /\ \E options \in GetLength(end.io) : options.ok
             /\ \E before \in Seek(options.io, "End", -(2 + options.value)) : before.ok
             /\ \E length \in GetLength(before.io) : length.ok
             /\ \E start \in Seek(length.io, "Current", -(1 + length.value)) : start.ok
             /\ \E c \in Get(start.io) : c.ok /\ r.io = c.io
    BY DEF ReadFooter, Then, Ok, Error
  <1>2. PICK options \in GetLength(end.io) : options.ok
             /\ \E before \in Seek(options.io, "End", -(2 + options.value)) : before.ok
             /\ \E length \in GetLength(before.io) : length.ok
             /\ \E start \in Seek(length.io, "Current", -(1 + length.value)) : start.ok
             /\ \E c \in Get(start.io) : c.ok /\ r.io = c.io
    BY <1>1
  <1>3. PICK before \in Seek(options.io, "End", -(2 + options.value)) : before.ok
             /\ \E length \in GetLength(before.io) : length.ok
             /\ \E start \in Seek(length.io, "Current", -(1 + length.value)) : start.ok
             /\ \E c \in Get(start.io) : c.ok /\ r.io = c.io
    BY <1>2
  <1>4. PICK length \in GetLength(before.io) : length.ok
             /\ \E start \in Seek(length.io, "Current", -(1 + length.value)) : start.ok
             /\ \E c \in Get(start.io) : c.ok /\ r.io = c.io
    BY <1>3
  <1>5. PICK start \in Seek(length.io, "Current", -(1 + length.value)) : start.ok
             /\ \E c \in Get(start.io) : c.ok /\ r.io = c.io
    BY <1>4
  <1>6. PICK c \in Get(start.io) : c.ok /\ r.io = c.io
    BY <1>5
  <1>7. Stands(s, s, Here(s), C)
    BY StandsHere
  <1>8. Stands(s, end.io, end.value, C)
    BY <1>1, <1>7, SeekEnd
  <1>9. Stands(s, options.io, end.value + 1, C) /\ options.value \in Nat
    BY <1>2, <1>8, OneLength
  <1>10. Stands(s, before.io, before.value, C)
    <2>1. -(2 + options.value) \in Int /\ -(2 + options.value) <= 0
      BY <1>9
    <2>2. QED
      BY <1>3, <1>9, <2>1, SeekEnd
  <1>11. Stands(s, length.io, before.value + 1, C) /\ length.value \in Nat
    BY <1>4, <1>10, OneLength
  <1>12. Stands(s, start.io, start.value, C)
    <2>1. -(1 + length.value) \in Int
      BY <1>11
    <2>2. QED
      BY <1>5, <1>11, <2>1, SeekCurrent
  <1>13. Stands(s, c.io, start.value + 1, C)
    BY <1>6, <1>12, OneCell
  <1>14. QED
    BY <1>6, <1>13

\* Opening the entries layer moves the cursor only.
LEMMA EntriesLayerStands ==
  ASSUME NEW C, Counts(C), NEW s, Good(s, C), NEW r \in EntriesLayer(s), r.ok
  PROVE  \E at : Stands(s, r.io, at, C) /\ at <= Size(s)
  <1>1. PICK footer \in ReadFooter(s) : footer.ok
             /\ \E start \in Seek(footer.io, "Start", 0) : start.ok
             /\ \E h \in ReadEntriesHeader(start.io) : h.ok /\ r.io = h.io
    BY DEF EntriesLayer, Then, Ok
  <1>2. PICK start \in Seek(footer.io, "Start", 0) : start.ok
             /\ \E h \in ReadEntriesHeader(start.io) : h.ok /\ r.io = h.io
    BY <1>1
  <1>3. PICK h \in ReadEntriesHeader(start.io) : h.ok /\ r.io = h.io
    BY <1>2
  <1>4. PICK m \in Get(start.io) : m.ok /\ h \in GetOpts(m.io)
    BY <1>3 DEF ReadEntriesHeader, Then, Error
  <1>5. PICK at : Stands(s, footer.io, at, C)
    BY <1>1, FooterStands
  <1>6. Stands(s, start.io, 0, C)
    BY <1>2, <1>5, SeekStart
  <1>7. Stands(s, m.io, 0 + 1, C)
    BY <1>4, <1>6, OneCell
  <1> DEFINE e == Here(h.io)
  <1>8. Stands(s, h.io, e, C) /\ e \in (0 + 1) + 1..Size(s)
    BY <1>3, <1>4, <1>7, SomeOpts
  <1> HIDE DEF e
  <1>9. Size(s) \in Nat
    BY CursorTypes
  <1>10. QED
    BY <1>3, <1>8, <1>9

\* The window of the properties is the view.
LEMMA WindowIsView ==
  ASSUME NEW C, Good(io, C) PROVE Window.cells = View(io) /\ Window.from = Base(io, Top(io))
  <1> DEFINE n == Len(io.strips)
             step(f) == [i \in 0..n |-> IF i = 0 THEN io.offset_pos
                                        ELSE f[i - 1] + io.strips[i].head_len]
             Heads == CHOOSE f : f = step(f)
             shown == IF io.strips = <<>> THEN Len(io.bytes) - io.offset_pos
                      ELSE StripLength(io.strips[n])
  <1>1. Window = [from |-> Heads[n], cells |-> SubSeq(io.bytes, Heads[n] + 1, Heads[n] + shown)]
    BY DEF Window
  <1>2. /\ Stacked(io, C) /\ n \in 0..3 /\ n = Top(io) /\ io.strips \in Seq(Windows)
    <2>1. Stacked(io, C) /\ io \in Stacks(C) /\ n \in 0..3 /\ n = Top(io)
      BY CursorTypes DEF Top
    <2>2. QED
      BY <2>1, StackTypes
  <1> DEFINE g == [i \in 0..n |-> Base(io, i)]
  <1>3. g = step(g)
    <2>1. ASSUME NEW i \in 0..n PROVE g[i] = step(g)[i]
      <3>1. CASE i = 0
        BY <3>1 DEF Base
      <3>2. CASE i # 0
        <4>1. i - 1 \in 0..n
          BY <1>2, <3>2
        <4>2. Base(io, i) = Base(io, i - 1) + io.strips[i].head_len
          BY <1>2, <3>2, WindowsNest
        <4>3. QED
          BY <3>2, <4>1, <4>2
      <3>3. QED
        BY <3>1, <3>2
    <2>2. QED
      BY <2>1
  <1>4. Heads = step(Heads)
    <2>1. \E f : f = step(f)
      BY <1>3
    <2> HIDE DEF step
    <2>2. QED
      BY <2>1
  <1> HIDE DEF Heads, g
  <1>5. ASSUME NEW i \in 0..n
        PROVE  Heads[i] = IF i = 0 THEN io.offset_pos ELSE Heads[i - 1] + io.strips[i].head_len
    BY <1>4
  <1> HIDE DEF step
  <1>6. Heads[n] = Base(io, n)
    <2>1. ASSUME NEW i \in 0..n, i # 0, Heads[i - 1] = Base(io, i - 1)
          PROVE  Heads[i] = Base(io, i)
      <3>1. Base(io, i) = Base(io, i - 1) + io.strips[i].head_len
        BY <1>2, <2>1, WindowsNest
      <3>2. Heads[i] = Heads[i - 1] + io.strips[i].head_len
        BY <1>5, <2>1
      <3>3. QED
        BY <2>1, <3>1, <3>2
    <2> HIDE DEF n
    <2>2. Heads[0] = Base(io, 0)
      <3>1. 0 \in 0..n
        BY <1>2
      <3>2. QED
        BY <1>5, <3>1 DEF Base
    <2>3. 1 - 1 = 0 /\ 2 - 1 = 1 /\ 3 - 1 = 2
      OBVIOUS
    <2>4. n >= 1 => Heads[1] = Base(io, 1)
      BY <1>2, <2>1, <2>2, <2>3
    <2>5. n >= 2 => Heads[2] = Base(io, 2)
      BY <1>2, <2>1, <2>3, <2>4
    <2>6. n >= 3 => Heads[3] = Base(io, 3)
      BY <1>2, <2>1, <2>3, <2>5
    <2>7. QED
      BY <1>2, <2>2, <2>4, <2>5, <2>6
  <1>7. shown = Size(io)
    <2>1. io.strips = <<>> <=> n = 0
      BY <1>2
    <2>2. QED
      BY <1>2, <2>1 DEF Size, Shown
  <1> HIDE DEF shown
  <1>8. Window.cells = SubSeq(io.bytes, Heads[n] + 1, Heads[n] + shown) /\ Window.from = Heads[n]
    <2> DEFINE x == Heads[n]
               y == SubSeq(io.bytes, Heads[n] + 1, Heads[n] + shown)
    <2>1. Window = [from |-> x, cells |-> y]
      BY <1>1
    <2> HIDE DEF x, y
    <2>2. Window.cells = y /\ Window.from = x
      BY <2>1
    <2>3. QED
      BY <2>2 DEF x, y
  <1>9. QED
    BY <1>2, <1>6, <1>7, <1>8 DEF View

AtOpened == Trusted => OnView(EntriesStream(archive)) /\ Here(io) <= Size(io)

\* An opened archive shows its entries.
LEMMA EntriesReaches ==
  ASSUME archive \in Archives, AtEntries, OpenEntries, phase' = "opened"
  PROVE  AtOpened'
  <1> DEFINE C == Cells
             v == EntriesStream(archive)
             layer == IF magic = COMPRESSION_LAYER_MAGIC THEN CompressionLayer(io) ELSE Ok(io, 0)
  <1>1. UNCHANGED <<archive, out, signed, replaced, config>>
    BY DEF OpenEntries, writeVars
  <1>2. Cells' = C /\ EntriesStream(archive)' = v /\ Trusted' = Trusted /\ Counts(C)
    BY <1>1, CellsCount DEF Cells, Trusted, Committed
  <1> SUFFICES ASSUME Trusted PROVE OnView(EntriesStream(archive))' /\ Here(io') <= Size(io')
    BY <1>2 DEF AtOpened
  <1>3. v \in Seq(C)
    <2>1. Stream(v, PlainCells(archive))
      BY ArchiveDescribed, EntriesCells
    <2> HIDE DEF v
    <2>2. QED
      BY <2>1 DEF Stream, Cells, ArchiveCells
  <1>4. magic = CompressionStream(archive)[1] /\ OnView(CompressionStream(archive))
    BY DEF AtEntries
  <1>5. PICK entries \in Then(layer, LAMBDA l : EntriesLayer(l.io)) : entries.ok /\ io' = entries.io
    BY DEF OpenEntries, Refused
  <1>6. PICK l \in layer : l.ok /\ entries \in EntriesLayer(l.io)
    <2> HIDE DEF layer
    <2>1. QED
      BY <1>5 DEF Then
  <1>7. Good(l.io, C) /\ Top(l.io) \in {0, 2} /\ View(l.io) = v
    <2>1. CASE magic = COMPRESSION_LAYER_MAGIC
      <3>1. l.io = Source(v)
        <4>1. Good(io, Cells) /\ Top(io) <= 2
          BY <1>4 DEF OnView
        <4>2. l \in CompressionLayer(io)
          BY <1>6, <2>1
        <4>3. QED
          BY <1>6, <4>1, <4>2, Decompressed
      <3> HIDE DEF v, C
      <3>2. QED
        BY <1>3, <3>1, SourceIsGood
    <2>2. CASE magic # COMPRESSION_LAYER_MAGIC
      <3>1. CompressionStream(archive) = v
        BY <1>4, <2>2, ArchiveDescribed, CompressionCells
      <3>2. l.io = io
        BY <1>6, <2>2 DEF Ok
      <3> HIDE DEF v
      <3>3. QED
        BY <1>4, <3>1, <3>2 DEF OnView
    <2>3. QED
      BY <2>1, <2>2
  <1> HIDE DEF C, v
  <1>8. PICK at : Stands(l.io, entries.io, at, C) /\ at <= Size(l.io)
    BY <1>2, <1>5, <1>6, <1>7, EntriesLayerStands
  <1>9. /\ Good(io', C) /\ Top(io') \in {0, 2} /\ View(io') = v /\ Here(io') <= Size(io')
    BY <1>5, <1>7, <1>8, StandsFacts
  <1>10. QED
    BY <1>2, <1>9 DEF OnView

\* Reading and seeking in the opened archive.
LEMMA ReadLayerKeeps ==
  ASSUME AtOpened, NEW size \in Sizes, ReadLayer(size) PROVE AtOpened'
  <1> DEFINE C == Cells
  <1>1. UNCHANGED <<archive, signed, replaced, config>> /\ Uses
    BY DEF ReadLayer, writeVars
  <1>2. Cells' = C /\ EntriesStream(archive)' = EntriesStream(archive) /\ Trusted' = Trusted
    BY <1>1 DEF Cells, Trusted, Committed
  <1>3. /\ Good(io, C) /\ Top(io) \in {0, 2} /\ View(io) = EntriesStream(archive)
        /\ Here(io) <= Size(io)
    BY <1>1 DEF AtOpened, OnView, Uses, Trusted
  <1> DEFINE h == Here(io)
             k == Size(io)
             most == MostReadable(io)
  <1>4. PICK n \in (IF size = 0 \/ most = 0 THEN {0} ELSE 1..Least(size, most)) :
          \E r \in ReadSome(io, n) : io' = r.io
    BY DEF ReadLayer
  <1>5. PICK r \in ReadSome(io, n) : io' = r.io
    BY <1>4
  <1>6. most = k - h /\ h \in Nat /\ k \in Nat /\ h <= k /\ size \in Nat
    BY <1>3, MostReadableIs, CursorTypes, OpeningAssumption
  <1> HIDE DEF C, h, k, most
  <1>7. n \in Nat /\ n <= k - h
    BY <1>4, <1>6 DEF Least
  <1>8. Passed(io, r, n, C)
    BY <1>3, <1>5, <1>7, ReadSomeStands DEF h, k
  <1>9. Stands(io, io', h + n, C)
    BY <1>5, <1>8 DEF Passed, h
  <1>10. /\ Good(io', C) /\ Top(io') = Top(io) /\ View(io') = View(io) /\ Here(io') = h + n
         /\ Size(io') = k
    BY <1>9, StandsFacts DEF k
  <1>11. Here(io') <= Size(io')
    BY <1>6, <1>7, <1>10
  <1>12. QED
    BY <1>2, <1>3, <1>10, <1>11 DEF AtOpened, OnView

\* A seek of the user moves the cursor only.
LEMMA SeekLayerKeeps ==
  ASSUME AtOpened, NEW whence \in {"Start", "Current", "End"}, NEW by \in Moves,
         SeekLayer(whence, by)
  PROVE  AtOpened'
  <1> DEFINE C == Cells
  <1>1. UNCHANGED <<archive, signed, replaced, config>> /\ Uses /\ (whence = "Start" => by >= 0)
    BY DEF SeekLayer, writeVars
  <1>2. Cells' = C /\ EntriesStream(archive)' = EntriesStream(archive) /\ Trusted' = Trusted
    BY <1>1 DEF Cells, Trusted, Committed
  <1>3. /\ Good(io, C) /\ Top(io) \in {0, 2} /\ View(io) = EntriesStream(archive)
        /\ Here(io) <= Size(io)
    BY <1>1 DEF AtOpened, OnView, Uses, Trusted
  <1>4. Top(io) # 0
    <2>1. io \in Stacks(C)
      BY <1>3, CursorTypes
    <2>2. io.strips \in Seq(Windows) /\ io.strips # <<>>
      BY <1>1, <2>1, StackTypes DEF Uses
    <2>3. QED
      BY <2>2 DEF Top
  <1>5. PICK r \in Seek(io, whence, by) : io' = IF r.ok THEN r.io ELSE io
    BY DEF SeekLayer
  <1>6. CASE ~r.ok
    BY <1>2, <1>3, <1>5, <1>6 DEF AtOpened, OnView
  <1>7. CASE r.ok
    <2>1. Sought(io, whence, by, r, C)
      <3>1. by \in Int /\ whence \in Whences
        BY OpeningAssumption DEF Whences
      <3> HIDE DEF C
      <3>2. QED
        BY <1>1, <1>3, <1>5, <3>1, SeekStands
    <2> HIDE DEF C
    <2> DEFINE at == r.value
    <2>2. Stands(io, r.io, at, C) /\ at \in Nat
      BY <1>7, <2>1 DEF Sought
    <2>3. at <= Size(io)
      <3> DEFINE goal == Goal(io, whence, by)
      <3>1. goal \in 0..Size(io) /\ at = IF goal < 0 THEN 0 ELSE goal
        BY <1>4, <1>7, <2>1 DEF Sought
      <3>2. Size(io) \in Nat
        BY <1>3, CursorTypes
      <3> HIDE DEF goal
      <3>3. QED
        BY <3>1, <3>2
    <2>4. /\ Good(io', C) /\ Top(io') = Top(io) /\ View(io') = View(io) /\ Here(io') <= Size(io')
      BY <1>5, <1>7, <2>2, <2>3, StandsFacts
    <2>5. QED
      BY <1>2, <1>3, <2>4 DEF AtOpened, OnView
  <1>8. QED
    BY <1>6, <1>7
-----------------------------------------------------------------------------
(***************************************************************************)
(* The inductive invariant: what holds of the archive, and in each phase   *)
(* of opening it with verification.                                        *)
(***************************************************************************)
OpeningInv ==
    /\ WritingInv
    /\ replaced => /\ config.signature_check
                   /\ phase \in {"next", "encryption", "entries", "opened", "failed"}
    /\ phase = "signature" => AtSignature
    /\ config.signature_check =>
         /\ phase \in {"next", "encryption", "entries", "opened"} => Vouched
         /\ phase = "next" => AtNext
         /\ phase = "encryption" => AtEncryption
         /\ phase = "entries" => AtEntries
         /\ phase = "opened" => AtOpened

\* The invariant holds before anything is written.
LEMMA OpeningInit == Init => OpeningInv
  BY WritingInit DEF Init, OpeningInv

\* Writing, sealing and changing an archive keep the invariant.
LEMMA WritingSteps ==
  ASSUME OpeningInv, Write \/ Finalize \/ \E i \in DOMAIN out : Change(i)
  PROVE  OpeningInv'
  <1>1. WritingInv'
    BY WriteKeeps, FinalizeKeeps, ChangeKeeps DEF OpeningInv
  <1>2. /\ phase \in {"writing", "closed"} /\ phase' \in {"writing", "closed"}
        /\ replaced' = replaced
    BY DEF Write, Finalize, Change, openVars
  <1>3. QED
    BY <1>1, <1>2 DEF OpeningInv

\* What a verified signature is worth does not change.
LEMMA VouchedStays ==
  ASSUME Vouched, UNCHANGED <<archive, out, shorts, keys_with_valid_signatures>>
  PROVE  Vouched'
  BY DEF Vouched

\* Reading the header keeps the invariant.
LEMMA FirstSteps ==
  ASSUME OpeningInv, NEW c, Open(c) \/ OpenTruncated(c) \/ ReadInfo
  PROVE  OpeningInv'
  <1>1. /\ phase = "closed" /\ phase' \in {"signature", "recovering", "info", "failed"}
        /\ UNCHANGED writeVars /\ replaced' = replaced
    BY DEF Open, OpenTruncated, ReadInfo, Refused
  <1>2. WritingInv /\ Sealed /\ ~replaced
    BY <1>1 DEF OpeningInv, WritingInv
  <1>3. WritingInv'
    BY <1>1, <1>2, OpeningKeepsWriting
  <1>4. phase' = "signature" => AtSignature'
    <2> SUFFICES ASSUME phase' = "signature" PROVE AtSignature'
      OBVIOUS
    <2>1. Open(c)
      BY DEF OpenTruncated, ReadInfo, Refused
    <2>2. QED
      BY <1>2, <2>1, OpenReaches
  <1>5. QED
    BY <1>1, <1>2, <1>3, <1>4 DEF OpeningInv

\* Opening the signature layer keeps the invariant.
LEMMA SignatureStep ==
  ASSUME OpeningInv, OpenSignature PROVE OpeningInv'
  <1>1. /\ phase = "signature" /\ phase' \in {"next", "encryption", "failed"}
        /\ config.signature_check => phase' # "encryption"
        /\ UNCHANGED writeVars /\ replaced' = replaced /\ config' = config
    BY DEF OpenSignature, Verify, LayerVerified, SignatureRefused, Refused
  <1>2. WritingInv /\ Sealed /\ ~replaced /\ AtSignature /\ archive \in Archives
    BY <1>1 DEF OpeningInv, WritingInv
  <1>3. WritingInv'
    BY <1>1, <1>2, OpeningKeepsWriting
  <1>4. ASSUME config.signature_check, phase' = "next" PROVE Vouched' /\ AtNext'
    BY <1>2, <1>4, VerificationReaches
  <1>5. QED
    BY <1>1, <1>2, <1>3, <1>4 DEF OpeningInv

\* Reading the magic of the next layer keeps the invariant.
LEMMA NextStep ==
  ASSUME OpeningInv, ReadNextMagic PROVE OpeningInv'
  <1>1. /\ phase = "next" /\ phase' \in {"encryption", "failed"}
        /\ UNCHANGED writeVars /\ replaced' = replaced /\ config' = config
        /\ UNCHANGED keys_with_valid_signatures
    BY DEF ReadNextMagic, Refused
  <1>2. WritingInv'
    BY <1>1, OpeningKeepsWriting DEF OpeningInv
  <1>3. ASSUME config.signature_check PROVE Vouched' /\ (phase' = "encryption" => AtEncryption')
    <2>1. Vouched /\ AtNext
      BY <1>1, <1>3 DEF OpeningInv
    <2>2. Vouched'
      BY <1>1, <2>1, VouchedStays DEF writeVars
    <2>3. QED
      BY <2>1, <2>2, NextReaches
  <1>4. QED
    BY <1>1, <1>2, <1>3 DEF OpeningInv

\* Replacing the source behind the verification keeps the invariant.
LEMMA ReplaceStep ==
  ASSUME OpeningInv, Replace PROVE OpeningInv'
  <1>1. /\ phase \in {"next", "encryption"} /\ phase' = phase
        /\ config' = config /\ config.signature_check
        /\ UNCHANGED writeVars /\ replaced' = TRUE
        /\ UNCHANGED <<signed_persistent_encryption_config, keys_with_valid_signatures>>
    BY DEF Replace
  <1>2. WritingInv /\ Vouched /\ SignedConfig
    BY <1>1 DEF OpeningInv, AtNext, AtEncryption
  <1>3. WritingInv'
    BY <1>1, <1>2, OpeningKeepsWriting
  <1>4. Vouched'
    BY <1>1, <1>2, VouchedStays DEF writeVars
  <1>5. AtNext' /\ AtEncryption'
    <2>1. SignedConfig'
      BY <1>1, <1>2 DEF SignedConfig, writeVars
    <2>2. QED
      BY <1>1, <2>1 DEF AtNext, AtEncryption
  <1>6. QED
    BY <1>1, <1>3, <1>4, <1>5 DEF OpeningInv

\* Opening the encryption layer keeps the invariant.
LEMMA EncryptionStep ==
  ASSUME OpeningInv, OpenEncryption PROVE OpeningInv'
  <1>1. /\ phase = "encryption" /\ phase' \in {"entries", "failed"}
        /\ UNCHANGED writeVars /\ replaced' = replaced /\ config' = config
        /\ UNCHANGED keys_with_valid_signatures
    BY DEF OpenEncryption, Refused
  <1>2. WritingInv /\ archive \in Archives
    BY <1>1 DEF OpeningInv, WritingInv
  <1>3. WritingInv'
    BY <1>1, <1>2, OpeningKeepsWriting
  <1>4. ASSUME config.signature_check PROVE Vouched' /\ (phase' = "entries" => AtEntries')
    <2>1. Vouched /\ AtEncryption
      BY <1>1, <1>4 DEF OpeningInv
    <2>2. Vouched'
      BY <1>1, <2>1, VouchedStays DEF writeVars
    <2>3. QED
      BY <1>2, <2>1, <2>2, EncryptionReaches
  <1>5. QED
    BY <1>1, <1>3, <1>4 DEF OpeningInv

\* Opening the compression and entries layers keeps the invariant.
LEMMA EntriesStep ==
  ASSUME OpeningInv, OpenEntries PROVE OpeningInv'
  <1>1. /\ phase = "entries" /\ phase' \in {"opened", "failed"}
        /\ UNCHANGED writeVars /\ replaced' = replaced /\ config' = config
        /\ UNCHANGED keys_with_valid_signatures
    BY DEF OpenEntries, Refused
  <1>2. WritingInv /\ archive \in Archives
    BY <1>1 DEF OpeningInv, WritingInv
  <1>3. WritingInv'
    BY <1>1, <1>2, OpeningKeepsWriting
  <1>4. ASSUME config.signature_check PROVE Vouched' /\ (phase' = "opened" => AtOpened')
    <2>1. Vouched /\ AtEntries
      BY <1>1, <1>4 DEF OpeningInv
    <2>2. Vouched'
      BY <1>1, <2>1, VouchedStays DEF writeVars
    <2>3. QED
      BY <1>2, <2>1, <2>2, EntriesReaches
  <1>5. QED
    BY <1>1, <1>3, <1>4 DEF OpeningInv

\* Reading and seeking in the opened archive keep the invariant.
LEMMA UseSteps ==
  ASSUME OpeningInv,
         \/ \E size \in Sizes : ReadLayer(size)
         \/ \E whence \in {"Start", "Current", "End"}, by \in Moves : SeekLayer(whence, by)
  PROVE  OpeningInv'
  <1>1. /\ phase = "opened" /\ phase' = phase /\ UNCHANGED writeVars /\ replaced' = replaced
        /\ config' = config /\ UNCHANGED keys_with_valid_signatures
    BY DEF ReadLayer, SeekLayer, Uses
  <1>2. WritingInv'
    BY <1>1, OpeningKeepsWriting DEF OpeningInv
  <1>3. ASSUME config.signature_check PROVE Vouched' /\ AtOpened'
    <2>1. Vouched /\ AtOpened
      BY <1>1, <1>3 DEF OpeningInv
    <2>2. Vouched'
      BY <1>1, <2>1, VouchedStays DEF writeVars
    <2>3. QED
      BY <2>1, <2>2, ReadLayerKeeps, SeekLayerKeeps
  <1>4. QED
    BY <1>1, <1>2, <1>3 DEF OpeningInv

\* Doing nothing keeps the invariant.
LEMMA StutteringStep ==
  ASSUME OpeningInv, UNCHANGED vars PROVE OpeningInv'
  BY DEF OpeningInv, vars, writeVars, openVars, WritingInv, Sealed, NoBeginning, Follows, Written,
     AtSignature, Vouched, SignedConfig, AtNext, AtEncryption, AtEntries, AtOpened, OnView,
     Trusted, Committed, Cells

\* Every step keeps the invariant.
LEMMA OpeningStep == OpeningInv /\ [Next]_vars => OpeningInv'
  <1> SUFFICES ASSUME OpeningInv, [Next]_vars PROVE OpeningInv'
    OBVIOUS
  <1>1. CASE UNCHANGED vars
    BY <1>1, StutteringStep
  <1>2. CASE Write \/ Finalize \/ \E i \in DOMAIN out : Change(i)
    BY <1>2, WritingSteps
  <1>3. CASE ReadInfo \/ \E c \in Configs : Open(c) \/ OpenTruncated(c)
    BY <1>3, FirstSteps
  <1>4. CASE OpenSignature
    BY <1>4, SignatureStep
  <1>5. CASE Replace
    BY <1>5, ReplaceStep
  <1>6. CASE OpenEncryption
    BY <1>6, EncryptionStep
  <1>7. CASE OpenEntries
    BY <1>7, EntriesStep
  <1>8. CASE \/ \E size \in Sizes : ReadLayer(size)
             \/ \E whence \in {"Start", "Current", "End"}, by \in Moves : SeekLayer(whence, by)
    BY <1>8, UseSteps
  <1>9. CASE ReadNextMagic
    BY <1>9, NextStep
  <1>10. QED
    BY <1>1, <1>2, <1>3, <1>4, <1>5, <1>6, <1>7, <1>8, <1>9 DEF Next

\* The inductive invariant of opening.
LEMMA OpeningInvariant == Spec => []OpeningInv
  <1>1. Init => OpeningInv
    BY OpeningInit
  <1>2. OpeningInv /\ [Next]_vars => OpeningInv'
    BY OpeningStep
  <1>3. QED
    BY <1>1, <1>2, PTL DEF Spec

\* What the layers show, in the words of the properties.
LEMMA OpenedShows ==
  ASSUME OpeningInv, phase = "opened", config.signature_check, Trusted
  PROVE  Window.cells = EntriesStream(archive)
  <1>1. Good(io, Cells) /\ View(io) = EntriesStream(archive)
    BY DEF OpeningInv, AtOpened, OnView
  <1>2. Window.cells = View(io)
    BY <1>1, WindowIsView
  <1>3. QED
    BY <1>1, <1>2

(***************************************************************************)
(* What was verified is what was signed: if an archive is opened with      *)
(* verification, by ArchiveReader::from_config, then the reported keys     *)
(* belong to its signers, both signatures of each are over what was        *)
(* written, no cell went into the hash twice, and the entries that the     *)
(* reader sees are those that were signed, whatever cell of the archive    *)
(* was changed and whatever a misread length leads to.                     *)
(***************************************************************************)
THEOREM OpeningVerifies == Spec => []VerifiedIsSigned
  <1>1. OpeningInv => VerifiedIsSigned
    <2> SUFFICES ASSUME OpeningInv, phase \in {"entries", "opened"}, config.signature_check,
                        ~replaced
                 PROVE  VerifiedIsSigned
      BY DEF VerifiedIsSigned
    <2>1. Vouched
      BY DEF OpeningInv
    <2>2. phase = "opened" => Window.cells = EntriesStream(archive)
      BY OpenedShows DEF Trusted
    <2>3. QED
      BY <2>1, <2>2 DEF VerifiedIsSigned, Vouched
  <1>2. QED
    BY <1>1, OpeningInvariant, PTL

(***************************************************************************)
(* "Thus the authentication of the AEAD can protect us if the source we    *)
(* read from is manipulated after signature verification" (lib.rs): with   *)
(* verification, required encryption and a signed archive that is          *)
(* encrypted under a commitment to its own key, the entries are the signed *)
(* ones even if the source was replaced between verification and the       *)
(* encryption layer, before or after the magic is read once more.          *)
(***************************************************************************)
THEOREM OpeningStaysVerified == Spec => []VerifiedStaysVerified
  <1>1. OpeningInv => VerifiedStaysVerified
    <2> SUFFICES ASSUME OpeningInv, phase = "opened", replaced, ~config.accept_unencrypted,
                        archive.recipients # <<>>, Committed
                 PROVE  Window.cells = EntriesStream(archive)
      BY DEF VerifiedStaysVerified
    <2>1. config.signature_check
      BY DEF OpeningInv
    <2>2. QED
      BY <2>1, OpenedShows DEF Trusted
  <1>2. QED
    BY <1>1, OpeningInvariant, PTL

(***************************************************************************)
(* The key commitment: two readers that find a key under the header of an  *)
(* archive (EncryptionReaderConfig::load_persistent) have the same key,    *)
(* also if the recipients were given different secrets, when the tag of    *)
(* the commitment verifies under the key of the archive only.              *)
(***************************************************************************)
THEOREM CommittedKeysAgree == Spec => []CommittedKeyIsShared
  <1>1. CommittedKeyIsShared
    BY LoadedKey DEF CommittedKeyIsShared
  <1>2. QED
    BY <1>1, PTL
===============================================================================
