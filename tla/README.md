# A TLA+ model of MLA

MLA (Multi Layer Archive) is an archive format and a Rust library, `mla`, that
writes and reads it, with the command line tool `mlar`, bindings and an
upgrader. This directory models the library's own logic (what goes into an
archive and where, how it is opened and read back, and what is recovered of an
archive that was cut) and the programs built on it. `PROJECT.json` lists the components, the runs, the
correspondence of definitions and source lines, the hazards of the code and
the theorems.

## The system

An archive is a stack of layers. The **entries stream** is a sequence of
blocks: `EntryStart`, `EntryContent`, `EndOfEntry` for each entry, with the
blocks of several entries interleaved, then `EndOfArchiveData` and a footer
that indexes the blocks of every entry. It passes through an optional
compression layer, an optional encryption layer and an optional signature
layer to the destination.

| Component | State it keeps | Operations | Interacts with |
|---|---|---|---|
| `ArchiveWriter` (`mla/src/lib.rs`) | open ids and running hashes, names, index of offsets and sizes, next id | `start_entry`, `append_entry_content`, `end_entry`, `finalize` | writes blocks through the position layer into the layers |
| `ArchiveReader`, `ArchiveEntryDataReader` (`lib.rs`, `entry.rs`) | footer; per entry a block index, a remaining count and the shared stream position | `get_entry`, `get_hash`, `Read`, `Seek` | seeks and reads in the layers |
| `TruncatedArchiveReader` (`lib.rs`) | maps from source ids to output ids, names, hashes, done ids | `convert_to_archive` | reads the fail-safe layers, calls `ArchiveWriter` |
| Encryption layer (`layers/encrypt.rs`) | writer: nonce counter, chunk offset, cipher; reader: two chunk caches, positions | `write`, `finalize`; `initialize`, `read`, `seek`; fail-safe `read` in two modes | inner layer, AES-GCM |
| Compression layer (`layers/compress.rs`) | writer, reader and fail-safe states, sizes of compressed blocks | same | inner layer, brotli |
| Signature layer (`layers/signature.rs`) | running hashes | `write`, `finalize`, verification on open | inner layer |
| Opening (`config.rs`, `lib.rs`, `layers/raw.rs`, `layers/strip_head_tail.rs`, `info.rs`) | positions of the windows on the source | `from_config` of both readers, `read_info` | all layers |
| Key encapsulation (`crypto/hybrid.rs`, `hpke.rs`) | none | wrap a secret for several recipients, find it again, commit to it | encryption layer |
| Helpers (`helpers.rs`, `entry.rs`, `base64.rs`) | open outputs of `linear_extract` | extraction, names and paths, escaping | `ArchiveReader` |
| Key files (`crypto/mlakey.rs`, `mlar/src/privkey.rs`) | the two files of a key pair | generate, derive, write, parse | configurations |
| `mlar`, `mlar-upgrader` | pool of open files, input buffer, output file | create, list, extract, cat, to-tar, convert, recover, keys, metadata | the library |
| C binding | boxes behind the caller's handles | configurations, archive, entries, extract, info | `ArchiveWriter`, `ArchiveReader` |
| Python binding | configuration objects, an optional writer, a reader | the same as methods, a context manager | the same, and calls back into Python |

Nothing in the library runs concurrently: a writer or a reader is used by one
caller at a time (`&mut self`; the Python binding holds a mutex). What is hard
is the rest:

* entries interleave, and the index must stay exact for each of them;
* state changes before the write that may fail, and the caller may go on;
* a reader shares one stream position between blocks of several entries, and
  finds its block by parsing what comes next;
* an archive may be cut anywhere, also inside a header, a tag or a chunk, and
  must be recovered as far as possible and never further;
* sizes that are multiples of a buffer, a chunk or a block take paths of their
  own;
* an archive is verified in one reading and used in another, through several
  windows on one source whose bounds are read from the archive;
* commands create outputs before they know whether their inputs are good, and
  callers of the bindings keep handles after a call has failed.

The list of hazards in `PROJECT.json` gives these at their lines.

## Modules

| Module | What it is |
|---|---|
| `EntriesFormat` | the entries stream as a sequence of cells, and what the index, or a linear reader, makes of it |
| `ArchiveContract` | abstract: an archive is a map from names to contents, sealed once |
| `ArchiveWriter` | the writer, with failures; implements `ArchiveContract` |
| `EntryCursor` | abstract: a cursor over the bytes of an entry |
| `EntryDataReader` | the readers over any archive of `ArchiveWriter`; implements `EntryCursor` |
| `ConvertTruncated` | the conversion of any source, writing through `ArchiveWriter` |
| `LayerCursor` | abstract: what a seekable layer promises the layer above it |
| `EncryptionWriter` | the encryption layer's stream of chunks |
| `EncryptionReader` | its seekable and fail-safe readers; implements `LayerCursor` |
| `CompressionWriter` | the compression layer's stream of brotli blocks and its footer |
| `CompressionReader` | its indexed reader; implements `LayerCursor` |
| `CompressionTruncatedReader` | its fail-safe reader, and the layer as one specification |
| `LayerStack` | a source under `RawLayerReader` and `StripHeadTailReader` windows |
| `KeyEncapsulation` | how recipients find the key of an archive, and its commitment |
| `ArchiveLayout` | header, layers and tails as the writer lays them out |
| `ReaderConfig` | the constructors of the configurations |
| `ArchiveOpening` | the signature layer's writer, both `from_config`, `read_info` |
| `StdinSplit` | entries made of standard input, with and without a separator |
| `LinearExtract` | `linear_extract` into the pool of open files |
| `MlarCommands` | each command of `mlar` and `mlar-upgrader` as steps that may fail |
| `KeyFiles` | key pairs, derivation, the key files and the commands that write them |
| `TextForms` | escaping, names and paths, base64 |
| `WriterCalls` | the calls of `ArchiveWriter` as the bindings see them |
| `CBinding`, `PythonBinding` | the two bindings |
| `DataInduction` | lemmas on induction over numbers and on concatenation |
| `*Proofs` | theorems and proofs about the module they are named after; `ArchiveContentProofs` is about `ArchiveWriter`, `EncryptionReaderProofs` and `EncryptionCursorProofs` about the encryption layer, `OpeningProofs` about `ArchiveOpening` and the modules it uses, `FrontEndProofs` about `LinearExtract`, `CBinding` and `PythonBinding` |
| `MC*` | small instances for TLC |

### Entries: `ArchiveWriter`

The variables have the names of the fields of `ArchiveWriter` and
`ArchiveWriterState`; `faults` and `damaged` are history. Each call is one
action, or one per way it can end: `StartEntry` and `StartEntryFails`,
`AppendContent`, `AppendContentShort` (the source ends early),
`AppendContentHeaderFails`, `AppendContentCopyFails`, `EndEntry`,
`EndEntryFails`, `Finalize`, `FinalizeRefused`, `FinalizeFails`. As in the
code, ids, names, index records and hashes change before the block is
written, so that a failure leaves them changed. A write that fails leaves
nothing or a `Torn` cell. `add_entry` is three of these calls in a row;
`flush` changes nothing here. A call that returns an error without changing
anything is not an action. A block header is one cell, a content byte one
cell, an offset a number of cells; SHA-256 is injective. That the writer can
go on after a failed write describes an archive without encryption and
compression: those layers lose step with their inner layer when it fails.

### Reading entries: `EntryDataReader`

The variables are the fields of `ArchiveEntryDataReader`, plus the position
`src` of the stream. The actions are `GetEntry`, `GetHash`, the outcomes of
`read` (`ReadContinues`, `ReadNextBlock`, `ReadEndOfEntry`, `ReadFinished`,
`ReadFails`) and `Seek`, `SeekRefused`. A read may deliver fewer bytes than
asked for. The call that `read` makes to itself after a jump is modelled as
one hop, which `RecursionEnds` justifies. After a header that does not parse
the stream position is `Lost`, and the reader is used again only after a seek.
Entries whose own writing calls failed are not opened. The number that
`SeekFrom::End` returns is not part of the contract: the code returns the
total size.

### Recovery: `ConvertTruncated`

The source is chosen block by block while it is read: any ids, names, lengths
and hashes, with an end or an error anywhere, also inside a content. Every
call on the output is an action of `ArchiveWriter`. `pc` is the place in the
loop; the maps have the names of the code's. A call that the output would
refuse is not an action, so it would show as a deadlock, and deadlock is
checked.

### Encryption: `EncryptionWriter`, `EncryptionReader`

A byte of the stream is a cell that says what it is: part of a head, a tag or
a magic, or ciphertext with its nonce, keystream position and plaintext byte.
AES-GCM is thereby perfect: a tag verifies only with the same nonce,
associated data and ciphertext. `Write`, `WriteFails` and `Finalize` are the
writer; `WriteFails` lets any part of the chunk change and the data through,
with the cipher advanced as the code leaves it. The buffers offered to
`write` are not empty, because the layers above use `write_all`; an empty
write at the end of a full chunk would begin a chunk that the reader does not
count.

`Open` takes any prefix of the writer's stream, finished or not, with one byte
changed or none, in one of three modes: `indexed` (`EncryptionLayerReader`),
`authenticated` and `unauthenticated` (`EncryptionLayerTruncatedReader`).
`rd` holds the fields of `InternalEncryptionLayerReader`. `LoadInCache` is
`load_in_cache` with `get_end_of_tag_pos` and the scan for the final block;
`Read` and `Seek` are the calls. `InStep` describes the states in which the
caches and the positions agree: `LayerCursor` promises exact reads in those,
and lets the promise be lost only by a failed call or at the end, from which a
seek to a named place recovers. Reading on after the end of a plaintext that
fills its last chunk, or after a read that failed to authenticate, is outside
that promise: the caches have already been exchanged there. The fail-safe
readers have no seek, and their caller does read on (`convert_to_archive`, after
a read of 0 bytes), so what they return is kept in two parts: `recovered`, up to
the first call of `load_in_cache` that failed or found nothing, and `strays`,
all bytes returned after it. `AuthenticUntilLost` is about the first and holds;
`OnlyAuthenticatedData` is about both, as the documentation of the mode is, and
does not. The reader relies on head and tag having the same length
(`ReaderAssumption`). Streams whose writer went on after a failed write are
not opened.

### Compression: `CompressionWriter`, `CompressionReader`, `CompressionTruncatedReader`

The plaintext is cut into blocks, and each block is a brotli stream of its own:
a sequence of cells, each of which lets a decoder produce some bytes, with a
last one that produces none. What the compressor holds back is written when the
block is closed, so a stream that is cut is a prefix of it. `OpenIndexed` opens
any such stream whose footer is there, and `OpenRecovery` any prefix, both with
one byte changed or none; the decoder (external) fails at a changed byte or
hands on what it had decoded before.

`rd` holds the fields of `CompressionLayerReader` with its three states.
`ReadData`, `ReadFails`, `SeekBlock`, `SeekUntouched`, `SeekFails` are its
calls: as in the code a call takes the state out (`Empty`), and what fails does
not put it back. `LayerCursor` promises exact reads in `Ready` and `InData`.
The next seek of an `Empty` reader panics (`Panic`); `IndexServes` says when
`Empty` can be reached at all over an undamaged stream.

A call of the fail-safe `read` is a sequence of steps, one for each turn of
`truncated_reader_decompress_stream`: `StreamEnds`, `InputUsed`, `Refill`,
`InnerEnds`, `BufferFull`, `Rewind`, `GivesUp`. `fs.stream_cache` is the copy
that `BrotliStreamReader` keeps; after the end of a stream it is what the code
leaves in it, which is not always the next stream. `RecoveredInOrder` is
therefore stated of what comes before the first rewind in a later block.

### Opening: `LayerStack`, `KeyEncapsulation`, `ArchiveLayout`, `ReaderConfig`, `ArchiveOpening`

A field of the archive (a magic, a length, options, a signature, a packed or a
sealed stream) is one cell; a cell that is read as a length and is none may
be any number of `Misread`. `LayerStack` has the position arithmetic of
`RawLayerReader::seek` and of `StripHeadTailReader::seek` and `read`, for up to
three windows one on the other. `Write` is the signature layer under
`write_all`, with writes that take part of their buffer; the part that was not
taken is offered and hashed again, as in the code. `from_config` is cut into
`Open`, `OpenSignature`, `ReadNextMagic`, `OpenEncryption`, `OpenEntries`.
`Replace` puts something else in the place of a source that was verified: another
archive for the same readers, or the sealed data of the signed one behind the
encryption header of another. It may come before the magic of the next layer is
read again (`ReadNextMagic`) or after, up to `OpenEncryption`; a replacement
during the verification itself or after the encryption layer is open is not
modelled.

Signatures are unforgeable and the KEMs perfect. A key commitment is the key
under which it decrypts to the chain and the set of keys under which its tag
verifies; `check_key_commitment` looks at the tag. A commitment of this
library's writer has one such key, its own (`Committed`); one written elsewhere
may have more, because AES-GCM does not exclude it. A configuration carries both
the `accept_unencrypted` that the code sets and what the comment of its
constructor promises (`documented_unencrypted`): the model of opening reads the
first, the properties the second. The one constructor for which they differ is
named by `Misdocumented`.

### Programs: `StdinSplit`, `LinearExtract`, `MlarCommands`, `KeyFiles`, `TextForms`, `CBinding`, `PythonBinding`

`MCFrontEnds` puts these side by side: a behaviour is the run of one of them.

`StdinSplit` reads standard input in pieces of any size up to the buffer and
scans for the separator as `add_from_stdin_separated` does. `LinearExtract`
takes blocks in any order, writes them in pieces, and keeps the pool with the
least recently used file first to go. `MlarCommands` gives each command as a
sequence of steps (read the arguments, open the input, create the output, copy,
finalize, close); each step may fail, and dropping a buffered output may lose
its end without an error. Standard output and a file named `-` are different
places: `mlar` takes the argument `-` for the first, `mlar-upgrader` for the
second (`DashOutput`). `KeyFiles` runs `keygen` and `keyderive` one after
the other with a failure anywhere; a file is a sequence of lines and line ends
that the parsers cut as the code does. `TextForms` holds the pure
conversions, each checked against its inverse over all texts of a few words.

In `CBinding` a handle is a number that names a box; the caller passes what its
variables hold, in any order, null included, and never overwrites a variable
that holds a handle. `fault` is the first use of a pointer that has no live box
of the right content behind it. The constructors of writer configurations leave a
box with a `Result` in it (`ResultBox`), which later calls read as a
configuration; whether that works is a property of the build (`layout`, chosen
at the start). In `PythonBinding` the file object given to `add_entry_from` calls
back into the program between two reads. Both write through `WriterCalls`,
which keeps of `ArchiveWriter` what the bindings can tell apart: names, open
ids, and whether the stream is torn or sealed.

## Runs

| Run | Question | Result |
|---|---|---|
| `writer` | index, hashes, footer and contract under interleaving, failures and exhausted ids | holds |
| `short_source` | is a block's size the size of its content? | violated: a source that ends early makes the header announce more than follows, with `Ok` |
| `entry_reader` | are reads and seeks those of a cursor, over any interleaving, with and without the remains of a failed call? | holds: reads may fail on such remains, bytes and positions are never wrong |
| `convert` | is all that can be read kept, reported truly, and does the conversion return? | holds |
| `encryption` | nonces, opening, reading, seeking and both recovery modes, over cut and changed streams | holds |
| `final_magic` | does authenticated recovery return everything when the final block is there? | violated: a last chunk slightly shorter than a full one is taken for a full one and lost |
| `read_on` | does authenticated recovery return authenticated data only? | violated: a read after a wrong tag, or after nothing was found behind a full chunk, returns what is in the cache |
| `compression` | reading and seeking by the index, and recovery, over cut and changed streams | holds |
| `brotli_rewind` | does the fail-safe reader keep the part of a new brotli stream it has already read? | violated: it keeps as many bytes as it should drop |
| `opening` | does an archive open exactly under the configurations that accept it, is what was verified what was signed, and are the windows exact? | holds |
| `front_ends` | do commands, key files, names and bindings do what they say in every order of calls and failures? | holds |
| `stdin_tail` | is everything read from standard input in the archive? | violated: a proper prefix of the separator at the end is dropped |

The properties, with what they are about, are commented in the modules. The
ones to start from: `IndexFaithful` and `ArchiveRefinesContract` (writer),
`ReaderRefinesCursor` (reader), `AllThatCouldBeRead` and `FinishedIsAttested`
(conversion), `LayerRefinesCursor`, `OpensWholeStreamsOnly` and
`AuthenticUntilLost` (encryption), `IndexServes` and `RecoveredInOrder`
(compression), `VerifiedStaysVerified` and `ViewIsExact` (opening),
`StdinSplitExact`, `CommandsAsAsked`, `CHandlesSafe` and `PythonWriterOnce`
(programs).

### Bounds

* `writer`: three names for two ids, so ids run out and a name is asked for
  when none is left; chunks of one and two bytes, so a chunk differs from its
  prefix; three records per entry before its end, so two content blocks of an
  entry can enclose blocks of the other; two failures, so one entry can fail
  twice or two entries once each. Names are symmetric.
* `entry_reader`: all interleavings of two entries with up to two content
  blocks each, buffers of 0 and 2 bytes, and seeks by -2 to 3: before the
  start, on and inside block boundaries, at and past the end. One call on
  another entry may have failed before (`TornBound` then keeps the archive
  small).
* `convert`: five source blocks, two ids and two names, so ids and names are
  reused and blocks come out of order; contents of up to three bytes with a
  buffer of two, so a content may be shorter than, equal to and longer than a
  buffer, and end with it; one failure of the output.
* `encryption`: chunks of three bytes, heads, tags and magic of two; seven
  bytes of plaintext, so from an empty one to two full chunks and a byte,
  full last chunks included; every cut and every single changed byte. A tag of
  two bytes can be cut in its middle, as can the magic. `read_on` needs four
  bytes: a full chunk and a byte.
* `compression`: blocks of two bytes and up to five bytes of plaintext, so
  from none to two full blocks and a byte; every cut and every changed byte;
  buffers smaller and larger than a block. The input buffer of ten cells holds
  several streams at once, which is what makes the rewind go wrong.
* `opening`: every combination of layers, one or two recipients and signers,
  tail options of two lengths, a header whose recipients were given different
  secrets; one short write, one changed field, one replacement of the source.
  Some archives have a commitment whose tag verifies under both secrets.
* `front_ends`: seven bytes of standard input with a buffer of four and
  separators of one to four bytes whose prefixes overlap, so a separator can be
  spread over three reads; three files for a pool of two; two items per command;
  three key commands, so a key of a derived key is derived; texts of four words
  out of ten, with escapes, separators and reserved names; six boxes and two
  entry variables, so a handle can outlive its archive; two Python writers.

`CHECK_DEADLOCK FALSE` is used where the system may stop: after finalize, or
when a caller's bound is reached.

### Fairness

`ConversionReturns` assumes weak fairness of the steps of the conversion that
succeed: the conversion is a loop in its caller's thread, and reads of the
source return. `ReadReturns` (the fail-safe read of the compression layer)
assumes weak fairness of the steps of a call that has begun, for the same
reason. Failures are possible and never assumed.

## Proofs

TLAPS proves, for all values of the constants under their named assumptions:

| Module | Theorems | Of | Inductive invariant |
|---|---|---|---|
| `ArchiveContentProofs` | `TypeCorrect`, `IndexIsFaithful`, `OffsetsStayAscending`, `EndedEntriesStayFrozen` | `Spec` of `ArchiveWriter` | `IndexInv` |
| | `ContentsVerify`, `SealedIsComplete`, `WriterImplementsContract` | the same | `ContentInv` |
| `EntryDataReaderProofs` | `ReadRecursesOnce`, `HashesAreOfContent`, `ReadsFailAfterDamage`, `ReaderImplementsCursor` | `ReadSpec` | `ReaderInv` |
| `ConvertTruncatedProofs` | `OutputIsAnArchive`, `ConverterInStep`, `EverythingReadIsKept`, `FinishedEntriesAttested`, `OnlyOutputFails` | `ConvertSpec` | `ConvertInv` |
| `EncryptionReaderProofs` | `KeystreamNeverReused`, `WriterTypeCorrect` | `WriterSpec` | `KeystreamInv` |
| | `RecoveryAuthenticUntilLost` | `Spec` of `EncryptionReader` | `RecoveryInv` |
| `EncryptionCursorProofs` | `IndexedOpensWhole`, `IndexedServes`, `IndexedImplementsCursor` | the same | `CursorInv` |
| `OpeningProofs` | `OpeningVerifies`, `OpeningStaysVerified`, `CommittedKeysAgree` | `Spec` of `ArchiveOpening` | `OpeningInv` |
| `FrontEndProofs` | `LinearExtractExact` | `ExtractSpec` | `ExtractInv` |
| | `CHandlesAreSafe` | `CSpec` | `CInv` |
| | `PythonWritesOnce` | `PySpec` | `PyInv` |
| `DataInduction` | lemmas only | | |

So the theorems hold for any names, chunks and bytes, any number of entries,
blocks and failed calls, any interleaving, any sizes of chunks, tags and
buffers, any archives and configurations, and any number of handles. Besides
typing and arithmetic of sizes they assume nothing: `OpeningAssumption` says
that tail options have a length and that signers are a sequence,
`ExtractAssumption` that names come in a sequence and that there is a pool.
What cryptography gives is in the definitions (`Verifies`, `Decrypt`,
`LoadPersistent`), not in assumptions.

The programs are modelled as parts of one state in `MCFrontEnds`; the theorems
of `FrontEndProofs` are about the specification of each part (`ExtractSpec`,
`CSpec`, `PySpec`), which has the same actions.

**Induction over data.** Contents and sums of sizes are recursive functions,
and the library's induction theorems take a predicate, which the provers cannot
instantiate. `DataInduction` states induction for a *set* of numbers
(`UpInduction`, `DownInduction`, both from `LeastNumber`). That a recursive
function exists is then proved by extending a function on `0..m` to `0..m + 1`,
and what it computes by the same induction.

**The writer.** `IndexFaithful` is not inductive. `IndexInv` adds the type
invariant with the bookkeeping of ids (open ids are indexed and have a hash; ids
given out are below `next_id`), `HeadersKnown` (every block in the stream
belongs to an id in the index, so a new id has no blocks yet), `IndexNonempty`
and `OffsetsAscending` (with the bound by the length of the stream, so that a
record appended at the end is the greatest). `DestExtended` carries everything
about the stream over an append; then there is one lemma per action.

**Contents.** `ContentInv` adds that the first record of an entry leads to the
`EntryStart` with its name, that only `finalize` writes `EndOfArchiveData`, and
that every hash is that of the content the index gives, and, while nothing
failed, of the content a linear reader finds. The linear reader walks the whole
stream, so this part also says that it finds nothing for ids not given out.
`WriterImplementsContract` compares each call with `ArchiveContract`, all failed
calls on an entry taken together (`Spoils`).

**Reading.** `ReaderInv` says where the stream is between two calls: at the
header of the block to read, just behind the block before it, or inside the
block (`Placed`, `Inside`). The index is faithful, so the only header of its own
entry that a read can meet there is that of the block to read (`OwnHeader`), and
one seek is enough. The sizes of the records add up to places in the content
(`SumOf`, `ContentLaid`), so that the bytes a read takes inside a block are the
next ones of the content (`PartRead`), and the block that a seek singles out by
its sums is the one that holds the target (`SeekStartHits`, `SeekEndHits`).
`ReadsFailAfterDamage` needs `Orderly`: without a failed call, block follows
block up to the end of the stream.

**Recovery.** `OutputIsAnArchive` comes first: whatever the source, every call
of `convert_to_archive` on its output is a step of the writer, so `ContentInv`
holds of the output and it is enough to compare the hashes the output keeps
with what the source sent. `ConvertInv` relates the five maps of the converter
to one another and to the output until a call on the output fails.

**Encryption.** `KeystreamOnce` needs `UsedSoFar`: below the current nonce
anything may have been used, of the current nonce only the places up to the
ciphertext produced so far, and of later nonces none. `AuthenticUntilLost`
needs no such order: a tag of the writer names its nonce and its ciphertext
(`HonestCells`), the reader derives the nonce from its position, and so what
verifies is the chunk of this position, however the end of the tag was found.
That also holds for streams with a changed byte, which no longer have a layout
to argue with. It says nothing of the reads after the first load that did not
verify: those are the `strays` of `OnlyAuthenticatedData`, which is false.

**The seekable reader.** `CursorInv` adds the layout of the stream: chunk `k`
begins at `k * M0_CHUNK_SIZE`, and behind the last tag come the magic, the final
block, the end and the tail (`Layout`, one lemma per write of the writer). A
cell then tells its place (`TagPlace`, `CipherByte`, `MagicPlace`).
`initialize` looks for the final block at a distance from the end; the only
cell of the stream that decrypts to its content is the one `finalize` wrote, so
a stream that opens is the whole one (`OpensWhole`), and the size derived from
its length is the writer's (`AllPlaintextIs`, `LastDataChunkIs`). Between two
calls the reader has the chunk of its position in its cache and the next one
behind it (`Synced`), or stands beyond the end (`Past`), or, after an error over
a changed byte, is ahead of its caches (`Astray`). An `Astray` reader cannot
find its way back by reading: what verifies under the nonce of its position is
the chunk of that position, which is not the one in the next cache
(`CheckedIs`). Without a changed byte every load verifies (`LoadIntact`): in the
last chunk `get_end_of_tag_pos` computes the end of the tag, and before it what
follows is longer than a final block. For a full chunk that needs a magic and a
byte to be shorter than a head and a chunk of plaintext, which
`ReaderAssumption` states (9 bytes against 128 KiB and more in the code).

**Opening.** The properties are about an opened archive, five steps and up to
three windows away from the bytes, and any cell on the way may have been changed
or be misread as any length. `OpeningInv` says, phase by phase, what the windows
show (`AtSignature`, `AtEncryption`, `AtEntries`, `AtOpened`) and what the
verification has established (`Vouched`). It rests on three arguments.

* A stack of windows is a cursor (`Good`): the position that each
  `StripHeadTailReader` keeps for itself agrees with that of the source, whatever
  lengths its window was made from, and `read` and `seek` move it as they say
  (`SeekStands`, `GetStands`, `StripStands`). So a wrong length in the archive
  makes the window smaller, and never shows anything else.
* What verification hashes is a beginning of the archive up to the end of what
  the signature layer shows, each cell once (`ReadSignedStands`). A signature
  that verifies is one that `finalize` made, over `signed`. While no write was
  short, `signed` is what was written (`Sealed`), so what is shown is what was
  written, however the lengths were changed (`SignedIsShown`). After a short
  write `signed` holds some cells twice, and is then not a beginning of any
  archive that follows (`TwiceIsNoBeginning`): verification fails.
* If the signed archive is encrypted, the encryption header that the later
  layers use is the one that was hashed. If its commitment is one of this
  library's writer it lets through one key only (`LoadedKey`), so what decrypts
  is what was encrypted (`Decrypted`), also from a source that was replaced,
  whichever magic was read in between: a reader that requires encryption stops
  at any other. Both conditions are needed and stated in
  `VerifiedStaysVerified`: without them TLC opens replaced entries. The key
  commitment alone gives `CommittedKeysAgree`, under the same condition on its
  tag.

**Extraction.** `ExtractedExact` compares the files with what the stream
delivered. `ExtractInv` adds that the ids with a writer are the open ones whose
name is exported, and that the block being copied is of an open id
(`WritersAreOpen`): otherwise a block could go to the file of a name that was
used before.

**Bindings.** The two bindings call one writer. What each of its calls leaves,
for every answer, is proved once (`StartEntryAnswers`, `AppendAnswers`,
`EndEntryAnswers`, `FinalizeAnswers`), with `Sane`: unless an error tore the
stream, an entry that is open lacks only its end and every other one is whole.
`CHandlesSafe` speaks of archives that were closed; `CInv` adds who owns each
box (`Owned`: one variable per live box), and a `Ledger` for every archive that
ever was: its entries have ids of their own, those behind live handles are
open unless a handle of another archive was used on it, and a torn archive was
reported. The theorem is about both layouts: with the same one there is no fault
but the caller's own, with another the only further fault is the use of a boxed
`Result`. A complete archive is one whose bytes all went to the write callback.
`PyInv` adds that the number of chunks in each entry is that which was
given for it, also for the entry that a file object is being read into
(`AddingOK`), while nothing failed and no file changed under the writer.

**Only model-checked**, with the reason:

* Liveness (`ConversionReturns`, `ReadReturns`): fairness is out of the prover's
  reach.
* `RecoveredEnough` counts what is left of a cut stream of the encryption layer,
  where the proofs above only need that nothing wrong is recovered.
* The compression layer (`ReaderTypeOK`, `IndexServes`, `RecoveredInOrder` and
  its refinement of `LayerCursor`): its readers work on streams of blocks
  nested in a stream, with a decoder that may fail anywhere.
* `SignedUnlessShort`, a part of `OpensAsDocumented`: the proofs above need one
  direction of it. `OpensAsDocumented` and `ViewIsExact` also say that an
  undamaged archive does open, and where each of its fields is; the proofs above
  do without a layout.
* `StdinSplitExact`, `CommandsAsAsked`, `NothingOverwritten`, `KeyFilesHold`:
  the scan for a separator, the steps of commands and the lines of key files
  are finite tables or searches over their inputs, whose instances TLC
  exhausts.
* `NamesRoundTrip`: what a conversion computes for every text is an induction
  over the text.

## Divergences without a run

Met while modelling; the model does what the code does, and the property named
says so where there is one:

* An unencrypted signed archive that is replaced by an encrypted one between
  verification and the second reading of the magic (`mla/src/lib.rs:1092`) is
  opened with the encryption header found there, by a reader that requires
  encryption too. The comment at `lib.rs:1075` says that the header used is the
  one read during verification (`VerifiedStaysVerified` leaves this case out).
* `check_key_commitment` (`layers/encrypt.rs:80`) compares the tag of the
  commitment only, where `doc/src/CRYPTO.md:383` asserts that it decrypts to the
  chain. A commitment whose tag verifies under two keys lets two recipients go
  on with different keys (`CommittedKeyIsShared` leaves this case out).
* `TruncatedReaderConfig::without_signature_verification_with_encryption_accept_unencrypted`
  sets `accept_unencrypted` to false, although its documentation
  (`mla/src/config.rs:279`) says that unencrypted archives are accepted
  (`Misdocumented`).
* After a short write of the destination the signatures of a finalized archive
  are not over its bytes (`layers/signature.rs:57`), against
  `doc/src/FORMAT.md:75` (`SignedUnlessShort`).
* A call of the compression reader that fails leaves its state `Empty`, also over
  an undamaged stream when a seek goes to the end of a full last block, and the
  next seek panics, where `layers/compress.rs:195` says that this never happens
  (`IndexServes`).
* `mlar-upgrader` with the output `-` writes a file of that name
  (`mlar-upgrader/src/main.rs:152`), where its help (`:86`) says `-` is standard
  output (`CommandsAsAsked`).
* The constructors of writer configurations in the C binding box a `Result`
  (`bindings/C/src/lib.rs:378`, 412, 446, 469) that later calls take for a
  configuration (`CHandlesSafe`, which lets a build with another layout go wrong
  there). `mla_archive_close` does not call the flush callback
  (`lib.rs:1006`), where its comment (`:986`) says that it flushes the output,
  and that of `mla_archive_new` (`:754`) that the archive is flushed at least at
  the end.
* `UnexpectedEOFOnNextBlock` (`mla/src/errors.rs:134`) is never reported: the
  deserializers have turned the `io::Error` it looks for into a
  `DeserializationError` (`lib.rs:880`, `lib.rs:1302`).
* `mla_percent_unescape` drops bytes that are neither allowed nor `%`, where
  `doc/src/ENTRY_NAME.md` says that unescaping fails on them.
* `mlar-upgrader` truncates an existing output, which `mlar` never does.
* In Python `n == n` on an `EntryName` locks one mutex twice, and
  `write_entry_to` a file object ends silently at a read error.
* `to-tar` ends the tar file properly also when it fails, because the builder
  does so when it is dropped.

## Not modelled

AES-GCM, HPKE, ML-KEM, ML-DSA, brotli and SHA-256 as computations, and the test
vectors beside them; the incremental tag of `AesGcm256`; the byte layout of
encapsulated keys and signatures; what `list` and `info` print, glob patterns
beyond matching or not, and the Windows quarantine mark; zeroizing of memory;
the WebAssembly binding, whose calls keep no state between them; the fuzzing
harness, the benchmarks and the tests. Streams whose encrypting writer went on
after a failed write are not read back.

## What could follow

1. `RecoveredEnough` from the layout of the encrypted stream, and the
   compression layer's refinement of `LayerCursor`.
2. The incremental tag of `AesGcm256` against the tag of the whole ciphertext.
3. Composition: the fail-safe stack (signature, encryption, compression) under
   `ConvertTruncated`, which takes any source now.
