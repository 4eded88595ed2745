--------------------------- MODULE ArchiveOpening ---------------------------
(***************************************************************************)
(* Opening an archive: ArchiveReader::from_config,                         *)
(* TruncatedArchiveReader::from_config and read_info (mla/src/lib.rs,      *)
(* info.rs), over archives written through SignatureLayerWriter            *)
(* (mla/src/layers/signature.rs), with one cell changed or none, and from  *)
(* a source that may be replaced while it is being opened.                 *)
(*                                                                         *)
(* from_config is cut into five steps: up to the first layer magic, the    *)
(* signature layer with its verification, the magic of the next layer,     *)
(* which is read once more, the encryption layer, the rest.                *)
(***************************************************************************)
EXTENDS ArchiveLayout

CONSTANTS
    Archives,   \* descriptions of archives
    Configs,    \* configurations of a reader
    Other,      \* the archive that replaces the source
    MaxShort,   \* bound on the writes that take part of their buffer
    Sizes,      \* lengths of the buffers given to read
    Moves       \* signed distances of seeks

Range(s) == {s[i] : i \in DOMAIN s}

ASSUME OpeningAssumption ==
    /\ MaxShort \in Nat /\ Sizes \subseteq Nat /\ Moves \subseteq Int
    /\ \A a \in Archives : a.tail \in Nat \ {0} /\ a.signers \in Seq(Range(a.signers))

VARIABLES
    archive,    \* the archive that is written
    out,        \* what the destination holds
    signed,     \* the hash of the signature layer, as the cells put into it
    shorts,     \* how many writes were short
    changed,    \* ghost: the place of the cell that was changed, or 0
    replaced,   \* ghost: the source was replaced
    phase,
    config,
    io,         \* the source, and later the layer on top
    hash,       \* archive_header_hash
    magic,
    signed_persistent_encryption_config,    \* a set of at most one
    keys_with_valid_signatures,
    result      \* what opening, or the last call, returned

writeVars == <<archive, out, signed, shorts>>
openVars == <<config, io, hash, magic, signed_persistent_encryption_config,
              keys_with_valid_signatures, result>>
vars == <<writeVars, changed, replaced, phase, openVars>>

NoConfig == [kind |-> "none"]

\* What may come to lie in the place of the source: another archive, or the
\* sealed data of this one behind the encryption header of the other.
Replacement == [Other EXCEPT !.signers = archive.signers, !.tail = archive.tail,
                             !.compressed = archive.compressed]

Rewrapped == [archive EXCEPT !.recipients = Other.recipients, !.secret_of = Other.secret_of,
                             !.committed = Other.committed]

\* The archive that a sealed or a packed cell of the source belongs to.
OfSecret(id) == IF ~replaced \/ id = archive.id THEN archive ELSE Replacement

Init ==
    /\ archive \in Archives
    /\ out = <<>> /\ signed = <<>> /\ shorts = 0
    /\ changed = 0 /\ replaced = FALSE /\ phase = "writing"
    /\ config = NoConfig /\ io = Source(<<>>) /\ hash = <<>> /\ magic = Opts
    /\ signed_persistent_encryption_config = {}
    /\ keys_with_valid_signatures = {}
    /\ result = [op |-> "none"]

-----------------------------------------------------------------------------
(***************************************************************************)
(* Writing.  HashWrapperWriter and SignatureLayerWriter put the whole      *)
(* buffer into the hash and then hand it on; when the layer below takes    *)
(* part of it, write_all offers the rest again.  Buffers are two cells.    *)
(***************************************************************************)
Written == IF archive.signers = <<>> THEN Header \o EncryptionStream(archive)
           ELSE SignedBytes(archive)

Offered == SubSeq(Written, Len(out) + 1, Least(Len(out) + 2, Len(Written)))

\* Mutant: the hash of the header is not handed to the signature layer.
HashUpdate_NoHeader(buf) == IF Len(out) < Len(Header) THEN <<>> ELSE signed \o buf

HashUpdate(buf) == signed \o buf

Write ==
    /\ phase = "writing" /\ Len(out) < Len(Written)
    /\ \E taken \in 1..Len(Offered) :
         /\ taken < Len(Offered) => shorts < MaxShort
         /\ out' = out \o SubSeq(Offered, 1, taken)
         /\ shorts' = IF taken < Len(Offered) THEN shorts + 1 ELSE shorts
    /\ signed' = HashUpdate(Offered)
    /\ UNCHANGED <<archive, changed, replaced, phase, openVars>>

Finalize ==
    /\ phase = "writing" /\ out = Written
    /\ out' = out \o (IF archive.signers = <<>> THEN <<>> ELSE SignatureTail(archive, signed))
                  \o EndOfArchive(archive)
    /\ phase' = "closed"
    /\ UNCHANGED <<archive, signed, shorts, changed, replaced, openVars>>

(***************************************************************************)
(* A cell of a signed archive is changed.  Such an archive, or one that    *)
(* was signed with a short write, is opened here with verification only:   *)
(* without it nothing is promised.                                         *)
(***************************************************************************)
Regular == changed = 0 /\ shorts = 0

Change(i) ==
    /\ phase = "closed" /\ Regular /\ archive.signers # <<>> /\ archive.tail = 1
    /\ out' = [out EXCEPT ![i] = [t |-> "changed"]]
    /\ changed' = i
    /\ UNCHANGED <<archive, signed, shorts, replaced, phase, openVars>>

-----------------------------------------------------------------------------
(***************************************************************************)
(* ArchiveReader::from_config, first step.                                 *)
(***************************************************************************)
Refused(why) ==
    /\ phase' = "failed" /\ result' = [op |-> "refused", error |-> why]

\* The magic and the version; the value is the cells read, which are hashed.
ReadHeader(src) ==
    Then(Get(src), LAMBDA m :
      IF m.value # MLA_MAGIC THEN Error("WrongMagic")
      ELSE Then(Get(m.io), LAMBDA v :
             IF v.value # MLA_FORMAT_VERSION THEN Error("UnsupportedVersion")
             ELSE Then(GetOpts(v.io), LAMBDA o :
                    Ok(o.io, SubSeq(src.bytes, src.pos + 1, o.io.pos)))))

StripTail(src) ==
    Then(Seek(src, "End", -1), LAMBDA end :
    Then(Get(end.io), LAMBDA m :
      IF m.value # END_MLA_MAGIC THEN Error("WrongEndMagic")
      ELSE Then(Seek(m.io, "End", -2), LAMBDA before :
           Then(GetLength(before.io), LAMBDA options :
           Then(Seek(options.io, "Start", 0), LAMBDA start :
             Strip(start.io, 0, options.value + 2, end.value + 1))))))

Open(c) ==
    /\ phase = "closed" /\ c.kind = "reader" /\ (Regular \/ c.signature_check)
    /\ config' = c
    /\ \E header \in ReadHeader(Source(out)) :
         IF ~header.ok
         THEN Refused(header.error) /\ UNCHANGED <<io, hash, magic>>
         ELSE \E first \in Then(StripTail(ResetPosition(header.io)), LAMBDA s : Get(s.io)) :
                IF ~first.ok
                THEN Refused(first.error) /\ UNCHANGED <<io, hash, magic>>
                ELSE /\ phase' = "signature"
                     /\ io' = first.io
                     /\ hash' = header.value \o << first.value >>
                     /\ magic' = first.value
                     /\ UNCHANGED result
    /\ UNCHANGED <<writeVars, changed, replaced, signed_persistent_encryption_config,
                   keys_with_valid_signatures>>

-----------------------------------------------------------------------------
(***************************************************************************)
(* SignatureLayerReader::new_skip_magic.                                   *)
(***************************************************************************)
\* Vec<u8>: its length, and as many cells.
GetVector(src) ==
    Then(GetLength(src), LAMBDA n :
      IF n.value > MostReadable(n.io) THEN Error("DeserializationError")
      ELSE ReadSome(n.io, n.value))

\* The tail, from its end; the value is the signatures and its length.
ReadSignatures(src) ==
    Then(Seek(src, "End", -1), LAMBDA end :
    Then(GetLength(end.io), LAMBDA vector :
    Then(Seek(vector.io, "End", -(1 + vector.value)), LAMBDA at :
    Then(GetVector(at.io), LAMBDA data :
    Then(Seek(data.io, "End", -(2 + vector.value)), LAMBDA before :
    Then(GetLength(before.io), LAMBDA options :
      Ok(options.io, [signatures |-> data.value,
                      length |-> 2 + vector.value + options.value])))))))

\* The options, then the tail; the value is the signatures and what was hashed.
ParseSignatureLayer(src) ==
    Then(GetOpts(src), LAMBDA opts :
    Then(Position(opts.io), LAMBDA inner :
    Then(ReadSignatures(inner.io), LAMBDA tail :
    Then(Seek(tail.io, "End", 0), LAMBDA last :
    Then(Seek(last.io, "Start", inner.value), LAMBDA start :
    Then(Strip(start.io, inner.value, tail.value.length, last.value), LAMBDA s :
      Ok(s.io, [signatures |-> tail.value.signatures,
                hashed |-> SubSeq(src.bytes, src.pos + 1, opts.io.pos)])))))))

\* deserialize_signatures: a changed cell is refused or verifies under no key.
SignaturesRead(cells) ==
    IF \A i \in DOMAIN cells : cells[i].t = "signature" THEN {TRUE} ELSE {TRUE, FALSE}

Verifies(key, cell, h) == cell.t = "signature" /\ cell.key = key /\ cell.hash = h

\* Mutant: one of the two signatures is enough.
KeyVerified_Either(key, cells, h) ==
    \E i \in DOMAIN cells : Verifies(key, cells[i], h)

KeyVerified(key, cells, h) ==
    \A method \in {"ed25519", "mldsa87"} :
      \E i \in DOMAIN cells : Verifies(key, cells[i], h) /\ cells[i].method = method

(***************************************************************************)
(* read_encryption_header_after_magic: the options, the method and the     *)
(* configuration, which no changed cell can be taken for.                  *)
(***************************************************************************)
ReadEncryptionHeader(src) ==
    Then(GetOpts(src), LAMBDA opts :
    Then(Get(opts.io), LAMBDA method :
    Then(Get(method.io), LAMBDA c :
      IF c.value.t # "persistent" THEN Error("DeserializationError")
      ELSE Ok(c.io, c.value))))

(***************************************************************************)
(* The verification reads the whole layer; the value is the hash and the   *)
(* encryption configuration met on the way, a set of at most one.          *)
(***************************************************************************)
ReadSigned(src, before) ==
    Then(Get(src), LAMBDA next :
    Then(IF next.value = ENCRYPTION_LAYER_MAGIC
         THEN Then(ReadEncryptionHeader(next.io), LAMBDA c : Ok(c.io, {c.value}))
         ELSE Ok(next.io, {}), LAMBDA c :
    Then(ReadToEnd(c.io), LAMBDA rest :
    Then(Seek(rest.io, "Start", 0), LAMBDA start :
      Ok(start.io, [config |-> c.value,
                    hash |-> before \o SubSeq(src.bytes, src.pos + 1, rest.io.pos)])))))

\* The layer is at its start again, and nothing of the next one is read.
LayerVerified(src, verified, configs) ==
    /\ phase' = "next"
    /\ io' = src
    /\ keys_with_valid_signatures' = verified
    /\ signed_persistent_encryption_config' = configs
    /\ UNCHANGED <<magic, result>>

SignatureRefused(why) ==
    /\ Refused(why)
    /\ UNCHANGED <<io, magic, keys_with_valid_signatures,
                   signed_persistent_encryption_config>>

Verify(src, signatures, before) ==
    \E read \in ReadSigned(src, before) :
      IF ~read.ok THEN SignatureRefused(read.error)
      ELSE \E parsed \in SignaturesRead(signatures) :
             LET valid == {key \in config.verification_keys :
                             KeyVerified(key, signatures, read.value.hash)}
             IN  IF ~parsed THEN SignatureRefused("DeserializationError")
                 ELSE IF valid = {} THEN SignatureRefused("NoValidSignatureFound")
                 ELSE LayerVerified(read.io, valid, read.value.config)

OpenSignature ==
    /\ phase = "signature"
    /\ IF magic = SIGNATURE_LAYER_MAGIC
       THEN \E layer \in ParseSignatureLayer(io) :
              IF ~layer.ok THEN SignatureRefused(layer.error)
              ELSE IF config.signature_check
              THEN Verify(layer.io, layer.value.signatures, hash \o layer.value.hashed)
              ELSE LayerVerified(layer.io, {}, {})
       ELSE IF config.signature_check
            THEN SignatureRefused("SignatureVerificationAskedButNoSignatureLayerFound")
            ELSE /\ phase' = "encryption"
                 /\ UNCHANGED <<io, magic, keys_with_valid_signatures,
                                signed_persistent_encryption_config, result>>
    /\ UNCHANGED <<writeVars, changed, replaced, config, hash>>

(***************************************************************************)
(* Behind a signature layer the magic of the next one is read once more,   *)
(* from the source as it is by now.                                        *)
(***************************************************************************)
ReadNextMagic ==
    /\ phase = "next"
    /\ \E next \in Get(io) :
         IF ~next.ok THEN Refused(next.error) /\ UNCHANGED <<io, magic>>
         ELSE phase' = "encryption" /\ io' = next.io /\ magic' = next.value
              /\ UNCHANGED result
    /\ UNCHANGED <<writeVars, changed, replaced, config, hash,
                   signed_persistent_encryption_config, keys_with_valid_signatures>>

(***************************************************************************)
(* Something else comes to lie where the source was, after it was verified *)
(* and before the encryption layer is read: before the magic is read once  *)
(* more, or after.                                                         *)
(***************************************************************************)
Replace ==
    /\ phase \in {"next", "encryption"} /\ ~replaced /\ Regular
    /\ config.signature_check
    /\ \E a \in {Replacement, Rewrapped} : io' = [io EXCEPT !.bytes = Archive(a)]
    /\ replaced' = TRUE
    /\ UNCHANGED <<writeVars, changed, phase, config, hash, magic,
                   signed_persistent_encryption_config, keys_with_valid_signatures, result>>

-----------------------------------------------------------------------------
(***************************************************************************)
(* EncryptionLayerReader::new_skip_magic and initialize, with the signed   *)
(* configuration if there is one.                                          *)
(***************************************************************************)
\* Mutant: the configuration is the one in the header.
ConfigUsed_Header(signed_config, read) == read

ConfigUsed(signed_config, read) ==
    IF signed_config = {} THEN read ELSE CHOOSE c \in signed_config : TRUE

\* The final block, and the first bytes, are under the key or refused.
Decrypt(src, key) ==
    Then(Get(src), LAMBDA c :
      IF c.value = [t |-> "sealed", key |-> key]
      THEN Ok(Source(CompressionStream(OfSecret(key.key_of))), 0)
      ELSE Error("AuthenticatedDecryptionWrongTag"))

EncryptionLayer(src, encrypt, signed_config) ==
    Then(ReadEncryptionHeader(src), LAMBDA header :
    Then(Seek(header.io, "End", 0), LAMBDA end :
    Then(Seek(end.io, "Current", -1), LAMBDA last :
    Then(GetLength(last.io), LAMBDA options :
    LET length == header.io.pos - src.pos + 1
        keys == LoadPersistent(encrypt, ConfigUsed(signed_config, header.value))
    IN  Then(Seek(options.io, "Start", length), LAMBDA start :
          IF keys = {} THEN Error("ConfigError")
          ELSE Then(Strip(start.io, length, options.value + 1, end.value), LAMBDA s :
                 Decrypt(s.io, CHOOSE key \in keys : TRUE)))))))

OpenEncryption ==
    /\ phase = "encryption"
    /\ IF magic = ENCRYPTION_LAYER_MAGIC
       THEN \E layer \in Then(EncryptionLayer(io, config.encrypt,
                                              signed_persistent_encryption_config),
                              LAMBDA l : Get(l.io)) :
              IF ~layer.ok THEN Refused(layer.error) /\ UNCHANGED <<io, magic>>
              ELSE phase' = "entries" /\ io' = layer.io /\ magic' = layer.value
                   /\ UNCHANGED result
       ELSE IF config.accept_unencrypted
            THEN phase' = "entries" /\ UNCHANGED <<io, magic, result>>
            ELSE Refused("EncryptionAskedButNotMarkedPresent") /\ UNCHANGED <<io, magic>>
    /\ UNCHANGED <<writeVars, changed, replaced, config, hash,
                   signed_persistent_encryption_config, keys_with_valid_signatures>>

-----------------------------------------------------------------------------
(***************************************************************************)
(* CompressionLayerReader::new_skip_magic and initialize.                  *)
(***************************************************************************)
Decompress(src) ==
    Then(Get(src), LAMBDA c :
      IF c.value.t = "packed" THEN Ok(Source(EntriesStream(OfSecret(c.value.of))), 0)
      ELSE Error("InvalidData"))

\* From behind its options, the layer is a stream of its own.
CompressedStream(src) ==
    Then(GetOpts(src), LAMBDA opts :
    Then(Position(opts.io), LAMBDA here :
    Then(Seek(here.io, "End", 0), LAMBDA end :
    Then(Seek(end.io, "Start", here.value), LAMBDA start :
      Strip(start.io, here.value, 0, end.value)))))

\* SizesInfo, from the end of the stream.
ReadSizesInfo(src) ==
    Then(Seek(src, "End", -1), LAMBDA last :
    Then(GetLength(last.io), LAMBDA n :
      IF n.value > last.value THEN Error("DeserializationError")
      ELSE Then(Seek(n.io, "Start", last.value - n.value), LAMBDA sizes :
           Then(Get(sizes.io), LAMBDA c :
             IF c.value.t # "sizes_info" THEN Error("DeserializationError")
             ELSE Ok(c.io, 0)))))

CompressionLayer(src) ==
    Then(CompressedStream(src), LAMBDA s :
    Then(ReadSizesInfo(s.io), LAMBDA sizes :
    Then(Seek(sizes.io, "Start", 0), LAMBDA first : Decompress(first.io))))

(***************************************************************************)
(* The footer of the entries, from the end; then their header.  Something  *)
(* else in place of the index is refused, or taken for the mark that there *)
(* is none.                                                                *)
(***************************************************************************)
ReadFooter(src) ==
    Then(Seek(src, "End", -1), LAMBDA end :
    Then(GetLength(end.io), LAMBDA options :
    Then(Seek(options.io, "End", -(2 + options.value)), LAMBDA before :
    Then(GetLength(before.io), LAMBDA length :
    Then(Seek(length.io, "Current", -(1 + length.value)), LAMBDA start :
    Then(Get(start.io), LAMBDA c :
      IF c.value.t = "index" THEN Ok(c.io, {c.value})
      ELSE Ok(c.io, {}) \cup Error("DeserializationError")))))))

ReadEntriesHeader(src) ==
    Then(Get(src), LAMBDA m :
      IF m.value # ENTRIES_LAYER_MAGIC THEN Error("WrongMagic") ELSE GetOpts(m.io))

EntriesLayer(src) ==
    Then(ReadFooter(src), LAMBDA footer :
    Then(Seek(footer.io, "Start", 0), LAMBDA start :
    Then(ReadEntriesHeader(start.io), LAMBDA h : Ok(h.io, footer.value))))

OpenEntries ==
    /\ phase = "entries"
    /\ \E entries \in Then(IF magic = COMPRESSION_LAYER_MAGIC THEN CompressionLayer(io)
                           ELSE Ok(io, 0), LAMBDA l : EntriesLayer(l.io)) :
         IF ~entries.ok THEN Refused(entries.error) /\ UNCHANGED io
         ELSE /\ phase' = "opened" /\ io' = entries.io
              /\ result' = [op |-> "opened", metadata |-> entries.value]
    /\ UNCHANGED <<writeVars, changed, replaced, config, hash, magic,
                   signed_persistent_encryption_config, keys_with_valid_signatures>>

-----------------------------------------------------------------------------
(***************************************************************************)
(* TruncatedArchiveReader::from_config: one pass, no tails, no signature.  *)
(***************************************************************************)
SkipSignatureLayer(src) ==
    Then(Get(src), LAMBDA m :
      IF m.value = SIGNATURE_LAYER_MAGIC
      THEN Then(GetOpts(m.io), LAMBDA o : Get(o.io)) ELSE Ok(m.io, m.value))

TruncatedEncryptionLayer(src, c) ==
    Then(ReadEncryptionHeader(src), LAMBDA header :
      LET keys == LoadPersistent(c.encrypt, header.value)
      IN  IF keys = {} THEN Error("ConfigError")
          ELSE Then(Decrypt(header.io, CHOOSE key \in keys : TRUE), LAMBDA l : Get(l.io)))

TruncatedLayers(src, c) ==
    Then(ReadHeader(src), LAMBDA header :
    Then(SkipSignatureLayer(header.io), LAMBDA first :
    Then(CASE first.value = ENCRYPTION_LAYER_MAGIC -> TruncatedEncryptionLayer(first.io, c)
           [] first.value # ENCRYPTION_LAYER_MAGIC /\ c.accept_unencrypted ->
                Ok(first.io, first.value)
           [] OTHER -> Error("EncryptionAskedButNotMarkedPresent"), LAMBDA second :
    Then(IF second.value = COMPRESSION_LAYER_MAGIC
         THEN Then(GetOpts(second.io), LAMBDA o :
              Then(Decompress(o.io), LAMBDA l : Get(l.io)))
         ELSE Ok(second.io, second.value), LAMBDA third :
      IF third.value # ENTRIES_LAYER_MAGIC THEN Error("DeserializationError")
      ELSE GetOpts(third.io)))))

OpenTruncated(c) ==
    /\ phase = "closed" /\ c.kind = "truncated" /\ Regular
    /\ config' = c
    /\ \E opened \in TruncatedLayers(Source(out), c) :
         IF ~opened.ok THEN Refused(opened.error) /\ UNCHANGED io
         ELSE phase' = "recovering" /\ io' = opened.io /\ result' = [op |-> "opened"]
    /\ UNCHANGED <<writeVars, changed, replaced, hash, magic,
                   signed_persistent_encryption_config, keys_with_valid_signatures>>

(***************************************************************************)
(* read_info.                                                              *)
(***************************************************************************)
ReadInfo ==
    /\ phase = "closed" /\ Regular
    /\ \E info \in Then(ReadHeader(Source(out)), LAMBDA header :
                   Then(Get(header.io), LAMBDA first :
                     IF first.value = SIGNATURE_LAYER_MAGIC
                     THEN Then(GetOpts(first.io), LAMBDA o :
                          Then(Get(o.io), LAMBDA next :
                            Ok(next.io, <<next.value = ENCRYPTION_LAYER_MAGIC, TRUE>>)))
                     ELSE Ok(first.io, <<first.value = ENCRYPTION_LAYER_MAGIC, FALSE>>))) :
         IF ~info.ok THEN Refused(info.error)
         ELSE phase' = "info" /\ result' = [op |-> "info", enabled |-> info.value]
    /\ UNCHANGED <<writeVars, changed, replaced, config, io, hash, magic,
                   signed_persistent_encryption_config, keys_with_valid_signatures>>

-----------------------------------------------------------------------------
(***************************************************************************)
(* The opened archive: its entries are read through the windows.  Those    *)
(* that come out of the encryption or the compression layer are read       *)
(* through the readers of these layers.                                    *)
(***************************************************************************)
Uses == phase = "opened" /\ ~replaced /\ Regular /\ io.strips # <<>>

ReadLayer(size) ==
    /\ Uses
    /\ \E n \in (IF size = 0 \/ MostReadable(io) = 0 THEN {0}
                 ELSE 1..Least(size, MostReadable(io))) :
         \E r \in ReadSome(io, n) :
           io' = r.io /\ result' = [op |-> "read", size |-> size, data |-> r.value]
    /\ UNCHANGED <<writeVars, changed, replaced, phase, config, hash, magic,
                   signed_persistent_encryption_config, keys_with_valid_signatures>>

SeekLayer(whence, by) ==
    /\ Uses /\ (whence = "Start" => by >= 0)
    /\ \E r \in Seek(io, whence, by) :
         /\ io' = IF r.ok THEN r.io ELSE io
         /\ result' = [op |-> "seek", whence |-> whence, by |-> by, ok |-> r.ok,
                       at |-> IF r.ok THEN r.value ELSE 0]
    /\ UNCHANGED <<writeVars, changed, replaced, phase, config, hash, magic,
                   signed_persistent_encryption_config, keys_with_valid_signatures>>

Next ==
    \/ Write \/ Finalize \/ \E i \in DOMAIN out : Change(i)
    \/ \E c \in Configs : Open(c) \/ OpenTruncated(c)
    \/ OpenSignature \/ ReadNextMagic \/ Replace \/ OpenEncryption \/ OpenEntries
    \/ ReadInfo
    \/ \E size \in Sizes : ReadLayer(size)
    \/ \E whence \in {"Start", "Current", "End"}, by \in Moves : SeekLayer(whence, by)

Spec == Init /\ [][Next]_vars

-----------------------------------------------------------------------------
\* The part of the bytes that the layer on top shows.
Window ==
    LET head[i \in 0..Len(io.strips)] ==
          IF i = 0 THEN io.offset_pos ELSE head[i - 1] + io.strips[i].head_len
        shown == IF io.strips = <<>> THEN Len(io.bytes) - io.offset_pos
                 ELSE StripLength(io.strips[Len(io.strips)])
    IN  [from |-> head[Len(io.strips)],
         cells |-> SubSeq(io.bytes, head[Len(io.strips)] + 1, head[Len(io.strips)] + shown)]

CanDecrypt(encrypt) ==
    \/ archive.id \in Range(encrypt.shared_secrets)
    \/ Range(encrypt.private_keys) \cap Range(archive.recipients) # {}

Honest == \A i \in DOMAIN archive.secret_of : archive.secret_of[i] = archive.id

Committed == archive.committed = {archive.id}

(***************************************************************************)
(* What the configurations promise in their comments (config.rs):          *)
(* verification needs at least one of the keys given, an unencrypted       *)
(* archive must be accepted, an encrypted one needs a key.                 *)
(***************************************************************************)
Acceptable ==
    /\ config.kind = "reader" /\ config.signature_check =>
         config.verification_keys \cap Range(archive.signers) # {}
    /\ IF archive.recipients = <<>> THEN config.documented_unencrypted
       ELSE CanDecrypt(config.encrypt)

\* "WARNING: This will accept reading unencrypted archives !" (config.rs:279),
\* of a configuration that does not.
Misdocumented ==
    archive.recipients = <<>> /\ config.documented_unencrypted /\ ~config.accept_unencrypted

(***************************************************************************)
(* "Their input starts and includes `mla_header_magic`, up to and          *)
(* including `sig_inner_layer`" (FORMAT.md:75): the signatures of a        *)
(* finalized archive are over the bytes it holds if, and only if, the      *)
(* destination took every buffer whole; what it left of one is offered     *)
(* again by write_all and hashed twice (signature.rs:57).                  *)
(***************************************************************************)
SignedUnlessShort ==
    phase = "closed" /\ changed = 0 /\ archive.signers # <<>> =>
      (signed = SubSeq(out, 1, Len(SignedBytes(archive))) <=> shorts = 0)

(***************************************************************************)
(* An archive of this library, written without a short write, of any       *)
(* layers and with tail options of any length, is opened exactly when the  *)
(* comment of the configuration's constructor says so, save for the one    *)
(* that is Misdocumented, which refuses; the reader then has the entries   *)
(* of that archive and its index, and knows exactly the keys that signed   *)
(* it.  read_info tells its layers.  One written with a short write does   *)
(* not carry the signatures that FORMAT.md describes.                      *)
(***************************************************************************)
OpensAsDocumented ==
    /\ SignedUnlessShort
    /\ Regular /\ ~replaced /\ Honest /\ Committed =>
         /\ phase = "failed" => ~Acceptable \/ Misdocumented
         /\ phase = "opened" =>
              /\ Acceptable
              /\ Window.cells = EntriesStream(archive)
              /\ result.op = "opened" => result.metadata = {Index(archive)}
              /\ config.signature_check =>
                   keys_with_valid_signatures = config.verification_keys \cap Range(archive.signers)
         /\ phase = "recovering" =>
              Acceptable /\ io.bytes[io.pos + 1] \in Range(EntriesStream(archive))
         /\ phase = "info" =>
              result.enabled = <<archive.recipients # <<>>, archive.signers # <<>> >>

(***************************************************************************)
(* What was verified is what was signed: a changed cell anywhere, a length *)
(* of an unsigned tail included, or a cell that was put into the hash      *)
(* twice, and the archive is not opened, or it is opened with the entries  *)
(* that the holders of the reported keys signed.                           *)
(***************************************************************************)
VerifiedIsSigned ==
    phase \in {"entries", "opened"} /\ config.signature_check /\ ~replaced =>
      /\ keys_with_valid_signatures # {}
      /\ keys_with_valid_signatures \subseteq Range(archive.signers)
      /\ shorts = 0
      /\ phase = "opened" => Window.cells = EntriesStream(archive)
      /\ \A key \in keys_with_valid_signatures, method \in {"ed25519", "mldsa87"} :
           \E i \in DOMAIN out : Verifies(key, out[i], SignedBytes(archive))
                                 /\ out[i].method = method

(***************************************************************************)
(* "Thus the authentication of the AEAD can protect us if the source we    *)
(* read from is manipulated after signature verification" (lib.rs:1077):   *)
(* when the reader requires encryption and the signed archive is encrypted *)
(* under a commitment of this library's writer, the entries opened are the *)
(* signed ones even if the source was replaced meanwhile. An unencrypted   *)
(* signed archive has no signed configuration: what replaces it before     *)
(* ReadNextMagic is opened under a configuration of its own, although "the *)
(* encryption persistent config we use is the one read during signature    *)
(* verification" (lib.rs:1075).                                            *)
(***************************************************************************)
VerifiedStaysVerified ==
    phase = "opened" /\ replaced /\ ~config.accept_unencrypted
      /\ archive.recipients # <<>> /\ Committed =>
      Window.cells = EntriesStream(archive)

(***************************************************************************)
(* "Enforce that all recipients are actually using the same key, so        *)
(* getting the same plaintext" (encrypt.rs:62): two readers that find a    *)
(* key under the same header find the same one, also if the recipients     *)
(* were given different secrets, when the tag of the commitment verifies   *)
(* under one key, as that of this library's writer does. What the          *)
(* commitment decrypts to is not compared with the chain, so nothing is    *)
(* said of the other commitments that CRYPTO.md:383 excludes.              *)
(***************************************************************************)
CommittedKeyIsShared ==
    phase = "closed" /\ Regular /\ Committed =>
      \A c, d \in {e \in Configs : e.kind = "reader"} :
        \A k \in LoadPersistent(c.encrypt, HeaderConfig(archive)),
           l \in LoadPersistent(d.encrypt, HeaderConfig(archive)) : k = l

(***************************************************************************)
(* Through the layers an entry reader sees the entries stream and nothing  *)
(* of what lies around it: every read returns the cells at its place,      *)
(* every seek lands where it was asked to, counted from the start or the   *)
(* end of the entries, or is refused and stays.                            *)
(***************************************************************************)
At == io.pos - Window.from

Asked(whence, by) ==
    CASE whence = "Start" -> by
      [] whence = "Current" -> At + by
      [] whence = "End" -> Len(EntriesStream(archive)) + by

ViewIsExact ==
    [][ phase = "opened" =>
          /\ result'.op = "read" =>
               /\ result'.data = SubSeq(EntriesStream(archive), At + 1, At')
               /\ result'.data = <<>> =>
                    result'.size = 0 \/ At >= Len(EntriesStream(archive))
          /\ result'.op = "seek" =>
               IF result'.ok THEN At' = Asked(result'.whence, result'.by) /\ result'.at = At'
               ELSE /\ At' = At
                    /\ Asked(result'.whence, result'.by)
                         \notin 0..Len(EntriesStream(archive)) ]_vars
=============================================================================
