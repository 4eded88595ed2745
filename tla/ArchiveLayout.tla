---------------------------- MODULE ArchiveLayout ----------------------------
(***************************************************************************)
(* What ArchiveWriter::from_config and finalize put around the entries:    *)
(* the header, the layers a configuration asks for, and their tails.       *)
(*                                                                         *)
(* An archive is described by a record a: signers and recipients, the      *)
(* public keys it was made for; compressed; id, which stands for its       *)
(* content and for its main secret; secret_of, the secret that each        *)
(* recipient is given; committed, the secrets under whose keys the tag of  *)
(* its key commitment verifies, {id} when this library wrote it; and tail, *)
(* the number of cells of its tail options, more than one if a later       *)
(* version wrote it.  What a packed or a sealed cell holds follows from    *)
(* the archive it belongs to.                                              *)
(***************************************************************************)
EXTENDS LayerStack, KeyEncapsulation

Magic(m) == [t |-> "magic", m |-> m]
MLA_MAGIC == Magic("MLA")
SIGNATURE_LAYER_MAGIC == Magic("SIGNATURE")
ENCRYPTION_LAYER_MAGIC == Magic("ENCRYPTION")
COMPRESSION_LAYER_MAGIC == Magic("COMPRESSION")
ENTRIES_LAYER_MAGIC == Magic("ENTRIES")
END_MLA_MAGIC == Magic("END")

MLA_FORMAT_VERSION == [t |-> "version", n |-> 2]

TailOpts(a) == [i \in 1..a.tail |-> Opts] \o << Length(a.tail) >>

\* ArchiveHeader::serialize.
Header == << MLA_MAGIC, MLA_FORMAT_VERSION, Opts >>

\* The entries, EndOfArchiveData and the footer.
Index(a) == [t |-> "index", of |-> a.id]

EntriesStream(a) ==
    << ENTRIES_LAYER_MAGIC, Opts, [t |-> "blocks", of |-> a.id],
       Index(a), Length(1) >> \o TailOpts(a)

CompressionStream(a) ==
    IF a.compressed
    THEN << COMPRESSION_LAYER_MAGIC, Opts, [t |-> "packed", of |-> a.id] >>
         \o TailOpts(a) \o << [t |-> "sizes_info"], Length(1) >>
    ELSE EntriesStream(a)

(***************************************************************************)
(* EncryptionLayerWriter::new and finalize.                                *)
(***************************************************************************)
ArchiveKey(a) == KeySchedule(a.id)

HeaderConfig(a) ==
    PersistentConfig([i \in DOMAIN a.recipients |->
                        Wrap(a.recipients[i], a.secret_of[i])],
                     Commitment(ArchiveKey(a), {KeySchedule(ss) : ss \in a.committed}))

EncryptionStream(a) ==
    IF a.recipients = <<>> THEN CompressionStream(a)
    ELSE << ENCRYPTION_LAYER_MAGIC, Opts, [t |-> "method"], HeaderConfig(a),
            [t |-> "sealed", key |-> ArchiveKey(a)] >>
         \o TailOpts(a)

(***************************************************************************)
(* The bytes a signature covers, and the signatures themselves, two for    *)
(* each key, in a vector.                                                  *)
(***************************************************************************)
SignedBytes(a) == Header \o << SIGNATURE_LAYER_MAGIC, Opts >> \o EncryptionStream(a)

Signature(key, method, hash) ==
    [t |-> "signature", key |-> key, method |-> method, hash |-> hash]

SignatureData(a, hash) ==
    LET n == Len(a.signers)
    IN  << Length(2 * n) >>
        \o [i \in 1..2 * n |->
              Signature(a.signers[(i + 1) \div 2],
                        IF i % 2 = 1 THEN "ed25519" ELSE "mldsa87", hash)]

\* SignatureLayerWriter::finalize.
SignatureTail(a, hash) ==
    TailOpts(a) \o SignatureData(a, hash) \o << Length(1 + 2 * Len(a.signers)) >>

\* ArchiveWriter::finalize.
EndOfArchive(a) == TailOpts(a) \o << END_MLA_MAGIC >>

Archive(a) ==
    (IF a.signers = <<>> THEN Header \o EncryptionStream(a)
     ELSE SignedBytes(a) \o SignatureTail(a, SignedBytes(a)))
    \o EndOfArchive(a)
=============================================================================
