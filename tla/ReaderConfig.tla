---------------------------- MODULE ReaderConfig ----------------------------
(***************************************************************************)
(* The constructors of the configurations (mla/src/config.rs): what a      *)
(* caller can ask for when it writes, reads or repairs an archive.  Those  *)
(* of a writer return a set of at most one configuration, empty when they  *)
(* refuse their keys.  Beside accept_unencrypted, which the code reads, a  *)
(* reader's configuration says what the comment of its constructor         *)
(* promises, documented_unencrypted.                                       *)
(***************************************************************************)
EXTENDS Sequences

\* SignatureConfig::new and EncryptionConfig::new refuse to have no key.
WriterConfig(recipients, signers) ==
    [recipients |-> recipients, signers |-> signers, compressed |-> TRUE]

WithEncryptionWithSignature(recipients, signers) ==
    IF recipients = <<>> \/ signers = <<>> THEN {} ELSE {WriterConfig(recipients, signers)}

WithEncryptionWithoutSignature(recipients) ==
    IF recipients = <<>> THEN {} ELSE {WriterConfig(recipients, <<>>)}

WithoutEncryptionWithSignature(signers) ==
    IF signers = <<>> THEN {} ELSE {WriterConfig(<<>>, signers)}

WithoutEncryptionWithoutSignature == {WriterConfig(<<>>, <<>>)}

WithoutCompression(c) == [c EXCEPT !.compressed = FALSE]

-----------------------------------------------------------------------------
(***************************************************************************)
(* ArchiveReaderConfig, by way of IncompleteArchiveReaderConfig.           *)
(***************************************************************************)
WithSignatureVerification(keys) ==
    [shared_secrets |-> <<>>, signature_check |-> TRUE, verification_keys |-> keys]

WithoutSignatureVerification ==
    [shared_secrets |-> <<>>, signature_check |-> FALSE, verification_keys |-> {}]

AddDecryptionSharedSecrets(c, secrets) == [c EXCEPT !.shared_secrets = secrets]

EncryptionReaderConfig(private_keys, shared_secrets) ==
    [private_keys |-> private_keys, shared_secrets |-> shared_secrets]

Complete(c, accept_unencrypted, documented, encrypt) ==
    [kind |-> "reader", signature_check |-> c.signature_check,
     verification_keys |-> c.verification_keys,
     accept_unencrypted |-> accept_unencrypted,
     documented_unencrypted |-> documented, encrypt |-> encrypt]

\* "Will refuse to open an archive without encryption."
WithEncryption(c, private_keys) ==
    Complete(c, FALSE, FALSE, EncryptionReaderConfig(private_keys, c.shared_secrets))

\* "This will accept reading unencrypted archives !"
WithEncryptionAcceptUnencrypted(c, private_keys) ==
    Complete(c, TRUE, TRUE, EncryptionReaderConfig(private_keys, c.shared_secrets))

\* "Will NOT accept encrypted archives."  The shared secrets are dropped.
WithoutEncryption(c) == Complete(c, TRUE, TRUE, EncryptionReaderConfig(<<>>, <<>>))

-----------------------------------------------------------------------------
(***************************************************************************)
(* TruncatedReaderConfig, with the same comments.  The second constructor  *)
(* sets accept_unencrypted to false, although its comment says that it     *)
(* accepts.                                                                *)
(***************************************************************************)
TruncatedReaderConfig(accept_unencrypted, documented, private_keys) ==
    [kind |-> "truncated", accept_unencrypted |-> accept_unencrypted,
     documented_unencrypted |-> documented,
     encrypt |-> EncryptionReaderConfig(private_keys, <<>>)]

TruncatedWithEncryption(private_keys) == TruncatedReaderConfig(FALSE, FALSE, private_keys)

TruncatedWithEncryptionAcceptUnencrypted(private_keys) ==
    TruncatedReaderConfig(FALSE, TRUE, private_keys)

TruncatedWithoutEncryption == TruncatedReaderConfig(TRUE, TRUE, <<>>)
=============================================================================
