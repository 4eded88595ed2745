----------------------------- MODULE MCOpening -----------------------------
(***************************************************************************)
(* Archives of every combination of layers, for one and for two recipients *)
(* and signers, and one whose second recipient was given another secret;   *)
(* every kind of configuration, with right and with wrong keys.  Some      *)
(* archives were written elsewhere, with a commitment whose tag verifies   *)
(* under both secrets.                                                     *)
(***************************************************************************)
EXTENDS ArchiveOpening, ReaderConfig

Writers ==
    UNION {WithEncryptionWithSignature(r, s)
             \cup WithEncryptionWithoutSignature(r)
             \cup WithoutEncryptionWithSignature(s)
             \cup WithoutEncryptionWithoutSignature
           : r \in {<<>>, <<"bob">>, <<"bob", "carol">>},
             s \in {<<>>, <<"alice">>, <<"alice", "abel">>}}

Description(c, secrets, tail) ==
    [recipients |-> c.recipients, signers |-> c.signers, compressed |-> c.compressed,
     id |-> "main", secret_of |-> [i \in DOMAIN c.recipients |-> secrets[i]],
     committed |-> {"main"}, tail |-> tail]

OwnArchives ==
    {Description(c, secrets, tail) :
       c \in Writers \cup {WithoutCompression(w) : w \in Writers},
       secrets \in {<<"main", "main">>, <<"main", "second">>},
       tail \in {1, 2}}

MCArchives ==
    OwnArchives \cup
    {[a EXCEPT !.committed = {"main", "second"}] :
       a \in {b \in OwnArchives : b.recipients # <<>> /\ b.tail = 1 /\ b.compressed}}

Verifications ==
    {WithSignatureVerification({"alice", "eve"}), WithSignatureVerification({"eve"}),
     WithoutSignatureVerification}

MCConfigs ==
    UNION {{WithEncryption(v, <<"bob">>), WithEncryption(v, <<"dan", "carol">>),
            WithEncryption(v, <<"dan">>), WithEncryptionAcceptUnencrypted(v, <<"bob">>),
            WithEncryption(AddDecryptionSharedSecrets(v, <<"second", "main">>), <<>>),
            WithoutEncryption(v)} : v \in Verifications}
    \cup {TruncatedWithEncryption(<<"bob">>), TruncatedWithEncryption(<<"dan">>),
          TruncatedWithEncryption(<<"dan", "carol">>), TruncatedWithoutEncryption,
          TruncatedWithEncryptionAcceptUnencrypted(<<"carol">>)}

\* Made for the same readers, with another content and another secret.
MCOther ==
    Description([recipients |-> <<"bob", "carol">>, signers |-> <<>>, compressed |-> FALSE],
                <<"main", "main">>, 1)

MCOtherSecret == [MCOther EXCEPT !.id = "other", !.secret_of = <<"other", "other">>,
                                !.committed = {"other"}]

MCMoves == {-5, -1, 0, 3}
=============================================================================
