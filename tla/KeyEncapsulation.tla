-------------------------- MODULE KeyEncapsulation --------------------------
(***************************************************************************)
(* How the recipients of an archive find its key: the hybrid KEM           *)
(* (mla/src/crypto/hybrid.rs), the key schedule (hpke.rs) and the key      *)
(* commitment (mla/src/layers/encrypt.rs).  X25519, ML-KEM and HKDF are    *)
(* perfect: a wrapped secret opens under one private key only, different   *)
(* secrets give different keys.  AES-GCM by itself binds no ciphertext to  *)
(* one key: the tag of a commitment made elsewhere may verify under        *)
(* several.                                                                *)
(***************************************************************************)
EXTENDS Naturals, Sequences

(***************************************************************************)
(* The hybrid key of one recipient (combine) encrypts the main secret.     *)
(***************************************************************************)
Wrap(public_key, ss) == [opens_with |-> public_key, wrapped_ss |-> ss]

TagVerifies(recipient, private_key) == recipient.opens_with = private_key

Encapsulate(public_keys, ss) == [i \in DOMAIN public_keys |-> Wrap(public_keys[i], ss)]

First(indices) == CHOOSE i \in indices : \A j \in indices : i <= j

(***************************************************************************)
(* decapsulate: the first recipient whose tag verifies; a set of at most   *)
(* one secret.                                                             *)
(***************************************************************************)
Decapsulate(private_key, recipients) ==
    LET mine == {i \in DOMAIN recipients : TagVerifies(recipients[i], private_key)}
    IN  IF mine = {} THEN {} ELSE {recipients[First(mine)].wrapped_ss}

\* key_schedule_base_hybrid_kem: the key and nonce of the archive.
KeySchedule(ss) == [key_of |-> ss]

(***************************************************************************)
(* A key commitment: the key under which it decrypts to the constant       *)
(* KEY_COMMITMENT_CHAIN, and the keys under which its tag verifies.        *)
(***************************************************************************)
Commitment(key, keys) == [chain_under |-> key, tag_under |-> keys]

BuildKeyCommitmentChain(key) == Commitment(key, {key})

\* The tag only: what was decrypted is dropped, not compared with the chain.
CheckKeyCommitment(key, commitment) == key \in commitment.tag_under

\* EncryptionPersistentConfig, as the header holds it.
PersistentConfig(recipients, commitment) ==
    [t |-> "persistent", recipients |-> recipients, key_commitment |-> commitment]

ToPersistent(public_keys, ss) ==
    PersistentConfig(Encapsulate(public_keys, ss), BuildKeyCommitmentChain(KeySchedule(ss)))

(***************************************************************************)
(* load_persistent: the first shared secret that fits the commitment, else *)
(* the first private key that opens a wrapped secret; whatever was found   *)
(* must fit the commitment.  Found is a set of at most one key.            *)
(***************************************************************************)
FromSharedSecrets(secrets, config) ==
    LET fit == {i \in DOMAIN secrets :
                  CheckKeyCommitment(KeySchedule(secrets[i]), config.key_commitment)}
    IN  IF fit = {} THEN {} ELSE {KeySchedule(secrets[First(fit)])}

FromPrivateKeys(private_keys, config) ==
    LET able == {i \in DOMAIN private_keys :
                   Decapsulate(private_keys[i], config.recipients) # {}}
    IN  IF able = {} THEN {}
        ELSE {KeySchedule(ss) : ss \in Decapsulate(private_keys[First(able)],
                                                   config.recipients)}

Found(encrypt, config) ==
    LET shared == FromSharedSecrets(encrypt.shared_secrets, config)
    IN  IF shared # {} THEN shared ELSE FromPrivateKeys(encrypt.private_keys, config)

\* Mutant: a key that was found is not checked.
LoadPersistent_Unchecked(encrypt, config) == Found(encrypt, config)

LoadPersistent(encrypt, config) ==
    {key \in Found(encrypt, config) : CheckKeyCommitment(key, config.key_commitment)}
=============================================================================
