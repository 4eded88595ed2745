-------------------------- MODULE EncryptionWriter --------------------------
(***************************************************************************)
(* The stream that InternalEncryptionLayerWriter produces: chunks of at    *)
(* most NORMAL_CHUNK_PT_SIZE bytes of plaintext, each with a head and an   *)
(* AES-GCM tag under a nonce of its own, then the final block.             *)
(*                                                                         *)
(* A byte of the stream is a cell that says what it is.  The i-th byte of  *)
(* the plaintext is the number i: nothing depends on what the bytes are,   *)
(* and a byte at the wrong place shows.  AES-GCM is perfect: a ciphertext  *)
(* byte names the nonce, the keystream position and the plaintext byte; a  *)
(* tag names the nonce, the associated data and the ciphertext.            *)
(***************************************************************************)
EXTENDS Integers, Sequences, FiniteSets

CONSTANTS
    NORMAL_CHUNK_PT_SIZE,
    TAG_LENGTH,
    CHUNK_HEAD_SIZE,
    MAGIC_LENGTH,       \* of FINAL_BLOCK_MAGIC
    CIPHER_BUF_SIZE,
    WriteSizes,         \* lengths of the buffers offered to write
    MaxPlain            \* bound on the bytes that are encrypted, in failed calls too

(***************************************************************************)
(* Buffers are not empty: the layers above write with write_all, which     *)
(* makes no call for an empty buffer.                                      *)
(***************************************************************************)
ASSUME WriterAssumption ==
    /\ NORMAL_CHUNK_PT_SIZE \in Nat \ {0}
    /\ TAG_LENGTH \in Nat \ {0}
    /\ CHUNK_HEAD_SIZE \in Nat
    /\ MAGIC_LENGTH \in Nat \ {0}
    /\ CIPHER_BUF_SIZE \in Nat \ {0}
    /\ WriteSizes \subseteq Nat \ {0}
    /\ MaxPlain \in Nat

VARIABLES
    out,                    \* what the inner layer has received
    current_ctr,
    current_chunk_offset,
    encrypted,              \* the ciphertext the current cipher has produced
    written,                \* bytes of plaintext write has accepted
    keystream,              \* ghost: the <<nonce, position>> of every byte encrypted
    torn,                   \* ghost: a write has failed
    finalized

writerVars == <<out, current_ctr, current_chunk_offset, encrypted, written,
                keystream, torn, finalized>>

FIRST_DATA_CHUNK_NUMBER == 1
ASSOCIATED_DATA == "data"
FINAL_ASSOCIATED_DATA == "final"

(***************************************************************************)
(* Cells.                                                                  *)
(***************************************************************************)
Plain(i) == [kind |-> "plain", byte |-> i]
Cipher(ctr, at, i) == [kind |-> "cipher", ctr |-> ctr, at |-> at, byte |-> i]

ChunkHead(ctr) ==
    [i \in 1..CHUNK_HEAD_SIZE |-> [kind |-> "head", ctr |-> ctr, part |-> i]]

Tag(ctr, aad, text) ==
    [i \in 1..TAG_LENGTH |->
        [kind |-> "tag", ctr |-> ctr, aad |-> aad, text |-> text, part |-> i]]

FINAL_BLOCK_MAGIC == [i \in 1..MAGIC_LENGTH |-> [kind |-> "magic", part |-> i]]
FINAL_BLOCK_CONTENT == 0
END_OF_ENCRYPTED_INNER_LAYER_MAGIC == <<[kind |-> "end"]>>
EMPTY_TAIL_OPTS_SERIALIZATION == <<[kind |-> "tail"]>>

(***************************************************************************)
(* The next size bytes of plaintext, encrypted under ctr after used bytes. *)
(***************************************************************************)
Encrypt(ctr, used, size) ==
    [i \in 1..size |-> Cipher(ctr, used + i, written + i)]

Positions(ctr, used, size) == [i \in 1..size |-> <<ctr, used + i>>]

WriterInit ==
    /\ out = ChunkHead(FIRST_DATA_CHUNK_NUMBER)
    /\ current_ctr = FIRST_DATA_CHUNK_NUMBER
    /\ current_chunk_offset = 0
    /\ encrypted = <<>>
    /\ written = 0
    /\ keystream = <<>>
    /\ torn = FALSE
    /\ finalized = FALSE

\* Mutant: the next cipher keeps the nonce.
RenewCtr_Kept(ctr) == ctr

(***************************************************************************)
(* renew_cipher_aad: the nonce of the next cipher.                         *)
(***************************************************************************)
RenewCtr(ctr) == ctr + 1

ChunkFull == current_chunk_offset = NORMAL_CHUNK_PT_SIZE

(***************************************************************************)
(* What write does before it encrypts: in a full chunk it takes the next   *)
(* cipher, then writes the tag of the chunk and the head of the next one.  *)
(***************************************************************************)
Ctr == IF ChunkFull THEN RenewCtr(current_ctr) ELSE current_ctr
Offset == IF ChunkFull THEN 0 ELSE current_chunk_offset
Before == IF ChunkFull THEN <<>> ELSE encrypted
Turn ==
    IF ChunkFull
    THEN Tag(current_ctr, ASSOCIATED_DATA, encrypted) \o ChunkHead(Ctr)
    ELSE <<>>

SizeTaken(length) ==
    LET fits == {length, CIPHER_BUF_SIZE, NORMAL_CHUNK_PT_SIZE - Offset}
    IN  CHOOSE size \in fits : \A other \in fits : size <= other

CanWrite(length) ==
    /\ ~finalized
    /\ Len(keystream) + SizeTaken(length) <= MaxPlain

Write(length) ==
    LET size == SizeTaken(length)
        text == Encrypt(Ctr, Len(Before), size)
    IN  /\ CanWrite(length)
        /\ current_ctr' = Ctr
        /\ encrypted' = Before \o text
        /\ keystream' = keystream \o Positions(Ctr, Len(Before), size)
        /\ out' = out \o Turn \o text
        /\ current_chunk_offset' = Offset + size
        /\ written' = written + size
        /\ UNCHANGED <<torn, finalized>>

(***************************************************************************)
(* The inner layer takes only a part of what write gives it.  The cipher   *)
(* has moved on if the failure comes after the head; the offset has not.   *)
(***************************************************************************)
WriteFails(length) ==
    LET size == SizeTaken(length)
        text == Encrypt(Ctr, Len(Before), size)
        whole == Turn \o text
    IN  /\ CanWrite(length)
        /\ \E taken \in 0..Len(whole) - 1 :
             /\ out' = out \o SubSeq(whole, 1, taken)
             /\ IF taken >= Len(Turn)
                THEN /\ encrypted' = Before \o text
                     /\ keystream' = keystream \o Positions(Ctr, Len(Before), size)
                ELSE encrypted' = Before /\ UNCHANGED keystream
        /\ current_ctr' = Ctr
        /\ current_chunk_offset' = Offset
        /\ torn' = TRUE
        /\ UNCHANGED <<written, finalized>>

(***************************************************************************)
(* finalize: the tag of the current chunk, which may be empty or full, and *)
(* the final block under the next nonce and its own associated data.       *)
(***************************************************************************)
Finalize ==
    LET ctr == RenewCtr(current_ctr)
        content == <<Cipher(ctr, 1, FINAL_BLOCK_CONTENT)>>
    IN  /\ ~finalized
        /\ out' = out \o Tag(current_ctr, ASSOCIATED_DATA, encrypted)
                      \o FINAL_BLOCK_MAGIC \o content
                      \o Tag(ctr, FINAL_ASSOCIATED_DATA, content)
                      \o END_OF_ENCRYPTED_INNER_LAYER_MAGIC
                      \o EMPTY_TAIL_OPTS_SERIALIZATION
        /\ keystream' = Append(keystream, <<ctr, 1>>)
        /\ current_ctr' = RenewCtr(ctr)
        /\ current_chunk_offset' = 0
        /\ encrypted' = <<>>
        /\ finalized' = TRUE
        /\ UNCHANGED <<written, torn>>

WriterNext ==
    \/ \E length \in WriteSizes : Write(length) \/ WriteFails(length)
    \/ Finalize

WriterSpec == WriterInit /\ [][WriterNext]_writerVars

-----------------------------------------------------------------------------
CipherCell == [kind : {"cipher"}, ctr : Nat \ {0}, at : Nat \ {0}, byte : Nat]

(***************************************************************************)
(* Types of the writer's fields; a chunk never holds more plaintext than   *)
(* NORMAL_CHUNK_PT_SIZE, the case write returns WrongWriterState for.      *)
(***************************************************************************)
WriterTypeOK ==
    /\ current_ctr \in Nat \ {0}
    /\ current_chunk_offset \in 0..NORMAL_CHUNK_PT_SIZE
    /\ encrypted \in Seq(CipherCell)
    /\ written \in Nat
    /\ keystream \in Seq((Nat \ {0}) \X (Nat \ {0}))
    /\ torn \in BOOLEAN /\ finalized \in BOOLEAN

(***************************************************************************)
(* No byte of the AES-CTR keystream is used for two bytes of plaintext,    *)
(* whatever writes fail and are tried again, the final block included.     *)
(* Nonce 0 is the key commitment's.                                        *)
(***************************************************************************)
KeystreamOnce ==
    /\ \A i, j \in 1..Len(keystream) : keystream[i] = keystream[j] => i = j
    /\ \A i \in 1..Len(keystream) : keystream[i][1] # 0
=============================================================================
