------------------------------- MODULE KeyFiles -------------------------------
(***************************************************************************)
(* Key pairs and their files: generation, derivation along a path, the two *)
(* file formats and their parser (mla/src/crypto/mlakey.rs), and the       *)
(* commands mlar keygen and mlar keyderive, which create both files before *)
(* they have a key to put there and may fail between any two writes.       *)
(***************************************************************************)
EXTENDS Integers, Sequences, FiniteSets, SequencesExt

CONSTANTS
  Seeds,             \* what key pairs are generated from: given or drawn
  PathComponents,    \* the derivation path components
  MaxPath,           \* bound: the length of a path given to keyderive
  MaxKeyCommands,    \* bound: how many commands are run
  MaxKeyFailures     \* bound: how many of them fail while they write

ASSUME KeyFilesAssumption ==
  MaxPath \in Nat /\ MaxKeyCommands \in Nat /\ MaxKeyFailures \in Nat

VARIABLE
  keys    \* the key files and the command under way

-------------------------------------------------------------------------------
(***************************************************************************)
(* Key material. A generator gives a different secret at every draw, and   *)
(* each secret has its public half.                                        *)
(***************************************************************************)
Public(secret) == <<"public", secret>>
Draw(seed, what) == <<what, seed>>

DerivePublicKey(priv) ==
  [enc |-> [ecc |-> Public(priv.dec.ecc), pq |-> Public(priv.dec.pq)],
   sig |-> [ecc |-> Public(priv.sig.ecc), pq |-> Public(priv.sig.pq)]]

GenerateSignatureKeypair(seed) ==
  LET ed25519 == Draw(seed, "ed25519") xi == Draw(seed, "mldsa") IN
  [priv |-> [ecc |-> ed25519, pq |-> xi],
   pub |-> [ecc |-> Public(ed25519), pq |-> Public(xi)]]

GenerateKeypairFromSeed(seed) ==
  LET x25519 == Draw(seed, "x25519") d_z == Draw(seed, "mlkem")
      signature == GenerateSignatureKeypair(seed)
  IN  [priv |-> [dec |-> [ecc |-> x25519, pq |-> d_z], sig |-> signature.priv],
       pub |-> [enc |-> [ecc |-> Public(x25519), pq |-> Public(d_z)],
                sig |-> signature.pub]]

\* HKDF over both halves of the decryption key and the path component.
ApplyDerive(component, dec) == <<"derived", component, dec.ecc, dec.pq>>

DeriveOnePathComponent(component, dec) ==
  GenerateKeypairFromSeed(ApplyDerive(component, dec))

\* Plausible slip: each component is applied to the key the path starts from.
DeriveKeypairFromPath_FromRoot(path, src) ==
  FoldLeft(LAMBDA pair, c : DeriveOnePathComponent(c, src.dec), [priv |-> src], path)

\* Never called with an empty path: clap asks for one component at least.
DeriveKeypairFromPath(path, src) ==
  FoldLeft(LAMBDA pair, c : DeriveOnePathComponent(c, pair.priv.dec),
           [priv |-> src], path)

-------------------------------------------------------------------------------
(***************************************************************************)
(* The files, as sequences of tokens: texts, the two bytes of a line end,  *)
(* and what base64 hides.                                                  *)
(***************************************************************************)
Text(t) == <<"text", t>>
CR == <<"cr">>
LF == <<"lf">>
Underscore == <<"_">>
CRLF == <<CR, LF>>
Opts(n) == <<"opts", n>>     \* options of n bytes, none at all for 0

Base64(data) == [i \in DOMAIN data |-> <<"base64", data[i]>>]

KeyLine(header, method, key, options) ==
  <<Text(header)>>
    \o Base64(<<Text(method), Opts(Len(options))>> \o options \o <<key.ecc, key.pq>>)
    \o CRLF

KeyOptsLine == Base64(<<Opts(0)>>) \o CRLF

SerializeDecryptionPrivateKey(dec) == KeyLine("decryption", "kem-private", dec, <<>>)
SerializeSigningPrivateKey(sig) == KeyLine("signing", "signature-private", sig, <<>>)
SerializeEncryptionPublicKey(enc) == KeyLine("encryption", "kem-public", enc, <<>>)
SerializeVerificationPublicKey(sig) ==
  KeyLine("verification", "signature-public", sig, <<>>)

SerializePrivateKey(priv) ==
  <<Text("private header")>> \o CRLF
    \o SerializeDecryptionPrivateKey(priv.dec)
    \o SerializeSigningPrivateKey(priv.sig)
    \o KeyOptsLine \o <<Text("private footer")>> \o CRLF

SerializePublicKey(pub) ==
  <<Text("public header")>> \o CRLF
    \o SerializeEncryptionPublicKey(pub.enc)
    \o SerializeVerificationPublicKey(pub.sig)
    \o KeyOptsLine \o <<Text("public footer")>> \o CRLF

(***************************************************************************)
(* The parser. Each step gives the set of its results: none on an error.   *)
(***************************************************************************)
\* split_separator: up to the first CR or underscore, which begins a line end.
SplitSeparator(content) ==
  LET ends == {i \in DOMAIN content : content[i] \in {CR, Underscore}}
      i == Min(ends)
  IN  IF ends = {} \/ i = 1 \/ i = Len(content) THEN {}
      ELSE IF content[i + 1] # (IF content[i] = CR THEN LF ELSE Underscore) THEN {}
      ELSE {[part |-> SubSeq(content, 1, i - 1),
             rest |-> SubSeq(content, i + 2, Len(content))]}

SplitInFiveParts(content) ==
  LET split(found, k) ==
        UNION {{[parts |-> Append(f.parts, s.part), rest |-> s.rest] :
                  s \in SplitSeparator(f.rest)} : f \in found}
      all == FoldLeft(split, {[parts |-> <<>>, rest |-> content]}, <<1, 2, 3, 4, 5>>)
  IN  {f.parts : f \in {g \in all : g.rest = <<>>}}

\* KeyOpts::deserialize: what follows the options.
SkipKeyOpts(data) ==
  IF data = <<>> \/ Head(data)[1] # "opts" \/ Head(data)[2] >= Len(data) THEN {}
  ELSE {SubSeq(data, Head(data)[2] + 2, Len(data))}

\* The secrets of a private line have a fixed length and what follows is not
\* looked at; the last key of a public line must be all that is left.
DeserializeLine(line, header, method, private) ==
  LET data == [i \in 1..(Len(line) - 1) |-> line[i + 1][2]] IN
  IF \/ line[1] # Text(header)
     \/ \E i \in 2..Len(line) : line[i][1] # "base64"
     \/ data = <<>> \/ Head(data) # Text(method)
  THEN {}
  ELSE {[ecc |-> rest[1], pq |-> rest[2]] :
          rest \in {r \in SkipKeyOpts(Tail(data)) :
                      Len(r) = 2 \/ (private /\ Len(r) > 2)}}

DeserializeDecryptionPrivateKey(line) ==
  DeserializeLine(line, "decryption", "kem-private", TRUE)
DeserializeSigningPrivateKey(line) ==
  DeserializeLine(line, "signing", "signature-private", TRUE)
DeserializeEncryptionPublicKey(line) ==
  DeserializeLine(line, "encryption", "kem-public", FALSE)
DeserializeVerificationPublicKey(line) ==
  DeserializeLine(line, "verification", "signature-public", FALSE)

DeserializePrivateKey(content) ==
  UNION {IF \/ lines[1] # <<Text("private header")>>
            \/ lines[5] # <<Text("private footer")>>
         THEN {}
         ELSE {[dec |-> dec, sig |-> sig] :
                 dec \in DeserializeDecryptionPrivateKey(lines[2]),
                 sig \in DeserializeSigningPrivateKey(lines[3])}
         : lines \in SplitInFiveParts(content)}

DeserializePublicKey(content) ==
  UNION {IF \/ lines[1] # <<Text("public header")>>
            \/ lines[5] # <<Text("public footer")>>
         THEN {}
         ELSE {[enc |-> enc, sig |-> sig] :
                 enc \in DeserializeEncryptionPublicKey(lines[2]),
                 sig \in DeserializeVerificationPublicKey(lines[3])}
         : lines \in SplitInFiveParts(content)}

-------------------------------------------------------------------------------
(***************************************************************************)
(* The commands. A prefix has two files; `made` is what a command meant to *)
(* write under a prefix: the pair, the seed it goes back to and the path   *)
(* from there. `phase` is what the command does next.                      *)
(***************************************************************************)
KeyPrefixes == 1..MaxKeyCommands
Missing == <<<<"missing">>>>
Nothing == [pair |-> {}, seed |-> {}, path |-> <<>>]

Job(out, seeds, input, path) ==
  [out |-> out, seeds |-> seeds, input |-> input, path |-> path, made |-> Nothing]
NoJob == Job(0, {}, <<>>, <<>>)

FreshKeys ==
  [pub |-> [p \in KeyPrefixes |-> Missing], priv |-> [p \in KeyPrefixes |-> Missing],
   made |-> [p \in KeyPrefixes |-> Nothing],
   phase |-> "idle", job |-> NoJob, ran |-> 0, failures |-> 0]

KeysInit == keys = FreshKeys

\* No key command is run.
KeysIdle == [FreshKeys EXCEPT !.phase = "off"]

KeyPaths(n) == UNION {[1..k -> PathComponents] : k \in 1..n}

\* keygen, with the seed given or drawn; keyderive, from a file and along a path.
Jobs(out) ==
  {Job(out, {seed}, <<>>, <<>>) : seed \in Seeds}
    \union {Job(out, {}, <<kind, p>>, path) :
              kind \in {"pub", "priv"}, p \in 1..keys.ran, path \in KeyPaths(MaxPath)}

\* The command ends, by an error or a panic; its files stay as they are.
Stops(k) == [k EXCEPT !.phase = "idle", !.job = NoJob]

CreatePublicFile(job) ==
  /\ keys.phase = "idle"
  /\ keys.ran < MaxKeyCommands
  /\ LET begun == [keys EXCEPT !.ran = @ + 1] IN
     keys' = IF keys.pub[job.out] # Missing THEN Stops(begun)
             ELSE [begun EXCEPT !.pub[job.out] = <<>>, !.job = job,
                                !.phase = "create"]

CreatePrivateFile ==
  /\ keys.phase = "create"
  /\ keys' = IF keys.priv[keys.job.out] # Missing THEN Stops(keys)
             ELSE [keys EXCEPT !.priv[keys.job.out] = <<>>, !.phase = "key"]

GenerateKey ==
  /\ keys.phase = "key"
  /\ keys.job.input = <<>>
  /\ \E seed \in keys.job.seeds :
       keys' = [keys EXCEPT
         !.job.made = [pair |-> {GenerateKeypairFromSeed(seed)},
                       seed |-> {seed}, path |-> <<>>],
         !.phase = "public"]

\* Only now is the input read. It may be missing, cut short or a public key.
DeriveKey ==
  /\ keys.phase = "key"
  /\ keys.job.input # <<>>
  /\ LET kind == keys.job.input[1]
         from == keys.job.input[2]
         read == DeserializePrivateKey(IF kind = "pub" THEN keys.pub[from]
                                       ELSE keys.priv[from])
     IN  IF read = {} THEN keys' = Stops(keys)
         ELSE \E src \in read :
                keys' = [keys EXCEPT
                  !.job.made = [pair |-> {DeriveKeypairFromPath(keys.job.path, src)},
                                seed |-> keys.made[from].seed,
                                path |-> keys.made[from].path \o keys.job.path],
                  !.phase = "public"]

WritePublicFile ==
  /\ keys.phase = "public"
  /\ \E pair \in keys.job.made.pair :
       keys' = [keys EXCEPT !.pub[keys.job.out] = SerializePublicKey(pair.pub),
                            !.made[keys.job.out] = keys.job.made,
                            !.phase = "private"]

WritePrivateFile ==
  /\ keys.phase = "private"
  /\ \E pair \in keys.job.made.pair :
       keys' = Stops([keys EXCEPT !.priv[keys.job.out] = SerializePrivateKey(pair.priv)])

\* A write fails after some of the bytes; or the command is killed.
WriteFails ==
  /\ keys.phase \in {"public", "private"}
  /\ keys.failures < MaxKeyFailures
  /\ \E pair \in keys.job.made.pair :
       LET whole == IF keys.phase = "public" THEN SerializePublicKey(pair.pub)
                    ELSE SerializePrivateKey(pair.priv)
       IN  \E n \in 0..(Len(whole) - 1) :
             LET cut == SubSeq(whole, 1, n)
                 stopped == Stops([keys EXCEPT !.failures = @ + 1,
                                               !.made[keys.job.out] = keys.job.made])
             IN  keys' = IF keys.phase = "public"
                         THEN [stopped EXCEPT !.pub[keys.job.out] = cut]
                         ELSE [stopped EXCEPT !.priv[keys.job.out] = cut]

KeysNext ==
  \/ \E out \in {1, keys.ran + 1} \intersect KeyPrefixes :
       \E job \in Jobs(out) : CreatePublicFile(job)
  \/ CreatePrivateFile \/ GenerateKey \/ DeriveKey
  \/ WritePublicFile \/ WritePrivateFile \/ WriteFails

-------------------------------------------------------------------------------
\* A file read back is what its command meant to write, or is refused.
ReadBack(p) ==
  /\ DeserializePrivateKey(keys.priv[p]) \subseteq {pair.priv : pair \in keys.made[p].pair}
  /\ DeserializePublicKey(keys.pub[p]) \subseteq {pair.pub : pair \in keys.made[p].pair}

\* The two files are not taken for each other.
NotConfused(p) ==
  /\ DeserializePublicKey(keys.priv[p]) = {}
  /\ DeserializePrivateKey(keys.pub[p]) = {}

\* Where a command has come to its end both files are whole.
WholeIsRead(p) ==
  /\ keys.priv[p] \notin {Missing, <<>>}
  /\ \E pair \in keys.made[p].pair : keys.priv[p] = SerializePrivateKey(pair.priv)
  => \E priv \in DeserializePrivateKey(keys.priv[p]) :
       DeserializePublicKey(keys.pub[p]) = {DerivePublicKey(priv)}

\* A line with options, which a later version may write, gives the same key.
OptionsSkipped(pair) ==
  LET line == KeyLine("decryption", "kem-private", pair.priv.dec, <<Text("option")>>)
  IN  \A part \in {s.part : s \in SplitSeparator(line)} :
        DeserializeLine(part, "decryption", "kem-private", TRUE) = {pair.priv.dec}

\* The same seed and the same path as a whole are the same keys, and other
\* ones are other keys, in however many commands the path was walked.
SameOrigin(p, q) ==
  keys.made[p].pair # {} /\ keys.made[q].pair # {} =>
    (keys.made[p].pair = keys.made[q].pair)
      = (<<keys.made[p].seed, keys.made[p].path>>
           = <<keys.made[q].seed, keys.made[q].path>>)

(***************************************************************************)
(* Key files hold: one that is cut anywhere is refused, one that is whole  *)
(* gives back the key, with the public file of its private key beside it;  *)
(* a key derived along a path is the one derived component by component    *)
(* (KEY_DERIVATION.md), and no other path leads to it (deserialize_*_key,  *)
(* derive_keypair_from_path, keygen, keyderive).                           *)
(***************************************************************************)
KeyFilesHold ==
  \A p \in 1..keys.ran :
    /\ ReadBack(p) /\ NotConfused(p) /\ WholeIsRead(p)
    /\ \A pair \in keys.made[p].pair : OptionsSkipped(pair)
    /\ \A q \in 1..keys.ran : SameOrigin(p, q)
===============================================================================
