------------------------------- MODULE TextForms -------------------------------
(***************************************************************************)
(* The conversions between bytes, paths and texts: percent escaping        *)
(* (mla/src/helpers.rs), entry names and paths (mla/src/entry.rs), base64  *)
(* (mla/src/base64.rs). They are pure; each is checked against what its    *)
(* inverse makes of its result, for every text put together from a few     *)
(* words. A conversion that may fail gives the set of its results.         *)
(***************************************************************************)
EXTENDS Integers, Sequences, FiniteSets, SequencesExt

CONSTANTS
  Words,                  \* the byte sequences that texts are made of
  MaxWords,               \* bound: the words of a text
  ENTRY_NAME_MAX_SIZE     \* the length of the longest name

ASSUME TextAssumption ==
  /\ MaxWords \in Nat /\ ENTRY_NAME_MAX_SIZE \in Nat
  /\ \A w \in Words : w \in Seq(0..255)

VARIABLE
  text    \* the bytes that are converted

TextInit ==
  \E n \in 0..MaxWords : \E words \in [1..n -> Words] : text = FlattenSeq(words)

-------------------------------------------------------------------------------
(* Bytes. *)
Percent == 37
Dash == 45
Dot == 46
Slash == 47
Colon == 58
Equal == 61
Low_Line == 95
Digits == 48..57
Upper == 65..90
Lower == 97..122
Alphanumeric == Digits \union Upper \union Lower

RawContentAllowed == Alphanumeric \union {Dot, Dash, Low_Line}
PathbufAllowed == RawContentAllowed \union {Slash}

NibbleToHexChar(nibble) == IF nibble <= 9 THEN 48 + nibble ELSE 97 + (nibble - 10)

HexCharToNibble(c) ==
  IF c \in Digits THEN {c - 48}
  ELSE IF c \in 97..102 THEN {c - 97 + 10}
  ELSE {}

MlaPercentEscape(bytes, preserved) ==
  FlattenSeq([i \in DOMAIN bytes |->
    IF bytes[i] \in preserved THEN <<bytes[i]>>
    ELSE <<Percent, NibbleToHexChar(bytes[i] \div 16), NibbleToHexChar(bytes[i] % 16)>>])

\* The byte that %xx at i stands for, if it is one that is escaped.
Escaped(input, i, allowed) ==
  IF i + 2 > Len(input) THEN {}
  ELSE {b \in {16 * high + low : high \in HexCharToNibble(input[i + 1]),
                                 low \in HexCharToNibble(input[i + 2])} :
          b \notin allowed}

(***************************************************************************)
(* A fold over the positions; `skip` are the digits of an escape just      *)
(* read. A byte that is neither allowed nor a percent is left out, though  *)
(* doc/src/ENTRY_NAME.md says that unescaping fails on it.                 *)
(***************************************************************************)
MlaPercentUnescape(input, allowed) ==
  LET step(r, i) ==
        IF ~r.ok \/ r.skip > 0 THEN [r EXCEPT !.skip = @ - 1]
        ELSE IF input[i] \in allowed THEN [r EXCEPT !.out = Append(@, input[i])]
        ELSE IF input[i] # Percent THEN r
        ELSE IF Escaped(input, i, allowed) = {} THEN [r EXCEPT !.ok = FALSE]
        ELSE [r EXCEPT !.out = Append(@, CHOOSE b \in Escaped(input, i, allowed) : TRUE),
                       !.skip = 2]
      result == FoldLeft(step, [ok |-> TRUE, out |-> <<>>, skip |-> 0],
                         [i \in DOMAIN input |-> i])
  IN  IF result.ok THEN {result.out} ELSE {}

-------------------------------------------------------------------------------
(* Entry names and paths. *)
FromArbitraryBytes(bytes) ==
  IF bytes = <<>> \/ Len(bytes) > ENTRY_NAME_MAX_SIZE THEN {} ELSE {bytes}

\* slice::split: the parts between the separators, empty ones too.
SplitAt(bytes, separator) ==
  FoldLeft(LAMBDA parts, b : IF b = separator THEN Append(parts, <<>>)
                             ELSE [parts EXCEPT ![Len(parts)] = Append(@, b)],
           <<<<>>>>, bytes)

JoinWith(parts, separator) ==
  FoldLeft(LAMBDA all, i : all \o (IF i = 1 THEN <<>> ELSE <<separator>>) \o parts[i],
           <<>>, [i \in DOMAIN parts |-> i])

\* std::path::Path::components of a Unix path: empty parts are dropped, and so
\* is "." but for the first one.
PathComponentsOf(path) ==
  LET parts == SplitAt(path, Slash)
      kind(i) == IF parts[i] = <<>> THEN IF i = 1 /\ path # <<>> THEN "RootDir" ELSE "none"
                 ELSE IF parts[i] = <<Dot>> THEN IF i = 1 THEN "CurDir" ELSE "none"
                 ELSE IF parts[i] = <<Dot, Dot>> THEN "ParentDir"
                 ELSE "Normal"
  IN  SelectSeq([i \in DOMAIN parts |-> [kind |-> kind(i), bytes |-> parts[i]]],
                LAMBDA c : c.kind # "none")

FromPath(path) ==
  LET push(stack, c) ==
        CASE c.kind = "Normal" -> Append(stack, c.bytes)
          [] c.kind = "ParentDir" -> IF stack = <<>> THEN stack ELSE Front(stack)
          [] OTHER -> stack
  IN  FromArbitraryBytes(
        JoinWith(FoldLeft(push, <<>>, PathComponentsOf(path)), Slash))

\* Plausible slip: the parent directory is taken for a name.
IsInvalidOsIndepComponent_Parent(component) ==
  component = <<>> \/ 0 \in Range(component) \/ component = <<Dot>>

IsInvalidOsIndepComponent(component) ==
  component = <<>> \/ 0 \in Range(component) \/ component \in {<<Dot>>, <<Dot, Dot>>}

CheckOsIndepPathRules(bytes) ==
  /\ bytes[1] # Slash
  /\ \A c \in Range(SplitAt(bytes, Slash)) : ~IsInvalidOsIndepComponent(c)

\* Of the names of devices this model has the one its words can spell, "aux".
WindowsForbiddenBytes == 0..31 \union {34, 42, Colon, 60, 62, 63, 92, 124}
WindowsForbiddenNames == {<<97, 117, 120>>}

AsciiLowercase(bytes) ==
  [i \in DOMAIN bytes |-> IF bytes[i] \in Upper THEN bytes[i] + 32 ELSE bytes[i]]

IsWindowsForbiddenComponent(name) ==
  LET before(bytes, b) == SplitAt(bytes, b)[1]
  IN  AsciiLowercase(before(before(before(name, Dot), Colon), 32))
        \in WindowsForbiddenNames

ToPathbufOs(bytes, os) ==
  IF /\ os = "windows"
     /\ \/ Range(bytes) \intersect WindowsForbiddenBytes # {}
        \/ \E c \in Range(SplitAt(bytes, Slash)) : IsWindowsForbiddenComponent(c)
  THEN {} ELSE {bytes}

ToPathbuf(name, os) ==
  IF CheckOsIndepPathRules(name) THEN ToPathbufOs(name, os) ELSE {}

RawContentToEscapedString(name) == MlaPercentEscape(name, RawContentAllowed)

\* to_normal_component_osstr refuses what is not Normal: to_pathbuf has left none.
ToPathbufEscapedString(name, os) ==
  UNION {LET components == PathComponentsOf(path) IN
         IF \E c \in Range(components) : c.kind # "Normal" THEN {}
         ELSE {MlaPercentEscape(
                 JoinWith([i \in DOMAIN components |-> components[i].bytes], Slash),
                 PathbufAllowed)}
         : path \in ToPathbuf(name, os)}

-------------------------------------------------------------------------------
(* Base64, with the shifts of the code as arithmetic. *)
Base64Chars(idx) ==
  CASE idx < 26 -> 65 + idx
    [] idx \in 26..51 -> 97 + (idx - 26)
    [] idx \in 52..61 -> 48 + (idx - 52)
    [] idx = 62 -> 43
    [] idx = 63 -> 47

Base64Index(c) ==
  CASE c \in Upper -> {c - 65}
    [] c \in Lower -> {c - 97 + 26}
    [] c \in Digits -> {c - 48 + 52}
    [] c = 43 -> {62}
    [] c = 47 -> {63}
    [] OTHER -> {}

\* Groups of `size`, the last one what is left.
Groups(data, size) ==
  [g \in 1..((Len(data) + size - 1) \div size) |->
     SubSeq(data, (g - 1) * size + 1, Min({g * size, Len(data)}))]

\* val: the group as one number, shifted as if it had `size` digits.
GroupValue(group, size, base) ==
  FoldLeft(LAMBDA val, i : val * base + (IF i <= Len(group) THEN group[i] ELSE 0),
           0, [i \in 1..size |-> i])

Base64Encode(data) ==
  FlattenSeq([g \in DOMAIN Groups(data, 3) |->
    LET group == Groups(data, 3)[g]
        val == GroupValue(group, 3, 256)
    IN  [j \in 1..4 |-> IF j <= Len(group) + 1
                        THEN Base64Chars((val \div 64^(4 - j)) % 64)
                        ELSE Equal]])

WithoutPadding(encoded) ==
  LET n == Len(encoded) IN
  IF n >= 2 /\ SubSeq(encoded, n - 1, n) = <<Equal, Equal>> THEN SubSeq(encoded, 1, n - 2)
  ELSE IF n >= 1 /\ encoded[n] = Equal THEN Front(encoded)
  ELSE encoded

Base64Decode(encoded) ==
  LET digits == WithoutPadding(encoded)
      index(i) == CHOOSE x \in Base64Index(digits[i]) : TRUE
      groups == Groups([i \in DOMAIN digits |-> index(i)], 4)
  IN  IF Len(encoded) % 4 # 0 \/ \E i \in DOMAIN digits : Base64Index(digits[i]) = {}
      THEN {}
      ELSE {FlattenSeq([g \in DOMAIN groups |->
              [j \in 1..(Len(groups[g]) - 1) |->
                 (GroupValue(groups[g], 4, 64) \div 256^(3 - j)) % 256]])}

-------------------------------------------------------------------------------
\* An escaped name shows nothing but what it may show, and gives back its bytes.
EscapesRoundTrip ==
  \A allowed \in {RawContentAllowed, PathbufAllowed} :
    LET shown == MlaPercentEscape(text, allowed) IN
    /\ Range(shown) \subseteq allowed \union {Percent}
    /\ MlaPercentUnescape(shown, allowed) = {text}

\* A text has one escaped form: what can be unescaped is the escape of it, but
\* for the bytes that unescaping leaves out.
EscapesAreUnique ==
  Range(text) \subseteq RawContentAllowed \union {Percent} =>
    \A bytes \in MlaPercentUnescape(text, RawContentAllowed) :
      MlaPercentEscape(bytes, RawContentAllowed) = text

\* A name that is a path is one of normal components, and is its own name.
NamesAreRelative ==
  \A os \in {"unix", "windows"} :
    \A name \in FromArbitraryBytes(text) : \A path \in ToPathbuf(name, os) :
      /\ \A c \in Range(PathComponentsOf(path)) : c.kind = "Normal"
      /\ FromPath(path) = {name}
      /\ \A shown \in ToPathbufEscapedString(name, os) :
           MlaPercentUnescape(shown, PathbufAllowed) = {name}

\* Whatever path a name is made from, it is a name that leads back to itself.
PathsGiveNames ==
  \A name \in FromPath(text) : 0 \notin Range(text) => ToPathbuf(name, "unix") = {name}

Base64RoundTrip == Base64Decode(Base64Encode(text)) = {text}

(***************************************************************************)
(* The text forms of bytes and names lose nothing: escaping and base64 are *)
(* undone by their inverses, a name taken for a path stays inside the      *)
(* directory it is put in on either system, and names made from a path and *)
(* back are the same (mla_percent_escape, EntryName::from_path and         *)
(* to_pathbuf, base64_encode).                                             *)
(***************************************************************************)
NamesRoundTrip ==
  /\ EscapesRoundTrip /\ EscapesAreUnique
  /\ NamesAreRelative /\ PathsGiveNames
  /\ Base64RoundTrip
===============================================================================
