------------------------------ MODULE StdinSplit ------------------------------
(***************************************************************************)
(* mlar create --stdin-data: standard input becomes the entries of an      *)
(* archive, cut at a separator (add_from_stdin, add_from_stdin_separated). *)
(* Standard input is read in chunks of any size up to the room left in a   *)
(* buffer, so a separator may be spread over several reads.                *)
(***************************************************************************)
EXTENDS Integers, Sequences, FiniteSets, SequencesExt

CONSTANTS
  StdinBytes,          \* the bytes standard input is made of
  MaxStdin,            \* bound: the length of standard input
  STDIN_BUFFER_SIZE,   \* the size of in_buffer
  Separators,          \* the values of --sep, a sequence of bytes each
  NoSeparator,         \* --sep was not given
  NameLists,           \* the values of the entry names, comma separated
  InvalidName          \* a name EntryName::from_path refuses

ASSUME StdinAssumption ==
  /\ STDIN_BUFFER_SIZE \in Nat \ {0}
  /\ MaxStdin \in Nat
  /\ \A s \in Separators : s \in Seq(StdinBytes)
  /\ NoSeparator \notin Separators

VARIABLE
  split    \* the run of add_from_stdin

(***************************************************************************)
(* The run: what standard input holds and how far it was read; the bytes   *)
(* kept at the start of in_buffer; the entries started, the last of them   *)
(* open; the names not used yet; how it ended.                             *)
(***************************************************************************)
Split(input, separator, names) ==
  [input |-> input, separator |-> separator, names |-> names,
   at |-> 0, kept |-> <<>>, entries |-> <<>>, result |-> "start"]

Inputs == UNION {[1..n -> StdinBytes] : n \in 0..MaxStdin}

StdinInit ==
  \E input \in Inputs, separator \in Separators \union {NoSeparator},
     names \in NameLists :
    split = Split(input, separator, names)

\* mlar does something else.
StdinIdle == [Split(<<>>, NoSeparator, <<>>) EXCEPT !.result = "idle"]

Separated == split.separator # NoSeparator

(***************************************************************************)
(* entry_names.next() and start_entry: the error, or Ok. An archive holds  *)
(* a name once.                                                            *)
(***************************************************************************)
Taken(s, name) == \E i \in DOMAIN s.entries : s.entries[i].name = name

NextName(s) ==
  IF s.names = <<>> THEN "EntryNameCountMismatch"
  ELSE IF Head(s.names) = InvalidName THEN "InvalidEntryNameToPath"
  ELSE IF Taken(s, Head(s.names)) THEN "DuplicateEntryName"
  ELSE "ok"

StartEntry(s) ==
  IF NextName(s) # "ok" THEN [s EXCEPT !.result = NextName(s)]
  ELSE [s EXCEPT !.names = Tail(@),
                 !.entries = Append(@, [name |-> Head(s.names),
                                        content |-> <<>>])]

\* append_entry_content on the open entry.
AppendContent(s, bytes) ==
  [s EXCEPT !.entries[Len(s.entries)].content = @ \o bytes]

(***************************************************************************)
(* The first entry is started before anything is read. Without a separator *)
(* a list whose first name is missing or invalid is InvalidEntryNameToPath.*)
(***************************************************************************)
StdinStart ==
  /\ split.result = "start"
  /\ split' = IF Separated /\ Len(split.separator) > STDIN_BUFFER_SIZE
              THEN [split EXCEPT !.result = "SeparatorTooBig"]
              ELSE LET begun == StartEntry(split) IN
                   IF begun.result = "start"
                   THEN [begun EXCEPT !.result = "reading"]
                   ELSE IF ~Separated /\ begun.result = "EntryNameCountMismatch"
                   THEN [begun EXCEPT !.result = "InvalidEntryNameToPath"]
                   ELSE begun

(***************************************************************************)
(* The scan of the buffer: the separator is looked for from the start of   *)
(* the buffer, and again behind each one found. A fold over the positions: *)
(* `from` is previous_separator_end_idx, `next` eventual_separator_idx.    *)
(***************************************************************************)
SeparatorAt(buffer, separator, i) ==
  /\ i + Len(separator) <= Len(buffer)
  /\ SubSeq(buffer, i + 1, i + Len(separator)) = separator

Scanned(s, buffer) ==
  FoldLeft(LAMBDA scan, i :
             IF \/ scan.s.result # "reading"
                \/ i < scan.next
                \/ ~SeparatorAt(buffer, s.separator, i)
             THEN scan
             ELSE LET end == i + Len(s.separator) IN
                  [s |-> StartEntry(
                           AppendContent(scan.s, SubSeq(buffer, scan.from + 1, i))),
                   from |-> end, next |-> end],
           [s |-> s, from |-> 0, next |-> 0],
           [i \in 1..Len(buffer) |-> i - 1])

\* Plausible slip: the first prefix that fits is taken.
KeptLength_Shortest(separator, rest) ==
  LET lengths == {n \in 1..(Len(separator) - 1) :
                    /\ n <= Len(rest)
                    /\ SubSeq(rest, Len(rest) - n + 1, Len(rest))
                         = SubSeq(separator, 1, n)}
  IN  IF lengths = {} THEN 0 ELSE Min(lengths)

\* The longest proper prefix of the separator that the remainder ends with.
KeptLength(separator, rest) ==
  LET ends(n) == /\ n <= Len(rest)
                 /\ SubSeq(rest, Len(rest) - n + 1, Len(rest))
                      = SubSeq(separator, 1, n)
      lengths == {n \in 1..(Len(separator) - 1) : ends(n)}
  IN  IF lengths = {} THEN 0 ELSE Max(lengths)

\* What is left behind the last separator: written, but for a prefix of one.
Remainder(scan, buffer) ==
  LET rest == SubSeq(buffer, scan.from + 1, Len(buffer))
      kept == KeptLength(scan.s.separator, rest)
      cut == Len(rest) - kept
  IN  [AppendContent(scan.s, SubSeq(rest, 1, cut))
         EXCEPT !.kept = SubSeq(rest, cut + 1, Len(rest))]

(***************************************************************************)
(* One turn of the loop: a read of n bytes behind the kept ones, the scan, *)
(* the remainder.                                                          *)
(***************************************************************************)
ReadSeparated(n) ==
  /\ split.result = "reading"
  /\ Separated
  /\ split.separator # <<>>
  /\ n <= STDIN_BUFFER_SIZE - Len(split.kept)
  /\ split.at + n <= Len(split.input)
  /\ LET read == SubSeq(split.input, split.at + 1, split.at + n)
         buffer == split.kept \o read
         scan == Scanned([split EXCEPT !.at = @ + n, !.kept = <<>>], buffer)
     IN  split' = IF scan.s.result = "reading" THEN Remainder(scan, buffer)
                  ELSE scan.s

\* An empty separator is found at once and for ever: every name gets an empty
\* entry, and the run ends when the names are used up.
ReadEmptySeparator ==
  /\ split.result = "reading"
  /\ split.separator = <<>>
  /\ split.at < Len(split.input)
  /\ LET untaken == [i \in 1..(Len(split.names) + 1) |-> i] IN
     split' = FoldLeft(LAMBDA s, i :
                         IF s.result # "reading" THEN s ELSE StartEntry(s),
                       [split EXCEPT !.at = Len(split.input)], untaken)

\* Without a separator io::copy hands each chunk to StreamWriter::write.
CopyChunk(n) ==
  /\ split.result = "reading"
  /\ ~Separated
  /\ split.at + n <= Len(split.input)
  /\ split' = [AppendContent(split, SubSeq(split.input, split.at + 1,
                                           split.at + n))
                 EXCEPT !.at = @ + n]

\* read returns 0: the open entry is ended with what it has.
EndOfStdin ==
  /\ split.result = "reading"
  /\ split.at = Len(split.input)
  /\ split' = [split EXCEPT !.result = "ok"]

\* The archive or standard input cannot be written to or read from.
StdinFails ==
  /\ split.result = "reading"
  /\ split' = [split EXCEPT !.result = "IO"]

StdinNext ==
  \/ StdinStart
  \/ \E n \in 1..MaxStdin : ReadSeparated(n) \/ CopyChunk(n)
  \/ ReadEmptySeparator
  \/ EndOfStdin
  \/ StdinFails

-------------------------------------------------------------------------------
(***************************************************************************)
(* What splitting means, without buffers: parts joined by the separator    *)
(* are the input, and no part holds a separator that ends inside it or     *)
(* inside the separator behind it.                                         *)
(***************************************************************************)
Joined(parts, separator) ==
  FoldLeft(LAMBDA all, i : all \o (IF i = 1 THEN <<>> ELSE separator) \o parts[i],
           <<>>, [i \in 1..Len(parts) |-> i])

FirstSeparator(s, separator, i) ==
  /\ SeparatorAt(s, separator, i)
  /\ \A j \in 0..(i - 1) : ~SeparatorAt(s, separator, j)

IsSplit(parts, separator, input) ==
  /\ Joined(parts, separator) = input
  /\ \A i \in 1..(Len(parts) - 1) :
       FirstSeparator(parts[i] \o separator, separator, Len(parts[i]))
  /\ \A j \in 0..Len(Last(parts)) : ~SeparatorAt(Last(parts), separator, j)

\* What the entries hold, and the bytes kept in the buffer behind them.
Parts(s) ==
  [i \in DOMAIN s.entries |->
     s.entries[i].content \o (IF i = Len(s.entries) THEN s.kept ELSE <<>>)]

(***************************************************************************)
(* Whatever the sizes of the reads, the entries and the bytes still kept   *)
(* in the buffer are the split of what was read, and the kept bytes are a  *)
(* proper prefix of the separator (add_from_stdin_separated): a separator  *)
(* spread over several reads is found, and nothing else is taken for one.  *)
(***************************************************************************)
StdinSplitExact ==
  /\ split.result \in {"reading", "ok"}
  /\ split.separator # <<>>
  => LET read == SubSeq(split.input, 1, split.at) IN
     IF Separated
     THEN /\ IsSplit(Parts(split), split.separator, read)
          /\ IsStrictPrefix(split.kept, split.separator)
     ELSE Parts(split) = <<read>>

(***************************************************************************)
(* "If it is not a real separator, rest will be written in next iteration" *)
(* (mlar/src/main.rs:833): nothing that was read is missing from the       *)
(* archive of a command that succeeds.                                     *)
(***************************************************************************)
AllOfStdinWritten == split.result = "ok" => split.kept = <<>>
===============================================================================
