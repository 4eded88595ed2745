------------------------------- MODULE CBinding -------------------------------
(***************************************************************************)
(* The C interface. What Rust boxes is handed to the caller as a pointer;  *)
(* a call turns the pointer back into the box, uses it, and either leaks   *)
(* the box again or lets it be freed and clears the caller's variable.     *)
(*                                                                         *)
(* The caller passes what its variables hold, and never overwrites one     *)
(* that still holds a handle. It may call the functions in any order.      *)
(***************************************************************************)
EXTENDS WriterCalls, FiniteSets

CONSTANTS
  CNames,       \* names of entries that EntryName accepts
  InvalidCName, \* one it does not
  EntryVars,    \* the caller's variables for entry handles
  MaxBoxes,     \* bound: the boxes a caller makes
  MaxCBlocks    \* bound: the blocks of an archive

VARIABLE
  c    \* the boxes, and what the caller has in its variables

(***************************************************************************)
(* A handle is the place of its box in `boxes`; 0 is the null pointer.     *)
(* `fault`: Rust was made to use a pointer without a live box behind it.   *)
(* `misplaced`: the archives that were given an entry handle of another    *)
(* archive. `reported`: those of which a call returned IOError.            *)
(* `layout`: whether the build lays a Result<ArchiveWriterConfig,          *)
(* ConfigError> out as the ArchiveWriterConfig in it, which nothing says.  *)
(***************************************************************************)
CInit ==
  \E layout \in {"same", "other"} :
    c = [boxes |-> <<>>, wconf |-> 0, rconf |-> 0, archive |-> 0,
         entry |-> [v \in EntryVars |-> 0], layout |-> layout,
         fault |-> "none", misplaced |-> {}, reported |-> {}]

\* No C program runs.
CIdle ==
  [boxes |-> <<>>, wconf |-> 0, rconf |-> 0, archive |-> 0,
   entry |-> [v \in EntryVars |-> 0], layout |-> "same",
   fault |-> "idle", misplaced |-> {}, reported |-> {}]

Box(content) == Append(c.boxes, content)

\* `kind` is what the caller's handle is declared for, `holds` what is there.
ConfigBox(kind) == [kind |-> kind, live |-> TRUE, holds |-> kind]

\* The writer constructors box what ArchiveWriterConfig's return, with its Ok.
ResultBox == [kind |-> "writer_config", live |-> TRUE, holds |-> "result"]

Drop(boxes, handle) == [boxes EXCEPT ![handle].live = FALSE]

Room(n) == Len(c.boxes) + n <= MaxBoxes

Fault(handle) ==
  IF handle = 0 THEN "null" ELSE IF c.boxes[handle].live THEN "none" ELSE "freed"

\* Plausible slip: the variable of the caller keeps the pointer.
HandleAfterUse_Kept(handle) == handle

\* "Avoid any use-after-free of this handle by the caller".
HandleAfterUse(handle) == 0

\* A status is returned: what the caller can know of an archive it writes.
Told(archive, status) ==
  IF status = "IOError" /\ archive # 0 THEN c.reported \cup {archive} ELSE c.reported

Returns(status) == c' = [c EXCEPT !.reported = Told(0, status)]

Faults(handle) == Fault(handle) # "none" /\ c' = [c EXCEPT !.fault = Fault(handle)]

\* The handle of the writer configuration is cast to *mut ArchiveWriterConfig.
ConfigFault ==
  IF Fault(c.wconf) # "none" THEN Fault(c.wconf)
  ELSE IF c.boxes[c.wconf].holds = "result" /\ c.layout = "other" THEN "layout"
  ELSE "none"

ConfigFaults == ConfigFault # "none" /\ c' = [c EXCEPT !.fault = ConfigFault]

(***************************************************************************)
(* The status an error of the library becomes, for the errors the calls    *)
(* below can meet.                                                         *)
(***************************************************************************)
MLAStatus(error) ==
  CASE error = "None" -> "Success"
    [] error = "CompressionLevelOutOfRange" -> "ConfigErrorCompressionLevelOutOfRange"
    [] error \in {"IOError", "DuplicateEntryName", "WrongWriterState",
                  "WrongMagic", "DeserializationError"} -> error
    [] OTHER -> "Other"

-------------------------------------------------------------------------------
(***************************************************************************)
(* Configurations. A list of keys is missing (a null pointer, no key or a  *)
(* null key in it), has an unparsable key in it, or is good.               *)
(***************************************************************************)
KeyLists == {"missing", "unparsable", "good"}

KeysFromPointers(keys) ==
  CASE keys = "good" -> "Success"
    [] keys = "unparsable" -> "MlaKeyParserError"
    [] OTHER -> "BadAPIArgument"

\* The status of the first list that is refused, in the order of the code.
FirstRefused(lists) ==
  LET refused == {i \in DOMAIN lists : KeysFromPointers(lists[i]) # "Success"}
  IN IF refused = {} THEN "Success"
     ELSE KeysFromPointers(lists[CHOOSE i \in refused : \A j \in refused : i <= j])

\* The lists a constructor is given: none, one or two, by the layers it adds.
KeyArguments ==
  {<<>>, <<"good">>, <<"missing">>, <<"good", "good">>, <<"unparsable", "missing">>}

CreateWriterConfig(lists) ==
  LET status == FirstRefused(lists)
  IN /\ c.wconf = 0 /\ Room(1)
     /\ \/ status # "Success" /\ Returns(status)
        \/ status = "Success"
           /\ c' = [c EXCEPT !.boxes = Box(ResultBox),
                             !.wconf = Len(c.boxes) + 1]

CreateReaderConfig(lists) ==
  LET status == FirstRefused(lists)
  IN /\ c.rconf = 0 /\ Room(1)
     /\ \/ status # "Success" /\ Returns(status)
        \/ status = "Success"
           /\ c' = [c EXCEPT !.boxes = Box(ConfigBox("reader_config")),
                             !.rconf = Len(c.boxes) + 1]

\* The old configuration is gone even when the level is refused.
WithCompressionLevel(level) ==
  /\ Room(1)
  /\ \/ ConfigFaults
     \/ ConfigFault = "none"
        /\ \/ level \in 0 .. 11
              /\ c' = [c EXCEPT !.boxes = Drop(Box(ConfigBox("writer_config")), c.wconf),
                                !.wconf = Len(c.boxes) + 1]
           \/ level \notin 0 .. 11
              /\ c' = [c EXCEPT !.boxes = Drop(@, c.wconf),
                                !.wconf = HandleAfterUse(@),
                                !.reported = Told(0, MLAStatus("CompressionLevelOutOfRange"))]

WithoutCompression ==
  /\ Room(1)
  /\ \/ ConfigFaults
     \/ ConfigFault = "none"
        /\ c' = [c EXCEPT !.boxes = Drop(Box(ConfigBox("writer_config")), c.wconf),
                          !.wconf = Len(c.boxes) + 1]

-------------------------------------------------------------------------------
(***************************************************************************)
(* mla_archive_new: the configuration is gone, also when the header cannot *)
(* be written.                                                             *)
(***************************************************************************)
ArchiveNew(header) ==
  /\ c.archive = 0 /\ Room(1)
  /\ \/ ConfigFaults
     \/ ConfigFault = "none" /\ header # "None"
        /\ c' = [c EXCEPT !.boxes = Drop(@, c.wconf), !.wconf = HandleAfterUse(@),
                          !.reported = Told(0, MLAStatus(header))]
     \/ ConfigFault = "none" /\ header = "None"
        /\ c' = [c EXCEPT !.boxes = Drop(Box([kind |-> "archive", live |-> TRUE,
                                              writer |-> NewWriter]), c.wconf),
                          !.wconf = HandleAfterUse(@),
                          !.archive = Len(c.boxes) + 1]

OpenWriter == c.boxes[c.archive].writer

\* The archive takes what the call left of its writer.
Leaked(boxes, answer) == [boxes EXCEPT ![c.archive].writer = answer.writer]

Misplaced(entry) ==
  c.misplaced \cup {a \in {c.archive} : c.boxes[entry].of # a}

\* The name is refused by EntryName before the archive is touched.
StartArchiveEntry(var, name) ==
  /\ c.entry[var] = 0 /\ Room(1)
  /\ \/ (c.archive = 0 \/ name \notin CNames) /\ Returns("BadAPIArgument")
     \/ c.archive # 0 /\ name \in CNames
        /\ \/ Faults(c.archive)
           \/ /\ Fault(c.archive) = "none" /\ Len(OpenWriter.blocks) < MaxCBlocks
              /\ \E answer \in CallStartEntry(OpenWriter, name) :
                   \/ answer.error # "None"
                      /\ c' = [c EXCEPT !.boxes = Leaked(@, answer),
                                        !.reported = Told(c.archive, MLAStatus(answer.error))]
                   \/ answer.error = "None"
                      /\ c' = [c EXCEPT
                           !.boxes = Leaked(Box([kind |-> "entry", live |-> TRUE,
                                                 id |-> NextId(OpenWriter),
                                                 of |-> c.archive]), answer),
                           !.entry[var] = Len(c.boxes) + 1]

\* The content is a slice in memory: it is whole, or empty.
FileAppend(var, source) ==
  \/ (c.archive = 0 \/ c.entry[var] = 0) /\ Returns("BadAPIArgument")
  \/ c.archive # 0 /\ c.entry[var] # 0
     /\ \/ Faults(c.archive)
        \/ Faults(c.entry[var])
        \/ /\ Fault(c.archive) = "none" /\ Fault(c.entry[var]) = "none"
           /\ Len(OpenWriter.blocks) < MaxCBlocks
           /\ \E answer \in CallAppendEntryContent(OpenWriter, c.boxes[c.entry[var]].id, source) :
                c' = [c EXCEPT !.boxes = Leaked(@, answer),
                               !.misplaced = Misplaced(c.entry[var]),
                               !.reported = Told(c.archive, MLAStatus(answer.error))]

\* A flush that fails may leave part of what was buffered at the destination.
ArchiveFlush(error) ==
  \/ c.archive = 0 /\ Returns("BadAPIArgument")
  \/ c.archive # 0 /\ Faults(c.archive)
  \/ c.archive # 0 /\ Fault(c.archive) = "none"
     /\ c' = [c EXCEPT !.boxes[c.archive].writer.torn = @ \/ error # "None",
                       !.reported = Told(c.archive, MLAStatus(error))]

FileClose(var) ==
  \/ (c.archive = 0 \/ c.entry[var] = 0) /\ Returns("BadAPIArgument")
  \/ c.archive # 0 /\ c.entry[var] # 0
     /\ \/ Faults(c.archive)
        \/ Faults(c.entry[var])
        \/ /\ Fault(c.archive) = "none" /\ Fault(c.entry[var]) = "none"
           /\ \E answer \in CallEndEntry(OpenWriter, c.boxes[c.entry[var]].id) :
                c' = [c EXCEPT !.boxes = Drop(Leaked(@, answer), c.entry[var]),
                               !.entry[var] = HandleAfterUse(@),
                               !.misplaced = Misplaced(c.entry[var]),
                               !.reported = Told(c.archive, MLAStatus(answer.error))]

ArchiveClose ==
  \/ c.archive = 0 /\ Returns("BadAPIArgument")
  \/ c.archive # 0
     /\ \/ Faults(c.archive)
        \/ /\ Fault(c.archive) = "none"
           /\ \E answer \in CallFinalize(OpenWriter) :
                c' = [c EXCEPT !.boxes = Drop(Leaked(@, answer), c.archive),
                               !.archive = HandleAfterUse(@),
                               !.reported = Told(c.archive, MLAStatus(answer.error))]

-------------------------------------------------------------------------------
(***************************************************************************)
(* mla_roarchive_extract: the configuration is taken, the archive opened,  *)
(* the number of signatures written where the caller says, without looking *)
(* at that pointer; then the caller is asked for a writer of each entry:   *)
(* it gives none, or a writer, which may lack a callback, and a name may   *)
(* be no path. Then the entries are extracted (LinearExtract).             *)
(***************************************************************************)
ExtractOutcomes ==
  {"not_opened", "no_count", "no_callback", "no_path", "not_extracted", "extracted"}

ExtractStatus(outcome) ==
  CASE outcome = "not_opened" -> MLAStatus("WrongMagic")
    [] outcome \in {"no_callback", "no_path"} -> "BadAPIArgument"
    [] outcome = "not_extracted" -> MLAStatus("DeserializationError")
    [] OTHER -> "Success"

Extract(outcome) ==
  \/ Faults(c.rconf)
  \/ Fault(c.rconf) = "none"
     /\ c' = [c EXCEPT
          !.boxes = Drop(@, c.rconf), !.rconf = HandleAfterUse(@),
          !.fault = IF outcome = "no_count" THEN outcome ELSE @,
          !.reported = Told(0, ExtractStatus(outcome))]

\* mla_roarchive_info reads the header; no handle is involved.
Info(reading) == Returns(MLAStatus(reading))

\* Every function first looks at the places it is told to write to, and at
\* its callbacks: without one it does nothing.
NullArgument == Returns("BadAPIArgument")

-------------------------------------------------------------------------------
\* The calls that read an archive share nothing with those that write one: a
\* program makes them before or after.
CNext ==
  /\ c.fault = "none"
  /\ \/ \E lists \in KeyArguments : CreateWriterConfig(lists)
     \/ \E level \in {11, 12} : WithCompressionLevel(level)
     \/ WithoutCompression
     \/ \E header \in {"None", "IOError"} : ArchiveNew(header)
     \/ \E var \in EntryVars, name \in CNames \cup {InvalidCName} :
          StartArchiveEntry(var, name)
     \/ \E var \in EntryVars, source \in {"whole", "empty"} : FileAppend(var, source)
     \/ \E error \in {"None", "IOError"} : ArchiveFlush(error)
     \/ \E var \in EntryVars : FileClose(var)
     \/ ArchiveClose
     \/ /\ c.wconf = 0 /\ c.archive = 0
        /\ \/ \E lists \in KeyArguments : CreateReaderConfig(lists)
           \/ \E outcome \in ExtractOutcomes : Extract(outcome)
           \/ \E reading \in {"None", "WrongMagic"} : Info(reading)
     \/ NullArgument

CSpec == CInit /\ [][CNext]_c

-------------------------------------------------------------------------------
Held(kind) ==
  CASE kind = "writer_config" -> {c.wconf}
    [] kind = "reader_config" -> {c.rconf}
    [] kind = "archive" -> {c.archive}
    [] kind = "entry" -> {c.entry[v] : v \in EntryVars}

Kinds == {"writer_config", "reader_config", "archive", "entry"}

\* The live boxes are exactly the ones the caller holds a handle of, in a
\* variable for such handles: nothing dangles, is freed twice or is leaked.
HandlesOwnBoxes ==
  \A kind \in Kinds :
    Held(kind) \ {0} = {b \in DOMAIN c.boxes : c.boxes[b].live /\ c.boxes[b].kind = kind}

\* Whatever calls a C program makes with the variables it holds, in any
\* order and with any failures of its callbacks: its handles and the live
\* boxes are the same; Rust follows a pointer without a box only when the
\* caller passes a cleared configuration or no place for the number of
\* signatures, which the code does not look at, and reads a box as what it is
\* not only in a build that lays the Result of a writer configuration out in
\* a way of its own; and an archive whose close reports success was never
\* left with an open entry, has given every byte to the write callback unless
\* an earlier call on it returned IOError (close does not call the flush
\* callback, against its comment), and leaves no entry handle behind
\* unless a handle of another archive was used on it. About the Box::from_raw
\* / Box::leak pairs, the clearing of handles and the writer calls of the C
\* interface.
CHandlesSafe ==
  /\ c.fault \in {"none", "idle", "null", "no_count"}
       \cup (IF c.layout = "other" THEN {"layout"} ELSE {})
  /\ c.fault = "none" => HandlesOwnBoxes
  /\ \A a \in DOMAIN c.boxes : c.boxes[a].kind = "archive" =>
       LET writer == c.boxes[a].writer
       IN writer.sealed =>
            /\ ~c.boxes[a].live /\ writer.open = {}
            /\ a \notin c.reported => Complete(writer)
            /\ a \notin c.misplaced =>
                 \A e \in DOMAIN c.boxes :
                   c.boxes[e].kind = "entry" /\ c.boxes[e].of = a => ~c.boxes[e].live
===============================================================================
