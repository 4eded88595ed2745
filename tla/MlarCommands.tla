---------------------------- MODULE MlarCommands ----------------------------
(***************************************************************************)
(* The commands of mlar that read or write archives, and mlar-upgrader: in *)
(* which order each one reads its arguments, opens its input, creates its  *)
(* output, copies and finalizes, and what it leaves behind when one of     *)
(* these fails. A command is the list of its steps; each step is an action *)
(* that may also fail, which ends the command.                             *)
(***************************************************************************)
EXTENDS Integers, Sequences, FiniteSets, SequencesExt

CONSTANTS
  MaxItems    \* bound: paths given to create, entries of an input archive

ASSUME CommandsAssumption == MaxItems \in Nat

VARIABLE
  cmd    \* the command under way

(***************************************************************************)
(* Files. A file is a sequence of what was written to it in order: the     *)
(* entries, "torn" for one that was copied in part, "end" for what         *)
(* finalize writes. Old is a file that was there before the command.       *)
(***************************************************************************)
Absent == <<"absent">>
Old == <<"old">>
GoodNames == {"a", "b"}                     \* names that are paths
Names == GoodNames \union {"bad", "escape"} \* to_pathbuf fails; the directory
                                            \* it is in leads elsewhere
\* "stdout" is standard output, and "-" the file of that name.
Files == {"out", "stdout", "-"} \union Names

-------------------------------------------------------------------------------
(***************************************************************************)
(* Arguments. Keys are given or not ("none"), and their files can be       *)
(* parsed or not ("bad").                                                  *)
(***************************************************************************)
WriterArguments ==
  [encrypted : BOOLEAN, signed : BOOLEAN, compressed : BOOLEAN,
   level : BOOLEAN, pub : {"none", "bad", "good"}, priv : {"none", "bad", "good"}]

\* writer_config_from_matches: the error, or none.
WriterConfigError(a) ==
  IF \/ a.encrypted # (a.pub # "none")
     \/ a.signed # (a.priv # "none")
  THEN "IncoherentPersistentConfig"
  ELSE IF "bad" \in {a.pub, a.priv} THEN "InvalidKeyFormat"
  ELSE IF a.level /\ ~a.compressed THEN "IncoherentPersistentConfig"
  ELSE "none"

\* The keys of -p that signed the archive: all of them, some, or none.
ReaderArguments ==
  [skip : BOOLEAN, accept : BOOLEAN, only_one : BOOLEAN,
   pub : {"none", "bad", "all", "some", "other"},
   priv : {"none", "bad", "right", "wrong"},
   secret : {"none", "bad", "right"}]

Archives == [signed : BOOLEAN, encrypted : BOOLEAN]

\* readerconfig_from_matches: the error, or none.
ReaderConfigError(a) ==
  IF ~a.skip /\ a.pub = "none" THEN "IncoherentPersistentConfig"
  ELSE IF ~a.skip /\ a.pub = "bad" THEN "InvalidKeyFormat"
  ELSE IF a.priv = "bad" THEN "InvalidKeyFormat"
  ELSE IF a.secret = "bad" THEN "DeserializationError"
  ELSE IF a.priv = "none" /\ a.secret = "none" /\ ~a.accept
  THEN "IncoherentPersistentConfig"
  ELSE "none"

\* ArchiveReader::from_config: the error, or none. with_encryption asks for an
\* encrypted archive, the other two accept one that is not.
LibraryOpenError(a, archive) ==
  IF ~a.skip /\ ~archive.signed
  THEN "SignatureVerificationAskedButNoSignatureLayerFound"
  ELSE IF ~a.skip /\ a.pub = "other" THEN "NoValidSignatureFound"
  ELSE IF archive.encrypted /\ "right" \notin {a.priv, a.secret}
  THEN "PrivateKeyNeeded"
  ELSE IF ~archive.encrypted /\ ~a.accept
  THEN "EncryptionAskedButNotMarkedPresent"
  ELSE "none"

\* keys_with_valid_signatures.len() = public_keys.count(): never under --skip.
AllKeysValid(a) == ~a.skip /\ a.pub = "all"

ArgumentErrors ==
  {"IncoherentPersistentConfig", "InvalidKeyFormat", "DeserializationError",
   "SignatureVerificationAskedButNoSignatureLayerFound", "NoValidSignatureFound",
   "PrivateKeyNeeded", "EncryptionAskedButNotMarkedPresent"}

OpenError(a, archive) ==
  IF ReaderConfigError(a) # "none" THEN ReaderConfigError(a)
  ELSE IF LibraryOpenError(a, archive) # "none" THEN LibraryOpenError(a, archive)
  ELSE IF a.pub # "none" /\ ~AllKeysValid(a) /\ ~a.only_one
  THEN "NoValidSignatureFound"
  ELSE "none"

-------------------------------------------------------------------------------
(***************************************************************************)
(* The commands as lists of steps.                                         *)
(***************************************************************************)
Step(op, on) == [op |-> op, on |-> on]
Steps(op, names) == [i \in DOMAIN names |-> Step(op, names[i])]

\* create takes paths: what is found there, and whether inside a directory.
Items == [path : {"a", "b"}, kind : {"file"}, in_dir : BOOLEAN]
         \union [path : {"a"}, kind : {"missing", "denied", "torn"},
                 in_dir : BOOLEAN]

ItemLists == UNION {[1..n -> Items] : n \in 0..MaxItems}
EntryLists == {SetToSeq(s) : s \in {t \in SUBSET Names : Cardinality(t) <= MaxItems}}
UpgradeLists == UNION {[1..n -> {"a", "b", "bad"}] : n \in 1..MaxItems}

Archived(name) == [path |-> name, kind |-> "file", in_dir |-> FALSE]

\* What one command does, in order.
CreateCommand(out, items) ==
  <<Step("config", ""), Step("create", out)>> \o Steps("add", items)
    \o <<Step("finalize", out), Step("close", out)>>

ListCommand(names) == <<Step("open", "")>> \o Steps("look", names)

\* extract without a filter, over the whole stream; the quarantine data are
\* looked for before any file is created.
ExtractCommand(names) ==
  <<Step("open", ""), Step("recover", "")>> \o Steps("file", names)
    \o <<Step("linear", "")>>

\* extract with a list of names or a glob: entry by entry.
ExtractMatchingCommand(names) ==
  <<Step("open", ""), Step("recover", "")>>
    \o FlattenSeq([i \in DOMAIN names |->
         <<Step("match", names[i]), Step("look", names[i]),
           Step("file", names[i]), Step("copy", names[i]),
           Step("close", names[i])>>])

CatCommand(out, names) ==
  <<Step("create", out), Step("open", "")>>
    \o FlattenSeq([i \in DOMAIN names |->
         <<Step("look", names[i]), Step("append", names[i])>>])
    \o <<Step("close", out)>>

ToTarCommand(out, names) ==
  <<Step("open", ""), Step("create", out)>>
    \o FlattenSeq([i \in DOMAIN names |->
         <<Step("look", names[i]), Step("match", names[i]),
           Step("append", names[i])>>])
    \o <<Step("finish", out), Step("close", out)>>

ConvertCommand(out, names) ==
  <<Step("open", ""), Step("config", ""), Step("create", out)>>
    \o FlattenSeq([i \in DOMAIN names |->
         <<Step("look", names[i]), Step("add", Archived(names[i]))>>])
    \o <<Step("finalize", out), Step("close", out)>>

CleanTruncatedCommand(out) ==
  <<Step("recover", ""), Step("config", ""), Step("create", out),
    Step("convert", out), Step("close", out)>>

UpgradeCommand(out, names) ==
  <<Step("recover", ""), Step("config", ""), Step("truncate", out),
    Step("recover", "")>>
    \o FlattenSeq([i \in DOMAIN names |->
         <<Step("look", names[i]), Step("match", names[i]),
           Step("add", Archived(names[i]))>>])
    \o <<Step("finalize", out), Step("close", out)>>

MetadataCommand(out) ==
  <<Step("recover", ""), Step("create", out), Step("append", "metadata")>>

DecapsulateCommand(out) ==
  <<Step("recover", ""), Step("create", out), Step("append", "secret")>>

InfoCommand == <<Step("recover", "")>>

Program(name, out, list) ==
  CASE name = "create" -> CreateCommand(out, list)
    [] name = "list" -> ListCommand(list)
    [] name = "extract" -> ExtractCommand(list)
    [] name = "extract-matching" -> ExtractMatchingCommand(list)
    [] name = "cat" -> CatCommand(out, list)
    [] name = "to-tar" -> ToTarCommand(out, list)
    [] name = "convert" -> ConvertCommand(out, list)
    [] name = "clean-truncated" -> CleanTruncatedCommand(out)
    [] name = "upgrade" -> UpgradeCommand(out, list)
    [] name = "metadata" -> MetadataCommand(out)
    [] name = "decapsulate" -> DecapsulateCommand(out)
    [] name = "info" -> InfoCommand

Command(name, out, list, skip_not_found, fs) ==
  [name |-> name, out |-> out, list |-> list, skip_not_found |-> skip_not_found,
   steps |-> Program(name, out, list), fs |-> fs, before |-> fs,
   adding |-> {}, lost |-> {}, result |-> "running"]

ListOf(name) ==
  CASE name = "create" -> ItemLists
    [] name = "upgrade" -> UpgradeLists
    [] name \in {"clean-truncated", "metadata", "decapsulate", "info"} -> {<<>>}
    [] OTHER -> EntryLists

CommandNames == {"create", "list", "extract", "extract-matching", "cat", "to-tar",
                 "convert", "clean-truncated", "upgrade", "metadata",
                 "decapsulate", "info"}

\* Where the files of the names and the output may be there already.
FileSystems ==
  {fs \in [Files -> {Absent, Old}] :
     \A f \in Files \ {"out", "a"} : fs[f] = Absent}

\* Where `-o -` leads: mlar compares it with "-", mlar-upgrader does not.
DashOutput(name) == IF name = "upgrade" THEN "-" ELSE "stdout"

CommandInit ==
  \E name \in CommandNames, fs \in FileSystems, skip \in BOOLEAN :
  \E out \in {"out", DashOutput(name)}, list \in ListOf(name) :
    /\ name # "create" => ~skip
    /\ name \in {"list", "extract", "extract-matching", "info"} => out = "out"
    /\ cmd = Command(name, out, list, skip, fs)

\* mlar does something else.
CommandIdle ==
  [Command("info", "out", <<>>, FALSE, [f \in Files |-> Absent])
     EXCEPT !.result = "idle"]

-------------------------------------------------------------------------------
Now(op) ==
  /\ cmd.result = "running"
  /\ cmd.steps # <<>>
  /\ Head(cmd.steps).op = op

On == Head(cmd.steps).on

\* The step is done: `changes` is the command with what the step changed.
Proceeds(changes) ==
  cmd' = [changes EXCEPT
            !.steps = Tail(@),
            !.result = IF Tail(cmd.steps) = <<>> THEN "ok" ELSE "running"]

\* to_tar has its builder, which writes the end of the tar when it is dropped.
TarBegun ==
  cmd.name = "to-tar" /\ Head(cmd.steps).op \in {"look", "match", "append"}

\* An error, returned or by a panic, ends the command.
Ends(changes, error) ==
  \E tail \in {<<>>} \union (IF TarBegun THEN {<<"end">>} ELSE {}) :
    cmd' = [changes EXCEPT !.fs[cmd.out] = @ \o tail,
                           !.steps = <<>>, !.result = error]

Writes(f, what) == [cmd EXCEPT !.fs[f] = @ \o what]

ReadWriterArguments ==
  /\ Now("config")
  /\ \E a \in WriterArguments :
       /\ cmd.name = "upgrade" => ~a.signed /\ a.priv = "none" /\ a.compressed
                                  /\ ~a.level /\ a.encrypted = (a.pub # "none")
       /\ IF WriterConfigError(a) = "none"
          THEN Proceeds(cmd)
          ELSE Ends(cmd, WriterConfigError(a))

OpenMlaFile ==
  /\ Now("open")
  /\ \E a \in ReaderArguments, archive \in Archives :
       IF OpenError(a, archive) = "none"
       THEN Proceeds(cmd) \/ Ends(cmd, "IO")
       ELSE Ends(cmd, OpenError(a, archive))

\* open_truncated_mla_file, read_info, from_archive, reader_from_matches and
\* the reading of a metadata file: nothing is created before they succeed.
OpenInput ==
  /\ Now("recover")
  /\ \/ Proceeds(cmd)
     \/ Ends(cmd, "error")

\* Plausible slip: File::create.
MayCreate_Always(content) == TRUE

\* destination_from_output_argument: File::create_new, or standard output.
MayCreate(content) == content = Absent

\* The head of the archive is written at once, and may fail.
CreateOutput ==
  /\ Now("create")
  /\ IF MayCreate(cmd.fs[On])
     THEN LET created == [cmd EXCEPT !.fs[On] = <<>>] IN
          Proceeds(created) \/ Ends(created, "IO")
     ELSE Ends(cmd, "AlreadyExists")

\* mlar-upgrader: File::create of the path it was given.
TruncateOutput ==
  /\ Now("truncate")
  /\ \/ Proceeds([cmd EXCEPT !.fs[On] = <<>>])
     \/ Ends([cmd EXCEPT !.fs[On] = <<>>], "IO")
     \/ Ends(cmd, "IO")

\* create_file: the name as a path, its directory inside the output directory,
\* File::create_new, the marks of the archive's origin. Everything may fail for
\* want of rights or of space.
CreateFile ==
  /\ Now("file")
  /\ IF On = "bad" THEN Ends(cmd, "InvalidEntryNameToPath")
     ELSE IF On = "escape" \/ ~MayCreate(cmd.fs[On]) THEN Ends(cmd, "IO")
     ELSE \/ Proceeds([cmd EXCEPT !.fs[On] = <<>>])
          \/ Ends([cmd EXCEPT !.fs[On] = <<>>], "IO")
          \/ Ends(cmd, "IO")

\* to_pathbuf of each name of the archive, asked for or not; extract goes on
\* with the next name when this one is not asked for.
MatchFileName ==
  /\ Now("match")
  /\ \/ On = "bad" /\ Ends(cmd, "InvalidEntryNameToPath")
     \/ On # "bad" /\ Proceeds(cmd)
     \/ /\ On # "bad"
        /\ cmd.name = "extract-matching"
        /\ LET rest == SubSeq(cmd.steps, 6, Len(cmd.steps)) IN
           cmd' = [cmd EXCEPT !.steps = rest,
                              !.list = SelectSeq(@, LAMBDA n : n # On),
                              !.result = IF rest = <<>> THEN "ok" ELSE "running"]

\* get_entry and get_hash, and the name as list and cat show or take it.
LookUp ==
  /\ Now("look")
  /\ \/ Proceeds(cmd)
     \/ Ends(cmd, "EntryNotFound")

\* io::copy into the file of the entry, or behind the entries before it.
CopyEntry ==
  /\ \/ Now("copy")
     \/ Now("append")
  /\ LET f == IF Head(cmd.steps).op = "copy" THEN On ELSE cmd.out IN
     \/ Proceeds(Writes(f, <<On>>))
     \/ Ends(Writes(f, <<"torn">>), "IO")

\* linear_extract: every file created is filled, or some of them in part.
ExtractAll ==
  /\ Now("linear")
  /\ \/ Proceeds([cmd EXCEPT !.fs = [f \in Files |->
            IF f \in Range(cmd.list) THEN <<f>> ELSE @[f]]])
     \/ \E done \in SUBSET Range(cmd.list) :
          Ends([cmd EXCEPT !.fs = [f \in Files |->
                  IF f \notin Range(cmd.list) THEN @[f]
                  ELSE IF f \in done THEN <<f>> ELSE <<"torn">>]], "IO")

\* The tar builder writes its end when it is dropped; what fails then is lost.
FinishTar ==
  /\ Now("finish")
  /\ \/ Proceeds(Writes(cmd.out, <<"end">>))
     \/ Proceeds([cmd EXCEPT !.lost = @ \union {cmd.out}])

(***************************************************************************)
(* add_entry_or_dir on one path. In a directory every error is printed and *)
(* skipped with --skip-not-found; a path that was given itself is skipped  *)
(* only when it does not exist. "denied" stands for all that fails before  *)
(* add_entry: a name that is no path, a file or a directory that cannot be *)
(* opened. An error that comes while the content is read leaves the entry  *)
(* open in the writer.                                                     *)
(***************************************************************************)
InArchive(name) == name \in Range(cmd.fs[cmd.out]) \union cmd.adding

AddError(item) ==
  IF item.kind \in {"missing", "denied"} THEN item.kind
  ELSE IF InArchive(item.path) THEN "DuplicateEntryName"
  ELSE IF item.kind = "torn" THEN "IO"
  ELSE "none"

Skipped(item) ==
  /\ cmd.skip_not_found
  /\ item.in_dir \/ item.kind = "missing"

AfterAdd(item, error) ==
  CASE error = "none" -> Writes(cmd.out, <<item.path>>)
    [] error = "IO" -> [Writes(cmd.out, <<"torn">>)
                          EXCEPT !.adding = @ \union {item.path}]
    [] OTHER -> cmd

AddEntry ==
  /\ Now("add")
  /\ \E error \in {AddError(On)} \union (IF AddError(On) = "none" THEN {"IO"} ELSE {}) :
       IF error = "none" \/ Skipped(On)
       THEN Proceeds(AfterAdd(On, error))
       ELSE Ends(AfterAdd(On, error), error)

\* Plausible slip: the open entries are not looked at.
StillOpen_Ignored == FALSE

\* ArchiveWriter::finalize is refused while an entry is open.
StillOpen == cmd.adding # {}

Finalize ==
  /\ Now("finalize")
  /\ IF StillOpen THEN Ends(cmd, "WrongWriterState")
     ELSE \/ Proceeds(Writes(cmd.out, <<"end">>))
          \/ Ends(Writes(cmd.out, <<"torn">>), "IO")

\* convert_to_archive: it finalizes what it could recover.
ConvertToArchive ==
  /\ Now("convert")
  /\ \/ Proceeds(Writes(cmd.out, <<"recovered", "end">>))
     \/ Ends(Writes(cmd.out, <<"torn">>), "IO")

(***************************************************************************)
(* A BufWriter is dropped with the command: it writes its last bytes, and  *)
(* an error of that is not seen.                                           *)
(***************************************************************************)
Close ==
  /\ Now("close")
  /\ \/ Proceeds(cmd)
     \/ Proceeds([cmd EXCEPT !.lost = @ \union {On}])

CommandNext ==
  \/ ReadWriterArguments \/ OpenMlaFile \/ OpenInput
  \/ CreateOutput \/ TruncateOutput \/ CreateFile
  \/ MatchFileName \/ LookUp \/ CopyEntry \/ ExtractAll \/ FinishTar
  \/ AddEntry \/ Finalize \/ ConvertToArchive \/ Close

-------------------------------------------------------------------------------
\* What the command promises each of its files holds when it succeeds.
Found(item) == item.kind = "file"
\* The paths of the items, each once: a duplicate is skipped or refused.
Paths(items) ==
  FoldLeft(LAMBDA s, item : IF item.path \in Range(s) THEN s ELSE Append(s, item.path),
           <<>>, items)

Promised(f) ==
  CASE cmd.name = "create" /\ f = cmd.out ->
         Paths(SelectSeq(cmd.list, Found)) \o <<"end">>
    [] cmd.name \in {"convert", "upgrade", "to-tar"} /\ f = cmd.out ->
         cmd.list \o <<"end">>
    [] cmd.name = "cat" /\ f = cmd.out -> cmd.list
    [] cmd.name = "clean-truncated" /\ f = cmd.out -> <<"recovered", "end">>
    [] cmd.name \in {"metadata", "decapsulate"} /\ f = cmd.out ->
         <<IF cmd.name = "metadata" THEN "metadata" ELSE "secret">>
    [] cmd.name \in {"extract", "extract-matching"} /\ f \in Range(cmd.list) -> <<f>>
    [] OTHER -> cmd.before[f]

OutputsComplete ==
  cmd.result = "ok" =>
    \A f \in Files :
      \/ cmd.fs[f] = Promised(f)
      \/ f \in cmd.lost /\ cmd.name # "extract"

\* A command refused for its arguments or for what its input is has created
\* no file, but for cat, which creates its output first.
RefusedLeavesNothing ==
  cmd.result \in ArgumentErrors /\ cmd.name # "cat" => cmd.fs = cmd.before

(***************************************************************************)
(* A command that succeeds has written all that its arguments ask for,     *)
(* save the last bytes of a buffer that could not be written when it was   *)
(* dropped, which only a linear extraction does not have (create, convert, *)
(* cat, to_tar, extract of mlar/src/main.rs). One refused for its          *)
(* arguments creates no file. mlar-upgrader told to write to "-" succeeds  *)
(* with a file of that name and nothing on standard output, where its help *)
(* says "Output file path. Use - for stdout" (main.rs:86).                 *)
(***************************************************************************)
CommandsAsAsked == OutputsComplete /\ RefusedLeavesNothing

(***************************************************************************)
(* No command of mlar changes a file that was there before it started      *)
(* (File::create_new); mlar-upgrader does.                                 *)
(***************************************************************************)
NothingOverwritten ==
  [][\A f \in Files : cmd.fs[f] = Old /\ cmd.name # "upgrade" => cmd'.fs[f] = Old]_cmd
===============================================================================
