----------------------------- MODULE PythonBinding -----------------------------
(***************************************************************************)
(* The Python module: one program makes configurations, a writer of them,  *)
(* and a reader of what was written. MLAWriter holds the library's writer  *)
(* in an Option: finalize takes it out, and every later call finds None.   *)
(* A file object given to add_entry_from is read by calling back into      *)
(* Python while the writer is borrowed.                                    *)
(***************************************************************************)
EXTENDS WriterCalls, FiniteSets

CONSTANTS
  PyNames,       \* names of entries
  MaxChunks,     \* bound: the chunks a file object gives
  MaxWriters,    \* bound: the writers made, one after the other
  NoObject       \* Python's and Rust's None

VARIABLE
  py    \* the objects of the program and the file of the archive

(***************************************************************************)
(* `writer` is None before there is one, then live or taken. `adding` is   *)
(* the entry that add_entry_from reads a file object for. `given` maps the *)
(* names of the calls that returned to the chunks they were given.         *)
(* `reported`: a call raised an I/O error; `changed`: a file changed while *)
(* it was added. `read` is the last entry read back.                       *)
(***************************************************************************)
PyProgram ==
  [config |-> NoObject, writer |-> NoObject, archive |-> NewWriter, made |-> 0,
   adding |-> NoObject, given |-> <<>>, finalized |-> 0, reported |-> FALSE,
   changed |-> FALSE, reader |-> FALSE, read |-> NoObject, state |-> "running"]

PyInit == py = PyProgram

\* No Python program runs.
PyIdle == [PyProgram EXCEPT !.state = "idle"]

\* The call raises, and nothing has changed.
Raises == UNCHANGED py

-------------------------------------------------------------------------------
(***************************************************************************)
(* Keys and configurations. An argument of PublicKeys or PrivateKeys is a  *)
(* key, a string that is none, or another object: then there is no object. *)
(***************************************************************************)
KeysParse(arguments) == \A i \in DOMAIN arguments : arguments[i] = "key"

\* The configuration keeps the keys, and None for the layer left out.
NewWriterConfig(private, public) ==
  /\ py.config = NoObject
  /\ LET parse == \A keys \in {private, public} \ {NoObject} : KeysParse(keys)
     IN \/ ~parse /\ Raises
        \/ parse /\ py' = [py EXCEPT !.config = [private |-> private, public |-> public,
                                                 compressed |-> TRUE]]

\* The level is tried on another configuration before it is kept.
SetCompressionLevel(level) ==
  /\ py.config # NoObject
  /\ \/ level \notin 0 .. 11 /\ Raises
     \/ level \in 0 .. 11 /\ py' = [py EXCEPT !.config.compressed = TRUE]

SetWithoutCompression ==
  py.config # NoObject /\ py' = [py EXCEPT !.config.compressed = FALSE]

\* A layer that is asked for needs a key.
ToArchiveWriterConfig(config) == config.private # <<>> /\ config.public # <<>>

(***************************************************************************)
(* MLAWriter(path, config): the configuration is read, not consumed; the   *)
(* file is created or emptied once it is known to be good. The program     *)
(* makes one writer of the path after the other.                           *)
(***************************************************************************)
NewMLAWriter(failing) ==
  /\ py.config # NoObject /\ py.writer # "live" /\ py.made < MaxWriters
  /\ \/ ~ToArchiveWriterConfig(py.config) /\ Raises
     \/ ToArchiveWriterConfig(py.config)
        /\ \/ failing = "create" /\ Raises
           \/ failing # "create"
              /\ py' = [PyProgram EXCEPT
                   !.config = py.config, !.made = py.made + 1,
                   !.writer = IF failing = "header" THEN NoObject ELSE "live",
                   !.archive.torn = failing = "header",
                   !.reported = failing = "header"]

-------------------------------------------------------------------------------
(***************************************************************************)
(* Adding entries. `Called` is the state after the writer answered a call  *)
(* that adds `name` with this many chunks.                                 *)
(***************************************************************************)
GivenAlso(given, name, chunks) ==
  [n \in DOMAIN given \cup {name} |-> IF n = name THEN chunks ELSE given[n]]

Called(answer, name, chunks) ==
  [py EXCEPT !.archive = answer.writer,
             !.given = IF answer.error = "None" THEN GivenAlso(@, name, chunks) ELSE @,
             !.reported = @ \/ answer.error = "IOError"]

ChunksOf(source) == IF source = "empty" THEN 0 ELSE 1

\* writer[name] = bytes
SetItem(name, source) ==
  \/ py.writer = "taken" /\ Raises
  \/ py.writer = "live"
     /\ \E answer \in CallAddEntry(py.archive, name, source) :
          py' = Called(answer, name, ChunksOf(source))

\* The size is taken from the metadata before the file is read.
AddEntryFromPath(name, opened, source) ==
  \/ py.writer = "taken" /\ Raises
  \/ py.writer = "live" /\ ~opened /\ Raises
  \/ py.writer = "live" /\ opened
     /\ \E answer \in CallAddEntry(py.archive, name, source) :
          py' = [Called(answer, name, ChunksOf(source)) EXCEPT
                   !.changed = @ \/ source = "changed"]

\* Neither a string nor a file object.
AddEntryFromOther == py.writer # NoObject /\ Raises

AddEntryFromObject(name) ==
  \/ py.writer = "taken" /\ Raises
  \/ py.writer = "live"
     /\ \E answer \in CallStartEntry(py.archive, name) :
          py' = [py EXCEPT !.archive = answer.writer,
                           !.adding = IF answer.error = "None"
                                      THEN [name |-> name, id |-> NextId(py.archive),
                                            chunks |-> 0]
                                      ELSE @,
                           !.reported = @ \/ answer.error = "IOError"]

\* src.read raises: the exception leaves the loop, and the entry open.
ObjectRaises == py.adding # NoObject /\ py' = [py EXCEPT !.adding = NoObject]

ObjectGivesChunk ==
  /\ py.adding # NoObject /\ py.adding.chunks < MaxChunks
  /\ \E answer \in CallAppendEntryContent(py.archive, py.adding.id, "whole") :
       py' = [py EXCEPT !.archive = answer.writer,
                        !.adding = IF answer.error = "None"
                                   THEN [py.adding EXCEPT !.chunks = @ + 1] ELSE NoObject,
                        !.reported = @ \/ answer.error = "IOError"]

ObjectEnds ==
  /\ py.adding # NoObject
  /\ \E answer \in CallEndEntry(py.archive, py.adding.id) :
       py' = [Called(answer, py.adding.name, py.adding.chunks) EXCEPT
                !.adding = NoObject]

\* A call that reaches the writer while it is borrowed, from the file object
\* or from another thread: pyo3 refuses it.
AlreadyBorrowed == py.adding # NoObject /\ Raises

-------------------------------------------------------------------------------
(***************************************************************************)
(* finalize: the writer is taken out first, whatever finalize answers.     *)
(***************************************************************************)
\* Plausible slip: the writer is looked at, and stays.
AfterTake_Kept(writer) == writer

AfterTake(writer) == "taken"

FinalizeIfNotAlready ==
  \/ py.writer = "taken" /\ Raises
  \/ py.writer = "live"
     /\ \E answer \in CallFinalize(py.archive) :
          py' = [py EXCEPT !.archive = answer.writer, !.writer = AfterTake(@),
                           !.finalized = IF answer.error = "None" THEN @ + 1 ELSE @,
                           !.reported = @ \/ answer.error = "IOError"]

\* The end of a with statement: an exception of its body goes on, and the
\* archive is not finalized.
ExitWriter(exception) ==
  IF exception THEN py.writer # NoObject /\ Raises ELSE FinalizeIfNotAlready

-------------------------------------------------------------------------------
(***************************************************************************)
(* Reading back. A ReaderConfig has private keys or accepts unencrypted    *)
(* archives, or both; there is no constructor for neither, for which       *)
(* to_archive_reader_config would panic. What the library opens is the     *)
(* subject of ArchiveOpening: the layers must be what the configuration    *)
(* asks for, with keys that fit. An archive without its end is refused; a  *)
(* torn one may be opened when it is sealed, and reading it may fail.      *)
(***************************************************************************)
ReaderConfigs ==
  [accept : BOOLEAN, private : BOOLEAN, verify : BOOLEAN]
    \ [accept : {FALSE}, private : {FALSE}, verify : BOOLEAN]

Opens(config) ==
  /\ py.archive.sealed
  /\ IF py.config.public # NoObject THEN config.private ELSE config.accept
  /\ config.verify => py.config.private # NoObject

NewMLAReader(config) ==
  /\ py.made > 0 /\ ~py.reader
  /\ \/ (~Opens(config) \/ py.archive.torn) /\ Raises
     \/ Opens(config) /\ py' = [py EXCEPT !.reader = TRUE]

Listed == Range(py.archive.names)

ContentOf(name) ==
  LET id == CHOOSE i \in 0 .. NextId(py.archive) - 1 : py.archive.names[i + 1] = name
  IN Cardinality({b \in DOMAIN py.archive.blocks :
                    py.archive.blocks[b] = [kind |-> "EntryContent", id |-> id]})

\* What a read of the entry can give, and whether it ends without an error.
Readings(name) ==
  {[chunks |-> ContentOf(name), error |-> FALSE]}
    \cup IF py.archive.torn
         THEN {[chunks |-> n, error |-> e] : n \in 0 .. ContentOf(name), e \in BOOLEAN}
         ELSE {}

\* keys, len, in and list_entries use the index; a hash is read from the
\* end of its entry, which fails where the stream is torn.
ListEntries == py.reader /\ UNCHANGED py

\* reader[name], or write_entry_to a path.
GetItem(name) ==
  /\ py.reader
  /\ \/ name \notin Listed /\ Raises
     \/ name \in Listed
        /\ \E reading \in Readings(name) :
             \/ reading.error /\ Raises
             \/ ~reading.error
                /\ py' = [py EXCEPT !.read = [name |-> name, chunks |-> reading.chunks]]

\* write_entry_to a file object: a read error ends the loop like the end of
\* the entry does, and the call returns.
WriteEntryToObject(name) ==
  /\ py.reader
  /\ \/ name \notin Listed /\ Raises
     \/ name \in Listed
        /\ \E reading \in Readings(name) :
             py' = [py EXCEPT !.read = [name |-> name, chunks |-> reading.chunks]]

\* name == other: both names are locked, the second while the first is. For
\* `name == name` that is the lock the call already holds.
CompareNames(same) ==
  \/ ~same /\ Raises
  \/ same /\ py' = [py EXCEPT !.state = "hung"]

-------------------------------------------------------------------------------
KeyTuples == {<<>>, <<"key">>, <<"key", "string">>, <<"object">>}

PyNext ==
  /\ py.state = "running"
  /\ \/ py.adding # NoObject
        /\ (ObjectRaises \/ ObjectGivesChunk \/ ObjectEnds \/ AlreadyBorrowed)
     \/ py.adding = NoObject
        /\ \/ \E private, public \in KeyTuples \cup {NoObject} :
                NewWriterConfig(private, public)
           \/ \E level \in {11, 12} : SetCompressionLevel(level)
           \/ SetWithoutCompression
           \/ \E failing \in {"create", "header", "None"} : NewMLAWriter(failing)
           \/ \E name \in PyNames, source \in {"empty", "whole"} : SetItem(name, source)
           \/ \E name \in PyNames, opened \in BOOLEAN, source \in Sources :
                AddEntryFromPath(name, opened, source)
           \/ AddEntryFromOther
           \/ \E name \in PyNames : AddEntryFromObject(name)
           \/ \E exception \in BOOLEAN : ExitWriter(exception)
           \/ FinalizeIfNotAlready
           \/ \E config \in ReaderConfigs : NewMLAReader(config)
           \/ ListEntries
           \/ \E name \in PyNames : GetItem(name) \/ WriteEntryToObject(name)
           \/ \E same \in BOOLEAN : CompareNames(same)

PySpec == PyInit /\ [][PyNext]_py

-------------------------------------------------------------------------------
\* However finalize, the end of with statements and failing or interrupted
\* additions follow each other: an archive is finalized once at most, has
\* its end exactly when a call said so, and then no entry is open in it. If
\* no call raised an I/O error and no file changed while it was added, the
\* archive is complete, holds every entry whose call returned, with all the
\* chunks that call was given, and reading an entry back returns them. About
\* finalize_if_not_already, __exit__ and the loop of add_entry_from.
PythonWriterOnce ==
  /\ py.finalized <= 1
  /\ py.archive.sealed <=> py.finalized = 1
  /\ py.finalized = 1 => py.archive.open = {}
  /\ (py.finalized = 1 /\ ~py.reported /\ ~py.changed) =>
       /\ Complete(py.archive)
       /\ \A name \in DOMAIN py.given :
            name \in Listed /\ ContentOf(name) = py.given[name]
       /\ py.read # NoObject => py.read.chunks = py.given[py.read.name]
===============================================================================
