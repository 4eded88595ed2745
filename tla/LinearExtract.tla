---------------------------- MODULE LinearExtract ----------------------------
(***************************************************************************)
(* mlar extract of a whole archive: linear_extract reads the blocks of the *)
(* entries stream once, in order, and writes each content to the writer of *)
(* its entry. The writers of mlar (FileWriter) share a pool of open files: *)
(* a file that is not in the pool is opened again for appending, and the   *)
(* file used least recently is closed to make room.                        *)
(***************************************************************************)
EXTENDS Integers, Sequences, FiniteSets, SequencesExt

CONSTANTS
  NamesInOrder,            \* the names of the archive, in the order they start
  MaxContent,              \* bound: the length of one content block
  MaxBlocks,               \* bound: the content blocks of the stream
  FILE_WRITER_POOL_SIZE,   \* the number of files open at once
  NoBlock                  \* no content block is being copied

ASSUME ExtractAssumption ==
  /\ FILE_WRITER_POOL_SIZE \in Nat \ {0}
  /\ MaxContent \in Nat /\ MaxBlocks \in Nat
  /\ NamesInOrder \in Seq(Range(NamesInOrder))
  /\ NoBlock \notin [id : Nat, rest : Seq(Nat \X Nat)]

ExtractNames == Range(NamesInOrder)

VARIABLE
  extract    \* the run of linear_extract

(***************************************************************************)
(* The run. `names` maps the ids of the stream to names; `ended` are the   *)
(* ids whose EndOfEntry was read; `id2name` are the ids with a writer. The *)
(* files of the export were created, empty, before the run starts.         *)
(* `delivered` is what the stream held for each name so far.               *)
(***************************************************************************)
Extraction(export) ==
  [export |-> export, names |-> <<>>, ended |-> {}, id2name |-> {},
   files |-> [n \in ExtractNames |-> <<>>],
   delivered |-> [n \in ExtractNames |-> <<>>],
   cache |-> <<>>, block |-> NoBlock, blocks |-> 0, result |-> "running"]

ExtractInit == \E export \in SUBSET ExtractNames : extract = Extraction(export)

\* mlar does something else.
ExtractIdle == [Extraction({}) EXCEPT !.result = "idle"]

Running == extract.result = "running"
AtBlock == Running /\ extract.block = NoBlock
Open == DOMAIN extract.names \ extract.ended

-------------------------------------------------------------------------------
(***************************************************************************)
(* The pool, a CLruCache: most recently used first. `put` drops what no    *)
(* longer fits at the other end, `get_mut` moves to the front.             *)
(***************************************************************************)
InPool(path) == path \in Range(extract.cache)

Put(cache, path) ==
  SubSeq(<<path>> \o cache, 1, Min({Len(cache) + 1, FILE_WRITER_POOL_SIZE}))

GetMut(cache, path) ==
  LET at == CHOOSE i \in DOMAIN cache : cache[i] = path
  IN <<path>> \o RemoveAt(cache, at)

\* Plausible slip: the file is created again.
Reopened_Truncated(content) == <<>>

\* OpenOptions::new().append(true): what the file holds stays.
Reopened(content) == content

-------------------------------------------------------------------------------
(***************************************************************************)
(* The blocks, as ArchiveWriter lays them out: each id starts once, its    *)
(* contents follow until it ends, and all ids have ended before the end.   *)
(***************************************************************************)
BlockStart ==
  /\ AtBlock
  /\ Len(extract.names) < Len(NamesInOrder)
  /\ LET id == Len(extract.names) + 1
         name == NamesInOrder[id]
     IN extract' = [extract EXCEPT
          !.names = Append(@, name),
          !.id2name = IF name \in extract.export THEN @ \union {id} ELSE @]

BlockEnd(id) ==
  /\ AtBlock
  /\ id \in Open
  /\ extract' = [extract EXCEPT !.ended = @ \union {id},
                                !.id2name = @ \ {id}]

\* The bytes of the content blocks are told apart by their place in the stream.
Content(length) == [i \in 1..length |-> <<extract.blocks, i>>]

BlockContent(id, length) ==
  /\ AtBlock
  /\ id \in Open
  /\ extract.blocks < MaxBlocks
  /\ extract' = [extract EXCEPT
       !.block = [id |-> id, rest |-> Content(length)],
       !.blocks = @ + 1,
       !.delivered[extract.names[id]] = @ \o Content(length)]

BlockEndOfArchiveData ==
  /\ AtBlock
  /\ Open = {}
  /\ extract' = [extract EXCEPT !.result = "ok"]

\* The stream does not hold a block here, or cannot be read.
BlockFails ==
  /\ AtBlock
  /\ extract' = [extract EXCEPT !.result = "error"]

-------------------------------------------------------------------------------
\* io::copy to the sink: no writer for this id.
CopyToSink ==
  /\ Running
  /\ extract.block # NoBlock
  /\ extract.block.id \notin extract.id2name
  /\ extract' = [extract EXCEPT !.block = NoBlock]

Done(block) == IF block.rest = <<>> THEN NoBlock ELSE block

(***************************************************************************)
(* FileWriter::write, called by io::copy until the block is exhausted: the *)
(* file takes n bytes, any number of those offered.                        *)
(***************************************************************************)
FileWrite(n) ==
  /\ Running
  /\ extract.block # NoBlock
  /\ extract.block.id \in extract.id2name
  /\ n <= Len(extract.block.rest)
  /\ LET path == extract.names[extract.block.id]
         rest == extract.block.rest
         content == IF InPool(path) THEN extract.files[path]
                    ELSE Reopened(extract.files[path])
         cache == IF InPool(path) THEN extract.cache
                  ELSE Put(extract.cache, path)
     IN  extract' = [extract EXCEPT
           !.cache = GetMut(cache, path),
           !.files[path] = content \o SubSeq(rest, 1, n),
           !.block = Done([@ EXCEPT !.rest = SubSeq(rest, n + 1, Len(rest))])]

\* The file cannot be opened or written to.
FileWriteFails ==
  /\ Running
  /\ extract.block # NoBlock
  /\ extract.block.id \in extract.id2name
  /\ extract' = [extract EXCEPT !.result = "error"]

ExtractNext ==
  \/ BlockStart
  \/ \E id \in DOMAIN NamesInOrder :
       \/ BlockEnd(id)
       \/ \E length \in 1..MaxContent : BlockContent(id, length)
  \/ BlockEndOfArchiveData
  \/ BlockFails
  \/ CopyToSink
  \/ \E n \in 1..MaxContent : FileWrite(n)
  \/ FileWriteFails

ExtractSpec == ExtractInit /\ [][ExtractNext]_extract

-------------------------------------------------------------------------------
\* The bytes of the block that are still to be written to the file of a name.
Pending(name) ==
  IF extract.block # NoBlock /\ extract.names[extract.block.id] = name
  THEN extract.block.rest ELSE <<>>

(***************************************************************************)
(* Each exported file holds exactly what the stream has delivered for its  *)
(* name, but for the rest of the block being copied, however the entries   *)
(* interleave and however often its file was closed and opened again; no   *)
(* other file is touched (FileWriter::write, linear_extract). At most      *)
(* FILE_WRITER_POOL_SIZE files are open.                                   *)
(***************************************************************************)
ExtractedExact ==
  /\ \A name \in extract.export :
       extract.files[name] \o Pending(name) = extract.delivered[name]
  /\ \A name \in ExtractNames \ extract.export : extract.files[name] = <<>>
  /\ Len(extract.cache) <= FILE_WRITER_POOL_SIZE
===============================================================================
