------------------------------ MODULE WriterCalls ------------------------------
(***************************************************************************)
(* What one call of ArchiveWriter does, as the bindings for other          *)
(* languages see it: a record that a call maps to its possible results.    *)
(* ArchiveWriter (the module) has the blocks and the index; here a block   *)
(* is its kind and its entry.                                              *)
(***************************************************************************)
EXTENDS Integers, Sequences, SequencesExt

(***************************************************************************)
(* `names` are the names taken, the one of id i at place i + 1; `open` are *)
(* the ids that may be appended to, and `blocks` is what the destination   *)
(* holds. A write error of the destination leaves half a block there: the  *)
(* stream is `torn` from then on, and nothing in the writer remembers it.  *)
(* `sealed`: the footer and the end of the archive are written.            *)
(***************************************************************************)
NewWriter ==
  [names |-> <<>>, open |-> {}, blocks |-> <<>>,
   torn |-> FALSE, sealed |-> FALSE]

NextId(writer) == Len(writer.names)

Answer(writer, error) == [writer |-> writer, error |-> error]

Refused(writer, error) == {Answer(writer, error)}

\* One block is dumped: whole, or the destination fails on the way.
Dumped(writer, failed, block) ==
  {Answer([writer EXCEPT !.blocks = Append(@, block)], "None"),
   Answer([failed EXCEPT !.torn = TRUE], "IOError")}

(***************************************************************************)
(* start_entry: the name and the id are taken before the block is dumped,  *)
(* the id is open only after it.                                           *)
(***************************************************************************)
CallStartEntry(writer, name) ==
  LET taken == [writer EXCEPT !.names = Append(@, name)]
  IN IF name \in Range(writer.names)
     THEN Refused(writer, "DuplicateEntryName")
     ELSE Dumped([taken EXCEPT !.open = @ \cup {NextId(writer)}], taken,
                 [kind |-> "EntryStart", id |-> NextId(writer)])

(***************************************************************************)
(* append_entry_content: nothing is dumped for the size 0. The source is   *)
(* copied to its end whatever size was announced: one that `changed` since *)
(* the size was taken makes a block that does not hold what its header     *)
(* says, and no error. A source that fails stops the copy.                 *)
(***************************************************************************)
CallAppendEntryContent(writer, id, source) ==
  LET block == [kind |-> "EntryContent", id |-> id]
      torn == [writer EXCEPT !.torn = TRUE]
  IN IF id \notin writer.open
     THEN Refused(writer, "WrongWriterState")
     ELSE CASE source = "empty" -> {Answer(writer, "None")}
            [] source = "whole" -> Dumped(writer, writer, block)
            [] source = "changed" -> Dumped(torn, torn, block)
            [] source = "fails" -> Refused(torn, "IOError")

Sources == {"empty", "whole", "changed", "fails"}

(***************************************************************************)
(* end_entry: the id is closed before the block is dumped.                 *)
(***************************************************************************)
CallEndEntry(writer, id) ==
  LET closed == [writer EXCEPT !.open = @ \ {id}]
  IN IF id \notin writer.open
     THEN Refused(writer, "WrongWriterState")
     ELSE Dumped(closed, closed, [kind |-> "EndOfEntry", id |-> id])

(***************************************************************************)
(* add_entry: the three calls, up to the first error.                      *)
(***************************************************************************)
Then(answers, call(_)) ==
  UNION {IF a.error = "None" THEN call(a.writer) ELSE {a} : a \in answers}

CallAddEntry(writer, name, source) ==
  Then(Then(CallStartEntry(writer, name),
            LAMBDA w : CallAppendEntryContent(w, NextId(writer), source)),
       LAMBDA w : CallEndEntry(w, NextId(writer)))

(***************************************************************************)
(* finalize consumes the writer: on an error there is no second try.       *)
(***************************************************************************)
CallFinalize(writer) ==
  IF writer.open # {}
  THEN Refused(writer, "WrongWriterState")
  ELSE {Answer([writer EXCEPT !.sealed = TRUE], "None"),
        Answer([writer EXCEPT !.torn = TRUE], "IOError")}

-------------------------------------------------------------------------------
PlacesOf(blocks, id) == {i \in DOMAIN blocks : blocks[i].id = id}

\* The blocks of an entry are its start, contents, and at last its end.
EntryWhole(writer, id) ==
  \E first, last \in PlacesOf(writer.blocks, id) :
    /\ first < last
    /\ \A i \in PlacesOf(writer.blocks, id) :
         /\ first <= i /\ i <= last
         /\ writer.blocks[i].kind = IF i = first THEN "EntryStart"
                                    ELSE IF i = last THEN "EndOfEntry"
                                    ELSE "EntryContent"

\* An archive that a reader opens and reads to its last entry.
Complete(writer) ==
  /\ writer.sealed /\ ~writer.torn
  /\ \A id \in 0 .. NextId(writer) - 1 : EntryWhole(writer, id)
===============================================================================
