----------------------------- MODULE EntryCursor -----------------------------
(***************************************************************************)
(* What ArchiveEntryDataReader promises, as std::io::Read and Seek: a      *)
(* cursor over the bytes of one entry, however its blocks lie in the       *)
(* stream.  result is the call just made, with what it was asked and what  *)
(* it returned.                                                            *)
(***************************************************************************)
EXTENDS Integers, Sequences

CONSTANTS
    Bytes,      \* byte values
    Sizes,      \* buffer sizes a caller reads with
    Moves       \* signed distances a caller seeks by

VARIABLES opened, content, pos, result

cursorVars == <<opened, content, pos, result>>

CursorInit == ~opened /\ content = <<>> /\ pos = 0 /\ result = [op |-> "none"]

Open ==
    /\ ~opened /\ opened'
    /\ content' \in Seq(Bytes) /\ pos' = 0
    /\ result' = [op |-> "open"]

\* A call that asks for size bytes gets at least one, unless it asked for none
\* or the cursor is at the end.
Get(size, count) ==
    /\ opened
    /\ count <= size /\ pos + count <= Len(content)
    /\ count = 0 => size = 0 \/ pos = Len(content)
    /\ pos' = pos + count
    /\ result' = [op |-> "read", size |-> size,
                  data |-> SubSeq(content, pos + 1, pos + count)]
    /\ UNCHANGED <<opened, content>>

\* A failed read loses no position: the caller can seek from where it was.
GetFails(size) ==
    /\ opened
    /\ result' = [op |-> "read_error", size |-> size]
    /\ UNCHANGED <<opened, content, pos>>

Target(whence, by) ==
    CASE whence = "Start" -> by
      [] whence = "Current" -> pos + by
      [] whence = "End" -> Len(content) + by

\* A seek goes where it was asked, or fails and stays.
Move(whence, by) ==
    LET inside == Target(whence, by) \in 0..Len(content) IN
    /\ opened
    /\ pos' = IF inside THEN Target(whence, by) ELSE pos
    /\ result' = [op |-> "seek", whence |-> whence, by |-> by, ok |-> inside]
    /\ UNCHANGED <<opened, content>>

Close ==
    /\ opened /\ ~opened'
    /\ content' = <<>> /\ pos' = 0
    /\ result' = [op |-> "none"]

CursorNext ==
    \/ Open
    \/ \E size \in Sizes : (\E count \in 0..size : Get(size, count)) \/ GetFails(size)
    \/ \E whence \in {"Start", "Current", "End"}, by \in Moves : Move(whence, by)
    \/ Close

CursorSpec == CursorInit /\ [][CursorNext]_cursorVars
=============================================================================
