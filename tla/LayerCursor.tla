----------------------------- MODULE LayerCursor -----------------------------
(***************************************************************************)
(* What a seekable layer promises the layer above it: a cursor over the    *)
(* bytes the layer carries.  The promise is exact as long as promised      *)
(* holds.  It may be lost where a call fails and where the end has been    *)
(* reached or passed, and is found again by a seek that names a place      *)
(* before the end without referring to where the cursor is.                *)
(***************************************************************************)
EXTENDS Integers, Sequences

CONSTANTS
    Sizes,      \* buffer sizes
    Moves       \* signed distances of seeks

VARIABLES
    opened,
    content,    \* the bytes of the layer
    pos,        \* where the cursor is, as long as promised
    promised,
    result      \* the call just made and what it returned

cursorVars == <<opened, content, pos, promised, result>>

CursorInit ==
    /\ ~opened /\ content = <<>> /\ pos = 0 /\ ~promised
    /\ result = [op |-> "none"]

Open ==
    /\ ~opened /\ opened'
    /\ pos' = 0 /\ (Len(content') > 0 => promised')
    /\ result'.op = "open"

Get(size, count) ==
    /\ opened /\ promised
    /\ count <= size /\ (count > 0 => pos + count <= Len(content))
    /\ count = 0 => size = 0 \/ pos >= Len(content)
    /\ result' = [op |-> "read", size |-> size,
                  data |-> SubSeq(content, pos + 1, pos + count)]
    /\ \/ promised' /\ pos' = pos + count
       \/ ~promised' /\ pos >= Len(content)
    /\ UNCHANGED <<opened, content>>

GetFails(size) ==
    /\ opened /\ ~promised'
    /\ result' = [op |-> "read_error", size |-> size]
    /\ UNCHANGED <<opened, content>>

\* Nothing is promised: whatever is read, nothing becomes promised by it.
GetUnpromised(size) ==
    /\ opened /\ ~promised /\ ~promised'
    /\ result'.op = "read" /\ result'.size = size
    /\ UNCHANGED <<opened, content>>

Known(whence) == promised \/ whence # "Current"

Target(whence, by) ==
    CASE whence = "Start" -> by
      [] whence = "Current" -> pos + by
      [] whence = "End" -> Len(content) + by

Move(whence, by) ==
    /\ opened
    /\ Known(whence) => Target(whence, by) >= 0
    /\ Known(whence) /\ promised' => pos' = Target(whence, by)
    /\ Known(whence) /\ Target(whence, by) < Len(content) => promised'
    /\ result' = [op |-> "seek", whence |-> whence, by |-> by, ok |-> TRUE]
    /\ UNCHANGED <<opened, content>>

\* A seek that fails stays, or loses the promise.
MoveFails(whence, by) ==
    /\ opened
    /\ promised' => promised /\ pos' = pos
    /\ result' = [op |-> "seek", whence |-> whence, by |-> by, ok |-> FALSE]
    /\ UNCHANGED <<opened, content>>

CursorNext ==
    \/ Open
    \/ \E size \in Sizes :
          (\E count \in 0..size : Get(size, count)) \/ GetFails(size) \/ GetUnpromised(size)
    \/ \E whence \in {"Start", "Current", "End"}, by \in Moves :
          Move(whence, by) \/ MoveFails(whence, by)

CursorSpec == CursorInit /\ [][CursorNext]_cursorVars
=============================================================================
