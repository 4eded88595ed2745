--------------------------- MODULE ArchiveContract ---------------------------
(***************************************************************************)
(* What an ArchiveWriter promises its caller: the archive being written is *)
(* a map from entry names to byte sequences.  Entries are started, grow by *)
(* appending, are ended, and the archive is sealed when none is open.      *)
(* Entries grow independently of each other.  A call that fails in the     *)
(* destination or in its source spoils the entry it is about, of which     *)
(* nothing is promised any more, and no other.  When finalize is refused   *)
(* or fails (it consumes the writer), the whole archive is lost.           *)
(***************************************************************************)
EXTENDS Sequences

CONSTANTS Names,    \* entry names
          Data      \* non-empty byte sequences, the chunks a caller may append

VARIABLES phase,    \* "writing", "sealed" or "lost"
          status,   \* name -> "absent", "open", "closed" or "spoiled"
          content   \* name -> bytes appended so far

absVars == <<phase, status, content>>

AbsInit ==
    /\ phase = "writing"
    /\ status = [n \in Names |-> "absent"]
    /\ content = [n \in Names |-> <<>>]

AbsStart(n) ==
    /\ phase = "writing" /\ status[n] = "absent"
    /\ status' = [status EXCEPT ![n] = "open"]
    /\ UNCHANGED <<phase, content>>

\* One call appends a chunk of at least one byte.
AbsAppend(n, d) ==
    /\ phase = "writing" /\ status[n] = "open"
    /\ content' = [content EXCEPT ![n] = @ \o d]
    /\ UNCHANGED <<phase, status>>

AbsEnd(n) ==
    /\ phase = "writing" /\ status[n] = "open"
    /\ status' = [status EXCEPT ![n] = "closed"]
    /\ UNCHANGED <<phase, content>>

\* A call about n failed.  Only an entry just asked for or open can fail.
AbsSpoil(n) ==
    /\ phase = "writing" /\ status[n] \in {"absent", "open"}
    /\ status' = [status EXCEPT ![n] = "spoiled"]
    /\ content' = [content EXCEPT ![n] = <<>>]
    /\ UNCHANGED phase

AbsSeal ==
    /\ phase = "writing"
    /\ \A n \in Names : status[n] # "open"
    /\ phase' = "sealed"
    /\ UNCHANGED <<status, content>>

AbsLose ==
    /\ phase = "writing"
    /\ phase' = "lost"
    /\ status' = [n \in Names |-> "absent"]
    /\ content' = [n \in Names |-> <<>>]

AbsNext ==
    \/ \E n \in Names : AbsStart(n) \/ AbsEnd(n) \/ AbsSpoil(n)
    \/ \E n \in Names, d \in Data : AbsAppend(n, d)
    \/ AbsSeal
    \/ AbsLose

AbsSpec == AbsInit /\ [][AbsNext]_absVars
=============================================================================
