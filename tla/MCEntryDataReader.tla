-------------------------- MODULE MCEntryDataReader --------------------------
(***************************************************************************)
(* EntryDataReader on the archives of two entries with at most two content *)
(* blocks each.  Clean archives have chunks of one and of two bytes, so    *)
(* that any two blocks may differ; the archives with a failed call have    *)
(* one kind of chunk.                                                      *)
(***************************************************************************)
EXTENDS EntryDataReader, TLC

MCBytes == {0, 1}
MCData == {<<1>>, <<0, 1>>}
MCMoves == {-2, 0, 3}

\* Bound: after a failed call only archives of two-byte chunks are followed.
TornBound ==
  faults > 0 => \A id \in DOMAIN ids_info : \A i \in DOMAIN ids_info[id] : ids_info[id][i].size # 1

Symmetry == Permutations(Names)
=============================================================================
