----------------------------- MODULE MCNotebook -----------------------------
(***************************************************************************)
(* An instance of Notebook for TLC.  The tasks of saves are all alike, and *)
(* so are sessions: symmetry is sound.  Raw cells are treated as markdown  *)
(* cells are.                                                              *)
(***************************************************************************)
EXTENDS Notebook

TwoTypes == {"code", "markdown"}

(* What another program may leave in a file: no cells, or two of which the *)
(* second has an id, with results in the first, which has the same or none.*)
FoundCell(id, n) ==
    [id |-> id, type |-> "code", source |-> EmptySource, outs |-> SubSeq(<<1>>, 1, n), count |-> n]

Found == {<<>>} \cup {<<FoundCell(i, 1), FoundCell(j, 0)>> : i \in Names \cup {New}, j \in Names}

Symmetry == Permutations(SaveTasks) \cup Permutations(Sessions)
=============================================================================
