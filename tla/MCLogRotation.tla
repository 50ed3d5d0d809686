--------------------------- MODULE MCLogRotation ---------------------------
(***************************************************************************)
(* An instance of LogRotation for TLC.  Backends run the same program and  *)
(* nothing distinguishes them: symmetry is sound.                          *)
(***************************************************************************)
EXTENDS LogRotation, TLC

(* Backends that lock and crash.                                           *)
Locked == [faults |-> {"crash"}, backends |-> 3, files |-> 3, bytes |-> 4]

(* Backends that cannot lock, errors of the file system, a log that is     *)
(* deleted.                                                                *)
Unlocked == [faults |-> {"io", "nolock", "flock", "delete"},
             backends |-> 2, files |-> 4, bytes |-> 3]

LockedAndUnlocked == {Locked, Unlocked}

Symmetry == Permutations(Backends)
=============================================================================
