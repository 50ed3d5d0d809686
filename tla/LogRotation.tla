---------------------------- MODULE LogRotation ----------------------------
(***************************************************************************)
(* The log shared by the backends of all running Neovims                   *)
(* (core/src/logfile.rs): RotatingLog::write, one system call per step.    *)
(*                                                                         *)
(* Files are inodes, numbered in the order in which they are created.  A   *)
(* file has a size; what was written to it is not kept, only where: a line *)
(* is lost when it is written to a file, or in a file, that no path names. *)
(* Each backend writes one line at a time (its writer is behind a mutex).  *)
(***************************************************************************)
EXTENDS Integers, FiniteSets

CONSTANTS
    Backends,
    NoBackend,
    Limit,      \* RotatingLog.limit
    MaxLine,    \* bound: size of a line
    MaxFiles,   \* bound: files ever created
    Scenarios   \* bound: what may happen, one of these in each behaviour

ASSUME LogAssumption ==
    /\ IsFiniteSet(Backends) /\ NoBackend \notin Backends
    /\ Limit \in Nat
    /\ MaxLine \in Nat
    /\ MaxFiles \in Nat

AllFaults == {"io", "nolock", "flock", "delete", "crash"}

(* A scenario: what may go wrong, how many backends run at a time, how     *)
(* many files are created, and the size of a file in which no line is      *)
(* begun.                                                                  *)
ASSUME ScenariosAssumption ==
    Scenarios \subseteq [faults : SUBSET AllFaults, backends : Nat, files : Nat, bytes : Nat]

Files == 1..MaxFiles

Stages == {"down", "idle", "stat", "switch", "measure", "lock", "rename",
           "fresh", "unlock", "write", "aside"}

VARIABLES
    scenario, \* the scenario of this behaviour
    made,     \* how many files have been created
    at,       \* the file that path names, or 0
    old,      \* the file that rotated_path() names, or 0
    size,     \* each file's size
    holder,   \* the backend that holds the lock on <name>.lock
    pc,       \* what each backend does next
    file,     \* RotatingLog.file: the file each backend holds
    lock,     \* RotatingLog.lock: whether it has opened the lock file
    len,      \* the size of the line to be written
    seen,     \* held.len() in current_size, 0 once it has been used
    renames,  \* history: rotations since the backend knew its file at path
    during    \* history: bytes written to each file while a backend rotates

vars == <<scenario, made, at, old, size, holder, pc, file, lock, len, seen,
          renames, during>>

diskVars == <<made, at, old, size, during>>
ownVars == <<lock, len>>

-----------------------------------------------------------------------------
Init ==
    /\ scenario \in Scenarios
    /\ made = 0
    /\ at = 0
    /\ old = 0
    /\ size = [f \in Files |-> 0]
    /\ holder = NoBackend
    /\ pc = [b \in Backends |-> "down"]
    /\ file = [b \in Backends |-> 0]
    /\ lock = [b \in Backends |-> FALSE]
    /\ len = [b \in Backends |-> 0]
    /\ seen = [b \in Backends |-> 0]
    /\ renames = [b \in Backends |-> 0]
    /\ during = [f \in Files |-> 0]

(* open_append: b now holds the file at path, created if there is none.    *)
OpenNoCreate(b) ==                                                   \* mutant
    /\ file' = [file EXCEPT ![b] = at]
    /\ renames' = [renames EXCEPT ![b] = 0]
    /\ UNCHANGED diskVars
OpenAppend(b) ==
    /\ IF at # 0
       THEN UNCHANGED <<made, at>>
       ELSE /\ made < MaxFiles /\ made < scenario.files
            /\ made' = made + 1
            /\ at' = made'
    /\ file' = [file EXCEPT ![b] = at']
    /\ renames' = [renames EXCEPT ![b] = 0]
    /\ UNCHANGED <<old, size, during>>

(* RotatingLog::open                                                       *)
Open(b) ==
    /\ pc[b] = "down"
    /\ Cardinality({c \in Backends : pc[c] # "down"}) < scenario.backends
    /\ OpenAppend(b)
    /\ \E opened \in BOOLEAN :
           /\ opened \/ "nolock" \in scenario.faults
           /\ lock' = [lock EXCEPT ![b] = opened]
    /\ pc' = [pc EXCEPT ![b] = "idle"]
    /\ UNCHANGED <<holder, len, seen>>

(* Write::write is called; full() asks for the size of the file held.      *)
Write(b, n) ==
    /\ pc[b] = "idle"
    /\ size[file[b]] < scenario.bytes
    /\ len' = [len EXCEPT ![b] = n]
    /\ seen' = [seen EXCEPT ![b] = size[file[b]]]
    /\ pc' = [pc EXCEPT ![b] = "stat"]
    /\ UNCHANGED <<diskVars, holder, file, lock, renames>>

FullAfter(b, s) == s > Limit                                         \* mutant
Full(b, s) == s > 0 /\ s + len[b] > Limit

(* What rotate_if_full does with the answer of full().                     *)
DecideOnce(b, full) ==                                               \* mutant
    IF holder = b THEN "rename" ELSE IF full THEN "lock" ELSE "write"
Decide(b, full) ==
    IF holder = b THEN IF full THEN "rename" ELSE "unlock"
                ELSE IF full THEN "lock" ELSE "write"

(* current_size: is the file held still the one at path?                   *)
(* If the path has no metadata, for whatever reason, it is opened.         *)
StatHeld(b) ==                                                       \* mutant
    /\ pc[b] = "stat"
    /\ pc' = [pc EXCEPT ![b] = Decide(b, Full(b, seen[b]))]
    /\ renames' = [renames EXCEPT ![b] = 0]
    /\ seen' = [seen EXCEPT ![b] = 0]
    /\ UNCHANGED <<diskVars, holder, file, ownVars>>
Stat(b) ==
    /\ pc[b] = "stat"
    /\ \/ /\ at = file[b]
          /\ pc' = [pc EXCEPT ![b] = Decide(b, Full(b, seen[b]))]
          /\ renames' = [renames EXCEPT ![b] = 0]
       \/ /\ at # file[b] \/ "io" \in scenario.faults
          /\ pc' = [pc EXCEPT ![b] = "switch"]
          /\ UNCHANGED renames
    /\ seen' = [seen EXCEPT ![b] = 0]
    /\ UNCHANGED <<diskVars, holder, file, ownVars>>

(* current_size: switch to the file at path, and take its size.            *)
Switch(b) ==
    /\ pc[b] = "switch"
    /\ OpenAppend(b)
    /\ pc' = [pc EXCEPT ![b] = "measure"]
    /\ UNCHANGED <<holder, ownVars, seen>>

Measure(b) ==
    /\ pc[b] = "measure"
    /\ pc' = [pc EXCEPT ![b] = Decide(b, Full(b, size[file[b]]))]
    /\ UNCHANGED <<diskVars, holder, file, ownVars, seen, renames>>

(* A failed check counts as not full.                                      *)
CheckFails(b) ==
    /\ "io" \in scenario.faults
    /\ pc[b] \in {"stat", "switch", "measure"}
    /\ pc' = [pc EXCEPT ![b] = Decide(b, FALSE)]
    /\ UNCHANGED <<diskVars, holder, file, ownVars, seen, renames>>

(* try_lock.  With the lock, full() is asked again.                        *)
TakeLock(b) ==
    /\ pc[b] = "lock" /\ lock[b] /\ holder = NoBackend
    /\ holder' = b
    /\ seen' = [seen EXCEPT ![b] = size[file[b]]]
    /\ pc' = [pc EXCEPT ![b] = "stat"]
    /\ UNCHANGED <<diskVars, file, ownVars, renames>>

WouldBlock(b) ==
    /\ pc[b] = "lock" /\ lock[b] /\ holder # NoBackend
    /\ pc' = [pc EXCEPT ![b] = "aside"]
    /\ UNCHANGED <<diskVars, holder, file, ownVars, seen, renames>>

(* No lock file, or a file system without flock.                           *)
NoLock(b) ==
    /\ pc[b] = "lock" /\ (~lock[b] \/ "flock" \in scenario.faults)
    /\ pc' = [pc EXCEPT ![b] = "rename"]
    /\ UNCHANGED <<diskVars, holder, file, ownVars, seen, renames>>

TryLock(b) == TakeLock(b) \/ WouldBlock(b) \/ NoLock(b)

(* The end of rotate().                                                    *)
RotatedLocked(b) == "write"                                          \* mutant
Rotated(b) == IF holder = b THEN "unlock" ELSE "write"

More(n) == IF n < 2 THEN n + 1 ELSE n

(* rotate: the rename replaces the older file; that there is nothing to    *)
(* rename is no error.                                                     *)
Rename(b) ==
    /\ pc[b] = "rename"
    /\ IF at # 0
       THEN /\ old' = at
            /\ at' = 0
            /\ renames' = [c \in Backends |-> More(renames[c])]
       ELSE UNCHANGED <<at, old, renames>>
    /\ pc' = [pc EXCEPT ![b] = "fresh"]
    /\ UNCHANGED <<made, size, during, holder, file, ownVars, seen>>

Fresh(b) ==
    /\ pc[b] = "fresh"
    /\ OpenAppend(b)
    /\ pc' = [pc EXCEPT ![b] = Rotated(b)]
    /\ UNCHANGED <<holder, ownVars, seen>>

RotateFails(b) ==
    /\ "io" \in scenario.faults
    /\ pc[b] \in {"rename", "fresh"}
    /\ pc' = [pc EXCEPT ![b] = Rotated(b)]
    /\ UNCHANGED <<diskVars, holder, file, ownVars, seen, renames>>

Unlock(b) ==
    /\ pc[b] = "unlock"
    /\ holder' = NoBackend
    /\ pc' = [pc EXCEPT ![b] = "write"]
    /\ UNCHANGED <<diskVars, file, ownVars, seen, renames>>

(* The line is appended to the file held.                                  *)
WriteLine(b) ==
    /\ pc[b] \in {"write", "aside"}
    /\ size' = [size EXCEPT ![file[b]] = @ + len[b]]
    /\ during' = IF pc[b] = "write" /\ holder = NoBackend THEN during
                 ELSE [during EXCEPT ![file[b]] = @ + len[b]]
    /\ len' = [len EXCEPT ![b] = 0]
    /\ pc' = [pc EXCEPT ![b] = "idle"]
    /\ UNCHANGED <<made, at, old, holder, file, lock, seen, renames>>

(* The operating system releases the lock of a backend that is gone.       *)
Crash(b) ==
    /\ "crash" \in scenario.faults
    /\ pc[b] # "down"
    /\ pc' = [pc EXCEPT ![b] = "down"]
    /\ holder' = IF holder = b THEN NoBackend ELSE holder
    /\ file' = [file EXCEPT ![b] = 0]
    /\ len' = [len EXCEPT ![b] = 0]
    /\ seen' = [seen EXCEPT ![b] = 0]
    /\ UNCHANGED <<diskVars, lock, renames>>

(* Somebody deletes the log.                                               *)
Delete ==
    /\ "delete" \in scenario.faults
    /\ at # 0
    /\ at' = 0
    /\ renames' = [c \in Backends |-> 2]
    /\ UNCHANGED <<made, old, size, during, holder, pc, file, ownVars, seen>>

Step(b) ==
    \/ Open(b)
    \/ \E n \in 1..MaxLine : Write(b, n)
    \/ Stat(b) \/ Switch(b) \/ Measure(b) \/ CheckFails(b)
    \/ TryLock(b)
    \/ Rename(b) \/ Fresh(b) \/ RotateFails(b)
    \/ Unlock(b)
    \/ WriteLine(b)
    \/ Crash(b)

Next ==
    /\ Delete \/ \E b \in Backends : Step(b)
    /\ UNCHANGED scenario

Spec == Init /\ [][Next]_vars

-----------------------------------------------------------------------------
(* Every variable has its type; a backend that runs holds a file.          *)
TypeOK ==
    /\ scenario \in Scenarios
    /\ made \in 0..MaxFiles
    /\ at \in 0..made
    /\ old \in 0..made
    /\ size \in [Files -> Nat]
    /\ holder \in Backends \cup {NoBackend}
    /\ pc \in [Backends -> Stages]
    /\ file \in [Backends -> 0..made]
    /\ \A b \in Backends : pc[b] # "down" => file[b] # 0
    /\ lock \in [Backends -> BOOLEAN]
    /\ len \in [Backends -> 0..MaxLine]
    /\ seen \in [Backends -> Nat]
    /\ renames \in [Backends -> 0..2]
    /\ during \in [Files -> Nat]

(* The lock is held by a backend that is about to rotate, and never kept:  *)
(* one that is kept would end rotation for good.                           *)
LockReleased ==
    holder # NoBackend =>
        pc[holder] \in {"stat", "switch", "measure", "rename", "fresh", "unlock"}

(* The lock works and nobody deletes the log.                              *)
Locks == scenario.faults \cap {"nolock", "flock", "delete"} = {}

(* Where there are locks, a full log is rotated once, even when several    *)
(* backends find it full at the same time: what is renamed over the older  *)
(* file is never the file that another backend has just started.           *)
RotatesFull ==
    Locks => \A b \in Backends :
        pc[b] = "rename" => at # 0 /\ size[at] > 0 /\ size[at] + len[b] > Limit

(* A line is lost only if two rotations happen between a backend's check   *)
(* and its write (or the log is deleted there).                            *)
LinesKept ==
    \A b \in Backends :
        pc[b] \in {"write", "aside"} => file[b] \in {at, old} \/ renames[b] = 2

Larger(m, n) == IF m > n THEN m ELSE n

(* The limit is exceeded by at most one line of each of the other          *)
(* backends, which it checked before the file became full, and by what is  *)
(* written to a file while a backend rotates, unless system calls fail.    *)
SizeBounded ==
    Locks /\ "io" \notin scenario.faults => \A f \in Files :
        size[f] - during[f] <= Larger(Limit, MaxLine) + (Cardinality(Backends) - 1) * MaxLine
=============================================================================
