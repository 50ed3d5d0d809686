------------------------------ MODULE LogProofs ------------------------------
(***************************************************************************)
(* Proofs about LogRotation, for any number of backends and any limit: the *)
(* types of all variables, where the lines of a backend are, and what the  *)
(* lock guarantees where it works and nobody deletes the log.              *)
(***************************************************************************)
EXTENDS LogRotation, FiniteSetTheorems, TLAPS

LEMMA InitTyped == Init => TypeOK
BY LogAssumption DEF Init, TypeOK, Stages, Files

LEMMA OpenAppendTyped ==
    ASSUME TypeOK, NEW b \in Backends, OpenAppend(b)
    PROVE  /\ made' \in 0..MaxFiles /\ made <= made'
           /\ at' \in 1..made' /\ old' \in 0..made'
           /\ at # 0 => at' = at
           /\ file' \in [Backends -> 0..made'] /\ file'[b] = at'
           /\ \A c \in Backends \ {b} : file'[c] = file[c]
           /\ renames' \in [Backends -> 0..2] /\ renames'[b] = 0
           /\ \A c \in Backends \ {b} : renames'[c] = renames[c]
           /\ size' = size /\ during' = during
<1>1. made' \in 0..MaxFiles /\ made <= made' /\ at' \in 1..made' /\ (at # 0 => at' = at)
  BY LogAssumption DEF OpenAppend, TypeOK
<1>2. 0..made \subseteq 0..made'
  BY <1>1, LogAssumption DEF TypeOK
<1>3. file \in [Backends -> 0..made']
  BY <1>2 DEF TypeOK
<1>4. old' \in 0..made'
  BY <1>2 DEF TypeOK, OpenAppend
<1> QED
  BY <1>1, <1>3, <1>4 DEF OpenAppend, TypeOK

(* A backend that opens the file at path keeps all of the types.           *)
LEMMA OpenAppendKeepsTypes ==
    ASSUME TypeOK, NEW b \in Backends, OpenAppend(b),
           NEW stage \in Stages, pc' = [pc EXCEPT ![b] = stage],
           holder' = holder, len' = len, seen' = seen, scenario' = scenario,
           lock' \in [Backends -> BOOLEAN]
    PROVE  TypeOK'
<1>1. \A c \in Backends : pc'[c] # "down" => file'[c] # 0
  <2> SUFFICES ASSUME NEW c \in Backends, pc'[c] # "down" PROVE file'[c] # 0
    OBVIOUS
  <2>1. CASE c = b
    BY <2>1, OpenAppendTyped
  <2>2. CASE c # b
    BY <2>2, OpenAppendTyped DEF TypeOK
  <2> QED
    BY <2>1, <2>2
<1>2. pc' \in [Backends -> Stages] /\ at' \in 0..made'
  BY OpenAppendTyped DEF TypeOK
<1> QED
  BY <1>1, <1>2, OpenAppendTyped DEF TypeOK

LEMMA FileHeld ==
    ASSUME TypeOK, NEW b \in Backends, pc[b] # "down"
    PROVE  file[b] \in Files /\ size[file[b]] \in Nat
BY LogAssumption DEF TypeOK, Files

LEMMA DecideTyped ==
    ASSUME NEW b \in Backends, NEW full \in BOOLEAN
    PROVE  Decide(b, full) \in {"lock", "write", "rename", "unlock"}
BY DEF Decide

LEMMA FullBoolean ==
    ASSUME NEW b, NEW s PROVE Full(b, s) \in BOOLEAN
BY DEF Full

LEMMA StepTyped ==
    ASSUME TypeOK, NEW b \in Backends, Step(b), scenario' = scenario
    PROVE  TypeOK'
<1> USE DEF diskVars, ownVars
<1>1. CASE Open(b)
  <2>1. OpenAppend(b)
    BY <1>1 DEF Open
  <2>2. lock' \in [Backends -> BOOLEAN]
    BY <1>1 DEF Open, TypeOK
  <2> QED
    BY <1>1, <2>1, <2>2, OpenAppendKeepsTypes DEF Open, TypeOK, Stages
<1>2. ASSUME NEW n \in 1..MaxLine, Write(b, n) PROVE TypeOK'
  BY <1>2, FileHeld, LogAssumption DEF Write, TypeOK, Stages
<1>3. CASE Stat(b)
  BY <1>3, DecideTyped, FullBoolean DEF Stat, TypeOK, Stages
<1>4. CASE Switch(b)
  <2>1. OpenAppend(b)
    BY <1>4 DEF Switch
  <2> QED
    BY <1>4, <2>1, OpenAppendKeepsTypes DEF Switch, TypeOK, Stages
<1>5. CASE Measure(b)
  BY <1>5, DecideTyped, FullBoolean DEF Measure, TypeOK, Stages
<1>6. CASE CheckFails(b)
  BY <1>6, DecideTyped DEF CheckFails, TypeOK, Stages
<1>7. CASE TryLock(b)
  BY <1>7, FileHeld DEF TryLock, TakeLock, WouldBlock, NoLock, TypeOK, Stages
<1>8. CASE Rename(b)
  BY <1>8 DEF Rename, More, TypeOK, Stages
<1>9. CASE Fresh(b)
  <2>1. OpenAppend(b)
    BY <1>9 DEF Fresh
  <2>2. Rotated(b) \in Stages
    BY DEF Rotated, Stages
  <2> QED
    BY <1>9, <2>1, <2>2, OpenAppendKeepsTypes DEF Fresh, TypeOK, Stages
<1>10. CASE RotateFails(b)
  BY <1>10 DEF RotateFails, Rotated, TypeOK, Stages
<1>11. CASE Unlock(b)
  BY <1>11 DEF Unlock, TypeOK, Stages
<1>12. CASE WriteLine(b)
  <2>1. file[b] \in Files /\ len[b] \in Nat
    BY <1>12, FileHeld, LogAssumption DEF WriteLine, TypeOK
  <2>2. size' \in [Files -> Nat] /\ during' \in [Files -> Nat]
    BY <1>12, <2>1 DEF WriteLine, TypeOK
  <2> QED
    BY <1>12, <2>2, LogAssumption DEF WriteLine, TypeOK, Stages
<1>13. CASE Crash(b)
  BY <1>13, LogAssumption DEF Crash, TypeOK, Stages
<1> QED
  BY <1>1, <1>2, <1>3, <1>4, <1>5, <1>6, <1>7, <1>8, <1>9, <1>10, <1>11,
     <1>12, <1>13 DEF Step

LEMMA NextTyped == TypeOK /\ [Next]_vars => TypeOK'
<1> SUFFICES ASSUME TypeOK, [Next]_vars PROVE TypeOK'
  OBVIOUS
<1>1. CASE Delete /\ UNCHANGED scenario
  BY <1>1, LogAssumption DEF Delete, TypeOK, diskVars, ownVars
<1>2. CASE UNCHANGED vars
  BY <1>2 DEF vars, TypeOK
<1> QED
  BY <1>1, <1>2, StepTyped DEF Next

(* Every variable of the log keeps its type, and a backend that runs holds *)
(* a file that was created.                                                *)
THEOREM LogTypeCorrect == Spec => []TypeOK
BY InitTyped, NextTyped, PTL DEF Spec

-----------------------------------------------------------------------------
(* Where the file of a backend is, by the rotations that it has missed: at *)
(* the path, then at the rotated path, then perhaps nowhere.               *)
Placed ==
    \A b \in Backends : pc[b] # "down" =>
        /\ renames[b] = 0 => file[b] = at
        /\ renames[b] = 1 => file[b] = old

LInv == TypeOK /\ Placed

LEMMA OpenAppendPlaced ==
    ASSUME TypeOK, Placed, NEW b \in Backends, OpenAppend(b),
           \A c \in Backends \ {b} : pc'[c] = pc[c]
    PROVE  Placed'
<1> SUFFICES ASSUME NEW c \in Backends, pc'[c] # "down"
             PROVE  /\ renames'[c] = 0 => file'[c] = at'
                    /\ renames'[c] = 1 => file'[c] = old'
  BY DEF Placed
<1>1. CASE c = b
  BY <1>1, OpenAppendTyped
<1>2. CASE c # b
  BY <1>2, OpenAppendTyped DEF Placed, TypeOK, OpenAppend
<1> QED
  BY <1>1, <1>2

LEMMA StepPlaced ==
    ASSUME LInv, NEW b \in Backends, Step(b)
    PROVE  Placed'
<1> USE DEF LInv, diskVars, ownVars
<1>1. CASE Open(b) \/ Switch(b) \/ Fresh(b)
  <2>1. OpenAppend(b) /\ \A c \in Backends \ {b} : pc'[c] = pc[c]
    BY <1>1 DEF Open, Switch, Fresh, TypeOK
  <2> QED
    BY <2>1, OpenAppendPlaced
<1>2. ASSUME NEW n \in 1..MaxLine, Write(b, n) PROVE Placed'
  BY <1>2 DEF Write, Placed, TypeOK
<1>3. CASE Stat(b)
  BY <1>3 DEF Stat, Placed, TypeOK
<1>4. CASE Measure(b) \/ CheckFails(b)
  BY <1>4 DEF Measure, CheckFails, Placed, TypeOK
<1>5. CASE TryLock(b)
  BY <1>5 DEF TryLock, TakeLock, WouldBlock, NoLock, Placed, TypeOK
<1>6. CASE Rename(b)
  BY <1>6 DEF Rename, More, Placed, TypeOK
<1>7. CASE RotateFails(b) \/ Unlock(b)
  BY <1>7 DEF RotateFails, Unlock, Placed, TypeOK
<1>8. CASE WriteLine(b)
  BY <1>8 DEF WriteLine, Placed, TypeOK
<1>9. CASE Crash(b)
  BY <1>9 DEF Crash, Placed, TypeOK
<1> QED
  BY <1>1, <1>2, <1>3, <1>4, <1>5, <1>6, <1>7, <1>8, <1>9 DEF Step

LEMMA NextPlaced == LInv /\ [Next]_vars => LInv'
<1> SUFFICES ASSUME LInv, [Next]_vars PROVE LInv'
  OBVIOUS
<1>1. TypeOK'
  BY NextTyped DEF LInv
<1>2. CASE Delete
  BY <1>1, <1>2 DEF Delete, LInv, Placed, TypeOK
<1>3. CASE UNCHANGED vars
  BY <1>1, <1>3 DEF vars, LInv, Placed
<1> QED
  BY <1>1, <1>2, <1>3, StepPlaced DEF Next, LInv

LEMMA PlacedKeepsLines == LInv => LinesKept
BY DEF LInv, Placed, LinesKept, TypeOK

(* However backends interleave, whatever fails and whether or not there is *)
(* a lock: a line goes to a file that no path names only if the file was   *)
(* rotated twice, or deleted, since its writer's check.                    *)
THEOREM NoLineLost == Spec => []LinesKept
<1>1. Init => LInv
  BY InitTyped DEF Init, LInv, Placed
<1> QED
  BY <1>1, NextPlaced, PlacedKeepsLines, PTL DEF Spec

-----------------------------------------------------------------------------
(* What a backend with the lock may be about to do.                        *)
KInv == TypeOK /\ LockReleased

LEMMA NextReleases == KInv /\ [Next]_vars => KInv'
<1> SUFFICES ASSUME KInv, [Next]_vars PROVE KInv'
  OBVIOUS
<1> USE DEF KInv, LockReleased, diskVars, ownVars
<1>1. TypeOK'
  BY NextTyped
<1>2. ASSUME NEW b \in Backends, Step(b) PROVE LockReleased'
  <2> USE <1>2 DEF TypeOK
  <2>1. CASE Open(b) \/ Switch(b) \/ Fresh(b)
    BY <2>1 DEF Open, Switch, Fresh, OpenAppend, Rotated
  <2>2. ASSUME NEW n \in 1..MaxLine, Write(b, n) PROVE LockReleased'
    BY <2>2 DEF Write
  <2>3. CASE Stat(b) \/ Measure(b) \/ CheckFails(b)
    BY <2>3 DEF Stat, Measure, CheckFails, Decide
  <2>4. CASE TryLock(b)
    BY <2>4 DEF TryLock, TakeLock, WouldBlock, NoLock
  <2>5. CASE Rename(b) \/ RotateFails(b)
    BY <2>5 DEF Rename, RotateFails, Rotated
  <2>6. CASE Unlock(b) \/ WriteLine(b) \/ Crash(b)
    BY <2>6 DEF Unlock, WriteLine, Crash
  <2> QED
    BY <2>1, <2>2, <2>3, <2>4, <2>5, <2>6 DEF Step
<1>3. CASE Delete
  BY <1>1, <1>3 DEF Delete
<1>4. CASE UNCHANGED vars
  BY <1>1, <1>4 DEF vars
<1> QED
  BY <1>1, <1>2, <1>3, <1>4 DEF Next

(* Whatever fails before the unlock, no backend keeps the lock when it is  *)
(* done with the log: one that did would end rotation for all of them.     *)
THEOREM LockNeverKept == Spec => []LockReleased
<1>1. Init => KInv
  BY InitTyped DEF Init, KInv, LockReleased
<1>2. KInv => LockReleased
  BY DEF KInv
<1> QED
  BY <1>1, <1>2, NextReleases, PTL DEF Spec

-----------------------------------------------------------------------------
(* Only the backend that holds the lock rotates.                           *)
Exclusive ==
    \A b \in Backends :
        /\ pc[b] # "down" => lock[b]
        /\ pc[b] \in {"rename", "fresh", "unlock"} => holder = b
        /\ pc[b] \in {"down", "idle", "lock", "write", "aside"} => holder # b

(* What the backend with the lock has found out stays true: nobody else    *)
(* renames the log, and a file only grows.                                 *)
Checked ==
    \A b \in Backends :
        /\ pc[b] = "stat" => seen[b] <= size[file[b]]
        /\ pc[b] = "measure" /\ holder = b => at = file[b]
        /\ pc[b] = "rename" => at = file[b] /\ Full(b, size[at])

RInv == TypeOK /\ Exclusive /\ Checked

LEMMA StepExclusive ==
    ASSUME RInv, Locks, NEW b \in Backends, Step(b)
    PROVE  Exclusive'
<1> USE DEF RInv, Exclusive, diskVars, ownVars
<1>1. NoBackend # b
  BY LogAssumption
<1>2. CASE Open(b)
  BY <1>2 DEF Open, OpenAppend, TypeOK, Locks
<1>3. ASSUME NEW n \in 1..MaxLine, Write(b, n) PROVE Exclusive'
  BY <1>3 DEF Write, TypeOK
<1>4. CASE Stat(b)
  BY <1>4 DEF Stat, Decide, TypeOK
<1>5. CASE Switch(b)
  BY <1>5 DEF Switch, OpenAppend, TypeOK
<1>6. CASE Measure(b) \/ CheckFails(b)
  BY <1>6 DEF Measure, CheckFails, Decide, TypeOK
<1>7. CASE TryLock(b)
  BY <1>1, <1>7, LogAssumption
     DEF TryLock, TakeLock, WouldBlock, NoLock, TypeOK, Locks
<1>8. CASE Rename(b)
  BY <1>8 DEF Rename, TypeOK
<1>9. CASE Fresh(b) \/ RotateFails(b)
  BY <1>9 DEF Fresh, RotateFails, OpenAppend, Rotated, TypeOK
<1>10. CASE Unlock(b)
  BY <1>10, LogAssumption DEF Unlock, TypeOK
<1>11. CASE WriteLine(b)
  BY <1>11 DEF WriteLine, TypeOK
<1>12. CASE Crash(b)
  BY <1>12, LogAssumption DEF Crash, TypeOK
<1> QED
  BY <1>2, <1>3, <1>4, <1>5, <1>6, <1>7, <1>8, <1>9, <1>10, <1>11, <1>12 DEF Step

(* A backend that opens the file at path disturbs no other's check.        *)
LEMMA OpenAppendChecked ==
    ASSUME RInv, NEW b \in Backends, OpenAppend(b),
           len' = len, seen' = seen, holder' = holder,
           NEW stage \in Stages \ {"stat", "rename"},
           pc' = [pc EXCEPT ![b] = stage]
    PROVE  Checked'
<1> SUFFICES ASSUME NEW c \in Backends
             PROVE  /\ pc'[c] = "stat" => seen'[c] <= size'[file'[c]]
                    /\ pc'[c] = "measure" /\ holder' = c => at' = file'[c]
                    /\ pc'[c] = "rename" => at' = file'[c] /\ Full(c, size[at])'
  BY DEF Checked
<1>1. CASE c = b
  BY <1>1, OpenAppendTyped DEF RInv, TypeOK
<1>2. CASE c # b
  <2>1. pc'[c] = pc[c] /\ file'[c] = file[c] /\ size' = size
    BY <1>2, OpenAppendTyped DEF RInv, TypeOK
  <2>2. pc[c] # "down" => file[c] # 0
    BY DEF RInv, TypeOK
  <2>3. at # 0 => at' = at
    BY OpenAppendTyped DEF RInv
  <2> QED
    BY <1>2, <2>1, <2>2, <2>3 DEF RInv, Checked, Full
<1> QED
  BY <1>1, <1>2

(* The line that a backend writes makes a file only larger.                *)
LEMMA WriteLineChecked ==
    ASSUME RInv, NEW b \in Backends, WriteLine(b)
    PROVE  Checked'
<1>1. \A f \in Files : size[f] \in Nat /\ size'[f] \in Nat /\ size[f] <= size'[f]
  BY LogAssumption DEF WriteLine, RInv, TypeOK
<1> SUFFICES ASSUME NEW c \in Backends
             PROVE  /\ pc'[c] = "stat" => seen'[c] <= size'[file'[c]]
                    /\ pc'[c] = "measure" /\ holder' = c => at' = file'[c]
                    /\ pc'[c] = "rename" => at' = file'[c] /\ Full(c, size[at])'
  BY DEF Checked
<1>2. CASE c = b
  BY <1>2 DEF WriteLine, RInv, TypeOK
<1>3. CASE c # b
  <2>1. pc'[c] = pc[c] /\ len'[c] = len[c]
    BY <1>3 DEF WriteLine, RInv, TypeOK
  <2>2. pc[c] # "down" => file[c] \in Files
    BY FileHeld DEF RInv
  <2>3. seen[c] \in Nat /\ len[c] \in Nat /\ Limit \in Nat
    BY LogAssumption DEF RInv, TypeOK
  <2>4. at' = at /\ file' = file /\ holder' = holder /\ seen' = seen
    BY DEF WriteLine
  <2> QED
    BY <1>1, <2>1, <2>2, <2>3, <2>4 DEF RInv, Checked, Full
<1> QED
  BY <1>2, <1>3

LEMMA StepChecked ==
    ASSUME RInv, Locks, NEW b \in Backends, Step(b)
    PROVE  Checked'
<1> USE DEF RInv, diskVars, ownVars
<1>1. CASE Open(b) \/ Switch(b) \/ Fresh(b)
  <2>1. OpenAppend(b) /\ UNCHANGED <<len, seen, holder>>
    BY <1>1 DEF Open, Switch, Fresh
  <2>2. \E stage \in Stages \ {"stat", "rename"} : pc' = [pc EXCEPT ![b] = stage]
    BY <1>1 DEF Open, Switch, Fresh, Rotated, Stages
  <2> QED
    BY <2>1, <2>2, OpenAppendChecked
<1>2. ASSUME NEW n \in 1..MaxLine, Write(b, n) PROVE Checked'
  <2>1. size[file[b]] \in Nat
    BY <1>2, FileHeld DEF Write
  <2> QED
    BY <1>2, <2>1 DEF Write, Checked, Full, TypeOK
<1>3. CASE Stat(b)
  <2>1. pc[b] = "stat" /\ size[file[b]] \in Nat /\ len[b] \in Nat /\ seen[b] \in Nat
    BY <1>3, FileHeld, LogAssumption DEF Stat, TypeOK
  <2>2. at = file[b] /\ Full(b, seen[b]) => Full(b, size[at])
    BY <2>1, LogAssumption DEF Checked, Full
  <2> QED
    BY <1>3, <2>1, <2>2 DEF Stat, Decide, Checked, Full, TypeOK
<1>4. CASE Measure(b)
  BY <1>4 DEF Measure, Decide, Checked, Full, TypeOK
<1>5. CASE CheckFails(b)
  BY <1>5 DEF CheckFails, Decide, Checked, Full, TypeOK
<1>6. CASE TryLock(b)
  <2>1. size[file[b]] \in Nat
    BY <1>6, FileHeld DEF TryLock, TakeLock, WouldBlock, NoLock
  <2>2. ~NoLock(b)
    BY DEF NoLock, Locks, Exclusive
  <2> QED
    BY <1>6, <2>1, <2>2 DEF TryLock, TakeLock, WouldBlock, Checked, Exclusive, Full, TypeOK
<1>7. CASE Rename(b)
  BY <1>7 DEF Rename, Checked, Exclusive, Full, TypeOK
<1>8. CASE RotateFails(b)
  BY <1>8 DEF RotateFails, Rotated, Checked, Full, TypeOK
<1>9. CASE Unlock(b)
  BY <1>9, LogAssumption DEF Unlock, Checked, Full, TypeOK
<1>10. CASE WriteLine(b)
  BY <1>10, WriteLineChecked
<1>11. CASE Crash(b)
  BY <1>11, LogAssumption DEF Crash, Checked, Exclusive, Full, TypeOK
<1> QED
  BY <1>1, <1>2, <1>3, <1>4, <1>5, <1>6, <1>7, <1>8, <1>9, <1>10, <1>11 DEF Step

LEMMA NextRotates == TypeOK /\ (Locks => RInv) /\ [Next]_vars => (Locks => RInv)'
<1> SUFFICES ASSUME TypeOK, Locks => RInv, [Next]_vars, Locks' PROVE RInv'
  OBVIOUS
<1>1. scenario' = scenario
  BY DEF Next, vars
<1>2. Locks /\ RInv
  BY <1>1 DEF Locks
<1>3. TypeOK'
  BY NextTyped
<1>4. CASE UNCHANGED vars
  BY <1>2, <1>3, <1>4 DEF vars, RInv, Exclusive, Checked, Full
<1>5. ~Delete
  BY <1>2 DEF Delete, Locks
<1> QED
  BY <1>2, <1>3, <1>4, <1>5, StepExclusive, StepChecked DEF Next, RInv

(* Where the lock works and nobody deletes the log, a full log is rotated  *)
(* once: what replaces the older file is never a file that another backend *)
(* has just started.                                                       *)
THEOREM RotatedOnce == Spec => []RotatesFull
<1>1. Init => TypeOK /\ (Locks => RInv)
  BY InitTyped, LogAssumption DEF Init, RInv, Exclusive, Checked
<1>2. (Locks => RInv) => RotatesFull
  BY DEF RInv, Checked, Full, RotatesFull, TypeOK
<1> QED
  BY <1>1, <1>2, NextTyped, NextRotates, PTL DEF Spec

-----------------------------------------------------------------------------
(* The size of a file, without what is written while a backend rotates.    *)
Growth(f) == size[f] - during[f]

(* Backends that will write to the file they hold without another check.   *)
WillWrite(b) == pc[b] \in {"write", "unlock"} \/ (pc[b] = "stat" /\ ~Full(b, seen[b]))
Writers(f) == {b \in Backends : file[b] = f /\ WillWrite(b)}

Most == Larger(Limit, MaxLine) + (Cardinality(Backends) - 1) * MaxLine

(* There is room for the lines l of the backends P in a file that has      *)
(* grown to g: one of them has checked last, and found room for its own;   *)
(* the others have one line each.                                          *)
Room(g, P, l) ==
    /\ g <= Most
    /\ P # {} => \E b \in P : g + l[b] + MaxLine * (Cardinality(P) - 1) <= Most

Lines == [Backends -> 0..MaxLine]

LEMMA Monotone ==
    ASSUME NEW m \in Nat, NEW i \in Int, NEW j \in Int, i <= j
    PROVE  m * i <= m * j /\ m * i \in Int /\ m * j \in Int
OBVIOUS

LEMMA MostTyped == Most \in Int /\ Larger(Limit, MaxLine) \in Nat /\ Cardinality(Backends) \in Nat
<1>1. Cardinality(Backends) \in Nat
  BY LogAssumption, FS_CardinalityType
<1>2. (Cardinality(Backends) - 1) * MaxLine \in Int
  BY <1>1, LogAssumption
<1> QED
  BY <1>1, <1>2, LogAssumption DEF Most, Larger

LEMMA Counted ==
    ASSUME NEW P \in SUBSET Backends
    PROVE  /\ IsFiniteSet(P) /\ Cardinality(P) \in Nat
           /\ Cardinality(P) <= Cardinality(Backends)
BY LogAssumption, FS_Subset, FS_CardinalityType

(* Backends that give up leave room.                                       *)
LEMMA RoomLeft ==
    ASSUME NEW g \in Int, NEW P \in SUBSET Backends, NEW l \in Lines, Room(g, P, l),
           NEW h \in Int, h <= g, NEW Q \in SUBSET P, NEW m \in Lines,
           \A x \in Q : m[x] = l[x]
    PROVE  Room(h, Q, m)
<1>1. h <= Most
  BY MostTyped DEF Room
<1>2. ASSUME Q # {}
      PROVE  \E b \in Q : h + m[b] + MaxLine * (Cardinality(Q) - 1) <= Most
  <2>1. PICK x \in P : g + l[x] + MaxLine * (Cardinality(P) - 1) <= Most
    BY <1>2 DEF Room
  <2>2. /\ Cardinality(P) \in Nat /\ Cardinality(Q) \in Nat
        /\ Cardinality(Q) <= Cardinality(P) /\ IsFiniteSet(P)
    BY Counted, FS_Subset
  <2>3. MaxLine \in Nat /\ Most \in Int
    BY LogAssumption, MostTyped
  <2>4. CASE x \in Q
    <3>1. MaxLine * (Cardinality(Q) - 1) <= MaxLine * (Cardinality(P) - 1)
      BY <2>2, <2>3, Monotone
    <3>2. MaxLine * (Cardinality(Q) - 1) \in Int /\ MaxLine * (Cardinality(P) - 1) \in Int
      BY <2>2, <2>3
    <3>3. m[x] = l[x] /\ l[x] \in Nat
      BY <2>4, <2>3 DEF Lines
    <3> QED
      BY <2>1, <2>3, <2>4, <3>1, <3>2, <3>3
  <2>5. CASE x \notin Q
    <3>1. PICK y \in Q : TRUE
      BY <1>2
    <3>2. Q \in SUBSET (P \ {x}) /\ IsFiniteSet(P \ {x})
          /\ Cardinality(P \ {x}) = Cardinality(P) - 1
      BY <2>2, <2>5, FS_RemoveElement
    <3>3. Cardinality(Q) <= Cardinality(P) - 1
      BY <3>2, FS_Subset
    <3>4. MaxLine * Cardinality(Q) <= MaxLine * (Cardinality(P) - 1)
      BY <3>3, <2>2, <2>3, Monotone
    <3>5. MaxLine * (Cardinality(Q) - 1) = MaxLine * Cardinality(Q) - MaxLine
      BY <2>2, <2>3
    <3>6. MaxLine * Cardinality(Q) \in Int /\ MaxLine * (Cardinality(P) - 1) \in Int
      BY <2>2, <2>3
    <3>7. m[y] \in 0..MaxLine /\ l[x] \in 0..MaxLine
      BY DEF Lines
    <3> QED
      BY <2>1, <2>3, <3>1, <3>4, <3>5, <3>6, <3>7
  <2> QED
    BY <2>4, <2>5
<1> QED
  BY <1>1, <1>2 DEF Room

(* The line that was counted is written.                                   *)
LEMMA RoomWritten ==
    ASSUME NEW g \in Int, NEW P \in SUBSET Backends, NEW l \in Lines, Room(g, P, l),
           NEW b \in P, NEW h \in Int, h <= g + l[b], NEW m \in Lines,
           \A x \in P \ {b} : m[x] = l[x]
    PROVE  Room(h, P \ {b}, m)
<1> DEFINE Q == P \ {b}
           n == Cardinality(P)
<1>1. PICK x \in P : g + l[x] + MaxLine * (n - 1) <= Most
  BY DEF Room
<1>2. /\ n \in Nat /\ IsFiniteSet(P) /\ IsFiniteSet(Q)
      /\ Cardinality(Q) = n - 1 /\ Cardinality(Q) \in Nat
  BY Counted, FS_RemoveElement
<1>3. /\ MaxLine \in Nat /\ Most \in Int
      /\ l[x] \in 0..MaxLine /\ l[b] \in 0..MaxLine
  BY LogAssumption, MostTyped DEF Lines
<1>4. /\ MaxLine * (n - 1) \in Int /\ MaxLine * ((n - 1) - 1) \in Int
      /\ MaxLine * ((n - 1) - 1) = MaxLine * (n - 1) - MaxLine
  BY <1>2, <1>3
<1>5. Q # {} => n - 1 >= 1
  <2>1. Q # {} => Cardinality(Q) # 0
    BY <1>2, FS_EmptySet
  <2> QED
    BY <1>2, <2>1
<1>6. h <= Most
  <2>1. CASE x = b
    <3>1. MaxLine * 0 <= MaxLine * (n - 1)
      BY <1>2, <1>3, Monotone
    <3> QED
      BY <2>1, <3>1, <1>1, <1>3, <1>4
  <2>2. CASE x # b
    <3>1. n - 1 >= 1
      BY <2>2, <1>5
    <3>2. MaxLine * 1 <= MaxLine * (n - 1)
      BY <3>1, <1>2, <1>3, Monotone
    <3> QED
      BY <3>2, <1>1, <1>3, <1>4
  <2> QED
    BY <2>1, <2>2
<1>7. ASSUME Q # {}
      PROVE  \E y \in Q : h + m[y] + MaxLine * (Cardinality(Q) - 1) <= Most
  <2>1. CASE x = b
    <3>1. PICK y \in Q : TRUE
      BY <1>7
    <3>2. m[y] \in 0..MaxLine
      BY DEF Lines
    <3>3. h + m[y] + MaxLine * ((n - 1) - 1) <= Most
      BY <2>1, <3>2, <1>1, <1>3, <1>4
    <3> QED
      BY <3>3, <1>2
  <2>2. CASE x # b
    <3>1. m[x] = l[x]
      BY <2>2
    <3>2. h + m[x] + MaxLine * ((n - 1) - 1) <= Most
      BY <3>1, <1>1, <1>3, <1>4
    <3> QED
      BY <2>2, <3>2, <1>2
  <2> QED
    BY <2>1, <2>2
<1> QED
  BY <1>6, <1>7 DEF Room

(* A backend checks that there is room, when the others have a line each.  *)
LEMMA RoomChecked ==
    ASSUME NEW h \in Int, NEW Q \in SUBSET Backends, NEW m \in Lines,
           NEW b \in Q, h + m[b] <= Larger(Limit, MaxLine)
    PROVE  Room(h, Q, m)
<1>1. /\ Cardinality(Q) \in Nat /\ Cardinality(Q) <= Cardinality(Backends)
      /\ Cardinality(Backends) \in Nat
      /\ MaxLine \in Nat /\ Most \in Int /\ Larger(Limit, MaxLine) \in Nat /\ m[b] \in 0..MaxLine
  BY Counted, LogAssumption, MostTyped DEF Lines
<1>2. Cardinality(Q) >= 1
  BY <1>1, Counted, FS_EmptySet
<1>3. /\ MaxLine * (Cardinality(Q) - 1) <= MaxLine * (Cardinality(Backends) - 1)
      /\ MaxLine * (Cardinality(Q) - 1) \in Int
      /\ MaxLine * (Cardinality(Backends) - 1) \in Int
  <2>1. Cardinality(Q) - 1 \in Int /\ Cardinality(Backends) - 1 \in Int
        /\ Cardinality(Q) - 1 <= Cardinality(Backends) - 1
    BY <1>1
  <2> QED
    BY <1>1, <2>1, Monotone
<1>6. 0 <= MaxLine * (Cardinality(Backends) - 1)
  <2>1. 0 <= Cardinality(Backends) - 1 /\ Cardinality(Backends) - 1 \in Int
    BY <1>1, <1>2
  <2>2. MaxLine * 0 <= MaxLine * (Cardinality(Backends) - 1) /\ MaxLine * 0 = 0
    BY <1>1, <2>1, Monotone
  <2> QED
    BY <2>2
<1>4. (Cardinality(Backends) - 1) * MaxLine = MaxLine * (Cardinality(Backends) - 1)
  BY <1>1
<1>5. Most = Larger(Limit, MaxLine) + MaxLine * (Cardinality(Backends) - 1)
  BY <1>4 DEF Most
<1> QED
  BY <1>1, <1>3, <1>5, <1>6 DEF Room

(* Each file has room for the lines under way, a file that is not yet made *)
(* has none, and one that is made between the rename and the opening of    *)
(* the new file has only what is written meanwhile.                        *)
Fits == \A f \in Files : Room(Growth(f), Writers(f), len)
Unmade == \A f \in Files : f > made => size[f] = 0 /\ during[f] = 0
Fresher == \A b \in Backends : pc[b] = "fresh" /\ at # 0 => Growth(at) <= 0
SInv == RInv /\ Fits /\ Unmade /\ Fresher

LEMMA GrowthTyped ==
    ASSUME TypeOK, NEW f \in Files
    PROVE  Growth(f) \in Int /\ Growth(f) <= size[f] /\ size[f] \in Nat
BY DEF Growth, TypeOK

(* The step of a backend that gives up, or goes on to what it was to do.   *)
LEMMA StepLeaves ==
    ASSUME TypeOK, TypeOK', Fits, NEW b \in Backends, \A c \in Backends \ {b} :
               /\ file'[c] = file[c] /\ pc'[c] = pc[c]
               /\ seen'[c] = seen[c] /\ len'[c] = len[c],
           WillWrite(b)' => WillWrite(b) /\ file'[b] = file[b] /\ len'[b] = len[b],
           NEW f \in Files, Growth(f)' <= Growth(f)
    PROVE  Room(Growth(f)', Writers(f)', len')
<1>1. Growth(f) \in Int /\ Growth(f)' \in Int
  BY DEF Growth, TypeOK
<1>2. len \in Lines /\ len' \in Lines
  BY DEF Lines, TypeOK
<1>3. \A c \in Backends \ {b} : WillWrite(c)' = WillWrite(c)
  BY DEF WillWrite, Full
<1>4. Writers(f) \in SUBSET Backends /\ Writers(f)' \in SUBSET Writers(f)
  BY <1>3 DEF Writers
<1>5. \A c \in Writers(f)' : len'[c] = len[c]
  BY DEF Writers
<1>6. Room(Growth(f), Writers(f), len)
  BY DEF Fits
<1> QED
  BY <1>1, <1>2, <1>4, <1>5, <1>6, RoomLeft

(* The step of a backend that finds room.                                  *)
LEMMA StepChecks ==
    ASSUME TypeOK, TypeOK', NEW b \in Backends, NEW f \in Files,
           file'[b] = f, WillWrite(b)',
           Growth(f)' + len'[b] <= Larger(Limit, MaxLine)
    PROVE  Room(Growth(f)', Writers(f)', len')
<1>1. Growth(f)' \in Int
  BY DEF Growth, TypeOK
<1>2. len' \in Lines
  BY DEF Lines, TypeOK
<1>3. Writers(f)' \in SUBSET Backends /\ b \in Writers(f)'
  BY DEF Writers
<1> QED
  BY <1>1, <1>2, <1>3, RoomChecked

LEMMA HasRoom ==
    ASSUME NEW b \in Backends, NEW s \in Nat, ~Full(b, s), len[b] \in 0..MaxLine
    PROVE  s + len[b] <= Larger(Limit, MaxLine)
BY LogAssumption DEF Full, Larger

LEMMA StepFits ==
    ASSUME SInv, TypeOK', Locks, "io" \notin scenario.faults, NEW b \in Backends, Step(b)
    PROVE  Fits'
<1> USE DEF diskVars, ownVars
<1> SUFFICES ASSUME NEW f \in Files PROVE Room(Growth(f)', Writers(f)', len')
  BY DEF Fits
<1>t. TypeOK /\ Fits
  BY DEF SInv, RInv
<1> DEFINE Others == \A c \in Backends \ {b} :
               /\ file'[c] = file[c] /\ pc'[c] = pc[c]
               /\ seen'[c] = seen[c] /\ len'[c] = len[c]
           Leaves == WillWrite(b)' => WillWrite(b) /\ file'[b] = file[b] /\ len'[b] = len[b]
           Still == size' = size /\ during' = during
<1>s. ASSUME Others, Leaves, Still PROVE Room(Growth(f)', Writers(f)', len')
  <2>1. Growth(f)' <= Growth(f)
    BY <1>s, <1>t DEF Growth, TypeOK
  <2> QED
    BY <1>s, <1>t, <2>1, StepLeaves
<1>1. CASE Open(b)
  <2>1. OpenAppend(b)
    BY <1>1 DEF Open
  <2>2. Others /\ Still
    BY <1>1, <1>t, <2>1, OpenAppendTyped DEF Open, TypeOK
  <2>3. Leaves
    BY <1>1, <1>t DEF Open, WillWrite, TypeOK
  <2> QED
    BY <1>s, <2>2, <2>3
<1>2. ASSUME NEW n \in 1..MaxLine, Write(b, n) PROVE Room(Growth(f)', Writers(f)', len')
  <2>1. file[b] \in Files /\ size[file[b]] \in Nat
    BY <1>2, <1>t, FileHeld DEF Write
  <2>2. Others /\ Still
    BY <1>2, <1>t DEF Write, TypeOK
  <2>3. CASE f = file[b] /\ WillWrite(b)'
    <3>1. /\ file'[b] = f /\ seen'[b] = size[f] /\ pc'[b] = "stat" /\ len'[b] \in 0..MaxLine
      BY <1>2, <1>t, <2>1, <2>3, LogAssumption DEF Write, TypeOK
    <3>2. ~(seen'[b] > 0 /\ seen'[b] + len'[b] > Limit)
      BY <2>3, <3>1 DEF WillWrite, Full
    <3>3. size[f] + len'[b] <= Larger(Limit, MaxLine)
      BY <2>1, <2>3, <3>1, <3>2, LogAssumption DEF Larger
    <3>4. Growth(f)' <= size[f] /\ Growth(f)' \in Int
      BY <2>2, <1>t, GrowthTyped DEF Growth
    <3>5. Growth(f)' + len'[b] <= Larger(Limit, MaxLine)
      BY <3>1, <3>3, <3>4, <2>1, <2>3, MostTyped
    <3> QED
      BY <1>t, <2>3, <3>1, <3>5, StepChecks
  <2>4. CASE ~WillWrite(b)'
    BY <1>s, <2>2, <2>4
  <2>5. CASE f # file[b]
    <3>1. file'[b] = file[b] /\ ~WillWrite(b)
      BY <1>2, <1>t DEF Write, WillWrite
    <3>2. Writers(f)' = Writers(f)
      <4>1. \A c \in Backends \ {b} : WillWrite(c)' = WillWrite(c)
        BY <2>2 DEF WillWrite, Full
      <4> QED
        BY <4>1, <3>1, <2>2, <2>5 DEF Writers
    <3>3. Growth(f)' = Growth(f)
      BY <2>2 DEF Growth
    <3>4. \A c \in Writers(f) : len'[c] = len[c]
      BY <3>1, <2>2 DEF Writers
    <3>5. len \in Lines /\ len' \in Lines /\ Writers(f) \in SUBSET Backends
      BY <1>t DEF Lines, TypeOK, Writers
    <3> QED
      BY <3>2, <3>3, <3>4, <3>5, <1>t, GrowthTyped, RoomLeft DEF Fits
  <2> QED
    BY <2>3, <2>4, <2>5
<1>3. CASE Stat(b)
  <2>1. Others /\ Still
    BY <1>3, <1>t DEF Stat, TypeOK
  <2>2. Leaves
    BY <1>3, <1>t DEF Stat, Decide, WillWrite, TypeOK
  <2> QED
    BY <1>s, <2>1, <2>2
<1>4. CASE Switch(b)
  <2>1. OpenAppend(b)
    BY <1>4 DEF Switch
  <2>2. Others /\ Still
    BY <1>4, <1>t, <2>1, OpenAppendTyped DEF Switch, TypeOK
  <2>3. Leaves
    BY <1>4, <1>t DEF Switch, WillWrite, TypeOK
  <2> QED
    BY <1>s, <2>2, <2>3
<1>5. CASE Measure(b)
  <2>1. file[b] \in Files /\ size[file[b]] \in Nat
    BY <1>5, <1>t, FileHeld DEF Measure
  <2>2. Others /\ Still /\ file' = file /\ len' = len
    BY <1>5, <1>t DEF Measure, TypeOK
  <2>3. CASE f = file[b] /\ ~Full(b, size[f])
    <3>1. pc'[b] \in {"write", "unlock"}
      BY <1>5, <1>t, <2>3 DEF Measure, Decide, TypeOK
    <3>2. size[f] + len[b] <= Larger(Limit, MaxLine)
      BY <2>1, <2>3, <1>t, HasRoom DEF TypeOK
    <3>3. Growth(f)' <= size[f] /\ Growth(f)' \in Int
      BY <2>2, <1>t, GrowthTyped DEF Growth
    <3>4. len'[b] \in Nat
      BY <2>2, <1>t, LogAssumption DEF TypeOK
    <3>5. Growth(f)' + len'[b] <= Larger(Limit, MaxLine)
      BY <2>2, <2>1, <2>3, <3>4, <3>2, <3>3, MostTyped
    <3> QED
      BY <1>t, <2>2, <2>3, <3>1, <3>5, StepChecks DEF WillWrite
  <2>4. CASE Full(b, size[file[b]])
    <3>1. ~WillWrite(b)'
      BY <1>5, <1>t, <2>4 DEF Measure, Decide, TypeOK, WillWrite
    <3> QED
      BY <1>s, <2>2, <3>1
  <2>5. CASE f # file[b]
    <3>1. Writers(f)' = Writers(f)
      <4>1. \A c \in Backends \ {b} : WillWrite(c)' = WillWrite(c)
        BY <2>2 DEF WillWrite, Full
      <4> QED
        BY <4>1, <2>2, <2>5 DEF Writers
    <3>2. Growth(f)' = Growth(f)
      BY <2>2 DEF Growth
    <3> QED
      BY <1>t, <2>2, <3>1, <3>2 DEF Fits
  <2> QED
    BY <2>3, <2>4, <2>5
<1>6. ~CheckFails(b) /\ ~RotateFails(b)
  BY DEF CheckFails, RotateFails
<1>7. CASE TryLock(b)
  <2>1. ~NoLock(b)
    BY DEF NoLock, Locks, SInv, RInv, Exclusive
  <2>2. CASE WouldBlock(b)
    <3>1. Others /\ Still /\ ~WillWrite(b)'
      BY <2>2, <1>t DEF WouldBlock, TypeOK, WillWrite
    <3> QED
      BY <3>1, <1>s
  <2>3. CASE TakeLock(b)
    <3>1. file[b] \in Files /\ size[file[b]] \in Nat
      BY <2>3, <1>t, FileHeld DEF TakeLock
    <3>2. Others /\ Still /\ file' = file /\ len' = len
      BY <2>3, <1>t DEF TakeLock, TypeOK
    <3>3. pc'[b] = "stat" /\ seen'[b] = size[file[b]]
      BY <2>3, <1>t DEF TakeLock, TypeOK
    <3>4. CASE ~Full(b, size[file[b]]) /\ f = file[b]
      <4>1. WillWrite(b)'
        BY <3>2, <3>3, <3>4 DEF WillWrite, Full
      <4>2. size[f] + len[b] <= Larger(Limit, MaxLine)
        BY <3>1, <3>4, <1>t, HasRoom DEF TypeOK
      <4>3. Growth(f)' <= size[f] /\ Growth(f)' \in Int
        BY <3>2, <1>t, GrowthTyped DEF Growth
      <4>4. len'[b] \in Nat
        BY <3>2, <1>t, LogAssumption DEF TypeOK
      <4>5. Growth(f)' + len'[b] <= Larger(Limit, MaxLine)
        BY <3>1, <3>2, <3>4, <4>2, <4>3, <4>4, MostTyped
      <4> QED
        BY <1>t, <3>2, <3>4, <4>1, <4>5, StepChecks
    <3>5. CASE Full(b, size[file[b]])
      <4>1. ~WillWrite(b)'
        BY <3>2, <3>3, <3>5 DEF WillWrite, Full
      <4> QED
        BY <1>s, <3>2, <4>1
    <3>6. CASE f # file[b]
      <4>1. Writers(f)' = Writers(f)
        <5>1. \A c \in Backends \ {b} : WillWrite(c)' = WillWrite(c)
          BY <3>2 DEF WillWrite, Full
        <5> QED
          BY <5>1, <3>2, <3>6 DEF Writers
      <4>2. Growth(f)' = Growth(f)
        BY <3>2 DEF Growth
      <4> QED
        BY <1>t, <3>2, <4>1, <4>2 DEF Fits
    <3> QED
      BY <3>4, <3>5, <3>6
  <2> QED
    BY <1>7, <2>1, <2>2, <2>3 DEF TryLock
<1>8. CASE Rename(b)
  <2>1. Others /\ Still /\ ~WillWrite(b)'
    BY <1>8, <1>t DEF Rename, TypeOK, WillWrite
  <2> QED
    BY <1>s, <2>1
<1>9. CASE Fresh(b)
  <2>1. OpenAppend(b) /\ pc[b] = "fresh"
    BY <1>9 DEF Fresh
  <2>2. Others /\ Still /\ file'[b] = at' /\ at' \in 1..made' /\ made' \in 0..MaxFiles
        /\ len' = len
    BY <1>9, <1>t, <2>1, OpenAppendTyped DEF Fresh, TypeOK
  <2>3. pc'[b] = "unlock"
    BY <1>9, <1>t, <2>1 DEF Fresh, Rotated, SInv, RInv, Exclusive, TypeOK
  <2>4. at' \in Files /\ Growth(at') <= 0
    <3>1. CASE at # 0
      BY <3>1, <2>1, <2>2, LogAssumption DEF OpenAppend, SInv, Fresher, Files
    <3>2. CASE at = 0
      <4>1. at' = made + 1 /\ at' \in Files
        BY <3>2, <2>1, <2>2, LogAssumption DEF OpenAppend, Files
      <4>2. size[at'] = 0 /\ during[at'] = 0
        BY <4>1, <1>t, LogAssumption DEF SInv, Unmade, TypeOK
      <4> QED
        BY <4>1, <4>2 DEF Growth
    <3> QED
      BY <3>1, <3>2
  <2>5. CASE f = at'
    <3>1. Growth(f)' <= 0 /\ Growth(f)' \in Int
      BY <2>2, <2>4, <2>5, <1>t, GrowthTyped DEF Growth
    <3>2. len'[b] \in 0..MaxLine
      BY <2>2, <1>t DEF TypeOK
    <3>3. Growth(f)' + len'[b] <= Larger(Limit, MaxLine)
      BY <3>1, <3>2, LogAssumption DEF Larger
    <3> QED
      BY <1>t, <2>2, <2>3, <2>5, <3>3, StepChecks DEF WillWrite
  <2>6. CASE f # at'
    <3>1. \A c \in Backends \ {b} : WillWrite(c)' = WillWrite(c)
      BY <2>2 DEF WillWrite, Full
    <3>2. Writers(f)' \in SUBSET Writers(f)
      BY <2>2, <2>6, <3>1 DEF Writers
    <3>3. Growth(f)' = Growth(f)
      BY <2>2 DEF Growth
    <3>4. len \in Lines /\ Writers(f) \in SUBSET Backends
      BY <1>t DEF Lines, TypeOK, Writers
    <3> QED
      BY <2>2, <3>2, <3>3, <3>4, <1>t, GrowthTyped, RoomLeft DEF Fits
  <2> QED
    BY <2>5, <2>6
<1>10. CASE Unlock(b)
  <2>1. Others /\ Still
    BY <1>10, <1>t DEF Unlock, TypeOK
  <2>2. Leaves
    BY <1>10, <1>t DEF Unlock, WillWrite, TypeOK
  <2> QED
    BY <1>s, <2>1, <2>2
<1>11. CASE WriteLine(b)
  <2>1. file[b] \in Files /\ len[b] \in Nat
    BY <1>11, <1>t, FileHeld, LogAssumption DEF WriteLine, TypeOK
  <2>2. Others /\ file' = file /\ ~WillWrite(b)'
    BY <1>11, <1>t DEF WriteLine, TypeOK, WillWrite
  <2>3. CASE f # file[b] \/ pc[b] = "aside"
    <3>1. Growth(f)' = Growth(f)
      BY <1>11, <1>t, <2>1, <2>3 DEF WriteLine, Growth, TypeOK
    <3>2. Growth(f)' <= Growth(f)
      BY <3>1, <1>t, GrowthTyped
    <3> QED
      BY <1>t, <2>2, <3>2, StepLeaves
  <2>4. CASE f = file[b] /\ pc[b] = "write"
    <3>1. Growth(f)' <= Growth(f) + len[b] /\ Growth(f) \in Int /\ Growth(f)' \in Int
      BY <1>11, <1>t, <2>1, <2>4 DEF WriteLine, Growth, TypeOK
    <3>2. \A c \in Backends \ {b} : WillWrite(c)' = WillWrite(c)
      BY <2>2 DEF WillWrite, Full
    <3>3. b \in Writers(f) /\ Writers(f)' = Writers(f) \ {b} /\ Writers(f) \in SUBSET Backends
      BY <2>2, <2>4, <3>2 DEF Writers, WillWrite
    <3>4. len \in Lines /\ len' \in Lines /\ \A x \in Writers(f) \ {b} : len'[x] = len[x]
      BY <1>t, <2>2 DEF Lines, TypeOK, Writers
    <3>5. Room(Growth(f), Writers(f), len)
      BY <1>t DEF Fits
    <3>6. Room(Growth(f)', Writers(f) \ {b}, len')
      BY <3>1, <3>3, <3>4, <3>5, RoomWritten
    <3> QED
      BY <3>3, <3>6
  <2> QED
    BY <1>11, <2>3, <2>4 DEF WriteLine
<1>12. CASE Crash(b)
  <2>1. Others /\ Still /\ ~WillWrite(b)'
    BY <1>12, <1>t DEF Crash, TypeOK, WillWrite
  <2> QED
    BY <1>s, <2>1
<1> QED
  BY <1>1, <1>2, <1>3, <1>4, <1>5, <1>6, <1>7, <1>8, <1>9, <1>10, <1>11, <1>12 DEF Step

(* Opening the file at path makes at most one file, which is empty.        *)
LEMMA StepFresh ==
    ASSUME SInv, TypeOK', NEW b \in Backends, Step(b)
    PROVE  Unmade' /\ Fresher'
<1> USE DEF diskVars, ownVars
<1>t. TypeOK /\ Unmade /\ Fresher /\ Exclusive
  BY DEF SInv, RInv
<1>1. CASE Open(b) \/ Switch(b) \/ Fresh(b)
  <2>1. OpenAppend(b) /\ size' = size /\ during' = during
    BY <1>1 DEF Open, Switch, Fresh, OpenAppend
  <2>2. made' \in Nat /\ made <= made' /\ made \in Nat
    BY <2>1, <1>t, OpenAppendTyped, LogAssumption DEF TypeOK
  <2>3. Unmade'
    BY <2>1, <2>2, <1>t DEF Unmade, Files
  <2>4. \A c \in Backends : pc'[c] = "fresh" => pc[c] = "fresh"
    BY <1>1, <1>t DEF Open, Switch, Fresh, TypeOK, Rotated
  <2>5. CASE at # 0
    <3>1. at' = at
      BY <2>1, <2>5 DEF OpenAppend
    <3>2. Fresher'
      BY <2>1, <2>4, <2>5, <3>1, <1>t DEF Fresher, Growth
    <3> QED
      BY <2>3, <3>2
  <2>6. CASE at = 0
    <3>1. at' = made + 1 /\ at' \in Files
      BY <2>1, <2>2, <2>6, LogAssumption DEF OpenAppend, Files
    <3>2. size[at'] = 0 /\ during[at'] = 0
      BY <3>1, <2>2, <1>t DEF Unmade
    <3> QED
      BY <2>1, <2>3, <3>2 DEF Fresher, Growth
  <2> QED
    BY <2>3, <2>5, <2>6
<1>2. CASE WriteLine(b)
  <2>1. file[b] \in Files /\ file[b] <= made /\ len[b] \in Nat /\ made \in Nat
    BY <1>2, <1>t, FileHeld, LogAssumption DEF WriteLine, TypeOK
  <2>2. Unmade'
    BY <1>2, <2>1, <1>t DEF WriteLine, Unmade, TypeOK, Files
  <2>3. ASSUME NEW c \in Backends, pc'[c] = "fresh", at' # 0 PROVE Growth(at)' <= 0
    <3>1. pc[c] = "fresh" /\ at' = at /\ at \in Files
      BY <1>2, <2>3, <1>t, LogAssumption DEF WriteLine, TypeOK, Files
    <3>2. holder # NoBackend
      BY <3>1, <1>t, LogAssumption DEF Exclusive
    <3>3. Growth(at)' = Growth(at)
      BY <1>2, <2>1, <3>1, <3>2, <1>t DEF WriteLine, Growth, TypeOK
    <3> QED
      BY <2>3, <3>1, <3>3, <1>t DEF Fresher
  <2> QED
    BY <2>2, <2>3 DEF Fresher
<1>3. CASE Rename(b)
  BY <1>3, <1>t DEF Rename, Unmade, Fresher, TypeOK
<1>4. ASSUME UNCHANGED diskVars, \A c \in Backends : pc'[c] = "fresh" => pc[c] = "fresh"
      PROVE Unmade' /\ Fresher'
  BY <1>4, <1>t DEF Unmade, Fresher, Growth
<1>5. ASSUME NEW n \in 1..MaxLine, Write(b, n) PROVE Unmade' /\ Fresher'
  BY <1>4, <1>5, <1>t DEF Write, TypeOK
<1>6. CASE Stat(b) \/ Measure(b) \/ CheckFails(b)
  BY <1>4, <1>6, <1>t DEF Stat, Measure, CheckFails, Decide, TypeOK
<1>7. CASE TryLock(b) \/ Unlock(b) \/ RotateFails(b) \/ Crash(b)
  BY <1>4, <1>7, <1>t
     DEF TryLock, TakeLock, WouldBlock, NoLock, Unlock, RotateFails, Rotated, Crash, TypeOK
<1> QED
  BY <1>1, <1>2, <1>3, <1>5, <1>6, <1>7 DEF Step

Reliable == Locks /\ "io" \notin scenario.faults

LEMMA NextFits == TypeOK /\ (Reliable => SInv) /\ [Next]_vars => (Reliable => SInv)'
<1> SUFFICES ASSUME TypeOK, Reliable => SInv, [Next]_vars, Reliable' PROVE SInv'
  OBVIOUS
<1>1. scenario' = scenario
  BY DEF Next, vars
<1>2. Locks /\ SInv /\ "io" \notin scenario.faults /\ Reliable
  BY <1>1 DEF Locks, Reliable
<1>3. TypeOK' /\ RInv'
  BY <1>1, <1>2, NextTyped, NextRotates DEF SInv, Locks
<1>4. CASE UNCHANGED vars
  <2>1. Fits'
    BY <1>2, <1>4 DEF vars, SInv, Fits, Room, Growth, Writers, WillWrite, Full
  <2> QED
    BY <1>2, <1>3, <1>4, <2>1 DEF vars, SInv, Unmade, Fresher, Growth
<1>5. ~Delete
  BY <1>2 DEF Delete, Locks
<1> QED
  BY <1>2, <1>3, <1>4, <1>5, StepFits, StepFresh DEF Next, SInv

(* Where the lock and the file system work, a file is over the limit by    *)
(* no more than a line of each other backend and what is written while a   *)
(* backend rotates.                                                        *)
THEOREM GrowthBounded == Spec => []SizeBounded
<1>1. Init => TypeOK /\ (Reliable => SInv)
  <2> SUFFICES ASSUME Init, Reliable PROVE SInv
    BY InitTyped
  <2>1. RInv
    BY InitTyped, LogAssumption DEF Init, RInv, Exclusive, Checked
  <2>2. Unmade /\ Fresher
    BY DEF Init, Unmade, Fresher
  <2>3. ASSUME NEW f \in Files PROVE Room(Growth(f), Writers(f), len)
    <3>1. Writers(f) = {} /\ Growth(f) = 0
      BY DEF Init, Writers, WillWrite, Growth
    <3>2. 0 <= Most
      <4> DEFINE n == Cardinality(Backends)
      <4>1. /\ n - 1 \in Int /\ 0 - 1 <= n - 1
            /\ MaxLine \in Nat /\ MaxLine <= Larger(Limit, MaxLine)
            /\ Larger(Limit, MaxLine) \in Nat
        BY MostTyped, LogAssumption DEF Larger
      <4>2. MaxLine * (0 - 1) <= MaxLine * (n - 1) /\ MaxLine * (n - 1) \in Int
        BY <4>1, Monotone
      <4>3. MaxLine * (0 - 1) = 0 - MaxLine /\ MaxLine * (n - 1) = (n - 1) * MaxLine
        BY <4>1
      <4> QED
        BY <4>1, <4>2, <4>3 DEF Most
    <3> QED
      BY <3>1, <3>2 DEF Room
  <2> QED
    BY <2>1, <2>2, <2>3 DEF SInv, Fits
<1>2. (Reliable => SInv) => SizeBounded
  BY DEF SInv, Fits, Room, Reliable, SizeBounded, Growth, Most
<1> QED
  BY <1>1, <1>2, NextTyped, NextFits, PTL DEF Spec
=============================================================================
