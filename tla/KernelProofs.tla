---------------------------- MODULE KernelProofs ----------------------------
(***************************************************************************)
(* Proofs about Kernel, for any kernels, ports, requests and bounds:       *)
(* types, that no launch and no kernel leaves its process or its files     *)
(* behind, that no reply is dropped, that no exit is reported falsely, and *)
(* that kernels are connected to their own processes.                      *)
(***************************************************************************)
EXTENDS Kernel, TLAPS

USE KernelAssumption

-----------------------------------------------------------------------------
(* Types.                                                                  *)

(* An element of a function is replaced by one of its range.               *)
LEMMA ExceptTyped ==
    ASSUME NEW S, NEW T, NEW f \in [S -> T], NEW x, NEW y \in T
    PROVE  [f EXCEPT ![x] = y] \in [S -> T]
  OBVIOUS

(* The ports of a process that ends are released.                          *)
LEMMA ReleasedTyped ==
    ASSUME TypeOK, NEW k \in Kernels
    PROVE  Released(k) \in [Ports -> Kernels \cup {Nobody, Foreign}]
  BY DEF TypeOK, Released

(* The tasks that the code queues.                                         *)
LEMMA TaskTyped ==
    /\ \A k \in Kernels : Task("install", k) \in Tasks /\ Task("pump", k) \in Tasks
    /\ \A r \in Requests : Task("complete", r) \in Tasks
    /\ \A n \in 1..MaxStops : Task("stop", n) \in Tasks
  BY DEF Task, Tasks

(* A task is queued behind the others.                                     *)
LEMMA AppendTyped ==
    ASSUME TypeOK, NEW t \in Tasks
    PROVE  Append(queue, t) \in Seq(Tasks)
  BY DEF TypeOK

(* The variables that a dropped kernel changes.                            *)
LEMMA DropTyped ==
    ASSUME TypeOK, NEW k \in Kernels, Drop(k)
    PROVE  /\ stage' \in [Kernels -> Stages]
           /\ alive' \in [Kernels -> BOOLEAN] /\ failed' \in [Kernels -> BOOLEAN]
           /\ file' \in [Kernels -> {"none", "blank", "written"}]
           /\ holder' \in [Ports -> Kernels \cup {Nobody, Foreign}]
           /\ bound' \in [Kernels -> SUBSET Ports]
           /\ port' \in [Kernels -> SUBSET Ports]
           /\ tries' \in [Kernels -> 1..MaxTries]
           /\ peer' \in [Kernels -> Kernels \cup {Nobody}]
<1>1. holder' \in [Ports -> Kernels \cup {Nobody, Foreign}]
  BY ReleasedTyped DEF Drop
<1>2. tries' \in [Kernels -> 1..MaxTries]
  <2>1. 1 \in 1..MaxTries
    BY DEF KernelAssumption
  <2> QED BY <2>1, ExceptTyped DEF TypeOK, Drop, Forgotten
<1>3. /\ bound' \in [Kernels -> SUBSET Ports]
      /\ port' \in [Kernels -> SUBSET Ports]
      /\ peer' \in [Kernels -> Kernels \cup {Nobody}]
  BY ExceptTyped DEF TypeOK, Drop, Forgotten
<1>4. /\ stage' \in [Kernels -> Stages]
      /\ alive' \in [Kernels -> BOOLEAN] /\ failed' \in [Kernels -> BOOLEAN]
      /\ file' \in [Kernels -> {"none", "blank", "written"}]
  BY DEF TypeOK, Drop, Forgotten, Stages
<1> QED BY <1>1, <1>2, <1>3, <1>4

(* Every step leaves every variable in its type.                           *)
LEMMA TypeStep == TypeOK /\ [Next]_vars => TypeOK'
<1> SUFFICES ASSUME TypeOK, [Next]_vars PROVE TypeOK'
  OBVIOUS
<1>1. CASE Process
  <2> stage' = stage /\ UNCHANGED <<port, tries, peer, killed, watch, pump, queue, request, stops>>
    BY <1>1 DEF Process, launchVars, taskVars, lockVars
  <2>1. ASSUME NEW k \in Kernels, Dies(k) PROVE TypeOK'
    <3>1. holder' \in [Ports -> Kernels \cup {Nobody, Foreign}]
      BY <2>1, ReleasedTyped DEF Dies
    <3> QED BY <2>1, <3>1 DEF Dies, TypeOK
  <2>2. ASSUME NEW k \in Kernels, BindOwn(k) PROVE TypeOK'
    <3>1. PICK p \in Ports : /\ holder' = [holder EXCEPT ![p] = k]
                             /\ bound' = [bound EXCEPT ![k] = {p}]
      BY <2>2 DEF BindOwn
    <3>2. holder' \in [Ports -> Kernels \cup {Nobody, Foreign}]
      BY <3>1, ExceptTyped DEF TypeOK
    <3>3. bound' \in [Kernels -> SUBSET Ports]
      BY <3>1, ExceptTyped DEF TypeOK
    <3> QED BY <2>2, <3>2, <3>3 DEF BindOwn, TypeOK
  <2>3. ASSUME NEW k \in Kernels, Rewrite(k) PROVE TypeOK'
    BY <2>3 DEF Rewrite, TypeOK
  <2>4. ASSUME NEW k \in Kernels, BindPicked(k) PROVE TypeOK'
    <3>1. CASE Dies(k)
      BY <2>1, <3>1
    <3>2. CASE \E p \in port[k] : /\ holder' = [holder EXCEPT ![p] = k]
                                  /\ UNCHANGED <<alive, failed, file, bound>>
      <4>1. holder' \in [Ports -> Kernels \cup {Nobody, Foreign}]
        BY <3>2, ExceptTyped DEF TypeOK
      <4> QED BY <3>2, <4>1 DEF TypeOK
    <3> QED BY <2>4, <3>1, <3>2 DEF BindPicked
  <2>5. ASSUME NEW k \in Kernels, ExitsByItself(k) PROVE TypeOK'
    BY <2>1, <2>5 DEF ExitsByItself
  <2>6. ASSUME NEW p \in Ports, OtherProgram(p) PROVE TypeOK'
    BY <2>6 DEF OtherProgram, TypeOK
  <2> QED BY <1>1, <2>2, <2>3, <2>4, <2>5, <2>6 DEF Process
<1>2. ASSUME NEW k \in Kernels, KernelTasks(k) PROVE TypeOK'
  <2>1. CASE Launch(k)
    <3>1. port' \in [Kernels -> SUBSET Ports]
      <4>1. CASE UNCHANGED port
        BY <4>1 DEF TypeOK
      <4>2. CASE port' \in {[port EXCEPT ![k] = set] : set \in Picked(k)}
        <5>1. Picked(k) \subseteq SUBSET Ports
          BY DEF Picked
        <5>2. PICK set \in Picked(k) : port' = [port EXCEPT ![k] = set]
          BY <4>2
        <5> QED BY <5>1, <5>2, ExceptTyped DEF TypeOK
      <4> QED BY <2>1, <4>1, <4>2 DEF Launch
    <3>2. stage' \in [Kernels -> Stages]
      <4>1. PICK s \in Stages : stage' = [stage EXCEPT ![k] = s]
        BY <2>1 DEF Launch, Stages, Launching
      <4> QED BY <4>1, ExceptTyped DEF TypeOK
    <3>3. /\ alive' \in [Kernels -> BOOLEAN]
          /\ file' \in [Kernels -> {"none", "blank", "written"}]
      <4>1. /\ alive' = [alive EXCEPT ![k] = TRUE] \/ UNCHANGED alive
            /\ file' = [file EXCEPT ![k] = "blank"] \/ UNCHANGED file
        BY <2>1 DEF Launch
      <4> QED BY <4>1 DEF TypeOK
    <3>4. UNCHANGED <<failed, holder, bound, tries, peer, killed, watch, pump,
                      queue, request, stops>>
      BY <2>1 DEF Launch, taskVars, lockVars
    <3> QED BY <3>1, <3>2, <3>3, <3>4 DEF TypeOK
  <2>2. CASE ReadBoundPorts(k)
    BY <2>2 DEF ReadBoundPorts, procVars, taskVars, lockVars, TypeOK, Stages, Launching
  <2>3. CASE ConnectSockets(k)
    <3>1. ASSUME NEW j \in Kernels, Connected(k, j) PROVE TypeOK'
      <4>1. queue' \in Seq(Tasks)
        BY <3>1, AppendTyped, TaskTyped DEF Connected
      <4>2. peer' \in [Kernels -> Kernels \cup {Nobody}]
        BY <3>1, ExceptTyped DEF Connected, TypeOK
      <4> QED BY <2>3, <3>1, <4>1, <4>2
              DEF ConnectSockets, Connected, procVars, TypeOK, Stages
    <3>2. ASSUME TryAgain(k), UNCHANGED <<watch, queue>> PROVE TypeOK'
      <4>1. CASE Drop(k)
        BY <2>3, <3>2, <4>1, DropTyped DEF ConnectSockets, TypeOK
      <4>2. CASE tries[k] < MaxTries
        <5>1. tries[k] \in 1..MaxTries
          BY DEF TypeOK
        <5>2. tries[k] + 1 \in 1..MaxTries
          BY <4>2, <5>1 DEF KernelAssumption
        <5>3. tries' \in [Kernels -> 1..MaxTries]
          BY <3>2, <4>2, <5>2, ExceptTyped DEF TryAgain, TypeOK
        <5> QED BY <2>3, <3>2, <4>2, <5>3 DEF ConnectSockets, TryAgain, procVars, TypeOK
      <4> QED BY <3>2, <4>1, <4>2 DEF TryAgain
    <3> QED BY <2>3, <3>1, <3>2 DEF ConnectSockets
  <2>4. CASE ExitedDuringStartup(k)
    BY <2>4, DropTyped DEF ExitedDuringStartup, taskVars, lockVars, TypeOK
  <2>5. CASE StartupTimeout(k)
    BY <2>5, DropTyped DEF StartupTimeout, taskVars, lockVars, TypeOK
  <2>6. CASE Installed(k)
    BY <2>6 DEF Installed, procVars, launchVars, lockVars, TypeOK, Stages
  <2>7. CASE Kill(k)
    BY <2>7, ReleasedTyped DEF Kill, launchVars, lockVars, TypeOK
  <2>8. CASE DropKilled(k)
    <3>1. pump' \in [Kernels -> {"off", "on", "waiting", "killing", "reported", "done"}]
      BY <2>8 DEF DropKilled, TypeOK
    <3> QED BY <2>8, <3>1, DropTyped DEF DropKilled, lockVars, TypeOK
  <2>9. CASE WatchSees(k)
    BY <2>9 DEF WatchSees, procVars, launchVars, lockVars, TypeOK
  <2>10. CASE WatchReports(k)
    <3>1. watch' \in [Kernels -> {"off", "polling", "exited", "sent", "done"}]
      BY <2>10 DEF WatchReports, TypeOK
    <3> QED BY <2>10, <3>1 DEF WatchReports, procVars, launchVars, lockVars, TypeOK
  <2>11. CASE PumpReceives(k)
    <3>1. queue' \in Seq(Tasks)
      BY <2>11, AppendTyped, TaskTyped DEF PumpReceives
    <3> QED BY <2>11, <3>1 DEF PumpReceives, procVars, launchVars, TypeOK
  <2> QED BY <1>2, <2>1, <2>2, <2>3, <2>4, <2>5, <2>6, <2>7, <2>8, <2>9, <2>10, <2>11
        DEF KernelTasks
<1>3. CASE Enter
  <2> DEFINE t == Head(queue)
  <2>1. queue' \in Seq(Tasks)
    BY <1>3 DEF Enter, TypeOK
  <2> UNCHANGED <<alive, failed, file, holder, bound, port, tries, peer, killed, watch, stops>>
    BY <1>3 DEF Enter, procVars, launchVars
  <2>2. CASE Install(t.id)
    <3>1. stage' \in [Kernels -> Stages]
      BY <2>2 DEF Install, TypeOK, Stages
    <3>2. pump' \in [Kernels -> {"off", "on", "waiting", "killing", "reported", "done"}]
      BY <2>2 DEF Install, TypeOK
    <3> QED BY <2>1, <2>2, <3>1, <3>2 DEF Install, TypeOK
  <2>3. CASE Take
    <3>1. stage' \in [Kernels -> Stages]
      BY <2>3 DEF Take, TypeOK, Stages
    <3> QED BY <2>1, <2>3, <3>1 DEF Take, TypeOK
  <2>4. CASE PumpTakes(t.id)
    <3>1. stage' \in [Kernels -> Stages]
      BY <2>4 DEF PumpTakes, TypeOK, Stages
    <3>2. pump' \in [Kernels -> {"off", "on", "waiting", "killing", "reported", "done"}]
      BY <2>4 DEF PumpTakes, TypeOK
    <3> QED BY <2>1, <2>4, <3>1, <3>2 DEF PumpTakes, TypeOK
  <2>5. CASE Ask(t.id)
    <3> DEFINE Answer == IF Slot = {} THEN [st |-> "failed", to |-> Nobody]
                         ELSE [st |-> "waiting", to |-> CHOOSE k \in Slot : TRUE]
               Values == [st : {"none", "queued", "waiting", "answered", "failed"},
                          to : Kernels \cup {Nobody}]
    <3>1. Slot # {} => (CHOOSE k \in Slot : TRUE) \in Kernels
      BY DEF Slot
    <3>2. Answer \in Values
      BY <3>1
    <3>3. request' = [request EXCEPT ![t.id] = Answer] /\ UNCHANGED <<stage, pump>>
      BY <2>5 DEF Ask
    <3>4. request' \in [Requests -> Values]
      <4> HIDE DEF Answer, Values
      <4>1. request \in [Requests -> Values]
        BY DEF TypeOK, Values
      <4> QED BY <3>2, <3>3, <4>1, ExceptTyped
    <3> QED BY <2>1, <3>3, <3>4 DEF TypeOK
  <2> QED BY <1>3, <2>2, <2>3, <2>4, <2>5 DEF Enter
<1>4. ASSUME NEW r \in Requests, Complete(r) PROVE TypeOK'
  <2> DEFINE Values == [st : {"none", "queued", "waiting", "answered", "failed"},
                        to : Kernels \cup {Nobody}]
             Queued == [request[r] EXCEPT !.st = "queued"]
  <2>1. queue' \in Seq(Tasks)
    BY <1>4, AppendTyped, TaskTyped DEF Complete
  <2>2. Queued \in Values
    <3>1. request[r] \in Values
      BY DEF TypeOK
    <3>2. ASSUME NEW q \in Values PROVE [q EXCEPT !.st = "queued"] \in Values
      OBVIOUS
    <3> HIDE DEF Values
    <3> QED BY <3>1, <3>2
  <2>3. request' = [request EXCEPT ![r] = Queued]
    BY <1>4 DEF Complete
  <2>4. request' \in [Requests -> Values]
    <3> HIDE DEF Queued, Values
    <3>1. request \in [Requests -> Values]
      BY DEF TypeOK, Values
    <3> QED BY <2>2, <2>3, <3>1, ExceptTyped
  <2> QED BY <1>4, <2>1, <2>4 DEF Complete, procVars, launchVars, taskVars, TypeOK
<1>5. ASSUME NEW r \in Requests, ReplyReceived(r) PROVE TypeOK'
  BY <1>5 DEF ReplyReceived, procVars, launchVars, taskVars, TypeOK
<1>6. ASSUME NEW r \in Requests, RequestTimesOut(r) PROVE TypeOK'
  BY <1>6 DEF RequestTimesOut, procVars, launchVars, taskVars, TypeOK
<1>7. CASE StopKernel
  <2>1. stops' \in 1..MaxStops
    BY <1>7 DEF StopKernel, TypeOK, KernelAssumption
  <2>2. queue' \in Seq(Tasks)
    BY <1>7, <2>1, AppendTyped, TaskTyped DEF StopKernel
  <2> QED BY <1>7, <2>1, <2>2 DEF StopKernel, procVars, launchVars, taskVars, TypeOK
<1>8. CASE UNCHANGED vars
  BY <1>8 DEF vars, procVars, launchVars, taskVars, lockVars, TypeOK
<1> QED BY <1>1, <1>2, <1>3, <1>4, <1>5, <1>6, <1>7, <1>8 DEF Next

(* Every variable always has its type.                                     *)
THEOREM KernelTypeCorrect == Spec => []TypeOK
<1>1. Init => TypeOK
  BY DEF Init, TypeOK, Stages, Launching, KernelAssumption
<1> QED BY <1>1, TypeStep, PTL DEF Spec

-----------------------------------------------------------------------------
(* What a launch or a kernel leaves behind.                                *)

(* A kernel that does not exist, or not any more, has nothing.             *)
Nothing(k) == ~alive[k] /\ Held(k) = {} /\ file[k] = "none"
Owned == \A k \in Kernels : stage[k] \in {"none", "gone"} => Nothing(k)

(* A kernel that waits in the slot's lock for its predecessor to end has   *)
(* emptied the slot, and no other does: without this the slot could be     *)
(* filled twice.                                                           *)
OneOwner ==
    \A j, k \in Kernels :
        stage[j] \in {"slot", "installing"} /\ stage[k] \in {"slot", "installing"} => j = k

(* No kernel gains a port when another one ends.                           *)
LEMMA ReleasedHeld ==
    ASSUME TypeOK, NEW k \in Kernels, holder' = Released(k)
    PROVE  /\ Held(k)' = {}
           /\ \A q \in Kernels : Held(q)' \subseteq Held(q)
  BY DEF TypeOK, Released, Held, KernelAssumption

(* A dropped kernel has nothing, and nothing is taken from or given to the *)
(* others.                                                                 *)
LEMMA DropOwned ==
    ASSUME TypeOK, Owned, NEW k \in Kernels, Drop(k)
    PROVE  Owned'
<1>1. Nothing(k)'
  BY ReleasedHeld DEF Drop, Forgotten, Nothing, TypeOK
<1>2. ASSUME NEW q \in Kernels \ {k} PROVE
        /\ stage'[q] = stage[q] /\ alive'[q] = alive[q] /\ file'[q] = file[q]
        /\ Held(q)' \subseteq Held(q)
  BY ReleasedHeld DEF Drop, Forgotten, TypeOK
<1> QED BY <1>1, <1>2 DEF Owned, Nothing

(* Every step keeps it so.                                                 *)
LEMMA OwnedStep == TypeOK /\ Owned /\ [Next]_vars => Owned'
<1> SUFFICES ASSUME TypeOK, Owned, [Next]_vars PROVE Owned'
  OBVIOUS
<1>1. ASSUME NEW k \in Kernels, alive[k] PROVE stage[k] \notin {"none", "gone"}
  BY <1>1 DEF Owned, Nothing
<1>2. ASSUME UNCHANGED <<alive, file, holder>>,
             \A k \in Kernels : stage'[k] \in {"none", "gone"} => stage[k] = stage'[k]
      PROVE  Owned'
  BY <1>2 DEF Owned, Nothing, Held
<1>3. CASE Process
  <2> UNCHANGED stage
    BY <1>3 DEF Process
  <2>1. ASSUME NEW k \in Kernels, Dies(k) PROVE Owned'
    <3>1. \A q \in Kernels : Held(q)' \subseteq Held(q) /\ (~alive[q] => ~alive'[q])
      BY <2>1, ReleasedHeld DEF Dies, TypeOK
    <3> QED BY <2>1, <3>1 DEF Dies, Owned, Nothing
  <2>2. ASSUME NEW k \in Kernels, alive[k], NEW p \in Ports,
               holder' = [holder EXCEPT ![p] = k], UNCHANGED <<alive, file>>
        PROVE  Owned'
    <3>1. \A q \in Kernels \ {k} : Held(q)' \subseteq Held(q)
      BY <2>2 DEF Held, TypeOK
    <3> QED BY <1>1, <2>2, <3>1 DEF Owned, Nothing
  <2>3. ASSUME NEW k \in Kernels, BindOwn(k) PROVE Owned'
    BY <2>2, <2>3 DEF BindOwn
  <2>4. ASSUME NEW k \in Kernels, Rewrite(k) PROVE Owned'
    <3>1. \A q \in Kernels \ {k} : file'[q] = file[q]
      BY <2>4 DEF Rewrite, TypeOK
    <3>2. UNCHANGED <<alive, holder>> /\ alive[k]
      BY <2>4 DEF Rewrite
    <3> QED BY <1>1, <3>1, <3>2 DEF Owned, Nothing, Held
  <2>5. ASSUME NEW k \in Kernels, BindPicked(k) PROVE Owned'
    <3>1. PICK p \in port[k] :
            IF holder[p] = Nobody
            THEN holder' = [holder EXCEPT ![p] = k] /\ UNCHANGED <<alive, failed, file, bound>>
            ELSE Dies(k)
      BY <2>5 DEF BindPicked
    <3>2. p \in Ports
      BY <3>1 DEF TypeOK
    <3>3. alive[k]
      BY <2>5 DEF BindPicked
    <3> QED BY <2>1, <2>2, <3>1, <3>2, <3>3
  <2>6. ASSUME NEW k \in Kernels, ExitsByItself(k) PROVE Owned'
    BY <2>1, <2>6 DEF ExitsByItself
  <2>7. ASSUME NEW p \in Ports, OtherProgram(p) PROVE Owned'
    <3>1. \A q \in Kernels : Held(q)' \subseteq Held(q)
      BY <2>7 DEF OtherProgram, Held, TypeOK, KernelAssumption
    <3> QED BY <2>7, <3>1 DEF OtherProgram, Owned, Nothing
  <2> QED BY <1>3, <2>3, <2>4, <2>5, <2>6, <2>7 DEF Process
<1>4. ASSUME NEW k \in Kernels, KernelTasks(k) PROVE Owned'
  <2>1. CASE Launch(k)
    <3>1. stage'[k] # "none" /\ \A q \in Kernels \ {k} :
            stage'[q] = stage[q] /\ alive'[q] = alive[q] /\ file'[q] = file[q]
      BY <2>1 DEF Launch, TypeOK
    <3>2. stage'[k] = "gone" => alive'[k] = alive[k] /\ file'[k] = file[k]
      BY <2>1 DEF Launch, TypeOK
    <3>3. UNCHANGED holder /\ stage[k] = "none"
      BY <2>1 DEF Launch
    <3> QED BY <3>1, <3>2, <3>3 DEF Owned, Nothing, Held
  <2>2. CASE ReadBoundPorts(k)
    BY <1>2, <2>2 DEF ReadBoundPorts, procVars, TypeOK
  <2>3. CASE ConnectSockets(k)
    <3>1. ASSUME NEW j, Connected(k, j) PROVE Owned'
      BY <1>2, <3>1 DEF Connected, procVars, TypeOK
    <3>2. ASSUME TryAgain(k) PROVE Owned'
      BY <1>2, <3>2, DropOwned DEF TryAgain, procVars
    <3> QED BY <2>3, <3>1, <3>2 DEF ConnectSockets
  <2>4. CASE ExitedDuringStartup(k) \/ StartupTimeout(k) \/ DropKilled(k)
    BY <2>4, DropOwned DEF ExitedDuringStartup, StartupTimeout, DropKilled
  <2>5. CASE Installed(k)
    BY <1>2, <2>5 DEF Installed, procVars, TypeOK
  <2>6. CASE Kill(k)
    <3>1. \A q \in Kernels : Held(q)' \subseteq Held(q) /\ (~alive[q] => ~alive'[q])
      BY <2>6, ReleasedHeld DEF Kill, TypeOK
    <3> QED BY <2>6, <3>1 DEF Kill, Owned, Nothing
  <2>7. CASE WatchSees(k) \/ WatchReports(k) \/ PumpReceives(k)
    BY <1>2, <2>7 DEF WatchSees, WatchReports, PumpReceives, procVars
  <2> QED BY <1>4, <2>1, <2>2, <2>3, <2>4, <2>5, <2>6, <2>7 DEF KernelTasks
<1>5. CASE Enter
  <2>1. UNCHANGED <<alive, file, holder>>
    BY <1>5 DEF Enter, procVars
  <2>2. ASSUME NEW k \in Kernels, stage'[k] \in {"none", "gone"} PROVE stage[k] = stage'[k]
    <3>1. CASE Install(Head(queue).id)
      BY <2>2, <3>1 DEF Install
    <3>2. CASE Take
      BY <2>2, <3>2 DEF Take
    <3>3. CASE PumpTakes(Head(queue).id)
      BY <2>2, <3>3 DEF PumpTakes, TypeOK
    <3>4. CASE Ask(Head(queue).id)
      BY <3>4 DEF Ask
    <3> QED BY <1>5, <3>1, <3>2, <3>3, <3>4 DEF Enter
  <2> QED BY <1>2, <2>1, <2>2
<1>6. CASE \/ \E r \in Requests : Complete(r) \/ ReplyReceived(r) \/ RequestTimesOut(r)
           \/ StopKernel \/ UNCHANGED vars
  BY <1>2, <1>6 DEF Complete, ReplyReceived, RequestTimesOut, StopKernel, vars, procVars
<1> QED BY <1>3, <1>4, <1>5, <1>6 DEF Next

(* A kernel enters the slot only by an installation.                       *)
LEMMA OneOwnerStep == TypeOK /\ OneOwner /\ [Next]_vars => OneOwner'
<1> DEFINE Owner(k) == stage[k] \in {"slot", "installing"}
<1> SUFFICES ASSUME TypeOK, OneOwner, [Next]_vars PROVE OneOwner'
  OBVIOUS
<1>1. ASSUME \A k \in Kernels : Owner(k)' => Owner(k) PROVE OneOwner'
  BY <1>1 DEF OneOwner
<1>2. CASE Process
  BY <1>1, <1>2 DEF Process
<1>3. ASSUME NEW k \in Kernels, KernelTasks(k) PROVE OneOwner'
  <2>1. ASSUME Drop(k) PROVE OneOwner'
    BY <1>1, <2>1 DEF Drop, Forgotten, TypeOK
  <2>2. CASE Launch(k)
    <3>1. PICK s \in {"reading", "connecting", "gone"} : stage' = [stage EXCEPT ![k] = s]
      BY <2>2 DEF Launch
    <3> QED BY <1>1, <3>1 DEF TypeOK
  <2>3. CASE ReadBoundPorts(k)
    BY <1>1, <2>3 DEF ReadBoundPorts, TypeOK
  <2>4. CASE ConnectSockets(k)
    <3>1. ASSUME NEW j, Connected(k, j) PROVE OneOwner'
      BY <1>1, <3>1 DEF Connected, TypeOK
    <3>2. ASSUME TryAgain(k) PROVE OneOwner'
      BY <1>1, <2>1, <3>2 DEF TryAgain
    <3> QED BY <2>4, <3>1, <3>2 DEF ConnectSockets
  <2>5. CASE ExitedDuringStartup(k) \/ StartupTimeout(k) \/ DropKilled(k)
    BY <2>1, <2>5 DEF ExitedDuringStartup, StartupTimeout, DropKilled
  <2>6. CASE Installed(k)
    BY <1>1, <2>6 DEF Installed, TypeOK
  <2>7. CASE Kill(k) \/ WatchSees(k) \/ WatchReports(k) \/ PumpReceives(k)
    BY <1>1, <2>7 DEF Kill, WatchSees, WatchReports, PumpReceives
  <2> QED BY <1>3, <2>2, <2>3, <2>4, <2>5, <2>6, <2>7 DEF KernelTasks
<1>4. CASE Enter
  <2> DEFINE t == Head(queue)
  <2>1. CASE MayWrite /\ Install(t.id)
    <3>1. \A j \in Kernels : Owner(j)' => j = t.id \/ (j \notin Slot /\ Owner(j))
      BY <2>1 DEF Install
    <3>2. \A j \in Kernels : Owner(j) => j \in Slot
      BY <2>1 DEF MayWrite, InstallingNow, Slot
    <3> QED BY <3>1, <3>2 DEF OneOwner
  <2>2. CASE Take
    BY <1>1, <2>2 DEF Take
  <2>3. CASE PumpTakes(t.id)
    BY <1>1, <2>3 DEF PumpTakes, TypeOK
  <2>4. CASE Ask(t.id)
    BY <1>1, <2>4 DEF Ask
  <2> QED BY <1>4, <2>1, <2>2, <2>3, <2>4 DEF Enter
<1>5. CASE \/ \E r \in Requests : Complete(r) \/ ReplyReceived(r) \/ RequestTimesOut(r)
           \/ StopKernel \/ UNCHANGED vars
  BY <1>1, <1>5 DEF Complete, ReplyReceived, RequestTimesOut, StopKernel, vars
<1> QED BY <1>2, <1>3, <1>4, <1>5 DEF Next

(* A process, its port and its connection file never outlive the launch or *)
(* the kernel that owns them, and the slot is of one kernel (kill_on_drop, *)
(* ConnectionFile::drop, and the installation of start_kernel).            *)
THEOREM KernelLeavesNothing == Spec => []NothingLeft
<1>1. Init => TypeOK /\ Owned /\ OneOwner
  BY DEF Init, TypeOK, Stages, Launching, Owned, OneOwner, Nothing, Held, KernelAssumption
<1>2. Owned /\ OneOwner => NothingLeft
  BY DEF Owned, OneOwner, Nothing, NothingLeft, Slot
<1> QED BY <1>1, <1>2, TypeStep, OwnedStep, OneOwnerStep, PTL DEF Spec

-----------------------------------------------------------------------------
(* Requests that wait for a reply.                                         *)

(* They are with the kernel in the slot.                                   *)
Asked == \A r \in Requests : Waiting(r) => request[r].to \in Slot

(* The slot is read-locked while a request waits.                          *)
LEMMA AskedStep == TypeOK /\ Asked /\ [Next]_vars => Asked'
<1> SUFFICES ASSUME TypeOK, Asked, [Next]_vars PROVE Asked'
  OBVIOUS
<1>1. ASSUME UNCHANGED request, Slot \subseteq Slot' PROVE Asked'
  BY <1>1 DEF Asked, Waiting
<1>2. CASE Process
  BY <1>1, <1>2 DEF Process, lockVars, Slot
<1>3. ASSUME NEW k \in Kernels, KernelTasks(k) PROVE Asked'
  <2>1. ASSUME NEW s, stage[k] # "slot", stage' = [stage EXCEPT ![k] = s], UNCHANGED request
        PROVE  Asked'
    BY <1>1, <2>1 DEF Slot, TypeOK
  <2>2. CASE Launch(k)
    <3>1. PICK s : stage' = [stage EXCEPT ![k] = s]
      BY <2>2 DEF Launch
    <3> QED BY <2>1, <2>2, <3>1 DEF Launch, lockVars
  <2>3. CASE ReadBoundPorts(k)
    BY <2>1, <2>3 DEF ReadBoundPorts, lockVars
  <2>4. CASE ConnectSockets(k)
    <3>1. UNCHANGED request /\ stage[k] # "slot"
      BY <2>4 DEF ConnectSockets
    <3>2. UNCHANGED stage \/ \E s : stage' = [stage EXCEPT ![k] = s]
      <4>1. ASSUME NEW j, Connected(k, j) PROVE stage' = [stage EXCEPT ![k] = "ready"]
        BY <4>1 DEF Connected
      <4>2. ASSUME TryAgain(k) PROVE UNCHANGED stage \/ stage' = [stage EXCEPT ![k] = "gone"]
        BY <4>2 DEF TryAgain, Drop, Forgotten
      <4> QED BY <2>4, <4>1, <4>2 DEF ConnectSockets
    <3> QED BY <1>1, <2>1, <3>1, <3>2 DEF Slot
  <2>5. CASE ExitedDuringStartup(k) \/ StartupTimeout(k) \/ DropKilled(k)
    BY <2>1, <2>5 DEF ExitedDuringStartup, StartupTimeout, DropKilled, Doomed, Launching,
                      Drop, Forgotten, lockVars
  <2>6. CASE Installed(k)
    BY <2>1, <2>6 DEF Installed, lockVars
  <2>7. CASE Kill(k) \/ WatchSees(k) \/ WatchReports(k) \/ PumpReceives(k)
    BY <1>1, <2>7 DEF Kill, WatchSees, WatchReports, PumpReceives, lockVars, Slot
  <2> QED BY <1>3, <2>2, <2>3, <2>4, <2>5, <2>6, <2>7 DEF KernelTasks
<1>4. CASE Enter
  <2> DEFINE t == Head(queue)
  <2>1. CASE MayWrite /\ UNCHANGED request
    BY <2>1 DEF MayWrite, Asked, Waiting
  <2>2. CASE Ask(t.id)
    <3>1. Slot # {} => (CHOOSE k \in Slot : TRUE) \in Slot
      OBVIOUS
    <3>2. Slot' = Slot
      BY <2>2 DEF Ask, Slot
    <3>3. ASSUME NEW r \in Requests, Waiting(r)' PROVE request'[r].to \in Slot
      <4>1. CASE r = t.id
        <5>1. request'[r] = IF Slot = {} THEN [st |-> "failed", to |-> Nobody]
                            ELSE [st |-> "waiting", to |-> CHOOSE k \in Slot : TRUE]
          BY <2>2, <4>1 DEF Ask, TypeOK
        <5> QED BY <3>1, <3>3, <5>1 DEF Waiting
      <4>2. CASE r # t.id
        <5>1. request'[r] = request[r]
          BY <2>2, <4>2 DEF Ask, TypeOK
        <5> QED BY <3>3, <5>1 DEF Asked, Waiting
      <4> QED BY <4>1, <4>2
    <3> QED BY <3>2, <3>3 DEF Asked
  <2> QED BY <1>4, <2>1, <2>2 DEF Enter, Install, Take, PumpTakes
<1>5. ASSUME NEW r \in Requests, NEW q, q.st # "waiting", UNCHANGED stage,
             request' = [request EXCEPT ![r] = q]
      PROVE  Asked'
  BY <1>5 DEF Asked, Waiting, Slot, TypeOK
<1>6. ASSUME NEW r \in Requests, Complete(r) PROVE Asked'
  <2>1. [request[r] EXCEPT !.st = "queued"].st = "queued"
    <3>1. request[r] \in [st : {"none", "queued", "waiting", "answered", "failed"},
                          to : Kernels \cup {Nobody}]
      BY DEF TypeOK
    <3> QED BY <3>1
  <2>2. request' = [request EXCEPT ![r] = [request[r] EXCEPT !.st = "queued"]]
    BY <1>6 DEF Complete
  <2> QED BY <1>5, <1>6, <2>1, <2>2 DEF Complete
<1>7. ASSUME NEW r \in Requests, ReplyReceived(r) \/ RequestTimesOut(r) PROVE Asked'
  BY <1>5, <1>7 DEF ReplyReceived, RequestTimesOut
<1>8. CASE StopKernel \/ UNCHANGED vars
  BY <1>1, <1>8 DEF StopKernel, vars, lockVars, Slot
<1> QED BY <1>2, <1>3, <1>4, <1>6, <1>7, <1>8 DEF Next

(* No kernel leaves the slot while complete or inspect wait for its reply, *)
(* so none of them ends because its oneshot was dropped (shell_request).   *)
THEOREM KernelKeepsReplies == Spec => []ReplyNotDropped
<1>1. Init => TypeOK /\ Asked
  BY DEF Init, TypeOK, Stages, Launching, Asked, Waiting, KernelAssumption
<1>2. Asked => ReplyNotDropped
  BY DEF Asked, ReplyNotDropped, Slot
<1> QED BY <1>1, <1>2, TypeStep, AskedStep, PTL DEF Spec

-----------------------------------------------------------------------------
(* Exits that are reported.                                                *)

Ended(k) == failed[k] \/ killed[k]
Queued(op, k) == \E i \in 1..Len(queue) : queue[i] = Task(op, k)

(* A kernel whose process does not run was killed through Kernel::kill, or *)
(* ended by itself; whoever has seen the exit of a process that nobody     *)
(* killed has it from one that ended by itself.                            *)
Reported(k) ==
    /\ stage[k] \notin {"none", "gone"} => alive[k] \/ Ended(k)
    /\ Queued("install", k) =>
           stage[k] \notin {"none"} \cup Launching /\ (alive[k] \/ Ended(k))
    /\ Queued("pump", k) => failed[k]
    /\ watch[k] # "off" => stage[k] # "none"
    /\ watch[k] = "exited" => Ended(k)
    /\ watch[k] = "sent" => failed[k]
    /\ pump[k] \in {"waiting", "killing", "reported"} => failed[k]

(* What is queued after a task is appended was queued before or is it.     *)
LEMMA AppendQueued ==
    ASSUME TypeOK, NEW t \in Tasks, queue' = Append(queue, t), NEW op, NEW k, Queued(op, k)'
    PROVE  Queued(op, k) \/ t = Task(op, k)
  BY DEF TypeOK, Queued

(* What is queued after the first task is taken was queued before.         *)
LEMMA TailQueued ==
    ASSUME TypeOK, queue # <<>>, queue' = Tail(queue), NEW op, NEW k, Queued(op, k)'
    PROVE  Queued(op, k)
  BY DEF TypeOK, Queued

(* The first task is queued, and those of kernels name one.                *)
LEMMA HeadQueued ==
    ASSUME TypeOK, queue # <<>>, Head(queue).op \in {"install", "pump"}
    PROVE  Head(queue).id \in Kernels /\ Queued(Head(queue).op, Head(queue).id)
<1>1. Head(queue) \in Tasks /\ Head(queue) = queue[1] /\ 1 \in 1..Len(queue)
  BY DEF TypeOK
<1>2. Head(queue).id \in Kernels /\ Head(queue) = Task(Head(queue).op, Head(queue).id)
  BY <1>1 DEF Tasks, Task
<1> QED BY <1>1, <1>2 DEF Queued

(* A kernel keeps it while the step is not about it.                       *)
LEMMA SameReported ==
    ASSUME TypeOK, NEW k \in Kernels, Reported(k),
           stage'[k] = stage[k], alive'[k] = alive[k], failed'[k] = failed[k],
           killed'[k] = killed[k], watch'[k] = watch[k], pump'[k] = pump[k],
           \A op \in {"install", "pump"} : Queued(op, k)' => Queued(op, k)
    PROVE  Reported(k)'
  BY DEF Reported, Ended

(* An exit that a process has not had of itself is not reported: kill sets *)
(* its flag first, and a launch that ends has queued no installation.      *)
LEMMA ReportedStep ==
    ASSUME TypeOK, [Next]_vars, NEW q \in Kernels, Reported(q)
    PROVE  Reported(q)'
<1> DEFINE SameQueue == \A op \in {"install", "pump"} : Queued(op, q)' => Queued(op, q)
<1>1. UNCHANGED queue => SameQueue
  BY DEF Queued
<1>2. CASE Process
  <2> UNCHANGED <<stage, killed, watch, pump>> /\ SameQueue
    BY <1>1, <1>2 DEF Process, taskVars, lockVars
  <2>1. ASSUME NEW k \in Kernels, Dies(k) PROVE Reported(q)'
    <3>1. alive'[q] # alive[q] => failed'[q]
      BY <2>1 DEF Dies, TypeOK
    <3>2. failed[q] => failed'[q]
      BY <2>1 DEF Dies, TypeOK
    <3> QED BY <3>1, <3>2 DEF Reported, Ended, TypeOK
  <2>2. CASE Dies(q) \/ UNCHANGED <<alive, failed>> \/ \E k \in Kernels : Dies(k)
    BY <2>1, <2>2 DEF Reported, Ended
  <2> QED BY <1>2, <2>2 DEF Process, BindOwn, Rewrite, BindPicked, ExitsByItself, OtherProgram
<1>3. ASSUME NEW k \in Kernels, KernelTasks(k) PROVE Reported(q)'
  <2>1. ASSUME Drop(k), UNCHANGED <<killed, watch, queue>>,
               stage[k] \in Launching \/ Ended(k),
               pump' = [pump EXCEPT ![k] = IF @ = "killing" THEN "reported" ELSE @] \/ UNCHANGED pump
        PROVE  Reported(q)'
    <3>1. CASE q # k
      BY <1>1, <2>1, <3>1, SameReported DEF Drop, Forgotten, TypeOK
    <3>2. CASE q = k
      <4>1. stage'[k] = "gone" /\ UNCHANGED failed
        BY <2>1 DEF Drop, Forgotten, TypeOK
      <4>2. pump'[k] \in {"waiting", "killing", "reported"} =>
            pump[k] \in {"waiting", "killing", "reported"}
        BY <2>1 DEF TypeOK
      <4> QED BY <1>1, <2>1, <3>2, <4>1, <4>2 DEF Reported, Ended, Launching
    <3> QED BY <3>1, <3>2
  <2>2. CASE Launch(k)
    <3>1. UNCHANGED <<failed, killed, watch, pump, queue>> /\ stage[k] = "none"
      BY <2>2 DEF Launch, taskVars, lockVars
    <3>2. CASE q # k
      <4>1. stage'[q] = stage[q] /\ alive'[q] = alive[q]
        BY <2>2, <3>2 DEF Launch, TypeOK
      <4> QED BY <1>1, <3>1, <4>1, SameReported
    <3>3. CASE q = k
      <4>1. stage'[k] = "gone" \/ (stage'[k] \in Launching /\ alive'[k])
        <5>1. CASE /\ stage' = [stage EXCEPT ![k] = IF port'[k] = {} THEN "reading" ELSE "connecting"]
                   /\ alive' = [alive EXCEPT ![k] = TRUE]
          BY <5>1 DEF Launching, TypeOK
        <5>2. CASE stage' = [stage EXCEPT ![k] = "gone"]
          BY <5>2 DEF TypeOK
        <5> QED BY <2>2, <5>1, <5>2 DEF Launch
      <4> QED BY <1>1, <3>1, <3>3, <4>1 DEF Reported, Ended, Launching
    <3> QED BY <3>2, <3>3
  <2>3. CASE ReadBoundPorts(k)
    <3>1. stage'[q] = stage[q] \/ (stage[q] \in Launching /\ stage'[q] \in Launching)
      <4>1. stage[k] = "reading" /\ stage' = [stage EXCEPT ![k] = "connecting"]
        BY <2>3 DEF ReadBoundPorts
      <4> QED BY <4>1 DEF Launching, TypeOK
    <3>2. UNCHANGED <<alive, failed, killed, watch, pump, queue>>
      BY <2>3 DEF ReadBoundPorts, procVars, taskVars, lockVars
    <3> QED BY <1>1, <3>1, <3>2 DEF Reported, Ended, Launching
  <2>4. CASE ConnectSockets(k)
    <3> UNCHANGED <<killed, pump>> /\ stage[k] = "connecting"
      BY <2>4 DEF ConnectSockets
    <3>1. ASSUME NEW j, Connected(k, j) PROVE Reported(q)'
      <4>1. UNCHANGED <<alive, failed>> /\ queue' = Append(queue, Task("install", k))
        BY <3>1 DEF Connected, procVars
      <4>2. \A op \in {"install", "pump"} :
              Queued(op, q)' => Queued(op, q) \/ Task("install", k) = Task(op, q)
        BY <4>1, AppendQueued, TaskTyped
      <4>3. CASE q # k
        <5>1. stage'[q] = stage[q] /\ watch'[q] = watch[q]
          BY <3>1, <4>3 DEF Connected, TypeOK
        <5>2. SameQueue
          BY <4>2, <4>3 DEF Task
        <5> QED BY <4>1, <5>1, <5>2, SameReported
      <4>4. CASE q = k
        <5>1. stage'[k] = "ready" /\ watch'[k] = "polling"
          BY <3>1 DEF Connected, TypeOK
        <5>2. Queued("pump", q)' => Queued("pump", q)
          BY <4>2 DEF Task
        <5> QED BY <4>1, <4>4, <5>1, <5>2 DEF Reported, Ended, Launching
      <4> QED BY <4>3, <4>4
    <3>2. ASSUME TryAgain(k), UNCHANGED <<watch, queue>> PROVE Reported(q)'
      <4>1. CASE Drop(k)
        BY <2>1, <3>2, <4>1 DEF Launching
      <4>2. CASE UNCHANGED <<stage, procVars>>
        BY <1>1, <3>2, <4>2, SameReported DEF procVars
      <4> QED BY <3>2, <4>1, <4>2 DEF TryAgain
    <3> QED BY <2>4, <3>1, <3>2 DEF ConnectSockets
  <2>5. CASE ExitedDuringStartup(k) \/ StartupTimeout(k)
    BY <2>1, <2>5 DEF ExitedDuringStartup, StartupTimeout, taskVars, lockVars
  <2>6. CASE DropKilled(k)
    BY <2>1, <2>6 DEF DropKilled, lockVars, Ended
  <2>7. CASE Installed(k)
    <3>1. UNCHANGED <<alive, failed, killed, watch, queue>> /\ stage[k] = "installing"
      BY <2>7 DEF Installed, procVars, lockVars
    <3>2. CASE q # k
      BY <1>1, <2>7, <3>1, <3>2, SameReported DEF Installed, TypeOK
    <3>3. CASE q = k
      <4>1. stage'[k] = "slot" /\ pump'[k] = "on"
        BY <2>7 DEF Installed, TypeOK
      <4> QED BY <1>1, <3>1, <3>3, <4>1 DEF Reported, Ended, Launching
    <3> QED BY <3>2, <3>3
  <2>8. CASE Kill(k)
    <3>1. UNCHANGED <<stage, failed, watch, pump, queue>>
      BY <2>8 DEF Kill, lockVars
    <3>2. CASE q # k
      BY <1>1, <2>8, <3>1, <3>2, SameReported DEF Kill, TypeOK
    <3>3. CASE q = k
      <4>1. killed'[k]
        BY <2>8 DEF Kill, TypeOK
      <4> QED BY <1>1, <3>1, <3>3, <4>1 DEF Reported, Ended
    <3> QED BY <3>2, <3>3
  <2>9. CASE WatchSees(k) \/ WatchReports(k)
    <3>1. UNCHANGED <<stage, alive, failed, killed, pump, queue>>
      BY <2>9 DEF WatchSees, WatchReports, procVars, lockVars
    <3>2. CASE q # k
      BY <1>1, <2>9, <3>1, <3>2, SameReported DEF WatchSees, WatchReports, TypeOK
    <3>3. CASE q = k
      <4>1. watch[k] # "off"
        BY <2>9 DEF WatchSees, WatchReports
      <4>2. /\ watch'[k] = "exited" => stage[k] # "gone" /\ ~alive[k]
            /\ watch'[k] = "sent" => watch[k] = "exited" /\ ~killed[k]
        BY <2>9 DEF WatchSees, WatchReports, TypeOK
      <4> QED BY <1>1, <3>1, <3>3, <4>1, <4>2 DEF Reported, Ended
    <3> QED BY <3>2, <3>3
  <2>10. CASE PumpReceives(k)
    <3>1. /\ UNCHANGED <<stage, alive, failed, killed, watch>>
          /\ queue' = Append(queue, Task("pump", k))
      BY <2>10 DEF PumpReceives, procVars
    <3>2. \A op \in {"install", "pump"} :
            Queued(op, q)' => Queued(op, q) \/ Task("pump", k) = Task(op, q)
      BY <3>1, AppendQueued, TaskTyped
    <3>3. CASE q # k
      <4>1. SameQueue
        BY <3>2, <3>3 DEF Task
      <4> QED BY <2>10, <3>1, <3>3, <4>1, SameReported DEF PumpReceives, TypeOK
    <3>4. CASE q = k
      <4>1. Queued("install", q)' => Queued("install", q)
        BY <3>2 DEF Task
      <4>2. watch[k] = "sent"
        BY <2>10 DEF PumpReceives
      <4> QED BY <3>1, <3>4, <4>1, <4>2 DEF Reported, Ended
    <3> QED BY <3>3, <3>4
  <2> QED BY <1>3, <2>2, <2>3, <2>4, <2>5, <2>6, <2>7, <2>8, <2>9, <2>10 DEF KernelTasks
<1>4. CASE Enter
  <2> DEFINE t == Head(queue)
  <2>1. UNCHANGED <<alive, failed, killed, watch>> /\ queue # <<>> /\ SameQueue
    BY <1>4, TailQueued DEF Enter, procVars, launchVars
  <2>2. CASE t.op = "install" /\ Install(t.id)
    <3>1. t.id = q => stage[q] \notin {"none"} \cup Launching /\ (alive[q] \/ Ended(q))
      BY <2>1, <2>2, HeadQueued DEF Reported
    <3>2. t.id # q => \/ stage'[q] = stage[q]
                      \/ (stage[q] = "slot" /\ stage'[q] = "replaced")
      BY <2>2 DEF Install, Slot
    <3>3. t.id = q => stage'[q] \in {"slot", "installing"}
      BY <2>2 DEF Install
    <3>4. pump'[q] = pump[q] \/ pump'[q] = "on"
      BY <2>2 DEF Install, TypeOK
    <3> QED BY <2>1, <3>1, <3>2, <3>3, <3>4 DEF Reported, Ended, Launching
  <2>3. CASE Take
    <3>1. stage'[q] = stage[q] \/ (stage[q] = "slot" /\ stage'[q] = "taken")
      <4>1. stage'[q] = IF q \in Slot THEN "taken" ELSE stage[q]
        BY <2>3 DEF Take
      <4> QED BY <4>1 DEF Slot
    <3> QED BY <2>1, <2>3, <3>1 DEF Take, Reported, Ended, Launching
  <2>4. CASE t.op = "pump" /\ PumpTakes(t.id)
    <3>1. t.id = q => failed[q]
      BY <2>1, <2>4, HeadQueued DEF Reported
    <3>2. stage'[q] = stage[q] \/ (stage[q] = "slot" /\ stage'[q] = "taken")
      <4>1. CASE t.id \in Slot
        <5>1. stage' = [stage EXCEPT ![t.id] = "taken"] /\ stage[t.id] = "slot"
          BY <2>4, <4>1 DEF PumpTakes, Slot
        <5> QED BY <5>1 DEF TypeOK
      <4>2. CASE t.id \notin Slot
        BY <2>4, <4>2 DEF PumpTakes
      <4> QED BY <4>1, <4>2
    <3>3. t.id # q => pump'[q] = pump[q]
      BY <2>4 DEF PumpTakes, TypeOK
    <3>4. t.id = q => pump'[q] \in {"killing", "done"}
      BY <2>4 DEF PumpTakes, TypeOK
    <3> QED BY <2>1, <3>1, <3>2, <3>3, <3>4 DEF Reported, Ended, Launching
  <2>5. CASE Ask(t.id)
    BY <2>1, <2>5, SameReported DEF Ask
  <2> QED BY <1>4, <2>2, <2>3, <2>4, <2>5 DEF Enter
<1>5. ASSUME NEW t \in Tasks, t.op \in {"complete", "stop"}, queue' = Append(queue, t),
             UNCHANGED <<stage, alive, failed, killed, watch, pump>>
      PROVE  Reported(q)'
  <2>1. SameQueue
    BY <1>5, AppendQueued DEF Task
  <2> QED BY <1>5, <2>1, SameReported
<1>6. CASE \E r \in Requests : Complete(r)
  BY <1>5, <1>6, TaskTyped DEF Complete, Task, procVars, taskVars
<1>7. CASE StopKernel
  <2>1. stops' \in 1..MaxStops
    BY <1>7 DEF StopKernel, TypeOK, KernelAssumption
  <2> QED BY <1>5, <1>7, <2>1, TaskTyped DEF StopKernel, Task, procVars, taskVars
<1>8. CASE \/ \E r \in Requests : ReplyReceived(r) \/ RequestTimesOut(r)
           \/ UNCHANGED vars
  BY <1>1, <1>8, SameReported DEF ReplyReceived, RequestTimesOut, vars, procVars, taskVars, lockVars
<1> QED BY <1>2, <1>3, <1>4, <1>6, <1>7, <1>8 DEF Next

(* The exit of a process that Kernel::kill ended is never reported, and a  *)
(* reported one did end by itself (watch_exit, event pump).                *)
THEOREM KernelReportsTruly == Spec => []NoFalseReport
<1> DEFINE AllReported == \A k \in Kernels : Reported(k)
<1>1. Init => TypeOK /\ AllReported
  <2>1. Init => \A op, k : ~Queued(op, k)
    <3>1. Init => Len(queue) = 0
      BY DEF Init
    <3> QED BY <3>1 DEF Queued
  <2> QED BY <2>1 DEF Init, TypeOK, Stages, Launching, Reported, KernelAssumption
<1>2. TypeOK /\ AllReported /\ [Next]_vars => AllReported'
  BY ReportedStep
<1>3. AllReported => NoFalseReport
  BY DEF Reported, NoFalseReport
<1> HIDE DEF AllReported
<1> QED BY <1>1, <1>2, <1>3, TypeStep, PTL DEF Spec

-----------------------------------------------------------------------------
(* The process at the other end of the sockets.                            *)

(* An ipykernel is connected to on the port that it has bound; any other   *)
(* kernel binds the port it was given, and only that one.                  *)
Bound(k) ==
    IF k \in OwnPorts THEN bound[k] \subseteq Held(k) /\ port[k] \subseteq bound[k]
                      ELSE Held(k) \subseteq port[k]

(* The sockets are connected to whoever held the port then, and unless it  *)
(* was the kernel itself, or that process has ended, it holds it still.    *)
Joined(k) ==
    peer[k] \notin {k, Nobody} =>
        /\ k \notin OwnPorts
        /\ stage[peer[k]] # "none"
        /\ alive[peer[k]] => port[k] \subseteq Held(peer[k])

(* There is one port; only an ipykernel's is read from its file; a kernel  *)
(* that has not been launched has none.                                    *)
Ported(k) ==
    /\ \A p, r \in port[k] : p = r
    /\ \A p, r \in bound[k] : p = r
    /\ stage[k] = "reading" => k \in OwnPorts
    /\ stage[k] = "none" => port[k] = {} /\ bound[k] = {} /\ peer[k] = Nobody

Connections == \A k \in Kernels : Ported(k) /\ (alive[k] => Bound(k) /\ Joined(k))

(* A port stays bound while its process runs, and where the kernel does    *)
(* not connect to it, nobody else does.                                    *)
LEMMA ConnectionsStep ==
    ASSUME TypeOK, Owned, Connections, [Next]_vars
    PROVE  Connections'
<1> DEFINE Same(q) == port'[q] = port[q] /\ bound'[q] = bound[q] /\ peer'[q] = peer[q]
           Blank(q) == port'[q] = {} /\ bound'[q] = {} /\ peer'[q] = Nobody
           Stays(q) == /\ stage'[q] = "none" => stage[q] = "none"
                       /\ stage'[q] = "reading" => stage[q] = "reading"
                       /\ alive'[q] => alive[q] /\ Held(q)' = Held(q)
           Keeps == Connections'
<1>1. ASSUME \A q \in Kernels : Stays(q) /\ (Same(q) \/ (Blank(q) /\ ~alive'[q]))
      PROVE  Keeps
  <2> SUFFICES ASSUME NEW q \in Kernels PROVE Ported(q)' /\ (alive'[q] => Bound(q)' /\ Joined(q)')
    BY DEF Connections
  <2>1. Ported(q)'
    BY <1>1 DEF Connections, Ported
  <2>2. ASSUME alive'[q] PROVE Bound(q)' /\ Joined(q)'
    <3>1. Same(q) /\ Held(q)' = Held(q) /\ alive[q] /\ Bound(q) /\ Joined(q)
      BY <1>1, <2>2 DEF Connections
    <3>2. peer[q] \in Kernels \cup {Nobody}
      BY DEF TypeOK
    <3> QED BY <1>1, <3>1, <3>2 DEF Bound, Joined
  <2> QED BY <2>1, <2>2
<1>2. ASSUME NEW k \in Kernels, holder' = Released(k), alive' = [alive EXCEPT ![k] = FALSE]
      PROVE  \A q \in Kernels : alive'[q] => alive[q] /\ Held(q)' = Held(q)
  BY <1>2 DEF Released, Held, TypeOK, KernelAssumption
<1>3. ASSUME NEW k \in Kernels, Drop(k) PROVE Keeps
  <2>1. \A q \in Kernels : Stays(q)
    BY <1>2, <1>3 DEF Drop, Forgotten, TypeOK
  <2>2. \A q \in Kernels : Same(q) \/ (Blank(q) /\ ~alive'[q])
    BY <1>3 DEF Drop, Forgotten, TypeOK
  <2> QED BY <1>1, <2>1, <2>2
<1>4. ASSUME UNCHANGED <<alive, holder, port, bound, peer>>,
             \A q \in Kernels : /\ stage'[q] = "none" => stage[q] = "none"
                                /\ stage'[q] = "reading" => stage[q] = "reading"
      PROVE  Keeps
  <2>1. \A q \in Kernels : Held(q)' = Held(q)
    BY <1>4 DEF Held
  <2>2. \A q \in Kernels : Same(q) /\ Stays(q)
    BY <1>4, <2>1
  <2> QED BY <1>1, <2>2
<1>5. CASE Process
  <2> UNCHANGED <<stage, port, peer>>
    BY <1>5 DEF Process, launchVars
  <2>1. ASSUME NEW k \in Kernels, Dies(k) PROVE Keeps
    BY <1>1, <1>2, <2>1 DEF Dies
  <2>2. ASSUME NEW k \in Kernels, NEW p \in Ports, holder[p] = Nobody,
               holder' = [holder EXCEPT ![p] = k], UNCHANGED alive,
               \A q \in Kernels \ {k} : bound'[q] = bound[q],
               Ported(k)', alive[k] => Bound(k)'
        PROVE  Keeps
    <3>1. \A q \in Kernels : Held(q) \subseteq Held(q)'
      BY <2>2 DEF Held, TypeOK, KernelAssumption
    <3>2. \A q \in Kernels \ {k} : Held(q)' = Held(q)
      BY <2>2 DEF Held, TypeOK, KernelAssumption
    <3>3. ASSUME NEW q \in Kernels, alive[q] PROVE Joined(q)'
      <4>1. peer[q] \in Kernels \cup {Nobody}
        BY DEF TypeOK
      <4> QED BY <2>2, <3>1, <3>3, <4>1 DEF Connections, Joined
    <3>4. ASSUME NEW q \in Kernels \ {k} PROVE Ported(q)' /\ (alive[q] => Bound(q)')
      BY <2>2, <3>2, <3>4 DEF Connections, Ported, Bound
    <3> QED BY <2>2, <3>3, <3>4 DEF Connections
  <2>3. ASSUME NEW k \in Kernels, BindOwn(k) PROVE Keeps
    <3>1. PICK p \in Ports : /\ holder[p] = Nobody
                             /\ holder' = [holder EXCEPT ![p] = k]
                             /\ bound' = [bound EXCEPT ![k] = {p}]
      BY <2>3 DEF BindOwn
    <3>2. k \in OwnPorts /\ alive[k] /\ Held(k) = {} /\ UNCHANGED alive
      BY <2>3 DEF BindOwn
    <3>3. port[k] = {} /\ bound'[k] = {p} /\ p \in Held(k)'
      BY <3>1, <3>2 DEF Connections, Bound, Held, TypeOK
    <3>4. stage[k] # "none"
      BY <3>2 DEF Owned, Nothing
    <3>5. Ported(k)' /\ Bound(k)'
      BY <3>2, <3>3, <3>4 DEF Ported, Bound
    <3>6. \A q \in Kernels \ {k} : bound'[q] = bound[q]
      BY <3>1 DEF TypeOK
    <3> QED BY <2>2, <3>1, <3>2, <3>5, <3>6
  <2>4. ASSUME NEW k \in Kernels, Rewrite(k) PROVE Keeps
    BY <1>4, <2>4 DEF Rewrite
  <2>5. ASSUME NEW k \in Kernels, BindPicked(k) PROVE Keeps
    <3>1. PICK p \in port[k] :
            IF holder[p] = Nobody
            THEN holder' = [holder EXCEPT ![p] = k] /\ UNCHANGED <<alive, failed, file, bound>>
            ELSE Dies(k)
      BY <2>5 DEF BindPicked
    <3>2. p \in Ports
      BY <3>1 DEF TypeOK
    <3>3. ASSUME holder[p] = Nobody PROVE Keeps
      <4>1. holder' = [holder EXCEPT ![p] = k] /\ UNCHANGED <<alive, bound>>
        BY <3>1, <3>3
      <4>2. k \notin OwnPorts /\ alive[k] /\ Held(k) = {}
        BY <2>5 DEF BindPicked
      <4>3. Held(k)' \subseteq {p}
        BY <3>2, <4>1, <4>2 DEF Held, TypeOK
      <4>4. Ported(k)' /\ Bound(k)'
        BY <4>1, <4>2, <4>3 DEF Connections, Ported, Bound
      <4> QED BY <2>2, <3>2, <3>3, <4>1, <4>4
    <3> QED BY <2>1, <3>1, <3>3
  <2>6. ASSUME NEW k \in Kernels, ExitsByItself(k) PROVE Keeps
    BY <2>1, <2>6 DEF ExitsByItself
  <2>7. ASSUME NEW p \in Ports, OtherProgram(p) PROVE Keeps
    <3>1. \A q \in Kernels : Held(q)' = Held(q)
      BY <2>7 DEF OtherProgram, Held, TypeOK, KernelAssumption
    <3> QED BY <1>1, <2>7, <3>1 DEF OtherProgram
  <2> QED BY <1>5, <2>3, <2>4, <2>5, <2>6, <2>7 DEF Process
<1>6. ASSUME NEW k \in Kernels, KernelTasks(k) PROVE Keeps
  <2>1. CASE Launch(k)
    <3>1. CASE stage' = [stage EXCEPT ![k] = "gone"] /\ UNCHANGED <<alive, file, port>>
      BY <1>4, <2>1, <3>1 DEF Launch, TypeOK
    <3>2. CASE /\ port' \in {[port EXCEPT ![k] = set] : set \in Picked(k)}
               /\ stage' = [stage EXCEPT ![k] = IF port'[k] = {} THEN "reading" ELSE "connecting"]
               /\ alive' = [alive EXCEPT ![k] = TRUE]
      <4>1. PICK set \in Picked(k) : port' = [port EXCEPT ![k] = set]
        BY <3>2
      <4>2. UNCHANGED <<holder, bound, peer>> /\ stage[k] = "none"
        BY <2>1 DEF Launch
      <4>3. port'[k] = set /\ \A q \in Kernels \ {k} :
              port'[q] = port[q] /\ stage'[q] = stage[q] /\ alive'[q] = alive[q]
        BY <3>2, <4>1 DEF TypeOK
      <4>4. /\ k \in OwnPorts => set = {}
            /\ k \notin OwnPorts => \E p \in Ports : set = {p}
        BY DEF Picked
      <4>5. stage'[k] \in Launching /\ (stage'[k] = "reading" => set = {})
        BY <3>2, <4>3 DEF Launching, TypeOK
      <4>6. Held(k) = {} /\ bound[k] = {} /\ peer[k] = Nobody
        BY <4>2 DEF Owned, Nothing, Connections, Ported
      <4>7. Ported(k)' /\ Bound(k)' /\ Joined(k)'
        BY <4>2, <4>3, <4>4, <4>5, <4>6 DEF Ported, Bound, Joined, Held, Launching
      <4>8. ASSUME NEW q \in Kernels \ {k}
            PROVE  Ported(q)' /\ (alive'[q] => Bound(q)' /\ Joined(q)')
        <5>1. Ported(q)' /\ (alive'[q] => Bound(q)')
          BY <4>2, <4>3 DEF Connections, Ported, Bound, Held
        <5>2. ASSUME alive[q] PROVE Joined(q)'
          <6>1. peer[q] \in Kernels \cup {Nobody}
            BY DEF TypeOK
          <6>2. peer[q] \notin {q, Nobody} => peer[q] # k
            BY <4>2, <5>2 DEF Connections, Joined
          <6> QED BY <4>2, <4>3, <5>2, <6>1, <6>2 DEF Connections, Joined, Held
        <5> QED BY <4>3, <5>1, <5>2
      <4> QED BY <4>7, <4>8 DEF Connections
    <3> QED BY <2>1, <3>1, <3>2 DEF Launch
  <2>2. CASE ReadBoundPorts(k)
    <3>1. /\ stage[k] = "reading" /\ stage' = [stage EXCEPT ![k] = "connecting"]
          /\ port' = [port EXCEPT ![k] = bound[k]]
          /\ UNCHANGED <<alive, holder, bound, peer>>
      BY <2>2 DEF ReadBoundPorts, procVars
    <3>2. \A q \in Kernels \ {k} : stage'[q] = stage[q] /\ port'[q] = port[q]
      BY <3>1 DEF TypeOK
    <3>3. stage'[k] = "connecting" /\ port'[k] = bound[k] /\ k \in OwnPorts
      BY <3>1 DEF TypeOK, Connections, Ported
    <3>4. ASSUME NEW q \in Kernels, alive[q] PROVE Joined(q)'
      <4>1. peer[q] \in Kernels \cup {Nobody}
        BY DEF TypeOK
      <4> QED BY <3>1, <3>2, <3>3, <3>4, <4>1 DEF Connections, Joined, Held
    <3>5. ASSUME NEW q \in Kernels PROVE Ported(q)' /\ (alive[q] => Bound(q)')
      BY <3>1, <3>2, <3>3 DEF Connections, Ported, Bound, Held
    <3> QED BY <3>1, <3>4, <3>5 DEF Connections
  <2>3. CASE ConnectSockets(k)
    <3>1. PICK p \in port[k] :
            \/ holder[p] \in Kernels /\ Connected(k, holder[p])
            \/ holder[p] = Foreign /\ TryAgain(k)
      BY <2>3 DEF ConnectSockets
    <3>2. ASSUME holder[p] \in Kernels, Connected(k, holder[p]) PROVE Keeps
      <4> DEFINE j == holder[p]
      <4>1. /\ UNCHANGED <<alive, holder, bound, port>>
            /\ peer' = [peer EXCEPT ![k] = j] /\ stage' = [stage EXCEPT ![k] = "ready"]
        BY <3>2 DEF Connected, procVars
      <4>2. /\ peer'[k] = j /\ stage'[k] = "ready"
            /\ \A q \in Kernels \ {k} : stage'[q] = stage[q] /\ peer'[q] = peer[q]
        BY <4>1 DEF TypeOK
      <4>3. p \in Held(j) /\ stage[j] # "none"
        BY <3>1, <3>2 DEF Held, TypeOK, Owned, Nothing
      <4>4. ASSUME alive[k], j # k PROVE Joined(k)'
        <5>1. k \notin OwnPorts
          BY <3>1, <4>3, <4>4 DEF Connections, Bound, Held
        <5>2. port[k] \subseteq Held(j)
          BY <3>1, <4>3 DEF Connections, Ported
        <5> QED BY <3>2, <4>1, <4>2, <4>3, <4>4, <5>1, <5>2 DEF Joined, Held
      <4>5. ASSUME NEW q \in Kernels \ {k}, alive[q] PROVE Joined(q)'
        <5>1. peer[q] \in Kernels \cup {Nobody}
          BY DEF TypeOK
        <5> QED BY <4>1, <4>2, <4>5, <5>1 DEF Connections, Joined, Held
      <4>6. ASSUME NEW q \in Kernels PROVE Ported(q)' /\ (alive[q] => Bound(q)')
        BY <4>1, <4>2 DEF Connections, Ported, Bound, Held
      <4>7. j = k => Joined(k)'
        BY <4>2 DEF Joined
      <4> QED BY <4>1, <4>4, <4>5, <4>6, <4>7 DEF Connections
    <3>3. ASSUME TryAgain(k) PROVE Keeps
      <4>1. CASE Drop(k)
        BY <1>3, <4>1
      <4>2. CASE UNCHANGED <<stage, procVars, port, peer>>
        BY <1>4, <4>2 DEF procVars
      <4> QED BY <3>3, <4>1, <4>2 DEF TryAgain
    <3> QED BY <3>1, <3>2, <3>3
  <2>4. CASE ExitedDuringStartup(k) \/ StartupTimeout(k) \/ DropKilled(k)
    BY <1>3, <2>4 DEF ExitedDuringStartup, StartupTimeout, DropKilled
  <2>5. CASE Kill(k)
    BY <1>1, <1>2, <2>5 DEF Kill, launchVars
  <2>6. CASE Installed(k)
    BY <1>4, <2>6 DEF Installed, procVars, launchVars, TypeOK
  <2>7. CASE WatchSees(k) \/ WatchReports(k) \/ PumpReceives(k)
    BY <1>4, <2>7 DEF WatchSees, WatchReports, PumpReceives, procVars, launchVars
  <2> QED BY <1>6, <2>1, <2>2, <2>3, <2>4, <2>5, <2>6, <2>7 DEF KernelTasks
<1>7. CASE Enter
  <2>1. UNCHANGED <<alive, holder, port, bound, peer>>
    BY <1>7 DEF Enter, procVars, launchVars
  <2>2. ASSUME NEW q \in Kernels, stage'[q] \in {"none", "reading"} PROVE stage[q] = stage'[q]
    <3>1. CASE Install(Head(queue).id)
      BY <2>2, <3>1 DEF Install
    <3>2. CASE Take
      BY <2>2, <3>2 DEF Take
    <3>3. CASE PumpTakes(Head(queue).id)
      BY <2>2, <3>3 DEF PumpTakes, TypeOK
    <3>4. CASE Ask(Head(queue).id)
      BY <3>4 DEF Ask
    <3> QED BY <1>7, <3>1, <3>2, <3>3, <3>4 DEF Enter
  <2> QED BY <1>4, <2>1, <2>2
<1>8. CASE \/ \E r \in Requests : Complete(r) \/ ReplyReceived(r) \/ RequestTimesOut(r)
           \/ StopKernel \/ UNCHANGED vars
  BY <1>4, <1>8 DEF Complete, ReplyReceived, RequestTimesOut, StopKernel, vars, procVars, launchVars
<1> QED BY <1>5, <1>6, <1>7, <1>8 DEF Next

(* The sockets of a kernel that runs are connected to its own process: an  *)
(* ipykernel's always (binds_own_ports), another's unless a process held   *)
(* its port before it did.                                                 *)
THEOREM KernelConnectsToItself == Spec => []OwnProcess
<1>1. Init => TypeOK /\ Owned /\ Connections
  BY DEF Init, TypeOK, Stages, Launching, Owned, Nothing, Held, Connections, Ported, KernelAssumption
<1>2. ASSUME TypeOK, Connections PROVE OwnProcess
  <2> SUFFICES ASSUME NEW k \in Kernels, alive[k], peer[k] \notin {k, Nobody}
               PROVE  k \notin OwnPorts /\ (Held(k) # {} => ~alive[peer[k]])
    BY DEF OwnProcess
  <2>1. Bound(k) /\ Joined(k)
    BY <1>2 DEF Connections
  <2> QED BY <2>1 DEF Bound, Joined, Held
<1>3. Connections /\ TypeOK /\ Owned /\ [Next]_vars => Connections'
  BY ConnectionsStep
<1> QED BY <1>1, <1>2, <1>3, TypeStep, OwnedStep, PTL DEF Spec
=============================================================================
