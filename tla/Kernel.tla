------------------------------- MODULE Kernel -------------------------------
(***************************************************************************)
(* The life of kernels in the backend (core/src/kernel.rs): the race of a  *)
(* launch with the process, its ports and the deadline, the connection     *)
(* file, the exit watch and the kill; and the lock of the session's slot   *)
(* (core/src/rpc.rs), with the requests that hold it while they wait for   *)
(* the kernel's reply.                                                     *)
(*                                                                         *)
(* One session; launches may overlap.  The three ports that the backend    *)
(* connects to are one port here.  A process that is sent SIGKILL does     *)
(* nothing any more.  What Backend has as one step of a launch, a kill or  *)
(* a lock is here in detail; what runs send to kernels is not.             *)
(***************************************************************************)
EXTENDS Integers, Sequences

CONSTANTS
    Kernels,     \* bound: the kernels that are ever started
    OwnPorts,    \* those whose kernelspec runs ipykernel: binds_own_ports
    Ports,
    Contested,   \* bound: the ports that other programs may take
    Requests,    \* bound: complete and inspect requests
    MaxStops,    \* bound: stop requests
    MaxTries,    \* CONNECT_ATTEMPTS
    Faults       \* bound: what may go wrong in this instance

Nobody == "nobody"
Foreign == "another program"

AllFaults == {"spawn", "exit"}

ASSUME KernelAssumption ==
    /\ OwnPorts \subseteq Kernels
    /\ Contested \subseteq Ports
    /\ Kernels \cap {Nobody, Foreign} = {}
    /\ MaxStops \in Nat
    /\ MaxTries \in Nat \ {0}

Launching == {"reading", "connecting"}
Stages == {"none", "ready", "installing", "slot", "taken", "replaced", "gone"} \cup Launching

VARIABLES
    stage,     \* where the launch, then the Kernel value is
    alive,     \* whether its process runs
    failed,    \* history: its process has exited by itself
    file,      \* its connection file
    holder,    \* who has bound each port
    bound,     \* the port an ipykernel has bound, and writes into its file
    port,      \* the port in the backend's ConnectionInfo, if any
    tries,     \* connect_sockets: attempt
    peer,      \* the kernel whose process the sockets are connected to
    killed,    \* Kernel.killed
    watch,     \* its watch_exit task
    pump,      \* its event pump
    queue,     \* tasks that wait for Session.kernel's lock, first come first served
    request,   \* complete and inspect requests
    stops      \* how many stops have been requested

procVars == <<alive, failed, file, holder, bound>>
launchVars == <<port, tries, peer>>
taskVars == <<killed, watch, pump>>
lockVars == <<queue, request, stops>>
vars == <<stage, procVars, launchVars, taskVars, lockVars>>

Init ==
    /\ stage = [k \in Kernels |-> "none"]
    /\ alive = [k \in Kernels |-> FALSE]
    /\ failed = [k \in Kernels |-> FALSE]
    /\ file = [k \in Kernels |-> "none"]
    /\ holder = [p \in Ports |-> Nobody]
    /\ bound = [k \in Kernels |-> {}]
    /\ port = [k \in Kernels |-> {}]
    /\ tries = [k \in Kernels |-> 1]
    /\ peer = [k \in Kernels |-> Nobody]
    /\ killed = [k \in Kernels |-> FALSE]
    /\ watch = [k \in Kernels |-> "off"]
    /\ pump = [k \in Kernels |-> "off"]
    /\ queue = <<>>
    /\ request = [r \in Requests |-> [st |-> "none", to |-> Nobody]]
    /\ stops = 0

Held(k) == {p \in Ports : holder[p] = k}
Released(k) == [p \in Ports |-> IF holder[p] = k THEN Nobody ELSE holder[p]]
Task(op, id) == [op |-> op, id |-> id]
Tasks ==
    [op : {"install", "pump"}, id : Kernels] \cup [op : {"complete"}, id : Requests]
        \cup [op : {"stop"}, id : 1..MaxStops]

-----------------------------------------------------------------------------
(* The kernel's process and other programs: not part of the repository.    *)

Dies(k) ==
    /\ alive' = [alive EXCEPT ![k] = FALSE]
    /\ failed' = [failed EXCEPT ![k] = TRUE]
    /\ holder' = Released(k)
    /\ UNCHANGED <<file, bound>>

(* ipykernel binds a free port and writes it back into its file.  While it *)
(* does, the file is missing or incomplete, which reads like a blank one.  *)
BindOwn(k) ==
    /\ k \in OwnPorts /\ alive[k] /\ Held(k) = {}
    /\ \E p \in Ports :
           /\ holder[p] = Nobody
           /\ holder' = [holder EXCEPT ![p] = k]
           /\ bound' = [bound EXCEPT ![k] = {p}]
    /\ UNCHANGED <<alive, failed, file>>

Rewrite(k) ==
    /\ k \in OwnPorts /\ alive[k] /\ Held(k) # {}
    /\ file' = [file EXCEPT ![k] = "written"]
    /\ UNCHANGED <<alive, failed, holder, bound>>

(* Any other kernel binds the port it was given, or exits.                 *)
BindPicked(k) ==
    /\ k \notin OwnPorts /\ alive[k] /\ Held(k) = {}
    /\ \E p \in port[k] :
           IF holder[p] = Nobody
           THEN /\ holder' = [holder EXCEPT ![p] = k]
                /\ UNCHANGED <<alive, failed, file, bound>>
           ELSE Dies(k)

ExitsByItself(k) == "exit" \in Faults /\ alive[k] /\ Dies(k)

OtherProgram(p) ==
    /\ p \in Contested
    /\ \/ holder[p] = Nobody /\ holder' = [holder EXCEPT ![p] = Foreign]
       \/ holder[p] = Foreign /\ holder' = [holder EXCEPT ![p] = Nobody]
    /\ UNCHANGED <<alive, failed, file, bound>>

Process ==
    /\ \/ \E k \in Kernels : BindOwn(k) \/ Rewrite(k) \/ BindPicked(k) \/ ExitsByItself(k)
       \/ \E p \in Ports : OtherProgram(p)
    /\ UNCHANGED <<stage, launchVars, taskVars, lockVars>>

-----------------------------------------------------------------------------
(* Kernel::launch                                                          *)

(* A value is dropped: the process is killed (kill_on_drop), the file and  *)
(* its directory are removed.                                              *)
Forgotten(k) ==
    /\ stage' = [stage EXCEPT ![k] = "gone"]
    /\ file' = [file EXCEPT ![k] = "none"]
    /\ bound' = [bound EXCEPT ![k] = {}]
    /\ port' = [port EXCEPT ![k] = {}]
    /\ tries' = [tries EXCEPT ![k] = 1]
    /\ peer' = [peer EXCEPT ![k] = Nobody]
    /\ UNCHANGED failed
DropNoKill(k) == Forgotten(k) /\ UNCHANGED <<alive, holder>>          \* mutant
Drop(k) ==
    /\ Forgotten(k)
    /\ alive' = [alive EXCEPT ![k] = FALSE]
    /\ holder' = Released(k)

(* Ports to put into the file: none, or one that is free now.              *)
PickedAlways(k) == {{p} : p \in {q \in Ports : holder[q] = Nobody}}  \* mutant
Picked(k) ==
    IF k \in OwnPorts THEN {{}} ELSE {{p} : p \in {q \in Ports : holder[q] = Nobody}}

(* The file is written and the process spawned; if that fails the file is  *)
(* removed again.                                                          *)
Launch(k) ==
    /\ stage[k] = "none"
    /\ \/ /\ port' \in {[port EXCEPT ![k] = set] : set \in Picked(k)}
          /\ stage' = [stage EXCEPT ![k] = IF port'[k] = {} THEN "reading" ELSE "connecting"]
          /\ alive' = [alive EXCEPT ![k] = TRUE]
          /\ file' = [file EXCEPT ![k] = "blank"]
       \/ /\ "spawn" \in Faults
          /\ stage' = [stage EXCEPT ![k] = "gone"]
          /\ UNCHANGED <<alive, file, port>>
    /\ UNCHANGED <<failed, holder, bound, tries, peer, taskVars, lockVars>>

(* read_bound_ports: anything but a complete file means not yet.           *)
ReadBoundPorts(k) ==
    /\ stage[k] = "reading" /\ file[k] = "written"
    /\ port' = [port EXCEPT ![k] = bound[k]]
    /\ stage' = [stage EXCEPT ![k] = "connecting"]
    /\ UNCHANGED <<procVars, tries, peer, taskVars, lockVars>>

(* The tasks of the kernel are spawned, start_kernel asks for the slot.    *)
Connected(k, j) ==
    /\ peer' = [peer EXCEPT ![k] = j]
    /\ stage' = [stage EXCEPT ![k] = "ready"]
    /\ watch' = [watch EXCEPT ![k] = "polling"]
    /\ queue' = Append(queue, Task("install", k))
    /\ UNCHANGED <<procVars, port, tries>>

TryAgainAlways(k) ==                                                 \* mutant
    /\ tries' = [tries EXCEPT ![k] = @ + 1]
    /\ UNCHANGED <<stage, procVars, port, peer>>
TryAgain(k) ==
    IF tries[k] < MaxTries
    THEN /\ tries' = [tries EXCEPT ![k] = @ + 1]
         /\ UNCHANGED <<stage, procVars, port, peer>>
    ELSE Drop(k)

(* connect_sockets: wait_for_ports, until something accepts connections on *)
(* the port, then connect_once.  It is a kernel, not necessarily this one, *)
(* or another program, which fails it.  If the port is released in between *)
(* the library retries, which is to wait.                                  *)
ConnectSockets(k) ==
    /\ stage[k] = "connecting"
    /\ \E p \in port[k] :
           \/ holder[p] \in Kernels /\ Connected(k, holder[p])
           \/ holder[p] = Foreign /\ TryAgain(k) /\ UNCHANGED <<watch, queue>>
    /\ UNCHANGED <<killed, pump, request, stops>>

(* The other branches of the race: the process has exited, or time is up.  *)
ExitedDuringStartup(k) ==
    /\ stage[k] \in Launching /\ ~alive[k]
    /\ Drop(k)
    /\ UNCHANGED <<taskVars, lockVars>>

StartupTimeoutReading(k) ==                                          \* mutant
    /\ stage[k] = "reading"
    /\ Drop(k)
    /\ UNCHANGED <<taskVars, lockVars>>
StartupTimeout(k) ==
    /\ stage[k] \in Launching
    /\ Drop(k)
    /\ UNCHANGED <<taskVars, lockVars>>

-----------------------------------------------------------------------------
(* Kernel::kill and watch_exit                                             *)

Doomed(k) == stage[k] \in {"taken", "replaced"}

(* kill sets the flag, then kills the process and waits for it.            *)
KillUnflagged(k) ==                                                  \* mutant
    /\ Doomed(k) /\ alive[k]
    /\ alive' = [alive EXCEPT ![k] = FALSE]
    /\ holder' = Released(k)
    /\ UNCHANGED <<stage, failed, file, bound, launchVars, killed, watch, pump, lockVars>>
Kill(k) ==
    /\ Doomed(k) /\ ~killed[k]
    /\ killed' = [killed EXCEPT ![k] = TRUE]
    /\ alive' = [alive EXCEPT ![k] = FALSE]
    /\ holder' = Released(k)
    /\ UNCHANGED <<stage, failed, file, bound, launchVars, watch, pump, lockVars>>

(* The pump that killed it reports the exit.                               *)
DropKilled(k) ==
    /\ Doomed(k) /\ killed[k]
    /\ Drop(k)
    /\ pump' = [pump EXCEPT ![k] = IF @ = "killing" THEN "reported" ELSE @]
    /\ UNCHANGED <<killed, watch, lockVars>>

(* try_wait; the task holds the child while it looks at the flag.          *)
WatchSees(k) ==
    /\ watch[k] = "polling"
    /\ \/ stage[k] = "gone" /\ watch' = [watch EXCEPT ![k] = "done"]
       \/ stage[k] # "gone" /\ ~alive[k] /\ watch' = [watch EXCEPT ![k] = "exited"]
    /\ UNCHANGED <<stage, procVars, launchVars, killed, pump, lockVars>>

WatchReports(k) ==
    /\ watch[k] = "exited"
    /\ watch' = [watch EXCEPT ![k] = IF killed[k] THEN "done" ELSE "sent"]
    /\ UNCHANGED <<stage, procVars, launchVars, killed, pump, lockVars>>

(* The pump, once the kernel is installed, receives the exit.              *)
PumpReceives(k) ==
    /\ pump[k] = "on" /\ watch[k] = "sent"
    /\ pump' = [pump EXCEPT ![k] = "waiting"]
    /\ queue' = Append(queue, Task("pump", k))
    /\ UNCHANGED <<stage, procVars, launchVars, killed, watch, request, stops>>

-----------------------------------------------------------------------------
(* Session.kernel: a fair lock of tokio.  Writers hold it within a step,   *)
(* but for an install that kills its predecessor; a complete request reads *)
(* it until its reply or its timeout.                                      *)

Waiting(r) == request[r].st = "waiting"
InstallingNow == \E k \in Kernels : stage[k] = "installing"
MayRead == ~InstallingNow
MayWriteWhileRead == ~InstallingNow                                  \* mutant
MayWrite == ~InstallingNow /\ \A r \in Requests : ~Waiting(r)
Slot == {k \in Kernels : stage[k] = "slot"}

Install(k) ==
    /\ stage' = [j \in Kernels |->
           IF j = k THEN IF Slot = {} THEN "slot" ELSE "installing"
           ELSE IF j \in Slot THEN "replaced" ELSE stage[j]]
    /\ pump' = [pump EXCEPT ![k] = IF Slot = {} THEN "on" ELSE @]
    /\ UNCHANGED request

(* The predecessor is gone: the kernel is in the slot, its pump starts.    *)
Installed(k) ==
    /\ stage[k] = "installing"
    /\ \A j \in Kernels : stage[j] # "replaced"
    /\ stage' = [stage EXCEPT ![k] = "slot"]
    /\ pump' = [pump EXCEPT ![k] = "on"]
    /\ UNCHANGED <<procVars, launchVars, killed, watch, lockVars>>

(* stop_kernel                                                             *)
Take ==
    /\ stage' = [k \in Kernels |-> IF k \in Slot THEN "taken" ELSE stage[k]]
    /\ UNCHANGED <<pump, request>>

(* The pump takes its kernel, unless it was replaced or stopped.           *)
PumpTakes(k) ==
    /\ IF k \in Slot
       THEN /\ stage' = [stage EXCEPT ![k] = "taken"]
            /\ pump' = [pump EXCEPT ![k] = "killing"]
       ELSE /\ pump' = [pump EXCEPT ![k] = "done"]
            /\ UNCHANGED stage
    /\ UNCHANGED request

(* shell_request: pending has its oneshot while it waits.                  *)
Ask(r) ==
    /\ request' = [request EXCEPT ![r] =
           IF Slot = {} THEN [st |-> "failed", to |-> Nobody]
           ELSE [st |-> "waiting", to |-> CHOOSE k \in Slot : TRUE]]
    /\ UNCHANGED <<stage, pump>>

Enter ==
    /\ queue # <<>>
    /\ LET t == Head(queue) IN
           \/ t.op = "install" /\ MayWrite /\ Install(t.id)
           \/ t.op = "stop" /\ MayWrite /\ Take
           \/ t.op = "pump" /\ MayWrite /\ PumpTakes(t.id)
           \/ t.op = "complete" /\ MayRead /\ Ask(t.id)
    /\ queue' = Tail(queue)
    /\ UNCHANGED <<procVars, launchVars, killed, watch, stops>>

(* socket_owner finds the request in pending.  A reply that comes after    *)
(* the timeout is an event that no cell is registered for.                 *)
ReplyReceived(r) ==
    /\ Waiting(r) /\ \E k \in {request[r].to} : peer[k] = k /\ alive[k]
    /\ request' = [request EXCEPT ![r] = [st |-> "answered", to |-> Nobody]]
    /\ UNCHANGED <<stage, procVars, launchVars, taskVars, queue, stops>>

RequestNeverTimesOut(r) == FALSE /\ UNCHANGED vars                   \* mutant
RequestTimesOut(r) ==
    /\ Waiting(r)
    /\ request' = [request EXCEPT ![r] = [st |-> "failed", to |-> Nobody]]
    /\ UNCHANGED <<stage, procVars, launchVars, taskVars, queue, stops>>

-----------------------------------------------------------------------------
(* Requests of the front end.                                              *)
StopKernel ==
    /\ stops < MaxStops
    /\ stops' = stops + 1
    /\ queue' = Append(queue, Task("stop", stops'))
    /\ UNCHANGED <<stage, procVars, launchVars, taskVars, request>>

Complete(r) ==
    /\ request[r].st = "none"
    /\ request' = [request EXCEPT ![r].st = "queued"]
    /\ queue' = Append(queue, Task("complete", r))
    /\ UNCHANGED <<stage, procVars, launchVars, taskVars, stops>>

KernelTasks(k) ==
    \/ Launch(k) \/ ReadBoundPorts(k) \/ ConnectSockets(k)
    \/ ExitedDuringStartup(k) \/ StartupTimeout(k)
    \/ Installed(k) \/ Kill(k) \/ DropKilled(k)
    \/ WatchSees(k) \/ WatchReports(k) \/ PumpReceives(k)

Next ==
    \/ Process
    \/ \E k \in Kernels : KernelTasks(k)
    \/ Enter
    \/ \E r \in Requests : Complete(r) \/ ReplyReceived(r) \/ RequestTimesOut(r)
    \/ StopKernel

Spec == Init /\ [][Next]_vars

(* The backend's tasks go on, and its timers run out.                      *)
FairSpec ==
    /\ Spec
    /\ WF_vars(Enter)
    /\ \A r \in Requests : WF_vars(RequestTimesOut(r))
    /\ \A k \in Kernels :
           /\ WF_vars(ExitedDuringStartup(k)) /\ WF_vars(StartupTimeout(k))
           /\ WF_vars(Installed(k)) /\ WF_vars(Kill(k)) /\ WF_vars(DropKilled(k))
           /\ WF_vars(WatchSees(k)) /\ WF_vars(WatchReports(k)) /\ WF_vars(PumpReceives(k))

-----------------------------------------------------------------------------
(* Every variable has its type; in particular the attempts are bounded.    *)
TypeOK ==
    /\ stage \in [Kernels -> Stages]
    /\ alive \in [Kernels -> BOOLEAN] /\ failed \in [Kernels -> BOOLEAN]
    /\ file \in [Kernels -> {"none", "blank", "written"}]
    /\ holder \in [Ports -> Kernels \cup {Nobody, Foreign}]
    /\ bound \in [Kernels -> SUBSET Ports]
    /\ port \in [Kernels -> SUBSET Ports]
    /\ tries \in [Kernels -> 1..MaxTries]
    /\ peer \in [Kernels -> Kernels \cup {Nobody}]
    /\ killed \in [Kernels -> BOOLEAN]
    /\ watch \in [Kernels -> {"off", "polling", "exited", "sent", "done"}]
    /\ pump \in [Kernels -> {"off", "on", "waiting", "killing", "reported", "done"}]
    /\ queue \in Seq(Tasks)
    /\ request \in [Requests -> [st : {"none", "queued", "waiting", "answered", "failed"},
                                 to : Kernels \cup {Nobody}]]
    /\ stops \in 0..MaxStops

(* A process, its port and its connection file, with the key, outlive on   *)
(* no path the launch or the Kernel value that owns them; and the slot is  *)
(* of one kernel, whatever installs, stops and exits come together.        *)
NothingLeft ==
    /\ \A k \in Kernels : stage[k] \in {"none", "gone"} =>
           ~alive[k] /\ Held(k) = {} /\ file[k] = "none"
    /\ \A j, k \in Slot : j = k

(* The sockets of a kernel whose process runs are connected to it: an      *)
(* ipykernel's always, those of a kernel with picked ports unless a        *)
(* process took its port before it did.                                    *)
OwnProcess ==
    \A k \in Kernels : alive[k] /\ peer[k] \notin {k, Nobody} =>
        k \notin OwnPorts /\ (Held(k) # {} => ~alive[peer[k]])

(* An exit is reported only of a process that exited by itself.            *)
NoFalseReport ==
    \A k \in Kernels : watch[k] = "sent" \/ pump[k] = "reported" => failed[k]

(* A kernel is not taken from the slot while a request waits for its       *)
(* reply: none ends because its oneshot was dropped.                       *)
ReplyNotDropped ==
    \A r \in Requests : Waiting(r) => stage[request[r].to] = "slot"

(* Every launch ends, whatever its process does.                           *)
LaunchEnds ==
    \A k \in Kernels : stage[k] \in Launching ~> stage[k] \notin Launching

(* A stop gets the slot, although the kernel may not answer the request    *)
(* that holds it.                                                          *)
StopServed ==
    \A s \in 1..MaxStops :
        stops = s ~> \A i \in 1..Len(queue) : queue[i] # Task("stop", s)

(* A kernel whose process has exited does not stay in the slot.            *)
DeadRemoved ==
    \A k \in Kernels : stage[k] = "slot" /\ ~alive[k] ~> stage[k] = "gone"
=============================================================================
