------------------------------ MODULE Backend ------------------------------
(***************************************************************************)
(* The execution backend (core/src/rpc.rs, session.rs, kernel.rs) as seen  *)
(* by one Neovim buffer: its sessions, the kernel in each session's slot,  *)
(* the requests it serves and the frames it writes to its stdout.          *)
(*                                                                         *)
(* Every request is handled on a task of its own, so the calls of a        *)
(* backend process are served in any order; frames leave through one       *)
(* channel and one writer, so the pipe is first in, first out.             *)
(*                                                                         *)
(* A client c is one backend process (a new one is spawned after an exit). *)
(* A start is one attempt of the frontend to start or stop a kernel; the   *)
(* session opened by a start and the kernel launched by it carry its       *)
(* number.  A run is one request of the user to execute a cell.  All runs  *)
(* here are runs of the same cell, whose source differs from run to run:   *)
(* the case in which runs can spoil each other, since cells do not share   *)
(* any state in the backend but their kernel.                              *)
(***************************************************************************)
EXTENDS Integers, Sequences

CONSTANTS
    MaxClients,   \* bound: backend processes spawned
    MaxStarts,    \* bound: kernel starts and stops attempted
    MaxRuns,      \* bound: runs issued
    Scenarios     \* bound: what may happen, one of these in each behaviour

ASSUME BoundsAssumption ==
    /\ MaxClients \in Nat
    /\ MaxStarts \in Nat
    /\ MaxRuns \in Nat

AllFaults == {"spawn", "launch", "kernel", "backend"}
AllCommands == {"run", "start", "stop", "restart", "shutdown"}

(* A scenario: what may go wrong, what the user may do, and its own bounds *)
(* on starts and runs.                                                     *)
ASSUME ScenariosAssumption ==
    Scenarios \subseteq [faults : SUBSET AllFaults, commands : SUBSET AllCommands,
                         starts : 0..MaxStarts, runs : 0..MaxRuns]

Clients == 1..MaxClients
Starts  == 1..MaxStarts
Runs    == 1..MaxRuns

VARIABLES
    scenario,   \* the scenario of this behaviour
    backend,    \* process state of each client's backend
    live,       \* Server.sessions: the client whose backend holds the session, or 0
    slot,       \* Session.kernel: the kernel in each session's slot, or 0
    source,     \* the run whose source the session's cell has, 0 without a cell
    kernel,     \* each kernel's process state, session and client
    delivered,  \* the requests put on each kernel's shell channel, in order
    overtaken,  \* history: the sessions whose kernel's exit was reported
                \* before its start was answered
    calls,      \* Client.pending: the calls without a reply read, in id order
    pipe        \* frames written to each backend's stdout and not read yet

serverVars == <<live, slot, source, kernel, delivered, overtaken>>
wireVars == <<calls, pipe>>

-----------------------------------------------------------------------------
Kinds == {"none", "open_py", "start_kernel", "execute_silent",
          "update_cell_source", "execute", "stop_kernel", "close"}

(* A request, with what the closure waiting for its reply has captured:    *)
(* the client, the start, the run and the queue the run was taken from;    *)
(* and, once its task has begun, the source that the task has read.        *)
Request == [kind    : Kinds,
            client  : 0..MaxClients,
            start   : 0..MaxStarts,
            session : 0..MaxStarts,
            run     : 0..MaxRuns,
            queue   : 0..MaxRuns,
            source  : 0..MaxRuns,
            stage   : {"sent", "begun", "installed", "answered"}]

(* A session is opened by a start; a run's requests are made for a run.    *)
Call == {x \in Request :
            /\ x.kind = "open_py" => x.start # 0
            /\ x.kind \in {"update_cell_source", "execute"} => x.run # 0}

NoCall == [kind |-> "none", client |-> 0, start |-> 0, session |-> 0,
           run |-> 0, queue |-> 0, source |-> 0, stage |-> "sent"]

(* A frame on the wire, or a callback scheduled on the event loop.         *)
Frame == [type : {"reply", "kernel_exited", "on_exit"},
          err  : {"ok", "err", "gone"},
          call : Call]

Reply(x, e) == [type |-> "reply", err |-> e, call |-> x]

KernelStates == {"none", "running", "dead", "exited", "reporting", "gone"}

KernelRecord == [st : KernelStates, session : 0..MaxStarts, client : 0..MaxClients]

Delivery == [run : Runs, source : 0..MaxRuns]

BackendTypeOK ==
    /\ backend \in [Clients -> {"unborn", "up", "dead"}]
    /\ live \in [Starts -> 0..MaxClients]
    /\ slot \in [Starts -> 0..MaxStarts]
    /\ source \in [Starts -> 0..MaxRuns]
    /\ kernel \in [Starts -> KernelRecord]
    /\ delivered \in [Starts -> Seq(Delivery)]
    /\ overtaken \subseteq 0..MaxStarts
    /\ calls \in [Clients -> Seq(Call)]
    /\ pipe \in [Clients -> Seq(Frame)]

BackendInit ==
    /\ backend = [c \in Clients |-> "unborn"]
    /\ live = [s \in Starts |-> 0]
    /\ slot = [s \in Starts |-> 0]
    /\ source = [s \in Starts |-> 0]
    /\ kernel = [k \in Starts |-> [st |-> "none", session |-> 0, client |-> 0]]
    /\ delivered = [k \in Starts |-> <<>>]
    /\ overtaken = {}
    /\ calls = [c \in Clients |-> <<>>]
    /\ pipe = [c \in Clients |-> <<>>]

-----------------------------------------------------------------------------
(* Serving a request.  i is the position of the call among the client's    *)
(* pending calls.  What a request does to the session, and its reply, are  *)
(* one step, but for start_kernel: the order of the reply and of an exit   *)
(* that is reported meanwhile does not matter to the others.  stop_kernel  *)
(* and close leave no kernel whose exit could be reported, and an execute  *)
(* whose run is discarded by the exit ends alike, sent or not.             *)

(* The session named by the request is in the backend's session map.       *)
HasSession(c, x) == x.session \in Starts /\ live[x.session] = c

Pending(c, i, kind, stage) ==
    /\ backend[c] = "up"
    /\ calls[c][i].kind = kind
    /\ calls[c][i].stage = stage

(* The task of the i-th call sends its response.                           *)
Answer(c, i, e) ==
    LET x == [calls[c][i] EXCEPT !.stage = "answered"] IN
    /\ calls' = [calls EXCEPT ![c] = [calls[c] EXCEPT ![i] = x]]
    /\ pipe' = [pipe EXCEPT ![c] = Append(pipe[c], Reply(x, e))]

(* Kernel::kill: the process is gone, and its exit is not reported.  An    *)
(* exit that watch_exit has already sent is still on its way to the pump.  *)
Kill(k) ==
    IF k \in Starts
    THEN [kernel EXCEPT ![k].st = IF @ = "exited" THEN "exited" ELSE "gone"]
    ELSE kernel

OpenPy(c, i) ==
    LET x == calls[c][i] IN
    /\ Pending(c, i, "open_py", "sent")
    /\ live' = [live EXCEPT ![x.start] = c]
    /\ Answer(c, i, "ok")
    /\ UNCHANGED <<backend, slot, source, kernel, delivered, overtaken>>

Close(c, i) ==
    LET x == calls[c][i] IN
    /\ Pending(c, i, "close", "sent")
    /\ IF HasSession(c, x)
       THEN /\ live' = [live EXCEPT ![x.session] = 0]
            /\ slot' = [slot EXCEPT ![x.session] = 0]
            /\ kernel' = Kill(slot[x.session])
            /\ source' = [source EXCEPT ![x.session] = 0]
       ELSE UNCHANGED <<live, slot, kernel, source>>
    /\ Answer(c, i, "ok")
    /\ UNCHANGED <<backend, delivered, overtaken>>

(* start_kernel looks its session up once, at the beginning, and keeps it: *)
(* a close served during the launch does not stop the launch.              *)
StartKernelLookup(c, i) ==
    LET x == calls[c][i] IN
    /\ Pending(c, i, "start_kernel", "sent")
    /\ IF HasSession(c, x)
       THEN /\ calls' = [calls EXCEPT ![c] = [calls[c] EXCEPT ![i] =
                            [x EXCEPT !.stage = "begun"]]]
            /\ UNCHANGED pipe
       ELSE Answer(c, i, "err")
    /\ UNCHANGED <<backend, serverVars>>

(* The launch succeeded: the new kernel takes the slot, the old one is     *)
(* killed, and the pump of the new one runs from now on.                   *)
StartKernelInstall(c, i) ==
    LET x == calls[c][i] IN
    /\ Pending(c, i, "start_kernel", "begun")
    /\ kernel' = [Kill(slot[x.session]) EXCEPT ![x.start] =
                      [st |-> "running", session |-> x.session, client |-> c]]
    /\ slot' = [slot EXCEPT ![x.session] = x.start]
    /\ overtaken' = overtaken \ {x.session}
    /\ calls' = [calls EXCEPT ![c] = [calls[c] EXCEPT ![i] =
                     [x EXCEPT !.stage = "installed"]]]
    /\ UNCHANGED <<backend, live, source, delivered, pipe>>

(* The reply is sent after the slot was let go: an exit of the new kernel  *)
(* may already have been reported.                                         *)
StartKernelDone(c, i) ==
    /\ Pending(c, i, "start_kernel", "installed")
    /\ Answer(c, i, "ok")
    /\ UNCHANGED <<backend, serverVars>>

(* The kernel exits during its startup, cannot be connected to, or does    *)
(* not open its ports before STARTUP_TIMEOUT.                              *)
StartKernelFails(c, i) ==
    /\ "launch" \in scenario.faults
    /\ Pending(c, i, "start_kernel", "begun")
    /\ Answer(c, i, "err")
    /\ UNCHANGED <<backend, serverVars>>

StopKernel(c, i) ==
    LET x == calls[c][i] IN
    /\ Pending(c, i, "stop_kernel", "sent")
    /\ IF HasSession(c, x)
       THEN /\ slot' = [slot EXCEPT ![x.session] = 0]
            /\ kernel' = Kill(slot[x.session])
            /\ Answer(c, i, "ok")
       ELSE /\ Answer(c, i, "err")
            /\ UNCHANGED <<slot, kernel>>
    /\ UNCHANGED <<backend, live, source, delivered, overtaken>>

UpdateNewCellOnly(c, i) ==                                           \* mutant
    LET x == calls[c][i] IN
    /\ Pending(c, i, "update_cell_source", "sent")
    /\ IF HasSession(c, x)
       THEN /\ source' = [source EXCEPT ![x.session] = IF @ = 0 THEN x.run ELSE @]
            /\ Answer(c, i, "ok")
       ELSE /\ Answer(c, i, "err")
            /\ UNCHANGED source
    /\ UNCHANGED <<backend, live, slot, kernel, delivered, overtaken>>

UpdateCellSource(c, i) ==
    LET x == calls[c][i] IN
    /\ Pending(c, i, "update_cell_source", "sent")
    /\ IF HasSession(c, x)
       THEN /\ source' = [source EXCEPT ![x.session] = x.run]
            /\ Answer(c, i, "ok")
       ELSE /\ Answer(c, i, "err")
            /\ UNCHANGED source
    /\ UNCHANGED <<backend, live, slot, kernel, delivered, overtaken>>

(* The source is the cell's when the task looks it up, and the kernel is   *)
(* the one in the slot when the task gets hold of the slot: between the    *)
(* two other tasks may run.  The reply says the request is on the kernel's *)
(* shell channel, which is there as long as the kernel is in the slot,     *)
(* whether or not its process is.                                          *)
ExecuteLookup(c, i) ==
    LET x == calls[c][i] IN
    /\ Pending(c, i, "execute", "sent")
    /\ IF HasSession(c, x) /\ source[x.session] # 0
       THEN /\ calls' = [calls EXCEPT ![c] = [calls[c] EXCEPT ![i] =
                            [x EXCEPT !.stage = "begun", !.source = source[x.session]]]]
            /\ UNCHANGED pipe
       ELSE Answer(c, i, "err")
    /\ UNCHANGED <<backend, serverVars>>

ExecuteSend(c, i) ==
    LET x == calls[c][i] IN
    /\ Pending(c, i, "execute", "begun")
    /\ IF slot[x.session] # 0
       THEN /\ delivered' = [delivered EXCEPT ![slot[x.session]] =
                                Append(@, [run |-> x.run, source |-> x.source])]
            /\ Answer(c, i, "ok")
       ELSE /\ Answer(c, i, "err")
            /\ UNCHANGED delivered
    /\ UNCHANGED <<backend, live, slot, source, kernel, overtaken>>

ExecuteSilent(c, i) ==
    LET x == calls[c][i] IN
    /\ Pending(c, i, "execute_silent", "sent")
    /\ Answer(c, i, IF HasSession(c, x) /\ slot[x.session] # 0 THEN "ok" ELSE "err")
    /\ UNCHANGED <<backend, serverVars>>

(* Server::dispatch: some pending call makes its next step.                *)
Serve(c) ==
    \E i \in 1..Len(calls[c]) :
        \/ OpenPy(c, i)
        \/ Close(c, i)
        \/ StartKernelLookup(c, i)
        \/ StartKernelInstall(c, i)
        \/ StartKernelDone(c, i)
        \/ StartKernelFails(c, i)
        \/ StopKernel(c, i)
        \/ UpdateCellSource(c, i)
        \/ ExecuteLookup(c, i)
        \/ ExecuteSend(c, i)
        \/ ExecuteSilent(c, i)

-----------------------------------------------------------------------------
(* Kernels and their event pumps.                                          *)

(* A kernel process exits by itself.                                       *)
KernelDies(k) ==
    /\ "kernel" \in scenario.faults
    /\ kernel[k].st = "running"
    /\ kernel' = [kernel EXCEPT ![k].st = "dead"]
    /\ UNCHANGED <<backend, live, slot, source, delivered, overtaken, wireVars>>

(* watch_exit polls the process and sends KernelEvent::Exited.             *)
WatchExit(k) ==
    /\ kernel[k].st = "dead"
    /\ kernel' = [kernel EXCEPT ![k].st = "exited"]
    /\ UNCHANGED <<backend, live, slot, source, delivered, overtaken, wireVars>>

(* The pump takes the kernel out of its slot, unless it was replaced.      *)
PumpTakesKernel(k) ==
    LET s == kernel[k].session IN
    /\ kernel[k].st = "exited"
    /\ IF slot[s] = k
       THEN /\ slot' = [slot EXCEPT ![s] = 0]
            /\ kernel' = [kernel EXCEPT ![k].st = "reporting"]
       ELSE /\ kernel' = [kernel EXCEPT ![k].st = "gone"]
            /\ UNCHANGED slot
    /\ UNCHANGED <<backend, live, source, delivered, overtaken, wireVars>>

(* The start of kernel k has put it into the slot and not sent its reply.  *)
Unreplied(k) ==
    LET c == kernel[k].client IN
    \E i \in 1..Len(calls[c]) :
        /\ calls[c][i].kind = "start_kernel" /\ calls[c][i].start = k
        /\ calls[c][i].stage = "installed"

(* Only after waiting for the process does the pump notify the frontend.   *)
PumpReportsExit(k) ==
    LET c == kernel[k].client IN
    /\ kernel[k].st = "reporting"
    /\ kernel' = [kernel EXCEPT ![k].st = "gone"]
    /\ pipe' = [pipe EXCEPT ![c] = Append(pipe[c],
                   [type |-> "kernel_exited", err |-> "ok",
                    call |-> [NoCall EXCEPT !.session = kernel[k].session]])]
    /\ overtaken' = IF Unreplied(k) THEN overtaken \cup {kernel[k].session} ELSE overtaken
    /\ UNCHANGED <<backend, live, slot, source, delivered, calls>>

PumpStep(k) == WatchExit(k) \/ PumpTakesKernel(k) \/ PumpReportsExit(k)

(* The backend process crashes or is killed.  Its kernels are out of       *)
(* reach; what it wrote before is still in the pipe.                       *)
BackendDies(c) ==
    /\ "backend" \in scenario.faults
    /\ backend[c] = "up"
    /\ backend' = [backend EXCEPT ![c] = "dead"]
    /\ live' = [s \in Starts |-> IF live[s] = c THEN 0 ELSE live[s]]
    /\ slot' = [s \in Starts |-> IF slot[s] # 0 /\ kernel[slot[s]].client = c
                                 THEN 0 ELSE slot[s]]
    /\ kernel' = [k \in Starts |-> IF kernel[k].client = c
                                   THEN [kernel[k] EXCEPT !.st = "gone"]
                                   ELSE kernel[k]]
    /\ UNCHANGED <<source, delivered, overtaken, wireVars>>

=============================================================================
