----------------------------- MODULE CellEvents -----------------------------
(***************************************************************************)
(* From what a kernel says to what a cell shows: the kernel's two sockets, *)
(* the event channel of its pump (core/src/kernel.rs, rpc.rs), the cells   *)
(* of the session (session.rs), the frames to Neovim, and the outputs,     *)
(* counts and statuses of the buffer state (state.lua, exec.lua).          *)
(*                                                                         *)
(* One buffer with one session.  Runs are numbered in the order in which   *)
(* they are issued; the number is the run's msg_id and execution count.    *)
(* One request at a time is with the backend, as Exec's queue has it.      *)
(* The text of an output is abstracted to the run it comes from.           *)
(***************************************************************************)
EXTENDS Integers, Sequences

CONSTANTS
    Cells,
    MaxRuns,      \* bound: runs issued
    MaxKernels,   \* bound: kernels started
    MaxOutputs,   \* bound: outputs of one run
    Scenarios     \* bound: what may happen, one of these in each behaviour

NoCells == "no cell"

AllOutputs == {"stream", "result", "clear"}
AllCommands == {"stop", "clear", "drop", "exit"}

(* A scenario: the cells that are run, the kinds of output that kernels    *)
(* emit, what users and kernels do beside running cells, and the length of *)
(* a queue that nothing is added to.                                       *)
ASSUME CellsAssumption ==
    /\ NoCells \notin Cells
    /\ MaxRuns \in Nat
    /\ MaxKernels \in Nat
    /\ MaxOutputs \in Nat
    /\ Scenarios \subseteq [cells : SUBSET Cells, outputs : SUBSET AllOutputs,
                            commands : SUBSET AllCommands, queue : Nat]

Runs == 1..MaxRuns
Kernels == 1..MaxKernels

EventKinds == AllOutputs \cup {"busy", "idle", "input", "error", "ok", "failed", "exited"}
FrameKinds == EventKinds \cup {"executed", "started", "stopped"}

VARIABLES
    scenario,   \* the scenario of this behaviour
    started,    \* buffer state: kernel_started
    request,    \* the request in flight: execute, start or stop, launched, answered
    shown,      \* buffer state: active_cells, outputs, execution_counts, statuses
    issued,     \* how many runs have been issued
    pipe,       \* frames written to Neovim and not read
    clears,     \* clear requests with the backend: the set of cells of each
    slot,       \* Session.kernel, or 0
    route,      \* Session.msg_to_cell
    kept,       \* the outputs and counts of the session's cells
    made,       \* how many kernels have been started
    kernel      \* each kernel: its process, sockets and event channel

frontVars == <<started, request, shown, issued>>
sessionVars == <<slot, route, kept, made>>
vars == <<scenario, frontVars, pipe, clears, sessionVars, kernel>>

-----------------------------------------------------------------------------
(* todo: requests on the shell channel; cur: the run it executes; iopub    *)
(* and shell: messages on the sockets; chan: events for the pump.          *)
NewKernel ==
    [alive |-> TRUE, todo |-> <<>>, cur |-> 0, emitted |-> 0,
     iopub |-> <<>>, shell |-> <<>>, chan |-> <<>>, pump |-> TRUE, watch |-> TRUE]
NotMade ==
    [NewKernel EXCEPT !.alive = FALSE, !.pump = FALSE, !.watch = FALSE]

NoRequest == [what |-> "none", cell |-> NoCells]
Blank == [outs |-> <<>>, count |-> 0]
Unused == [active |-> TRUE, outs |-> <<>>, count |-> 0, status |-> "none"]

Init ==
    /\ scenario \in Scenarios
    /\ started = FALSE
    /\ request = NoRequest
    /\ shown = [c \in Cells |-> Unused]
    /\ issued = 0
    /\ pipe = <<>>
    /\ clears = {}
    /\ slot = 0
    /\ route = [n \in Runs |-> NoCells]
    /\ kept = [c \in Cells |-> Blank]
    /\ made = 0
    /\ kernel = [k \in Kernels |-> NotMade]

Ev(what, n) == [what |-> what, run |-> n]

(* An output is appended; a stream goes on where the last output is one.   *)
WithOutput(outs, e) ==
    IF e.what = "stream" /\ outs # <<>> /\ outs[Len(outs)] = e
    THEN outs ELSE Append(outs, e)

-----------------------------------------------------------------------------
(* The kernel process: not part of the repository.                         *)

(* It takes the next request.                                              *)
Begin(k) ==
    LET n == Head(kernel[k].todo) IN
    /\ kernel[k].alive /\ kernel[k].cur = 0 /\ kernel[k].todo # <<>>
    /\ kernel' = [kernel EXCEPT ![k].cur = n, ![k].todo = Tail(@),
                                ![k].iopub = @ \o <<Ev("busy", n), Ev("input", n)>>]

Emit(k, what) ==
    /\ kernel[k].alive /\ kernel[k].cur # 0 /\ kernel[k].emitted < MaxOutputs
    /\ kernel' = [kernel EXCEPT ![k].emitted = @ + 1,
                                ![k].iopub = Append(@, Ev(what, kernel[k].cur))]

(* The reply is sent on the shell socket, the rest on iopub.               *)
End(k, ok) ==
    LET n == kernel[k].cur IN
    /\ kernel[k].alive /\ n # 0
    /\ kernel' = [kernel EXCEPT
           ![k].cur = 0, ![k].emitted = 0,
           ![k].iopub = IF ok THEN Append(@, Ev("idle", n))
                              ELSE @ \o <<Ev("error", n), Ev("idle", n)>>,
           ![k].shell = Append(@, Ev(IF ok THEN "ok" ELSE "failed", n))]

(* A request that follows a failed one may be aborted: no input.           *)
Abort(k) ==
    LET n == Head(kernel[k].todo) IN
    /\ kernel[k].alive /\ kernel[k].cur = 0 /\ kernel[k].todo # <<>> /\ n > 1
    /\ kernel' = [kernel EXCEPT ![k].todo = Tail(@),
                                ![k].iopub = @ \o <<Ev("busy", n), Ev("idle", n)>>,
                                ![k].shell = Append(@, Ev("failed", n))]

Exit(k) ==
    /\ "exit" \in scenario.commands
    /\ kernel[k].alive
    /\ kernel' = [kernel EXCEPT ![k].alive = FALSE]

KernelStep(k) ==
    /\ \/ Exit(k)
       \/ /\ Len(kernel[k].iopub) < scenario.queue
          /\ \/ Begin(k) \/ Abort(k)
             \/ \E what \in scenario.outputs : Emit(k, what)
             \/ \E ok \in BOOLEAN : End(k, ok)
    /\ UNCHANGED <<scenario, frontVars, pipe, clears, sessionVars>>

-----------------------------------------------------------------------------
(* The backend's tasks for a kernel.                                       *)

(* iopub_loop.  It outlives the process and ends with kill.                *)
IopubLoop(k) ==
    /\ kernel[k].iopub # <<>> /\ Len(kernel[k].chan) < scenario.queue
    /\ kernel' = [kernel EXCEPT ![k].iopub = Tail(@),
                                ![k].chan = Append(@, Head(kernel[k].iopub))]
    /\ UNCHANGED <<scenario, frontVars, pipe, clears, sessionVars>>

(* The owner of the shell socket.                                          *)
SocketOwner(k) ==
    /\ kernel[k].shell # <<>> /\ Len(kernel[k].chan) < scenario.queue
    /\ kernel' = [kernel EXCEPT ![k].shell = Tail(@),
                                ![k].chan = Append(@, Head(kernel[k].shell))]
    /\ UNCHANGED <<scenario, frontVars, pipe, clears, sessionVars>>

WatchExit(k) ==
    /\ kernel[k].watch /\ ~kernel[k].alive
    /\ kernel' = [kernel EXCEPT ![k].watch = FALSE,
                                ![k].chan = Append(@, Ev("exited", 0))]
    /\ UNCHANGED <<scenario, frontVars, pipe, clears, sessionVars>>

(* Session::apply_event for a cell.                                        *)
KeptAppended(cell, e) ==                                             \* mutant
    CASE e.what = "input"  -> [cell EXCEPT !.count = e.run]
      [] e.what = "clear"  -> [cell EXCEPT !.outs = <<>>]
      [] e.what = "result" -> [outs |-> WithOutput(cell.outs, e), count |-> e.run]
      [] e.what \in {"stream", "error"} -> [cell EXCEPT !.outs = WithOutput(@, e)]
      [] OTHER -> cell
Kept(cell, e) ==
    CASE e.what = "input"  -> [outs |-> <<>>, count |-> e.run]
      [] e.what = "clear"  -> [cell EXCEPT !.outs = <<>>]
      [] e.what = "result" -> [outs |-> WithOutput(cell.outs, e), count |-> e.run]
      [] e.what \in {"stream", "error"} -> [cell EXCEPT !.outs = WithOutput(@, e)]
      [] OTHER -> cell

(* What is left of a kernel that was killed and dropped: the events in its *)
(* channel, which its pump goes on to forward.                             *)
Killed(ker) ==
    [ker EXCEPT !.alive = FALSE, !.watch = FALSE, !.todo = <<>>, !.cur = 0, !.emitted = 0,
                !.iopub = <<>>, !.shell = <<>>]

(* The pump applies an event and forwards it.  Only a clear request can    *)
(* come in between, and it comes to the same if it is served later.        *)
Forward(k) ==
    LET e == Head(kernel[k].chan) IN
    /\ e.what # "exited"
    /\ kept' = [kept EXCEPT ![route[e.run]] = Kept(@, e)]
    /\ pipe' = Append(pipe, e)
    /\ kernel' = [kernel EXCEPT ![k].chan = Tail(@)]
    /\ UNCHANGED <<slot, route, made>>

(* The kernel has exited by itself: it is dropped and reported, unless it  *)
(* has been replaced, and nothing else of it is forwarded.                 *)
ForwardExitGoesOn(k) ==                                              \* mutant
    /\ Head(kernel[k].chan).what = "exited"
    /\ IF slot = k
       THEN /\ slot' = 0
            /\ pipe' = Append(pipe, Ev("exited", 0))
       ELSE UNCHANGED <<slot, pipe>>
    /\ kernel' = [kernel EXCEPT ![k].chan = Tail(@)]
    /\ UNCHANGED <<route, kept, made>>
ForwardExit(k) ==
    /\ Head(kernel[k].chan).what = "exited"
    /\ IF slot = k
       THEN /\ slot' = 0
            /\ pipe' = Append(pipe, Ev("exited", 0))
       ELSE UNCHANGED <<slot, pipe>>
    /\ kernel' = [kernel EXCEPT ![k] = [Killed(@) EXCEPT !.chan = <<>>, !.pump = FALSE]]
    /\ UNCHANGED <<route, kept, made>>

Pump(k) ==
    /\ kernel[k].pump /\ kernel[k].chan # <<>> /\ Len(pipe) < scenario.queue
    /\ Forward(k) \/ ForwardExit(k)
    /\ UNCHANGED <<scenario, frontVars, clears>>

-----------------------------------------------------------------------------
(* The backend's handlers.  execute and stop have one step in which they   *)
(* take effect and write their reply: what a pump writes in between could  *)
(* as well be read after the one, which only ends the request, and before  *)
(* the other takes effect.                                                 *)

(* execute: the route is registered before the request is sent.            *)
ServeExecuteUnrouted ==                                              \* mutant
    /\ request.what = "execute"
    /\ IF slot = 0
       THEN UNCHANGED kernel
       ELSE kernel' = [kernel EXCEPT ![slot].todo = Append(@, issued)]
    /\ pipe' = Append(pipe, Ev("executed", issued))
    /\ UNCHANGED <<slot, route, kept, made>>
ServeExecute ==
    /\ request.what = "execute"
    /\ IF slot = 0
       THEN UNCHANGED <<route, kernel>>
       ELSE /\ route' = [route EXCEPT ![issued] = request.cell]
            /\ kernel' = [kernel EXCEPT ![slot].todo = Append(@, issued)]
    /\ pipe' = Append(pipe, Ev("executed", issued))
    /\ UNCHANGED <<slot, kept, made>>

(* start_kernel: the kernel is in the slot and its pump runs before the    *)
(* reply is written.                                                       *)
ServeLaunch ==
    /\ request.what = "start"
    /\ made' = made + 1
    /\ slot' = made'
    /\ kernel' = [kernel EXCEPT ![made'] = NewKernel]
    /\ UNCHANGED <<pipe, route, kept>>

ServeStart ==
    /\ request.what = "launched"
    /\ pipe' = Append(pipe, Ev("started", 0))
    /\ UNCHANGED <<sessionVars, kernel>>

ServeStop ==
    /\ request.what = "stop"
    /\ IF slot = 0
       THEN UNCHANGED <<slot, kernel>>
       ELSE /\ slot' = 0
            /\ kernel' = [kernel EXCEPT ![slot] = Killed(@)]
    /\ pipe' = Append(pipe, Ev("stopped", 0))
    /\ UNCHANGED <<route, kept, made>>

(* clear_outputs and clear_cell_output of the session                      *)
ServeClear(set) ==
    /\ clears' = clears \ {set}
    /\ kept' = [c \in Cells |-> IF c \in set THEN Blank ELSE kept[c]]
    /\ UNCHANGED <<scenario, frontVars, pipe, slot, route, made, kernel>>

Serve ==
    /\ \/ ServeLaunch /\ request' = [request EXCEPT !.what = "launched"]
       \/ /\ Len(pipe) < scenario.queue
          /\ ServeExecute \/ ServeStart \/ ServeStop
          /\ request' = [request EXCEPT !.what = "answered"]
    /\ UNCHANGED <<scenario, started, shown, issued, clears>>

-----------------------------------------------------------------------------
(* Neovim: commands.                                                       *)

Ask(what, c) == request' = [what |-> what, cell |-> c]

Run(c) ==
    /\ request.what = "none" /\ started /\ shown[c].active
    /\ issued < MaxRuns
    /\ issued' = issued + 1
    /\ Ask("execute", c)
    /\ UNCHANGED <<started, shown, clears>>

StartKernel ==
    /\ request.what = "none" /\ ~started
    /\ made < MaxKernels
    /\ Ask("start", NoCells)
    /\ UNCHANGED <<started, shown, issued, clears>>

(* A restart is a stop whose reply is followed by a start.                 *)
StopKernel ==
    /\ "stop" \in scenario.commands
    /\ request.what = "none" /\ made > 0
    /\ Ask("stop", NoCells)
    /\ UNCHANGED <<started, shown, issued, clears>>

(* clear_outputs or clear_cell_output: the display at once, the backend    *)
(* when it serves the request.  Two equal requests count as one.           *)
Clear(set) ==
    /\ "clear" \in scenario.commands
    /\ made > 0 /\ \E c \in set : shown[c].active
    /\ shown' = [c \in Cells |-> IF c \in set /\ shown[c].active THEN Unused ELSE shown[c]]
    /\ clears' = clears \cup {set}
    /\ UNCHANGED <<started, request, issued>>

(* sync_cells: the cell's delimiter is gone; its identity is not used again. *)
DropCell(c) ==
    /\ "drop" \in scenario.commands
    /\ shown[c].active
    /\ shown' = [shown EXCEPT ![c] = [Unused EXCEPT !.active = FALSE]]
    /\ UNCHANGED <<started, request, issued, clears>>

Command ==
    /\ \/ StartKernel \/ StopKernel
       \/ \E c \in scenario.cells : Run(c) \/ DropCell(c) \/ Clear({c})
       \/ Clear(scenario.cells)
    /\ UNCHANGED <<scenario, pipe, sessionVars, kernel>>

-----------------------------------------------------------------------------
(* Neovim: frames.                                                         *)

(* state.apply_event ("failed" is the status error)                        *)
Applied(cell, e) ==
    CASE e.what = "input" ->
             [cell EXCEPT !.outs = <<>>, !.count = e.run, !.status = "busy"]
      [] e.what \in {"busy", "idle", "ok", "failed"} -> [cell EXCEPT !.status = e.what]
      [] e.what = "clear"  -> [cell EXCEPT !.outs = <<>>]
      [] e.what = "stream" -> [cell EXCEPT !.outs = WithOutput(@, e)]
      [] e.what = "result" -> [cell EXCEPT !.outs = WithOutput(@, e), !.count = e.run]
      [] e.what = "error"  -> [cell EXCEPT !.outs = WithOutput(@, e), !.status = "failed"]

ApplyEventAlways(e) ==                                               \* mutant
    /\ shown' = [shown EXCEPT ![route[e.run]] = Applied(@, e)]
    /\ UNCHANGED <<started, request>>
ApplyEvent(e) ==
    /\ shown' = IF shown[route[e.run]].active
                THEN [shown EXCEPT ![route[e.run]] = Applied(@, e)]
                ELSE shown
    /\ UNCHANGED <<started, request>>

(* state.clear_statuses                                                    *)
ClearedStatuses == [c \in Cells |-> [shown[c] EXCEPT !.status = "none"]]

KernelExitedOnly ==                                                  \* mutant
    /\ started' = FALSE
    /\ UNCHANGED <<shown, request>>
KernelExited ==
    /\ started' = FALSE
    /\ shown' = ClearedStatuses
    /\ UNCHANGED request

(* The replies of stop_kernel, start_kernel and execute.                   *)
Stopped ==
    /\ started' = FALSE
    /\ shown' = ClearedStatuses
    /\ request' = NoRequest

Started ==
    /\ started' = TRUE
    /\ request' = NoRequest
    /\ UNCHANGED shown

Executed ==
    /\ request' = NoRequest
    /\ UNCHANGED <<started, shown>>

Handle(e) ==
    CASE e.what = "exited"   -> KernelExited
      [] e.what = "stopped"  -> Stopped
      [] e.what = "started"  -> Started
      [] e.what = "executed" -> Executed
      [] OTHER -> ApplyEvent(e)

Read ==
    /\ pipe # <<>>
    /\ pipe' = Tail(pipe)
    /\ Handle(Head(pipe))
    /\ UNCHANGED <<scenario, issued, clears, sessionVars, kernel>>

-----------------------------------------------------------------------------
Backend(k) == IopubLoop(k) \/ SocketOwner(k) \/ WatchExit(k) \/ Pump(k)

Next ==
    \/ Command \/ Read \/ Serve
    \/ \E set \in clears : ServeClear(set)
    \/ \E k \in Kernels : KernelStep(k) \/ Backend(k)

Spec == Init /\ [][Next]_vars

(* The event loop and the backend's tasks go on, and a kernel that runs    *)
(* takes requests and ends them.                                           *)
FairSpec ==
    /\ Spec
    /\ WF_vars(Read) /\ WF_vars(Serve)
    /\ \A k \in Kernels :
           /\ WF_vars(IopubLoop(k)) /\ WF_vars(SocketOwner(k))
           /\ WF_vars(WatchExit(k)) /\ WF_vars(Pump(k))
           /\ WF_vars((Begin(k) \/ \E ok \in BOOLEAN : End(k, ok)) /\ KernelStep(k))

-----------------------------------------------------------------------------
OutputSeq(outs) ==
    \A i \in 1..Len(outs) : outs[i] \in [what : {"stream", "result", "error"}, run : Runs]

(* Every variable has its type, and an event is routed to a cell.          *)
TypeOK ==
    /\ scenario \in Scenarios
    /\ started \in BOOLEAN
    /\ request \in [what : {"none", "execute", "start", "stop", "launched", "answered"},
                    cell : Cells \cup {NoCells}]
    /\ \A c \in Cells :
           /\ shown[c].active \in BOOLEAN /\ OutputSeq(shown[c].outs)
           /\ shown[c].count \in 0..MaxRuns
           /\ shown[c].status \in {"none", "busy", "idle", "ok", "failed"}
           /\ kept[c].count \in 0..MaxRuns /\ OutputSeq(kept[c].outs)
    /\ issued \in 0..MaxRuns
    /\ \A i \in 1..Len(pipe) : pipe[i] \in [what : FrameKinds, run : 0..MaxRuns]
    /\ clears \subseteq SUBSET Cells
    /\ slot \in 0..made /\ made \in 0..MaxKernels
    /\ route \in [Runs -> Cells \cup {NoCells}]
    /\ \A k \in Kernels : \A i \in 1..Len(kernel[k].chan) :
           LET e == kernel[k].chan[i] IN
           e \in [what : EventKinds, run : 0..MaxRuns] /\ (e.what # "exited" => route[e.run] \in Cells)

(* A cell is shown as busy only while there is a kernel, as far as the     *)
(* front end knows.                                                        *)
BusyHasKernel ==
    \A c \in Cells : shown[c].status = "busy" => started

(* No cell stays busy when its kernel has exited by itself.                *)
BusyUntilExit == "stop" \notin scenario.commands => BusyHasKernel

(* What a cell shows, outputs and count, comes from one run.  (After a     *)
(* stop, events that were in the old kernel's channel may still follow.)   *)
OneRunShown ==
    "stop" \notin scenario.commands =>
        \A c \in Cells : \A i, j \in 1..Len(shown[c].outs) :
            /\ shown[c].outs[i].run = shown[c].outs[j].run
            /\ shown[c].count \in {0, shown[c].outs[i].run}

(* A cell that was garbage-collected is not filled again by late events.   *)
DroppedStayEmpty ==
    \A c \in Cells : ~shown[c].active => shown[c].outs = <<>> /\ shown[c].status = "none"

(* When nothing is under way, a cell shows what the session has of it,     *)
(* unless outputs are cleared.                                             *)
Quiet == pipe = <<>> /\ clears = {}
ReplicasAgree ==
    "clear" \notin scenario.commands /\ Quiet =>
        \A c \in Cells : shown[c].active =>
            shown[c].outs = kept[c].outs /\ shown[c].count = kept[c].count

(* Whatever kernels do, in the end no cell is busy.                        *)
NoneBusy == \A c \in Cells : shown[c].status # "busy"
BusyEnds == "stop" \notin scenario.commands => <>[]NoneBusy
=============================================================================
