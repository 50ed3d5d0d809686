-------------------------------- MODULE Exec --------------------------------
(***************************************************************************)
(* The execution front end of one buffer (lua/notebook_style/exec.lua):    *)
(* the queue of runs, the kernel start or stop in flight, and the handlers *)
(* of the user's commands, of the backend's replies and of its             *)
(* notifications, on top of the client and the backend.                    *)
(*                                                                         *)
(* Lua runs on one thread: a command or a callback is one atomic step.     *)
(* What a closure captured is in the fields of its call.  Tables that the  *)
(* code compares by identity have a number: a start or stop its own, a run *)
(* queue the number of the first run put into it.                          *)
(***************************************************************************)
EXTENDS Client

CONSTANTS
    AutoStart    \* the option auto_start_kernel

ASSUME AutoStartAssumption == AutoStart \in BOOLEAN

VARIABLES
    client,      \* the module's current client, 0 for nil
    buf,         \* the buffer's state
    lastRun,     \* the number of runs issued so far
    lastStart,   \* the number of starts and stops begun so far
    dropped      \* history: runs discarded before their execute was sent

vars == <<scenario, backend, serverVars, wireVars, clientVars,
          client, buf, lastRun, lastStart, dropped>>

-----------------------------------------------------------------------------
(* The start or stop in flight: buffer_state.starting.  held: a stop that  *)
(* waits for the run in flight; waiting: its callbacks are not empty;      *)
(* since: history, the number of runs issued before it began.              *)
Starting == [id        : 0..MaxStarts,
             kind      : {"none", "start", "stop", "restart"},
             client    : 0..MaxClients,
             launching : BOOLEAN,
             held      : BOOLEAN,
             waiting   : BOOLEAN,
             since     : 0..MaxRuns]

NoStart == [id |-> 0, kind |-> "none", client |-> 0,
            launching |-> FALSE, held |-> FALSE, waiting |-> FALSE,
            since |-> 0]

Queue == [id : 0..MaxRuns, runs : Seq(Runs)]

NoQueue == [id |-> 0, runs |-> <<>>]

BufferState == [session  : 0..MaxStarts,
                started  : BOOLEAN,
                starting : Starting,
                queue    : Queue,
                inFlight : 0..MaxRuns]

(* A new buffer state; reset_kernel leaves the same.                       *)
DefaultBufferState == [session |-> 0, started |-> FALSE, starting |-> NoStart,
                       queue |-> NoQueue, inFlight |-> 0]

Init ==
    /\ scenario \in Scenarios
    /\ BackendInit
    /\ ClientInit
    /\ client = 0
    /\ buf = DefaultBufferState
    /\ lastRun = 0
    /\ lastStart = 0
    /\ dropped = {}

-----------------------------------------------------------------------------
(* ensure_client: the current client, or a newly spawned backend.          *)
EnsureClient(c) ==
    \/ /\ client # 0
       /\ c = client
       /\ UNCHANGED <<client, backend>>
    \/ /\ client = 0
       /\ \A d \in Clients : backend[d] = "unborn" <=> d >= c
       /\ backend' = [backend EXCEPT ![c] = "up"]
       /\ client' = c

(* Past the bound on clients every spawn fails.                            *)
SpawnFails ==
    /\ client = 0
    /\ "spawn" \in scenario.faults \/ \A d \in Clients : backend[d] # "unborn"

(* run_queue = nil                                                         *)
Discard(b) == [b EXCEPT !.queue = NoQueue]

(* A step that ends with buffer state b and calls nothing, or calls x.     *)
Leave(b, w) ==
    /\ buf' = b
    /\ calls' = w.calls
    /\ loop' = w.loop
    /\ UNCHANGED <<client, backend, lastStart>>

Emit(b, x, w) ==
    /\ buf' = b
    /\ Send(x, w)
    /\ UNCHANGED <<client, backend, lastStart>>

UpdateCall(c, b) == [NoCall EXCEPT !.kind = "update_cell_source", !.client = c,
                        !.session = b.session, !.run = Head(b.queue.runs),
                        !.queue = b.queue.id]

StartCall(kind, c, id, s) ==
    [NoCall EXCEPT !.kind = kind, !.client = c, !.start = id, !.session = s]

CloseCall(c, s) == [NoCall EXCEPT !.kind = "close", !.client = c, !.session = s]

(* pump sends nothing while a run, a start or a stop is in flight.         *)
Ready(b) == b.queue.runs # <<>> /\ b.inFlight = 0 /\ b.starting = NoStart

(* The oldest run is taken from the queue and is in flight.                *)
TakeRun(b) == [b EXCEPT !.queue.runs = Tail(b.queue.runs),
                        !.inFlight = Head(b.queue.runs)]

PumpFrom(b, w) ==
    IF Ready(b)
    THEN \/ \E c \in Clients :
                /\ EnsureClient(c)
                /\ buf' = TakeRun(b)
                /\ Send(UpdateCall(c, b), w)
                /\ UNCHANGED lastStart
         \/ SpawnFails /\ Leave(Discard(b), w)
    ELSE Leave(b, w)

(* start_kernel.  callback: it was given a function, which always comes to *)
(* a pump; the callbacks of a start are followed by a pump anyway, so only *)
(* whether there are any is kept.                                          *)
StartFrom(b, callback, w) ==
    IF b.starting # NoStart
    THEN Leave([b EXCEPT !.starting.waiting = TRUE], w)
    ELSE IF b.started /\ b.session # 0
    THEN IF callback THEN PumpFrom(b, w) ELSE Leave(b, w)
    ELSE \/ \E c \in Clients :
                LET id == lastStart + 1
                    method == IF b.session # 0 THEN "start_kernel" ELSE "open_py"
                IN  /\ id <= MaxStarts /\ id <= scenario.starts
                    /\ EnsureClient(c)
                    /\ buf' = [b EXCEPT !.starting =
                                 [id |-> id, kind |-> "start", client |-> c,
                                  launching |-> b.session # 0,
                                  held |-> FALSE, waiting |-> callback,
                                  since |-> lastRun]]
                    /\ Send(StartCall(method, c, id, b.session), w)
                    /\ lastStart' = id
         \/ SpawnFails /\ Leave(Discard(b), w)

(* finish_start: ignored if the start was superseded.                      *)
FinishStartNoPump(id, ok, w) ==                                      \* mutant
    LET b == [buf EXCEPT !.starting = NoStart] IN
    IF buf.starting.id # id THEN Leave(buf, w)
    ELSE IF ok THEN Leave(b, w)
    ELSE Leave(Discard(b), w)
FinishStart(id, ok, w) ==
    LET b == [buf EXCEPT !.starting = NoStart] IN
    IF buf.starting.id # id THEN Leave(buf, w)
    ELSE IF ok THEN PumpFrom(b, w)
    ELSE Leave(Discard(b), w)

(* after_run_in_flight: a stop waits for the run in flight.                *)
NeverHeld(b) == FALSE                                                \* mutant
Held(b) == b.inFlight # 0

(* stop_held: the stop is sent now, or once the run in flight is done.     *)
(* One number is left for the start that may follow the stop.              *)
StopHeld(b, kind, w) ==
    LET id == lastStart + 1
        hold == [id |-> id, kind |-> kind, client |-> client, launching |-> FALSE,
                 held |-> Held(b), waiting |-> FALSE, since |-> lastRun]
    IN  /\ client # 0
        /\ id < MaxStarts /\ id < scenario.starts
        /\ lastStart' = id
        /\ buf' = [b EXCEPT !.starting = hold]
        /\ IF hold.held
           THEN calls' = w.calls /\ loop' = w.loop
           ELSE Send(StartCall("stop_kernel", client, id, b.session), w)
        /\ UNCHANGED <<client, backend>>

-----------------------------------------------------------------------------
(* discarded() in pump's closures                                          *)
DiscardedByExit(x) == client # x.client                              \* mutant
Discarded(x) == buf.queue.id # x.queue \/ client # x.client

(* done(err).  A flight that a reset has removed from the buffer state     *)
(* finishes without clearing the flight now in its place.                  *)
Done(x, failed, w) ==
    LET mine == buf.inFlight = x.run
        b1 == IF mine THEN [buf EXCEPT !.inFlight = 0] ELSE buf
        b2 == IF failed /\ ~Discarded(x) THEN Discard(b1) ELSE b1
        h == b2.starting
    IN  IF mine /\ h.held
        THEN Emit([b2 EXCEPT !.starting.held = FALSE],
                  StartCall("stop_kernel", h.client, h.id, b2.session), w)
        ELSE IF b2.queue.id # 0 THEN PumpFrom(b2, w)
        ELSE Leave(b2, w)

(* The runs of the buffer whose execute has not been sent.                 *)
UpdatePending(r) ==
    \/ \E c \in Clients : \E i \in 1..Len(calls[c]) :
           calls[c][i].kind = "update_cell_source" /\ calls[c][i].run = r
    \/ \E i \in 1..Len(loop) :
           loop[i].call.kind = "update_cell_source" /\ loop[i].call.run = r

Unsubmitted == {buf.queue.runs[i] : i \in 1..Len(buf.queue.runs)}
               \cup {r \in {buf.inFlight} : r # 0 /\ UpdatePending(r)}

(* History: a queue that is given up takes its unsubmitted runs with it.   *)
Records ==
    dropped' = IF buf.queue.id # 0 /\ buf'.queue.id # buf.queue.id
               THEN dropped \cup Unsubmitted ELSE dropped

-----------------------------------------------------------------------------
(* The user's commands.  w is what a command finds on the event loop.      *)

(* enqueue_run for n cells: run_cell, run_cell_and_move, run_file.         *)
EnqueueFromNext(b, n) ==                                             \* mutant
    [b EXCEPT !.queue = [id |-> IF b.queue.id = 0 THEN lastRun + 1 ELSE b.queue.id,
                         runs |-> b.queue.runs \o [i \in 1..n |-> lastRun + i + 1]]]
Enqueue(b, n) ==
    [b EXCEPT !.queue = [id |-> IF b.queue.id = 0 THEN lastRun + 1 ELSE b.queue.id,
                         runs |-> b.queue.runs \o [i \in 1..n |-> lastRun + i]]]

Run(n, w) ==
    /\ lastRun + n <= MaxRuns /\ lastRun + n <= scenario.runs
    /\ lastRun' = lastRun + n
    /\ IF AutoStart THEN StartFrom(Enqueue(buf, n), TRUE, w)
                    ELSE PumpFrom(Enqueue(buf, n), w)

StartKernel(w) == StartFrom(buf, FALSE, w) /\ UNCHANGED lastRun

StopKernelCommand(w) ==
    LET b == Discard(buf) IN
    /\ IF b.starting.kind = "stop"
       THEN Leave([b EXCEPT !.starting.waiting = FALSE], w)
       ELSE IF b.starting # NoStart \/ b.session = 0 THEN Leave(b, w)
       ELSE StopHeld(b, "stop", w)
    /\ UNCHANGED lastRun

RestartKernel(w) ==
    /\ IF buf.starting # NoStart \/ buf.session = 0 \/ ~buf.started
       THEN StartFrom(buf, FALSE, w)
       ELSE StopHeld(buf, "restart", w)
    /\ UNCHANGED lastRun

(* shutdown, then state.clear: the buffer is deleted or disabled.  A       *)
(* session whose kernel is being launched is closed by the launch's reply. *)
ShutdownDuringLaunch(w) ==                                           \* mutant
    /\ IF buf.session # 0 /\ client # 0
       THEN Emit(DefaultBufferState, CloseCall(client, buf.session), w)
       ELSE Leave(DefaultBufferState, w)
    /\ UNCHANGED lastRun

Shutdown(w) ==
    /\ IF buf.session # 0 /\ ~buf.starting.launching /\ client # 0
       THEN Emit(DefaultBufferState, CloseCall(client, buf.session), w)
       ELSE Leave(DefaultBufferState, w)
    /\ UNCHANGED lastRun

Command ==
    LET w == Waiting(calls, loop) IN
    \/ "run" \in scenario.commands /\ \E n \in Runs : Run(n, w)
    \/ "start" \in scenario.commands /\ StartKernel(w)
    \/ "stop" \in scenario.commands /\ StopKernelCommand(w)
    \/ "restart" \in scenario.commands /\ RestartKernel(w)
    \/ "shutdown" \in scenario.commands /\ Shutdown(w)

-----------------------------------------------------------------------------
(* The callbacks.  f is the frame or the scheduled failure that runs the   *)
(* callback of its call.                                                   *)

OpenPyReply(f, w) ==
    LET x == f.call IN
    IF client # x.client THEN FinishStart(x.start, FALSE, w)
    ELSE IF buf.starting.id # x.start
    THEN IF f.err = "ok" THEN Emit(buf, CloseCall(x.client, x.start), w)
                         ELSE Leave(buf, w)
    ELSE IF f.err # "ok" THEN FinishStart(x.start, FALSE, w)
    ELSE Emit([buf EXCEPT !.session = x.start, !.starting.launching = TRUE],
              StartCall("start_kernel", x.client, x.start, x.start), w)

StartKernelReplyNoClose(f, w) ==                                     \* mutant
    LET x == f.call IN
    IF client # x.client \/ buf.starting.id # x.start \/ f.err # "ok"
    THEN FinishStart(x.start, FALSE, w)
    ELSE Emit([buf EXCEPT !.started = TRUE, !.starting.launching = FALSE],
              StartCall("execute_silent", x.client, x.start, x.session), w)

StartKernelReply(f, w) ==
    LET x == f.call IN
    IF client # x.client THEN FinishStart(x.start, FALSE, w)
    ELSE IF buf.starting.id # x.start
    THEN Emit(buf, CloseCall(x.client, x.session), w)
    ELSE IF f.err # "ok" THEN FinishStart(x.start, FALSE, w)
    ELSE Emit([buf EXCEPT !.started = TRUE, !.starting.launching = FALSE],
              StartCall("execute_silent", x.client, x.start, x.session), w)

(* A failure of the setup code counts only if the backend is gone.         *)
ExecuteSilentReply(f, w) ==
    FinishStart(f.call.start, client = f.call.client /\ f.err # "gone", w)

UpdateCellSourceReplyForgets(f, w) ==                                \* mutant
    LET x == f.call IN
    IF Discarded(x) THEN Leave(buf, w)
    ELSE IF f.err # "ok" THEN Done(x, TRUE, w)
    ELSE Emit(buf, [x EXCEPT !.kind = "execute", !.session = buf.session,
                             !.stage = "sent"], w)

UpdateCellSourceReply(f, w) ==
    LET x == f.call IN
    IF Discarded(x) THEN Done(x, FALSE, w)
    ELSE IF f.err # "ok" THEN Done(x, TRUE, w)
    ELSE Emit(buf, [x EXCEPT !.kind = "execute", !.session = buf.session,
                             !.stage = "sent"], w)

ExecuteReply(f, w) == Done(f.call, f.err # "ok", w)

(* The buffer state after a stop: its kernel is gone.                      *)
StoppedStarted(b) == [b EXCEPT !.starting = NoStart]                 \* mutant
StoppedEmpty(b) == [Discard(b) EXCEPT !.starting = NoStart, !.started = FALSE] \* mutant
Stopped(b) == [b EXCEPT !.starting = NoStart, !.started = FALSE]

StopKernelReply(f, w) ==
    LET x == f.call
        b == [buf EXCEPT !.starting = NoStart]
    IN  IF buf.starting.id # x.start THEN Leave(buf, w)
        ELSE IF client # x.client \/ f.err = "gone" THEN Leave(Discard(b), w)
        ELSE IF f.err = "err" THEN PumpFrom(b, w)
        ELSE IF buf.starting.kind = "restart" \/ buf.starting.waiting
        THEN StartFrom(Stopped(buf), TRUE, w)
        ELSE PumpFrom(Stopped(buf), w)

CloseReply(w) == Leave(buf, w)

(* on_kernel_exit, if the session is still the buffer's.                   *)
KernelExitedStarted(f, w) ==                                         \* mutant
    Leave(IF f.call.session = buf.session THEN Discard(buf) ELSE buf, w)

KernelExited(f, w) ==
    Leave(IF f.call.session = buf.session
          THEN [Discard(buf) EXCEPT !.started = FALSE] ELSE buf, w)

(* on_backend_exit: every session is forgotten, and the start that waits   *)
(* for the backend that exited.                                            *)
BackendExited(f, w) ==
    LET c == f.call.client IN
    /\ client' = IF client = c THEN 0 ELSE client
    /\ buf' = IF buf.session # 0 \/ buf.starting.client = c
              THEN DefaultBufferState ELSE buf
    /\ calls' = w.calls
    /\ loop' = w.loop
    /\ UNCHANGED <<backend, lastStart>>

Handle(f, w) ==
    \/ f.type = "reply" /\ f.call.kind = "open_py" /\ OpenPyReply(f, w)
    \/ f.type = "reply" /\ f.call.kind = "start_kernel" /\ StartKernelReply(f, w)
    \/ f.type = "reply" /\ f.call.kind = "execute_silent" /\ ExecuteSilentReply(f, w)
    \/ f.type = "reply" /\ f.call.kind = "update_cell_source" /\ UpdateCellSourceReply(f, w)
    \/ f.type = "reply" /\ f.call.kind = "execute" /\ ExecuteReply(f, w)
    \/ f.type = "reply" /\ f.call.kind = "stop_kernel" /\ StopKernelReply(f, w)
    \/ f.type = "reply" /\ f.call.kind = "close" /\ CloseReply(w)
    \/ f.type = "kernel_exited" /\ KernelExited(f, w)
    \/ f.type = "on_exit" /\ BackendExited(f, w)

(* The next frame of a pipe, or the next scheduled callback.               *)
Callback ==
    /\ \/ \E c \in Clients :
              /\ Readable(c)
              /\ pipe' = [pipe EXCEPT ![c] = Tail(pipe[c])]
              /\ \E cs \in Remaining(c, Head(pipe[c])) :
                     Handle(Head(pipe[c]), Waiting(cs, loop))
       \/ /\ loop # <<>>
          /\ Handle(Head(loop), Waiting(calls, Tail(loop)))
          /\ UNCHANGED pipe
    /\ UNCHANGED lastRun

-----------------------------------------------------------------------------
UserCommand == Command /\ Records /\ UNCHANGED <<serverVars, pipe, exited, closed, scenario>>

EventLoop == Callback /\ Records /\ UNCHANGED <<serverVars, exited, closed, scenario>>

frontendVars == <<client, buf, lastRun, lastStart, dropped>>

Backends ==
    /\ \/ \E c \in Clients : Serve(c)
       \/ \E k \in Starts : PumpStep(k)
    /\ UNCHANGED <<clientVars, frontendVars, scenario>>

Exits ==
    /\ \E c \in Clients : Gone(c)
    /\ UNCHANGED <<frontendVars, scenario>>

Crashes ==
    /\ \/ \E k \in Starts : KernelDies(k)
       \/ \E c \in Clients : BackendDies(c)
    /\ UNCHANGED <<clientVars, frontendVars, scenario>>

Next == UserCommand \/ EventLoop \/ Backends \/ Exits \/ Crashes

Spec == Init /\ [][Next]_vars

(* The event loop and the backend's tasks always go on, and the end of a   *)
(* process is always noticed.  Users need not give commands and nothing    *)
(* need crash.                                                             *)
Fairness ==
    /\ WF_vars(EventLoop)
    /\ WF_vars(Backends)
    /\ WF_vars(Exits)

FairSpec == Spec /\ Fairness

-----------------------------------------------------------------------------
(* Every variable has its type.                                            *)
TypeOK ==
    /\ scenario \in Scenarios
    /\ BackendTypeOK
    /\ ClientTypeOK
    /\ client \in 0..MaxClients
    /\ buf \in BufferState
    /\ lastRun \in 0..MaxRuns
    /\ lastStart \in 0..MaxStarts
    /\ dropped \subseteq Runs

(* No lost wakeup: queued runs always wait for a run, a start or a stop in *)
(* flight, whose end pumps again.                                          *)
NoStuckRuns == buf.queue.runs # <<>> => buf.inFlight # 0 \/ buf.starting # NoStart

(* A run discarded before its execute was sent, by a stop, a shutdown, or  *)
(* the exit of its kernel or backend, never reaches a kernel.              *)
DroppedNeverRun ==
    \A k \in Starts : \A i \in 1..Len(delivered[k]) :
        delivered[k][i].run \notin dropped

(* A stop does not overtake a run sent before it: the two are never with   *)
(* the backend together.                                                   *)
StopAfterRuns ==
    \A c \in Clients : \A i, j \in 1..Len(calls[c]) :
        /\ calls[c][i].kind = "stop_kernel"
        /\ calls[c][i].stage = "sent"
        /\ calls[c][j].kind \in {"update_cell_source", "execute"}
        /\ calls[c][j].stage # "answered"
        => calls[c][i].session # calls[c][j].session

(* A kernel process is always in the slot of a session that the backend    *)
(* knows, so there is a way to stop it.                                    *)
KernelsReachable ==
    \A k \in Starts : kernel[k].st \in {"running", "dead"} =>
        LET s == kernel[k].session IN slot[s] = k /\ live[s] = kernel[k].client

(* A session is the buffer's, or the reply that will make it so or close   *)
(* it is still to come: none is left behind in a running backend.          *)
SessionsOwned ==
    \A s \in Starts : live[s] # 0 =>
        \/ buf.session = s
        \/ \E i \in 1..Len(calls[live[s]]) :
               LET x == calls[live[s]][i] IN
               \/ x.kind = "open_py" /\ x.start = s
               \/ x.kind \in {"start_kernel", "close"} /\ x.session = s

(* The exit of the kernel of session s has yet to reach the front end.     *)
ExitUnderway(s) ==
    \/ \E k \in Starts : kernel[k].st = "reporting" /\ kernel[k].session = s
    \/ \E c \in Clients : \E i \in 1..Len(pipe[c]) :
           pipe[c][i].type = "kernel_exited" /\ pipe[c][i].call.session = s

(* When the front end takes its kernel for started, there is one, or the   *)
(* news that it is gone is on its way; unless that news came before the    *)
(* answer to the kernel's start.                                           *)
StartedSound ==
    buf.started =>
        \/ backend[client] = "dead"
        \/ slot[buf.session] # 0
        \/ ExitUnderway(buf.session)
        \/ buf.session \in overtaken
        \/ buf.starting.kind \in {"stop", "restart"} /\ ~buf.starting.held

(* The runs issued since a restart was asked for outlive the old kernel.   *)
RestartKeepsRuns ==
    [][ buf.starting.kind = "restart" /\ buf'.starting = buf.starting =>
        \A i \in 1..Len(buf.queue.runs) : buf.queue.runs[i] > buf.starting.since =>
            \E j \in 1..Len(buf'.queue.runs) : buf'.queue.runs[j] = buf.queue.runs[i] ]_vars

(* Runs are only sent while the front end takes the kernel for started.    *)
RunsNeedKernel == [][buf.inFlight = 0 /\ buf'.inFlight # 0 => buf'.started]_vars

Undisturbed == scenario.faults = {} /\ scenario.commands \cap {"stop", "shutdown"} = {}

(* Without faults, stops and shutdowns every run issued reaches a kernel.  *)
RunsExecute ==
    \A r \in Runs : Undisturbed /\ lastRun >= r
        ~> \E k \in Starts : \E i \in 1..Len(delivered[k]) : delivered[k][i].run = r

(* Starts, stops and runs in flight come to an end, whatever fails.        *)
Settles == <>[](buf.starting = NoStart /\ buf.inFlight = 0 /\ buf.queue.runs = <<>>)

(* The front end does not go on taking a kernel for started that is gone:  *)
(* it learns of the exit, or another kernel is in the slot.                *)
ExitNoticed ==
    \A k \in Starts :
        kernel[k].st = "dead" /\ buf.started
            ~> ~buf.started \/ slot[buf.session] \in Starts \ {k}

Promise == INSTANCE RunDelivery WITH
    Kernels <- Starts, issued <- lastRun, discarded <- dropped

(* Exec implements RunDelivery.                                            *)
RunsDelivered == Promise!Spec
=============================================================================
