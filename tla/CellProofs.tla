----------------------------- MODULE CellProofs -----------------------------
(***************************************************************************)
(* Proofs about CellEvents, for any cells, runs, kernels and scenarios.    *)
(***************************************************************************)
EXTENDS CellEvents, SequenceTheorems, TLAPS

USE CellsAssumption

-----------------------------------------------------------------------------
(* Types.  What is under way of a run has a route.                         *)

RunKinds == AllOutputs \cup {"busy", "idle", "input", "error", "ok", "failed"}

(* The runs that have a route, and the events that kernels send of them.   *)
Routed == {n \in Runs : route[n] \in Cells}
RunEvents == [what : RunKinds, run : Routed]
Exited == Ev("exited", 0)
Replies == {Ev("started", 0), Ev("stopped", 0)} \cup [what : {"executed"}, run : Runs]
Frames == RunEvents \cup {Exited} \cup Replies
Output == [what : {"stream", "result", "error"}, run : Runs]
Statuses == {"none", "busy", "idle", "ok", "failed"}

Display == [active : BOOLEAN, outs : Seq(Output), count : 0..MaxRuns, status : Statuses]
CellKept == [outs : Seq(Output), count : 0..MaxRuns]
KernelRecord ==
    [alive : BOOLEAN, todo : Seq(Routed), cur : Routed \cup {0}, emitted : Nat,
     iopub : Seq(RunEvents), shell : Seq(RunEvents), chan : Seq(RunEvents \cup {Exited}),
     pump : BOOLEAN, watch : BOOLEAN]

CTyped ==
    /\ scenario \in Scenarios
    /\ started \in BOOLEAN
    /\ request \in [what : {"none", "execute", "start", "stop", "launched", "answered"},
                    cell : Cells \cup {NoCells}]
    /\ shown \in [Cells -> Display]
    /\ kept \in [Cells -> CellKept]
    /\ issued \in 0..MaxRuns
    /\ pipe \in Seq(Frames)
    /\ clears \subseteq SUBSET Cells
    /\ made \in 0..MaxKernels /\ slot \in 0..made
    /\ route \in [Runs -> Cells \cup {NoCells}]
    /\ kernel \in [Kernels -> KernelRecord]

(* What the requests in flight know of runs and kernels.                   *)
RequestsGood ==
    /\ \A n \in Routed : n <= issued
    /\ request.what = "execute" =>
           request.cell \in Cells /\ issued \in Runs /\ issued \notin Routed
    /\ request.what = "start" => made < MaxKernels


LEMMA EventTyped ==
    ASSUME NEW what \in RunKinds, NEW n \in Routed
    PROVE  Ev(what, n) \in RunEvents
BY DEF Ev, RunEvents

LEMMA OutputAdded ==
    ASSUME NEW outs \in Seq(Output), NEW e \in RunEvents, e.what \in {"stream", "result", "error"}
    PROVE  WithOutput(outs, e) \in Seq(Output)
<1>1. e \in Output
  BY DEF RunEvents, Output, Routed
<1> QED
  BY <1>1 DEF WithOutput

LEMMA KeptTyped ==
    ASSUME NEW cell \in CellKept, NEW e \in RunEvents
    PROVE  Kept(cell, e) \in CellKept
<1>1. e.run \in 0..MaxRuns /\ <<>> \in Seq(Output)
  BY DEF RunEvents, Routed, Runs
<1>2. CASE e.what \in {"stream", "result", "error"}
  <2>1. WithOutput(cell.outs, e) \in Seq(Output)
    BY <1>2, OutputAdded DEF CellKept
  <2> QED
    BY <1>1, <1>2, <2>1 DEF Kept, CellKept
<1>3. CASE e.what \notin {"stream", "result", "error"}
  BY <1>1, <1>3 DEF Kept, CellKept
<1> QED
  BY <1>2, <1>3

(* The front end treats an event as the backend does.                      *)
LEMMA AppliedTyped ==
    ASSUME NEW cell \in Display, NEW e \in RunEvents
    PROVE  /\ Applied(cell, e) \in Display
           /\ Applied(cell, e).active = cell.active
           /\ [outs |-> Applied(cell, e).outs, count |-> Applied(cell, e).count]
                 = Kept([outs |-> cell.outs, count |-> cell.count], e)
<1>1. e.run \in 0..MaxRuns /\ <<>> \in Seq(Output) /\ e.what \in RunKinds
  BY DEF RunEvents, Routed, Runs
<1>2. CASE e.what \in {"stream", "result", "error"}
  <2>1. WithOutput(cell.outs, e) \in Seq(Output)
    BY <1>2, OutputAdded DEF Display
  <2> QED
    BY <1>1, <1>2, <2>1 DEF Applied, Kept, Display, Statuses
<1>3. CASE e.what \in {"busy", "idle", "ok", "failed"}
  BY <1>3 DEF Applied, Kept, Display, Statuses
<1>4. CASE e.what \in {"input", "clear"}
  BY <1>1, <1>4 DEF Applied, Kept, Display, Statuses
<1> QED
  BY <1>1, <1>2, <1>3, <1>4 DEF RunKinds, AllOutputs

(* A kernel's record is replaced.                                          *)
LEMMA KernelReplaced ==
    ASSUME CTyped, NEW k \in Kernels, NEW r \in KernelRecord, kernel' = [kernel EXCEPT ![k] = r]
    PROVE  kernel' \in [Kernels -> KernelRecord]
BY DEF CTyped

LEMMA KernelsTyped ==
    ASSUME CTyped, NEW k \in Kernels
    PROVE  /\ kernel[k] \in KernelRecord
           /\ kernel[k].todo \in Seq(Routed) /\ kernel[k].cur \in Routed \cup {0}
           /\ kernel[k].iopub \in Seq(RunEvents) /\ kernel[k].shell \in Seq(RunEvents)
           /\ kernel[k].chan \in Seq(RunEvents \cup {Exited})
           /\ kernel[k].emitted \in Nat
BY DEF CTyped, KernelRecord

LEMMA BeginTyped ==
    ASSUME CTyped, NEW k \in Kernels, Begin(k)
    PROVE  kernel' \in [Kernels -> KernelRecord]
<1> DEFINE ker == kernel[k]
           n == Head(ker.todo)
           iopub == ker.iopub \o <<Ev("busy", n), Ev("input", n)>>
           r == [ker EXCEPT !.cur = n, !.todo = Tail(@), !.iopub = iopub]
<1>1. n \in Routed /\ Tail(ker.todo) \in Seq(Routed)
  BY KernelsTyped DEF Begin
<1>2. iopub \in Seq(RunEvents)
  <2>1. Ev("busy", n) \in RunEvents /\ Ev("input", n) \in RunEvents
    BY <1>1, EventTyped DEF RunKinds
  <2> QED
    BY <2>1, KernelsTyped
<1>3. kernel' = [kernel EXCEPT ![k] = r]
  BY DEF Begin
<1> HIDE DEF iopub, n
<1>4. r \in KernelRecord
  BY <1>1, <1>2, KernelsTyped DEF KernelRecord
<1> QED
  BY <1>3, <1>4, KernelReplaced

LEMMA EmitTyped ==
    ASSUME CTyped, NEW k \in Kernels, NEW what \in AllOutputs, Emit(k, what)
    PROVE  kernel' \in [Kernels -> KernelRecord]
<1> DEFINE ker == kernel[k]
           iopub == Append(ker.iopub, Ev(what, ker.cur))
           emitted == ker.emitted + 1
           r == [ker EXCEPT !.emitted = emitted, !.iopub = iopub]
<1>1. iopub \in Seq(RunEvents)
  <2>1. Ev(what, ker.cur) \in RunEvents
    BY EventTyped, KernelsTyped DEF Emit, RunKinds
  <2> QED
    BY <2>1, KernelsTyped
<1>2. kernel' = [kernel EXCEPT ![k] = r]
  BY DEF Emit
<1>4. emitted \in Nat
  BY KernelsTyped
<1> HIDE DEF iopub, emitted
<1>3. r \in KernelRecord
  BY <1>1, <1>4, KernelsTyped DEF KernelRecord
<1> QED
  BY <1>2, <1>3, KernelReplaced

LEMMA EndTyped ==
    ASSUME CTyped, NEW k \in Kernels, NEW ok \in BOOLEAN, End(k, ok)
    PROVE  kernel' \in [Kernels -> KernelRecord]
<1> DEFINE ker == kernel[k]
           n == ker.cur
           iopub == IF ok THEN Append(ker.iopub, Ev("idle", n))
                          ELSE ker.iopub \o <<Ev("error", n), Ev("idle", n)>>
           shell == Append(ker.shell, Ev(IF ok THEN "ok" ELSE "failed", n))
           r == [ker EXCEPT !.cur = 0, !.emitted = 0, !.iopub = iopub, !.shell = shell]
<1>1. \A what \in {"idle", "error", "ok", "failed"} : Ev(what, n) \in RunEvents
  BY EventTyped, KernelsTyped DEF End, RunKinds
<1>2. iopub \in Seq(RunEvents) /\ shell \in Seq(RunEvents)
  BY <1>1, KernelsTyped
<1>3. kernel' = [kernel EXCEPT ![k] = r]
  <2>1. CASE ok
    BY <2>1 DEF End
  <2>2. CASE ~ok
    BY <2>2 DEF End
  <2> QED
    BY <2>1, <2>2
<1> HIDE DEF iopub, shell
<1>4. r \in KernelRecord
  BY <1>2, KernelsTyped DEF KernelRecord
<1> QED
  BY <1>3, <1>4, KernelReplaced

LEMMA AbortTyped ==
    ASSUME CTyped, NEW k \in Kernels, Abort(k)
    PROVE  kernel' \in [Kernels -> KernelRecord]
<1> DEFINE ker == kernel[k]
           n == Head(ker.todo)
           iopub == ker.iopub \o <<Ev("busy", n), Ev("idle", n)>>
           shell == Append(ker.shell, Ev("failed", n))
           r == [ker EXCEPT !.todo = Tail(@), !.iopub = iopub, !.shell = shell]
<1>1. n \in Routed /\ Tail(ker.todo) \in Seq(Routed)
  BY KernelsTyped DEF Abort
<1>2. \A what \in {"busy", "idle", "failed"} : Ev(what, n) \in RunEvents
  BY <1>1, EventTyped DEF RunKinds
<1>3. iopub \in Seq(RunEvents) /\ shell \in Seq(RunEvents)
  BY <1>2, KernelsTyped
<1>4. kernel' = [kernel EXCEPT ![k] = r]
  BY DEF Abort
<1> HIDE DEF iopub, shell, n
<1>5. r \in KernelRecord
  BY <1>1, <1>3, KernelsTyped DEF KernelRecord
<1> QED
  BY <1>4, <1>5, KernelReplaced

LEMMA KernelStepTyped ==
    ASSUME CTyped, NEW k \in Kernels, KernelStep(k)
    PROVE  kernel' \in [Kernels -> KernelRecord]
<1>1. ASSUME Exit(k) PROVE kernel' \in [Kernels -> KernelRecord]
  <2>1. [kernel[k] EXCEPT !.alive = FALSE] \in KernelRecord
    BY KernelsTyped DEF KernelRecord
  <2> QED
    BY <1>1, <2>1, KernelReplaced DEF Exit
<1>2. scenario.outputs \subseteq AllOutputs
  BY DEF CTyped
<1> QED
  BY <1>1, <1>2, BeginTyped, EmitTyped, EndTyped, AbortTyped DEF KernelStep

LEMMA KilledTyped ==
    ASSUME NEW ker \in KernelRecord
    PROVE  Killed(ker) \in KernelRecord
<1>1. <<>> \in Seq(Routed) /\ <<>> \in Seq(RunEvents)
  OBVIOUS
<1> QED
  BY <1>1 DEF Killed, KernelRecord

LEMMA NewKernelTyped == NewKernel \in KernelRecord /\ NotMade \in KernelRecord
<1>1. <<>> \in Seq(Routed) /\ <<>> \in Seq(RunEvents) /\ <<>> \in Seq(RunEvents \cup {Exited})
  OBVIOUS
<1> QED
  BY <1>1 DEF NewKernel, NotMade, KernelRecord

(* The tasks of the backend for a kernel, but for its pump.                *)
LEMMA TasksTyped ==
    ASSUME CTyped, NEW k \in Kernels, IopubLoop(k) \/ SocketOwner(k) \/ WatchExit(k)
    PROVE  kernel' \in [Kernels -> KernelRecord]
<1> DEFINE ker == kernel[k]
<1>1. CASE IopubLoop(k)
  <2> DEFINE rest == Tail(ker.iopub)
             chan == Append(ker.chan, Head(ker.iopub))
             r == [ker EXCEPT !.iopub = rest, !.chan = chan]
  <2>1. rest \in Seq(RunEvents) /\ Head(ker.iopub) \in RunEvents
    BY <1>1, KernelsTyped DEF IopubLoop
  <2>2. chan \in Seq(RunEvents \cup {Exited})
    BY <2>1, KernelsTyped
  <2>3. kernel' = [kernel EXCEPT ![k] = r]
    BY <1>1 DEF IopubLoop
  <2> HIDE DEF rest, chan
  <2>4. r \in KernelRecord
    BY <2>1, <2>2, KernelsTyped DEF KernelRecord
  <2> QED
    BY <2>3, <2>4, KernelReplaced
<1>2. CASE SocketOwner(k)
  <2> DEFINE rest == Tail(ker.shell)
             chan == Append(ker.chan, Head(ker.shell))
             r == [ker EXCEPT !.shell = rest, !.chan = chan]
  <2>1. rest \in Seq(RunEvents) /\ Head(ker.shell) \in RunEvents
    BY <1>2, KernelsTyped DEF SocketOwner
  <2>2. chan \in Seq(RunEvents \cup {Exited})
    BY <2>1, KernelsTyped
  <2>3. kernel' = [kernel EXCEPT ![k] = r]
    BY <1>2 DEF SocketOwner
  <2> HIDE DEF rest, chan
  <2>4. r \in KernelRecord
    BY <2>1, <2>2, KernelsTyped DEF KernelRecord
  <2> QED
    BY <2>3, <2>4, KernelReplaced
<1>3. CASE WatchExit(k)
  <2> DEFINE chan == Append(ker.chan, Exited)
             r == [ker EXCEPT !.watch = FALSE, !.chan = chan]
  <2>1. chan \in Seq(RunEvents \cup {Exited})
    BY KernelsTyped
  <2>2. kernel' = [kernel EXCEPT ![k] = r]
    BY <1>3 DEF WatchExit, Exited
  <2> HIDE DEF chan
  <2>3. r \in KernelRecord
    BY <2>1, KernelsTyped DEF KernelRecord
  <2> QED
    BY <2>2, <2>3, KernelReplaced
<1> QED
  BY <1>1, <1>2, <1>3

(* Routes are never taken back.                                            *)
LEMMA SameRoutes ==
    ASSUME route' = route
    PROVE  /\ Routed' = Routed /\ RunEvents' = RunEvents /\ Frames' = Frames
           /\ KernelRecord' = KernelRecord
<1>1. Routed' = Routed
  BY DEF Routed
<1> QED
  BY <1>1 DEF RunEvents, Frames, KernelRecord, Replies, Exited

LEMMA MoreRoutes ==
    ASSUME Routed \subseteq Routed'
    PROVE  RunEvents \subseteq RunEvents' /\ Frames \subseteq Frames' /\ KernelRecord \subseteq KernelRecord'
<1>1. RunEvents \subseteq RunEvents'
  BY DEF RunEvents
<1>2. Frames \subseteq Frames'
  BY <1>1 DEF Frames, Replies, Exited
<1>3. Seq(Routed) \subseteq Seq(Routed')
  OBVIOUS
<1>4. Seq(RunEvents) \subseteq Seq(RunEvents')
  BY <1>1
<1>5. Seq(RunEvents \cup {Exited}) \subseteq Seq(RunEvents' \cup {Exited})
  BY <1>1
<1>6. KernelRecord \subseteq KernelRecord'
  <2> SUFFICES ASSUME NEW r \in KernelRecord PROVE r \in KernelRecord'
    OBVIOUS
  <2> QED
    BY <1>3, <1>4, <1>5 DEF KernelRecord, Exited
<1> QED
  BY <1>1, <1>2, <1>6

(* A frame that is none of the replies, and not an exit, is of a run.      *)
LEMMA FrameOfRun ==
    ASSUME NEW e \in Frames
    PROVE  /\ e.what \notin {"exited", "started", "stopped", "executed"} =>
                  e \in RunEvents /\ route[e.run] \in Cells /\ e.run \in Runs
           /\ e \in RunEvents => e.what \in RunKinds /\ e.run \in Routed
           /\ e \in Replies <=> e.what \in {"started", "stopped", "executed"}
           /\ e = Exited <=> e.what = "exited"
BY DEF Frames, RunEvents, Replies, Exited, Ev, Routed, RunKinds, AllOutputs

LEMMA BlankTyped ==
    Unused \in Display /\ [Unused EXCEPT !.active = FALSE] \in Display /\ Blank \in CellKept
<1>1. <<>> \in Seq(Output) /\ 0 \in 0..MaxRuns
  OBVIOUS
<1> QED
  BY <1>1 DEF Unused, Blank, Display, CellKept, Statuses

LEMMA InitTyped == Init => CTyped /\ RequestsGood
<1> SUFFICES ASSUME Init PROVE CTyped /\ RequestsGood
  OBVIOUS
<1>1. /\ Unused \in Display /\ Blank \in CellKept /\ <<>> \in Seq(Frames)
      /\ 0 \in 0..MaxRuns /\ 0 \in 0..MaxKernels /\ 0 \in 0..0
  BY BlankTyped
<1>2. NotMade \in KernelRecord
  BY NewKernelTyped
<1>3. CTyped
  <2>1. /\ shown \in [Cells -> Display] /\ kept \in [Cells -> CellKept]
        /\ kernel \in [Kernels -> KernelRecord]
    BY <1>1, <1>2 DEF Init
  <2>2. route \in [Runs -> Cells \cup {NoCells}] /\ clears \subseteq SUBSET Cells
    BY DEF Init
  <2>3. request \in [what : {"none", "execute", "start", "stop", "launched", "answered"}, cell : Cells \cup {NoCells}]
    BY DEF Init, NoRequest
  <2> QED
    BY <1>1, <2>1, <2>2, <2>3 DEF Init, CTyped
<1>4. RequestsGood
  BY DEF Init, RequestsGood, NoRequest, Routed
<1> QED
  BY <1>3, <1>4

CInv == CTyped /\ RequestsGood

LEMMA CommandTyped ==
    ASSUME CInv, Command
    PROVE  CInv'
<1> USE DEF CInv
<1>1. /\ UNCHANGED <<scenario, pipe, slot, route, kept, made, kernel>>
      /\ Routed' = Routed /\ Frames' = Frames /\ KernelRecord' = KernelRecord
  BY SameRoutes DEF Command, sessionVars
<1>2. scenario.cells \subseteq Cells
  BY DEF CTyped
<1>3. Unused \in Display /\ [Unused EXCEPT !.active = FALSE] \in Display
  BY BlankTyped
<1>4. ASSUME NEW c \in Cells, Run(c) PROVE CInv'
  <2>2. /\ issued' = issued + 1 /\ issued < MaxRuns
        /\ request' = [what |-> "execute", cell |-> c]
        /\ UNCHANGED <<started, shown, clears>>
    BY <1>4 DEF Run, Ask
  <2>3. issued' \in 0..MaxRuns /\ issued' \in Runs
    BY <2>2 DEF CTyped, Runs
  <2>4. \A n \in Routed : n < issued'
    BY <2>2 DEF CTyped, RequestsGood, Routed, Runs
  <2>5. CTyped'
    BY <1>1, <2>2, <2>3 DEF CTyped
  <2>6. issued' \notin Routed
    BY <2>4 DEF Routed, Runs
  <2>7. \A n \in Routed : n <= issued'
    BY <2>3, <2>4 DEF Routed, Runs
  <2> QED
    BY <1>1, <2>2, <2>3, <2>5, <2>6, <2>7 DEF RequestsGood
<1>5. ASSUME StartKernel \/ StopKernel PROVE CInv'
  BY <1>1, <1>5 DEF StartKernel, StopKernel, Ask, CTyped, RequestsGood
<1>6. ASSUME NEW set \in SUBSET Cells, Clear(set) PROVE CInv'
  <2>1. /\ shown' \in [Cells -> Display] /\ clears' \subseteq SUBSET Cells
        /\ UNCHANGED <<started, request, issued>>
    BY <1>3, <1>6 DEF Clear, CTyped
  <2> QED
    BY <1>1, <2>1 DEF CTyped, RequestsGood
<1>7. ASSUME NEW c \in Cells, DropCell(c) PROVE CInv'
  <2>1. /\ shown' \in [Cells -> Display]
        /\ UNCHANGED <<started, request, issued, clears>>
    BY <1>3, <1>7 DEF DropCell, CTyped
  <2> QED
    BY <1>1, <2>1 DEF CTyped, RequestsGood
<1> QED
  BY <1>2, <1>4, <1>5, <1>6, <1>7 DEF Command

LEMMA ReadTyped ==
    ASSUME CInv, Read
    PROVE  CInv'
<1> USE DEF CInv
<1> DEFINE e == Head(pipe)
<1>1. /\ UNCHANGED <<scenario, issued, clears, slot, route, kept, made, kernel>>
      /\ Routed' = Routed /\ Frames' = Frames /\ KernelRecord' = KernelRecord
  BY SameRoutes DEF Read, sessionVars
<1>2. e \in Frames /\ pipe' \in Seq(Frames) /\ Handle(e)
  BY DEF Read, CTyped
<1> HIDE DEF e
<1>3. ClearedStatuses \in [Cells -> Display]
  <2>1. \A d \in Display : [d EXCEPT !.status = "none"] \in Display
    BY DEF Display, Statuses
  <2>2. \A c \in Cells : [shown[c] EXCEPT !.status = "none"] \in Display
    BY <2>1 DEF CTyped
  <2> QED
    BY <2>2 DEF ClearedStatuses
<1>4. NoRequest \in [what : {"none", "execute", "start", "stop", "launched", "answered"}, cell : Cells \cup {NoCells}]
  BY DEF NoRequest
<1>5. CASE e.what \in {"exited", "stopped", "started", "executed"}
  <2>1. /\ shown' \in [Cells -> Display] /\ started' \in BOOLEAN
        /\ request' = request \/ request' = NoRequest
    BY <1>2, <1>3, <1>5 DEF Handle, KernelExited, Stopped, Started, Executed, CTyped
  <2>2. CTyped'
    BY <1>1, <1>2, <1>4, <2>1 DEF CTyped
  <2> QED
    BY <1>1, <2>1, <2>2 DEF RequestsGood, NoRequest
<1>6. CASE e.what \notin {"exited", "stopped", "started", "executed"}
  <2>1. ApplyEvent(e)
    BY <1>2, <1>6 DEF Handle
  <2>2. e \in RunEvents /\ route[e.run] \in Cells
    BY <1>2, <1>6, FrameOfRun
  <2>3. shown' \in [Cells -> Display]
    BY <2>1, <2>2, AppliedTyped DEF ApplyEvent, CTyped
  <2>4. UNCHANGED <<started, request>>
    BY <2>1 DEF ApplyEvent
  <2> QED
    BY <1>1, <1>2, <2>3, <2>4 DEF CTyped, RequestsGood
<1> QED
  BY <1>5, <1>6

LEMMA ServeTyped ==
    ASSUME CInv, Serve
    PROVE  CInv'
<1> USE DEF CInv
<1>1. /\ UNCHANGED <<scenario, started, shown, issued, clears>>
      /\ \/ request' = [request EXCEPT !.what = "launched"]
         \/ request' = [request EXCEPT !.what = "answered"]
      /\ ServeLaunch \/ ServeExecute \/ ServeStart \/ ServeStop
  BY DEF Serve
<1>2. /\ request' \in [what : {"none", "execute", "start", "stop", "launched", "answered"}, cell : Cells \cup {NoCells}]
      /\ request'.what \in {"launched", "answered"}
  BY <1>1 DEF CTyped
<1>3. CASE ServeExecute
  <2>1. request.cell \in Cells /\ issued \in Runs /\ UNCHANGED <<slot, kept, made>>
    BY <1>3 DEF ServeExecute, RequestsGood
  <2>2. pipe' = Append(pipe, Ev("executed", issued))
    BY <1>3 DEF ServeExecute
  <2>3. CASE slot = 0
    <3>1. UNCHANGED <<route, kernel>>
      BY <1>3, <2>3 DEF ServeExecute
    <3>2. Ev("executed", issued) \in Frames
      BY <2>1 DEF Ev, Frames, Replies
    <3>3. Routed' = Routed /\ Frames' = Frames /\ KernelRecord' = KernelRecord
      BY <3>1, SameRoutes
    <3> QED
      BY <1>1, <1>2, <2>1, <2>2, <3>1, <3>2, <3>3 DEF CTyped, RequestsGood
  <2>4. CASE slot # 0
    <3>1. slot \in Kernels
      BY <2>4 DEF CTyped, Kernels
    <3>2. /\ route' = [route EXCEPT ![issued] = request.cell]
          /\ kernel' = [kernel EXCEPT ![slot].todo = Append(@, issued)]
      BY <1>3, <2>4 DEF ServeExecute
    <3>3. route' \in [Runs -> Cells \cup {NoCells}] /\ Routed' = Routed \cup {issued}
      BY <2>1, <3>2 DEF CTyped, Routed
    <3>4. Frames \subseteq Frames' /\ KernelRecord \subseteq KernelRecord'
      BY <3>3, MoreRoutes
    <3>5. pipe' \in Seq(Frames')
      <4>1. Ev("executed", issued) \in Frames'
        BY <2>1 DEF Ev, Frames, Replies
      <4>2. pipe \in Seq(Frames')
        BY <3>4 DEF CTyped
      <4> QED
        BY <2>2, <4>1, <4>2
    <3>6. kernel' \in [Kernels -> KernelRecord']
      <4> DEFINE todo == Append(kernel[slot].todo, issued)
                 r == [kernel[slot] EXCEPT !.todo = todo]
      <4>1. todo \in Seq(Routed')
        <5>1. kernel[slot].todo \in Seq(Routed')
          BY <3>1, <3>3, KernelsTyped
        <5> QED
          BY <3>3, <5>1
      <4>2. kernel' = [kernel EXCEPT ![slot] = r]
        BY <3>2
      <4>3. kernel[slot] \in KernelRecord'
        BY <3>1, <3>4, KernelsTyped
      <4> HIDE DEF todo
      <4>4. r \in KernelRecord'
        BY <4>1, <4>3 DEF KernelRecord
      <4> HIDE DEF r
      <4>5. kernel \in [Kernels -> KernelRecord']
        BY <3>4 DEF CTyped
      <4> QED
        BY <4>2, <4>4, <4>5
    <3>7. \A n \in Routed' : n <= issued
      BY <2>1, <3>3 DEF RequestsGood, Runs
    <3> QED
      BY <1>1, <1>2, <2>1, <3>3, <3>5, <3>6, <3>7 DEF CTyped, RequestsGood
  <2> QED
    BY <2>3, <2>4
<1>4. CASE ServeLaunch
  <2>1. /\ made' = made + 1 /\ slot' = made' /\ kernel' = [kernel EXCEPT ![made'] = NewKernel]
        /\ UNCHANGED <<pipe, route, kept>>
        /\ made < MaxKernels
    BY <1>4 DEF ServeLaunch, RequestsGood
  <2>2. Routed' = Routed /\ Frames' = Frames /\ KernelRecord' = KernelRecord
    BY <2>1, SameRoutes
  <2>3. made' \in 0..MaxKernels /\ slot' \in 0..made'
    BY <2>1 DEF CTyped
  <2>4. kernel' \in [Kernels -> KernelRecord]
    BY <2>1, NewKernelTyped DEF CTyped
  <2> QED
    BY <1>1, <1>2, <2>1, <2>2, <2>3, <2>4 DEF CTyped, RequestsGood
<1>6. CASE ServeStart
  <2>1. pipe' = Append(pipe, Ev("started", 0)) /\ UNCHANGED <<slot, route, kept, made, kernel>>
    BY <1>6 DEF ServeStart, sessionVars
  <2>2. Routed' = Routed /\ Frames' = Frames /\ KernelRecord' = KernelRecord
    BY <2>1, SameRoutes
  <2>3. Ev("started", 0) \in Frames
    BY DEF Frames, Replies
  <2> QED
    BY <1>1, <1>2, <2>1, <2>2, <2>3 DEF CTyped, RequestsGood
<1>5. CASE ServeStop
  <2>1. pipe' = Append(pipe, Ev("stopped", 0)) /\ UNCHANGED <<route, kept, made>>
    BY <1>5 DEF ServeStop
  <2>2. Routed' = Routed /\ Frames' = Frames /\ KernelRecord' = KernelRecord
    BY <2>1, SameRoutes
  <2>3. Ev("stopped", 0) \in Frames
    BY DEF Frames, Replies
  <2>4. slot' \in 0..made /\ kernel' \in [Kernels -> KernelRecord]
    <3>1. CASE slot = 0
      BY <1>5, <3>1 DEF ServeStop, CTyped
    <3>2. CASE slot # 0
      <4>1. slot \in Kernels
        BY <3>2 DEF CTyped, Kernels
      <4>2. Killed(kernel[slot]) \in KernelRecord
        BY <4>1, KilledTyped, KernelsTyped
      <4>3. slot' = 0 /\ kernel' = [kernel EXCEPT ![slot] = Killed(kernel[slot])]
        BY <1>5, <3>2 DEF ServeStop
      <4> QED
        BY <4>1, <4>2, <4>3, KernelReplaced DEF CTyped
    <3> QED
      BY <3>1, <3>2
  <2> QED
    BY <1>1, <1>2, <2>1, <2>2, <2>3, <2>4 DEF CTyped, RequestsGood
<1> QED
  BY <1>1, <1>3, <1>4, <1>5, <1>6

LEMMA PumpTyped ==
    ASSUME CInv, NEW k \in Kernels, Pump(k)
    PROVE  CInv'
<1> USE DEF CInv
<1> DEFINE e == Head(kernel[k].chan)
<1>1. /\ kernel[k].chan # <<>> /\ kernel[k].chan \in Seq(RunEvents \cup {Exited})
      /\ Forward(k) \/ ForwardExit(k)
      /\ UNCHANGED <<scenario, started, request, shown, issued, clears>>
  BY KernelsTyped DEF Pump, frontVars
<1>2. /\ e \in RunEvents \cup {Exited}
      /\ Tail(kernel[k].chan) \in Seq(RunEvents \cup {Exited})
  BY <1>1
<1>3. CASE Forward(k)
  <2>1. /\ e.what # "exited" /\ kept' = [kept EXCEPT ![route[e.run]] = Kept(@, e)]
        /\ pipe' = Append(pipe, e) /\ UNCHANGED <<slot, route, made>>
        /\ kernel' = [kernel EXCEPT ![k].chan = Tail(@)]
    BY <1>3 DEF Forward
  <2>2. Routed' = Routed /\ Frames' = Frames /\ KernelRecord' = KernelRecord
    BY <2>1, SameRoutes
  <2>3. e \in RunEvents /\ e \in Frames
    BY <1>2, <2>1 DEF Exited, Ev, Frames
  <2> DEFINE chan == Tail(kernel[k].chan)
             r == [kernel[k] EXCEPT !.chan = chan]
  <2>4. kernel' = [kernel EXCEPT ![k] = r]
    BY <2>1
  <2> HIDE DEF chan, e
  <2>5. r \in KernelRecord
    BY <1>2, KernelsTyped DEF KernelRecord, chan
  <2>6. kernel' \in [Kernels -> KernelRecord]
    BY <2>4, <2>5, KernelReplaced
  <2>7. kept' \in [Cells -> CellKept]
    BY <2>1, <2>3, KeptTyped DEF CTyped
  <2>8. pipe' \in Seq(Frames)
    BY <2>1, <2>3 DEF CTyped
  <2> QED
    BY <1>1, <2>1, <2>2, <2>6, <2>7, <2>8 DEF CTyped, RequestsGood
<1>4. CASE ForwardExit(k)
  <2> DEFINE r == [Killed(kernel[k]) EXCEPT !.chan = <<>>, !.pump = FALSE]
  <2>1. /\ UNCHANGED <<route, kept, made>> /\ kernel' = [kernel EXCEPT ![k] = r]
        /\ \/ slot' = 0 /\ pipe' = Append(pipe, Exited)
           \/ UNCHANGED <<slot, pipe>>
    BY <1>4 DEF ForwardExit, Exited
  <2>2. Routed' = Routed /\ Frames' = Frames /\ KernelRecord' = KernelRecord
    BY <2>1, SameRoutes
  <2>3. r \in KernelRecord
    <3>1. Killed(kernel[k]) \in KernelRecord /\ <<>> \in Seq(RunEvents \cup {Exited})
      BY KilledTyped, KernelsTyped
    <3> QED
      BY <3>1 DEF KernelRecord
  <2> HIDE DEF r
  <2>4. kernel' \in [Kernels -> KernelRecord]
    BY <2>1, <2>3, KernelReplaced
  <2>5. Exited \in Frames
    BY DEF Frames
  <2>6. slot' \in 0..made
    <3>1. made \in 0..MaxKernels /\ slot \in 0..made /\ slot' \in {0, slot}
      BY <2>1 DEF CTyped
    <3> QED
      BY <3>1
  <2>7. pipe' \in Seq(Frames)
    <3>1. pipe \in Seq(Frames) /\ (pipe' = Append(pipe, Exited) \/ pipe' = pipe)
      BY <2>1 DEF CTyped
    <3> QED
      BY <3>1, <2>5
  <2> QED
    BY <1>1, <2>1, <2>2, <2>4, <2>6, <2>7 DEF CTyped, RequestsGood
<1> QED
  BY <1>1, <1>3, <1>4

LEMMA StepTyped == CInv /\ [Next]_vars => CInv'
<1> SUFFICES ASSUME CInv, [Next]_vars PROVE CInv'
  OBVIOUS
<1> USE DEF CInv
<1>1. ASSUME NEW set \in clears, ServeClear(set) PROVE CInv'
  <2>1. /\ UNCHANGED <<scenario, started, request, shown, issued, pipe, slot, route, made, kernel>>
        /\ Routed' = Routed /\ Frames' = Frames /\ KernelRecord' = KernelRecord
    BY <1>1, SameRoutes DEF ServeClear, frontVars
  <2>2. kept' \in [Cells -> CellKept] /\ clears' \subseteq SUBSET Cells
    BY <1>1, BlankTyped DEF ServeClear, CTyped
  <2> QED
    BY <2>1, <2>2 DEF CTyped, RequestsGood
<1>2. ASSUME NEW k \in Kernels,
             KernelStep(k) \/ IopubLoop(k) \/ SocketOwner(k) \/ WatchExit(k)
      PROVE  CInv'
  <2>1. /\ UNCHANGED <<scenario, started, request, shown, issued, pipe, clears, slot, route, kept, made>>
        /\ Routed' = Routed /\ Frames' = Frames /\ KernelRecord' = KernelRecord
    BY <1>2, SameRoutes DEF KernelStep, IopubLoop, SocketOwner, WatchExit, frontVars, sessionVars
  <2>2. kernel' \in [Kernels -> KernelRecord]
    BY <1>2, KernelStepTyped, TasksTyped
  <2> QED
    BY <2>1, <2>2 DEF CTyped, RequestsGood
<1>3. CASE UNCHANGED vars
  <2>1. /\ UNCHANGED <<scenario, started, request, shown, issued, pipe, clears, slot, route, kept, made, kernel>>
        /\ Routed' = Routed /\ Frames' = Frames /\ KernelRecord' = KernelRecord
    BY <1>3, SameRoutes DEF vars, frontVars, sessionVars
  <2> QED
    BY <2>1 DEF CTyped, RequestsGood
<1> QED
  BY <1>1, <1>2, <1>3, CommandTyped, ReadTyped, ServeTyped, PumpTyped DEF Next, Backend

LEMMA AlwaysTyped == Spec => []CInv
<1>1. Init => CInv
  BY InitTyped DEF CInv
<1> QED
  BY <1>1, StepTyped, PTL DEF Spec

(* Every variable keeps its type, and every event that a pump has before   *)
(* it is of a run with a cell: a route is made before its request is sent. *)
THEOREM CellsTypeCorrect == Spec => []TypeOK
<1>1. CInv => TypeOK
  <2> SUFFICES ASSUME CInv PROVE TypeOK
    OBVIOUS
  <2> USE DEF CInv
  <2>1. ASSUME NEW c \in Cells
        PROVE  /\ shown[c].active \in BOOLEAN /\ OutputSeq(shown[c].outs)
               /\ shown[c].count \in 0..MaxRuns
               /\ shown[c].status \in {"none", "busy", "idle", "ok", "failed"}
               /\ kept[c].count \in 0..MaxRuns /\ OutputSeq(kept[c].outs)
    <3>1. shown[c] \in Display /\ kept[c] \in CellKept
      BY DEF CTyped
    <3>2. /\ shown[c].active \in BOOLEAN /\ shown[c].outs \in Seq(Output)
          /\ shown[c].count \in 0..MaxRuns /\ shown[c].status \in Statuses
          /\ kept[c].count \in 0..MaxRuns /\ kept[c].outs \in Seq(Output)
      BY <3>1 DEF Display, CellKept
    <3>3. ASSUME NEW s \in Seq(Output) PROVE OutputSeq(s)
      <4>1. \A i \in 1..Len(s) : s[i] \in Output
        OBVIOUS
      <4> QED
        BY <4>1 DEF OutputSeq, Output
    <3> QED
      BY <3>2, <3>3 DEF Statuses
  <2>2. ASSUME NEW i \in 1..Len(pipe) PROVE pipe[i] \in [what : FrameKinds, run : 0..MaxRuns]
    <3>1. pipe[i] \in Frames
      BY DEF CTyped
    <3> QED
      BY <3>1 DEF Frames, RunEvents, Replies, Exited, Ev, Routed, Runs, FrameKinds, EventKinds, RunKinds
  <2>3. ASSUME NEW k \in Kernels, NEW i \in 1..Len(kernel[k].chan)
        PROVE  LET e == kernel[k].chan[i] IN
               e \in [what : EventKinds, run : 0..MaxRuns] /\ (e.what # "exited" => route[e.run] \in Cells)
    <3>1. kernel[k].chan[i] \in RunEvents \cup {Exited}
      BY KernelsTyped
    <3> QED
      BY <3>1 DEF RunEvents, Exited, Ev, Routed, Runs, EventKinds, RunKinds
  <2> QED
    BY <2>1, <2>2, <2>3 DEF CTyped, TypeOK
<1> QED
  BY <1>1, AlwaysTyped, PTL
-----------------------------------------------------------------------------
(* Deleted cells.                                                          *)

(* Deleted cells show nothing.                                             *)
DroppedBlank ==
    \A c \in Cells : ~shown[c].active =>
        shown[c].outs = <<>> /\ shown[c].count = 0 /\ shown[c].status = "none"

(* What a frame does to the display of a cell.                             *)
LEMMA ReadStep ==
    ASSUME CInv, Read, NEW c \in Cells
    PROVE  LET e == Head(pipe) IN
           /\ pipe # <<>> /\ pipe' = Tail(pipe) /\ e \in Frames
           /\ \/ /\ e.what \in {"exited", "stopped"} /\ started' = FALSE
                 /\ shown'[c] = [shown[c] EXCEPT !.status = "none"]
              \/ /\ e.what \in {"started", "executed"}
                 /\ shown'[c] = shown[c]
              \/ /\ e \in RunEvents /\ shown[c].active /\ route[e.run] = c
                 /\ shown'[c] = Applied(shown[c], e)
              \/ /\ e \in RunEvents /\ ~ (shown[c].active /\ route[e.run] = c)
                 /\ shown'[c] = shown[c]
<1> DEFINE e == Head(pipe)
<1>0. shown \in [Cells -> Display] /\ pipe \in Seq(Frames)
  BY DEF CInv, CTyped
<1>1. pipe # <<>> /\ pipe' = Tail(pipe) /\ Handle(e) /\ e \in Frames
  BY <1>0 DEF Read
<1>2. CASE e.what = "exited"
  <2>1. KernelExited
    BY <1>1, <1>2 DEF Handle
  <2> QED
    BY <1>1, <1>2, <2>1 DEF KernelExited, ClearedStatuses
<1>3. CASE e.what = "stopped"
  <2>1. Stopped
    BY <1>1, <1>3 DEF Handle
  <2> QED
    BY <1>1, <1>3, <2>1 DEF Stopped, ClearedStatuses
<1>4. CASE e.what \in {"started", "executed"}
  BY <1>1, <1>4 DEF Handle, Started, Executed
<1>5. CASE e.what \notin {"exited", "stopped", "started", "executed"}
  <2>1. ApplyEvent(e)
    BY <1>1, <1>5 DEF Handle
  <2>2. e \in RunEvents
    BY <1>1, <1>5, FrameOfRun
  <2>3. CASE shown[c].active /\ route[e.run] = c
    <3> HIDE DEF e
    <3>1. shown' = [shown EXCEPT ![c] = Applied(shown[c], e)]
      BY <2>1, <2>3 DEF ApplyEvent
    <3>2. shown'[c] = Applied(shown[c], e)
      BY <3>1, <1>0
    <3> QED
      BY <1>1, <2>2, <2>3, <3>2 DEF e
  <2>4. CASE ~ (shown[c].active /\ route[e.run] = c)
    <3> HIDE DEF e
    <3>1. shown'[c] = shown[c]
      BY <2>1, <2>4, <1>0 DEF ApplyEvent
    <3> QED
      BY <1>1, <2>2, <2>4, <3>1 DEF e
  <2> QED
    BY <2>3, <2>4
<1> QED
  BY <1>2, <1>3, <1>4, <1>5

(* What every other step does: the cell's display stays, or it is cleared, *)
(* or it is deleted.                                                       *)
LEMMA DisplayStep ==
    ASSUME CInv, [Next]_vars, NEW c \in Cells
    PROVE  \/ Read
           \/ shown'[c] = shown[c]
           \/ "clear" \in scenario.commands /\ shown'[c] = Unused
           \/ shown'[c] = [Unused EXCEPT !.active = FALSE]
<1> DEFINE Goal ==
           \/ Read
           \/ shown'[c] = shown[c]
           \/ "clear" \in scenario.commands /\ shown'[c] = Unused
           \/ shown'[c] = [Unused EXCEPT !.active = FALSE]
<1>0. shown \in [Cells -> Display]
  BY DEF CInv, CTyped
<1>1. ASSUME NEW set, Clear(set) PROVE Goal
  BY <1>1 DEF Clear
<1>2. ASSUME NEW d \in Cells, DropCell(d) PROVE Goal
  BY <1>0, <1>2 DEF DropCell
<1>3. ASSUME UNCHANGED shown PROVE Goal
  BY <1>3
<1>4. ASSUME Command PROVE Goal
  <2>1. \/ StartKernel \/ StopKernel
        \/ \E d \in scenario.cells : Run(d) \/ DropCell(d) \/ Clear({d})
        \/ Clear(scenario.cells)
    BY <1>4 DEF Command
  <2>2. scenario.cells \subseteq Cells
    BY DEF CInv, CTyped
  <2>3. CASE StartKernel \/ StopKernel \/ \E d \in scenario.cells : Run(d)
    BY <1>3, <2>3 DEF StartKernel, StopKernel, Run
  <2>4. CASE \E d \in scenario.cells : DropCell(d)
    BY <1>2, <2>2, <2>4
  <2>5. CASE (\E d \in scenario.cells : Clear({d})) \/ Clear(scenario.cells)
    BY <1>1, <2>5
  <2> QED
    BY <2>1, <2>3, <2>4, <2>5
<1>5. ASSUME Serve \/ (\E set \in clears : ServeClear(set))
                 \/ (\E k \in Kernels : KernelStep(k) \/ Backend(k)) \/ UNCHANGED vars
      PROVE  UNCHANGED shown
  <2>1. CASE Serve \/ (\E set \in clears : ServeClear(set)) \/ UNCHANGED vars
    BY <2>1 DEF Serve, ServeClear, vars, frontVars
  <2>2. ASSUME NEW k \in Kernels, KernelStep(k) \/ Backend(k) PROVE UNCHANGED shown
    BY <2>2 DEF KernelStep, Backend, IopubLoop, SocketOwner, WatchExit, Pump, frontVars
  <2> QED
    BY <1>5, <2>1, <2>2
<1> QED
  BY <1>3, <1>4, <1>5 DEF Next

(* An event changes what it says of the cell, and the cell stays active.   *)
LEMMA DroppedStep == CInv /\ DroppedBlank /\ [Next]_vars => DroppedBlank'
<1> SUFFICES ASSUME CInv, DroppedBlank, [Next]_vars, NEW c \in Cells, ~shown'[c].active
             PROVE  shown'[c].outs = <<>> /\ shown'[c].count = 0 /\ shown'[c].status = "none"
  BY DEF DroppedBlank
<1>1. shown[c] \in Display
  BY DEF CInv, CTyped
<1>2. ~shown[c].active => shown[c].outs = <<>> /\ shown[c].count = 0 /\ shown[c].status = "none"
  BY DEF DroppedBlank
<1>3. ASSUME Head(pipe) \in RunEvents, shown[c].active, shown'[c] = Applied(shown[c], Head(pipe))
      PROVE  FALSE
  BY <1>1, <1>3, AppliedTyped
<1>4. CASE \/ "clear" \in scenario.commands /\ shown'[c] = Unused
           \/ shown'[c] = [Unused EXCEPT !.active = FALSE]
  BY <1>4 DEF Unused
<1>5. CASE shown'[c] = [shown[c] EXCEPT !.status = "none"]
  BY <1>1, <1>2, <1>5 DEF Display
<1>6. CASE shown'[c] = shown[c]
  BY <1>2, <1>6
<1>7. CASE Read
  <2>1. \/ shown'[c] = shown[c]
        \/ shown'[c] = [shown[c] EXCEPT !.status = "none"]
        \/ Head(pipe) \in RunEvents /\ shown[c].active /\ shown'[c] = Applied(shown[c], Head(pipe))
    BY <1>7, ReadStep
  <2> QED
    BY <1>3, <1>5, <1>6, <2>1
<1> QED
  BY <1>4, <1>6, <1>7, DisplayStep

(* A cell that was deleted shows no output and no status again, whatever   *)
(* events of its runs arrive after that.                                   *)
THEOREM DroppedCellsStayEmpty == Spec => []DroppedStayEmpty
<1>1. Init => DroppedBlank
  BY DEF Init, DroppedBlank, Unused
<1>2. DroppedBlank => DroppedStayEmpty
  BY DEF DroppedBlank, DroppedStayEmpty
<1> QED
  BY <1>1, <1>2, AlwaysTyped, DroppedStep, PTL DEF Spec
-----------------------------------------------------------------------------
(* What a cell shows catches up with what the session has of it.           *)

(* An event on a cell; r is the routes.                                    *)
Onto(cell, e, c, r) ==
    IF e.what \in RunKinds /\ r[e.run] = c THEN Kept(cell, e) ELSE cell

(* The events s, in their order, make b of a.                              *)
Replays(s, a, b, c, r) ==
    \E h \in [0..Len(s) -> CellKept] :
        /\ h[0] = a /\ h[Len(s)] = b
        /\ \A i \in 1..Len(s) : h[i] = Onto(h[i - 1], s[i], c, r)

Seen(c) == [outs |-> shown[c].outs, count |-> shown[c].count]

CatchesUp ==
    "clear" \notin scenario.commands =>
        /\ clears = {}
        /\ \A c \in Cells : shown[c].active => Replays(pipe, Seen(c), kept[c], c, route)

LEMMA ReplaysNothing ==
    ASSUME NEW a, NEW b, NEW c, NEW r
    PROVE  /\ Replays(<<>>, a, b, c, r) => a = b
           /\ a \in CellKept => Replays(<<>>, a, a, c, r)
<1>1. Replays(<<>>, a, b, c, r) => a = b
  BY DEF Replays
<1>2. ASSUME a \in CellKept PROVE Replays(<<>>, a, a, c, r)
  <2> DEFINE h == [i \in 0..0 |-> a]
  <2>1. h \in [0..Len(<<>>) -> CellKept] /\ h[0] = a /\ h[Len(<<>>)] = a
    BY <1>2
  <2>2. \A i \in 1..Len(<<>>) : FALSE
    OBVIOUS
  <2> HIDE DEF h
  <2> QED
    BY <2>1, <2>2 DEF Replays
<1> QED
  BY <1>1, <1>2

LEMMA ReplaysAppend ==
    ASSUME NEW S, NEW s \in Seq(S), NEW a, NEW b, NEW c, NEW r, Replays(s, a, b, c, r),
           NEW e \in S, Onto(b, e, c, r) \in CellKept
    PROVE  Replays(Append(s, e), a, Onto(b, e, c, r), c, r)
<1> DEFINE t == Append(s, e)
           n == Len(s)
           b2 == Onto(b, e, c, r)
<1>1. PICK h \in [0..n -> CellKept] :
          /\ h[0] = a /\ h[n] = b
          /\ \A i \in 1..n : h[i] = Onto(h[i - 1], s[i], c, r)
  BY DEF Replays
<1>2. n \in Nat /\ Len(t) = n + 1 /\ t[n + 1] = e /\ \A i \in 1..n : t[i] = s[i]
  OBVIOUS
<1> HIDE DEF t, n, b2
<1> DEFINE g == [i \in 0..(n + 1) |-> IF i = n + 1 THEN b2 ELSE h[i]]
<1>3. g \in [0..(n + 1) -> CellKept]
  <2>1. b2 \in CellKept
    BY DEF b2
  <2>2. \A i \in 0..(n + 1) : i # n + 1 => i \in 0..n
    BY <1>2
  <2> QED
    BY <2>1, <2>2
<1>4. g[0] = a /\ g[n + 1] = b2
  BY <1>1, <1>2
<1>5. ASSUME NEW i \in 1..(n + 1) PROVE g[i] = Onto(g[i - 1], t[i], c, r)
  <2>1. CASE i = n + 1
    <3>1. g[i] = b2 /\ g[i - 1] = h[n]
      BY <1>2, <2>1
    <3> QED
      BY <1>1, <1>2, <2>1, <3>1 DEF b2
  <2>2. CASE i # n + 1
    <3>1. i \in 1..n /\ i - 1 \in 0..n /\ i - 1 # n + 1
      BY <1>2, <2>2
    <3>2. g[i] = h[i] /\ g[i - 1] = h[i - 1] /\ t[i] = s[i]
      BY <1>2, <3>1
    <3> QED
      BY <1>1, <3>1, <3>2
  <2> QED
    BY <2>1, <2>2
<1> HIDE DEF g
<1> QED
  BY <1>2, <1>3, <1>4, <1>5 DEF Replays, t, b2

LEMMA ReplaysTail ==
    ASSUME NEW S, NEW s \in Seq(S), s # <<>>, NEW a, NEW b, NEW c, NEW r, Replays(s, a, b, c, r)
    PROVE  Replays(Tail(s), Onto(a, Head(s), c, r), b, c, r)
<1> DEFINE t == Tail(s)
           n == Len(t)
<1>1. n \in Nat /\ Len(s) = n + 1 /\ Head(s) = s[1] /\ \A i \in 1..n : t[i] = s[i + 1]
  OBVIOUS
<1>2. PICK h \in [0..Len(s) -> CellKept] :
          /\ h[0] = a /\ h[Len(s)] = b
          /\ \A i \in 1..Len(s) : h[i] = Onto(h[i - 1], s[i], c, r)
  BY DEF Replays
<1> HIDE DEF t, n
<1> DEFINE g == [i \in 0..n |-> h[i + 1]]
<1>3. g \in [0..n -> CellKept]
  <2>1. \A i \in 0..n : i + 1 \in 0..Len(s)
    BY <1>1
  <2> QED
    BY <2>1
<1>4. g[0] = Onto(a, Head(s), c, r)
  <2>1. g[0] = h[1] /\ 1 \in 1..Len(s)
    BY <1>1
  <2>2. h[1] = Onto(h[1 - 1], s[1], c, r)
    BY <1>2, <2>1
  <2>3. 1 - 1 = 0
    OBVIOUS
  <2> QED
    BY <1>1, <1>2, <2>1, <2>2, <2>3
<1>5. g[n] = b
  BY <1>1, <1>2
<1>6. ASSUME NEW i \in 1..n PROVE g[i] = Onto(g[i - 1], t[i], c, r)
  <2>1. i + 1 \in 1..Len(s) /\ i \in 0..n /\ i - 1 \in 0..n /\ (i - 1) + 1 = i /\ (i + 1) - 1 = i
    BY <1>1
  <2>2. g[i] = h[i + 1] /\ g[i - 1] = h[i] /\ t[i] = s[i + 1]
    BY <1>1, <2>1
  <2>3. h[i + 1] = Onto(h[(i + 1) - 1], s[i + 1], c, r)
    BY <1>2, <2>1
  <2> QED
    BY <2>1, <2>2, <2>3
<1> HIDE DEF g
<1> QED
  BY <1>3, <1>4, <1>5, <1>6 DEF Replays, t, n

(* Routes of other runs do not matter.                                     *)
LEMMA ReplaysRoutes ==
    ASSUME NEW s, NEW a, NEW b, NEW c, NEW r, NEW q, Replays(s, a, b, c, r),
           \A i \in 1..Len(s) : s[i].what \in RunKinds => r[s[i].run] = q[s[i].run]
    PROVE  Replays(s, a, b, c, q)
<1>1. PICK h \in [0..Len(s) -> CellKept] :
          /\ h[0] = a /\ h[Len(s)] = b
          /\ \A i \in 1..Len(s) : h[i] = Onto(h[i - 1], s[i], c, r)
  BY DEF Replays
<1>2. \A i \in 1..Len(s) : Onto(h[i - 1], s[i], c, r) = Onto(h[i - 1], s[i], c, q)
  BY DEF Onto
<1>3. \A i \in 1..Len(s) : h[i] = Onto(h[i - 1], s[i], c, q)
  BY <1>1, <1>2
<1> QED
  BY <1>1, <1>3 DEF Replays
LEMMA SameScenario == [Next]_vars => scenario' = scenario
<1>1. CASE Command \/ Read \/ Serve \/ (\E set \in clears : ServeClear(set)) \/ UNCHANGED vars
  BY <1>1 DEF Command, Read, Serve, ServeClear, vars
<1>2. ASSUME NEW k \in Kernels, KernelStep(k) \/ Backend(k) PROVE scenario' = scenario
  BY <1>2 DEF KernelStep, Backend, IopubLoop, SocketOwner, WatchExit, Pump
<1> QED
  BY <1>1, <1>2 DEF Next

(* What a step does to the frames, the cells of the session and the routes. *)
LEMMA PipeStep ==
    ASSUME CInv, [Next]_vars
    PROVE  \/ Read /\ UNCHANGED <<clears, kept, route>>
           \/ /\ \E e \in Replies \cup {Exited} : pipe' = Append(pipe, e)
              /\ \A n \in Routed : route'[n] = route[n]
              /\ UNCHANGED <<clears, kept>>
           \/ /\ \E e \in RunEvents : /\ pipe' = Append(pipe, e)
                                      /\ kept' = [kept EXCEPT ![route[e.run]] = Kept(@, e)]
              /\ UNCHANGED <<clears, route>>
           \/ UNCHANGED <<pipe, route, kept>> /\ (clears' = clears \/ "clear" \in scenario.commands)
           \/ UNCHANGED <<pipe, route>> /\ clears # {}
<1> DEFINE A == Read /\ UNCHANGED <<clears, kept, route>>
           B == /\ \E e \in Replies \cup {Exited} : pipe' = Append(pipe, e)
                /\ \A n \in Routed : route'[n] = route[n]
                /\ UNCHANGED <<clears, kept>>
           C == /\ \E e \in RunEvents : /\ pipe' = Append(pipe, e)
                                        /\ kept' = [kept EXCEPT ![route[e.run]] = Kept(@, e)]
                /\ UNCHANGED <<clears, route>>
           D == UNCHANGED <<pipe, route, kept>> /\ (clears' = clears \/ "clear" \in scenario.commands)
           E == UNCHANGED <<pipe, route>> /\ clears # {}
<1>1. ASSUME Command PROVE D
  <2>1. UNCHANGED <<pipe, route, kept>>
    BY <1>1 DEF Command, sessionVars
  <2>2. clears' = clears \/ "clear" \in scenario.commands
    BY <1>1 DEF Command, StartKernel, StopKernel, Run, DropCell, Clear
  <2> QED
    BY <2>1, <2>2
<1>2. ASSUME Read PROVE A
  BY <1>2 DEF Read, sessionVars
<1>3. ASSUME Serve PROVE B \/ D
  <2>0. CASE ServeLaunch
    BY <1>3, <2>0 DEF Serve, ServeLaunch
  <2> SUFFICES ASSUME ~ServeLaunch PROVE B
    BY <2>0
  <2>1. UNCHANGED <<clears, kept>>
    BY <1>3 DEF Serve, ServeExecute, ServeStart, ServeStop, sessionVars
  <2>2. \E e \in Replies \cup {Exited} : pipe' = Append(pipe, e)
    <3>1. CASE ServeExecute
      <4>1. Ev("executed", issued) \in Replies
        BY <3>1 DEF ServeExecute, CInv, RequestsGood, Ev, Replies
      <4> QED
        BY <3>1, <4>1 DEF ServeExecute
    <3>2. CASE ServeStart \/ ServeStop
      BY <3>2 DEF ServeStart, ServeStop, Replies
    <3> QED
      BY <1>3, <3>1, <3>2 DEF Serve
  <2>3. \A n \in Routed : route'[n] = route[n]
    <3>1. CASE ServeExecute
      <4>1. issued \notin Routed
        BY <3>1 DEF ServeExecute, CInv, RequestsGood
      <4>2. route \in [Runs -> Cells \cup {NoCells}] /\ Routed \subseteq Runs
        BY DEF CInv, CTyped, Routed
      <4>3. route' = route \/ route' = [route EXCEPT ![issued] = request.cell]
        BY <3>1 DEF ServeExecute
      <4> QED
        BY <4>1, <4>2, <4>3
    <3>2. CASE ServeStart \/ ServeStop
      BY <3>2 DEF ServeStart, ServeStop, sessionVars
    <3> QED
      BY <1>3, <3>1, <3>2 DEF Serve
  <2> QED
    BY <2>1, <2>2, <2>3
<1>4. ASSUME NEW set \in clears, ServeClear(set) PROVE E
  BY <1>4 DEF ServeClear
<1>5. ASSUME NEW k \in Kernels, Pump(k) PROVE B \/ C \/ D
  <2>1. kernel[k].chan # <<>> /\ UNCHANGED clears /\ (Forward(k) \/ ForwardExit(k))
    BY <1>5 DEF Pump
  <2>2. CASE Forward(k)
    <3> DEFINE e == Head(kernel[k].chan)
    <3>1. e \in RunEvents \cup {Exited} /\ e.what # "exited"
      <4>1. kernel[k].chan \in Seq(RunEvents \cup {Exited})
        BY KernelsTyped DEF CInv
      <4>2. e \in RunEvents \cup {Exited}
        BY <2>1, <4>1
      <4> QED
        BY <2>2, <4>2 DEF Forward
    <3>2. e \in RunEvents
      BY <3>1 DEF Exited, Ev
    <3>3. pipe' = Append(pipe, e) /\ kept' = [kept EXCEPT ![route[e.run]] = Kept(@, e)] /\ UNCHANGED route
      BY <2>2 DEF Forward
    <3> HIDE DEF e
    <3>4. C
      BY <2>1, <3>2, <3>3
    <3> QED
      BY <3>4
  <2>3. CASE ForwardExit(k)
    <3>1. UNCHANGED <<route, kept>> /\ (pipe' = pipe \/ pipe' = Append(pipe, Exited))
      BY <2>3 DEF ForwardExit, Exited
    <3> QED
      BY <2>1, <3>1
  <2> QED
    BY <2>1, <2>2, <2>3
<1>6. ASSUME NEW k \in Kernels, KernelStep(k) \/ IopubLoop(k) \/ SocketOwner(k) \/ WatchExit(k) PROVE D
  BY <1>6 DEF KernelStep, IopubLoop, SocketOwner, WatchExit, sessionVars
<1>7. ASSUME UNCHANGED vars PROVE D
  BY <1>7 DEF vars, sessionVars
<1> HIDE DEF A, B, C, D, E
<1>8. A \/ B \/ C \/ D \/ E
  BY <1>1, <1>2, <1>3, <1>4, <1>5, <1>6, <1>7 DEF Next, Backend
<1> QED
  BY <1>8 DEF A, B, C, D, E

(* Frames that are no events of runs change nothing that is shown of a     *)
(* cell but its status.                                                    *)
LEMMA OtherFrames ==
    ASSUME NEW e \in Replies \cup {Exited}, NEW cell, NEW c, NEW r
    PROVE  Onto(cell, e, c, r) = cell
BY DEF Onto, Replies, Exited, Ev, RunKinds, AllOutputs

LEMMA SeenStep ==
    ASSUME CInv, Read, NEW c \in Cells, shown'[c].active
    PROVE  shown[c].active /\ Seen(c)' = Onto(Seen(c), Head(pipe), c, route)
<1> DEFINE e == Head(pipe)
<1>1. shown[c] \in Display /\ e \in Frames
  BY ReadStep DEF CInv, CTyped
<1> HIDE DEF e
<1>2. CASE e \in RunEvents /\ shown[c].active /\ route[e.run] = c /\ shown'[c] = Applied(shown[c], e)
  <2>1. /\ [outs |-> Applied(shown[c], e).outs, count |-> Applied(shown[c], e).count] = Kept(Seen(c), e)
        /\ e.what \in RunKinds
    BY <1>1, <1>2, AppliedTyped, FrameOfRun DEF Seen
  <2> QED
    BY <1>2, <2>1 DEF Onto, Seen, e
<1>3. CASE e \in RunEvents /\ ~ (shown[c].active /\ route[e.run] = c) /\ shown'[c] = shown[c]
  BY <1>3 DEF Onto, Seen, e
<1>4. CASE e.what \in {"exited", "stopped"} /\ shown'[c] = [shown[c] EXCEPT !.status = "none"]
  <2>1. Seen(c)' = Seen(c) /\ shown[c].active
    BY <1>1, <1>4 DEF Seen, Display
  <2> QED
    BY <1>1, <1>4, <2>1, FrameOfRun, OtherFrames DEF e
<1>5. CASE e.what \in {"started", "executed"} /\ shown'[c] = shown[c]
  <2>1. Seen(c)' = Seen(c) /\ shown[c].active
    BY <1>5 DEF Seen
  <2> QED
    BY <1>1, <1>5, <2>1, FrameOfRun, OtherFrames DEF e
<1> QED
  BY <1>2, <1>3, <1>4, <1>5, ReadStep DEF e

LEMMA CatchUpStep == CInv /\ CatchesUp /\ [Next]_vars => CatchesUp'
<1> SUFFICES ASSUME CInv, CatchesUp, [Next]_vars, "clear" \notin scenario.commands
             PROVE  /\ clears' = {}
                    /\ \A c \in Cells : shown'[c].active =>
                           Replays(pipe', Seen(c)', kept'[c], c, route')
  <2> QED
    BY SameScenario DEF CatchesUp
<1>1. clears = {} /\ \A c \in Cells : shown[c].active => Replays(pipe, Seen(c), kept[c], c, route)
  BY DEF CatchesUp
<1>2. clears' = {}
  BY <1>1, PipeStep
<1>3. ASSUME NEW c \in Cells, shown'[c].active PROVE Replays(pipe', Seen(c)', kept'[c], c, route')
  <2>1. /\ pipe \in Seq(Frames) /\ kept \in [Cells -> CellKept] /\ kept[c] \in CellKept
        /\ shown[c] \in Display /\ route \in [Runs -> Cells \cup {NoCells}]
    BY DEF CInv, CTyped
  <2>2. CASE Read
    <3>1. pipe # <<>> /\ pipe' = Tail(pipe) /\ UNCHANGED <<kept, route>>
      BY <2>2 DEF Read, sessionVars
    <3>2. shown[c].active /\ Seen(c)' = Onto(Seen(c), Head(pipe), c, route)
      BY <1>3, <2>2, SeenStep
    <3>3. Replays(Tail(pipe), Onto(Seen(c), Head(pipe), c, route), kept[c], c, route)
      BY <1>1, <2>1, <3>1, <3>2, ReplaysTail
    <3> QED
      BY <3>1, <3>2, <3>3
  <2>3. CASE ~Read
    <3>1. shown'[c] = shown[c]
      <4>1. shown'[c] # [Unused EXCEPT !.active = FALSE]
        BY <1>3 DEF Unused
      <4> QED
        BY <2>3, <4>1, DisplayStep
    <3>2. Seen(c)' = Seen(c) /\ Replays(pipe, Seen(c), kept[c], c, route)
      BY <1>1, <1>3, <3>1 DEF Seen
    <3> DEFINE a == Seen(c)
    <3> HIDE DEF a
    <3>3. Replays(pipe, a, kept[c], c, route)
      BY <3>2 DEF a
    <3>4. Replays(pipe', a, kept'[c], c, route')
      <4>1. CASE UNCHANGED <<pipe, kept, route>>
        BY <3>3, <4>1
      <4>2. ASSUME NEW e \in Replies \cup {Exited}, pipe' = Append(pipe, e),
                   \A n \in Routed : route'[n] = route[n], UNCHANGED kept
            PROVE  Replays(pipe', a, kept'[c], c, route')
        <5>1. Onto(kept[c], e, c, route) = kept[c] /\ e \in Frames
          BY OtherFrames DEF Frames
        <5>2. Replays(pipe', a, kept[c], c, route)
          BY <2>1, <3>3, <4>2, <5>1, ReplaysAppend
        <5>3. \A i \in 1..Len(pipe') : pipe'[i].what \in RunKinds => pipe'[i].run \in Routed
          <6>1. pipe' \in Seq(Frames)
            BY <2>1, <4>2, <5>1
          <6>2. \A d \in Frames : d.what \in RunKinds => d.run \in Routed
            BY FrameOfRun DEF RunKinds, AllOutputs
          <6> QED
            BY <6>1, <6>2
        <5> QED
          BY <4>2, <5>2, <5>3, ReplaysRoutes
      <4>3. ASSUME NEW e \in RunEvents, pipe' = Append(pipe, e), UNCHANGED route,
                   kept' = [kept EXCEPT ![route[e.run]] = Kept(@, e)]
            PROVE  Replays(pipe', a, kept'[c], c, route')
        <5>1. e \in Frames /\ e.what \in RunKinds
          BY DEF Frames, RunEvents
        <5>2. kept'[c] = Onto(kept[c], e, c, route)
          BY <2>1, <4>3, <5>1 DEF Onto
        <5>3. Onto(kept[c], e, c, route) \in CellKept
          BY <2>1, <5>1, KeptTyped DEF Onto
        <5> QED
          BY <2>1, <3>3, <4>3, <5>1, <5>2, <5>3, ReplaysAppend
      <4> QED
        BY <1>1, <2>3, <4>1, <4>2, <4>3, PipeStep
    <3> QED
      BY <3>2, <3>4 DEF a
  <2> QED
    BY <2>2, <2>3
<1> QED
  BY <1>2, <1>3

(* When all frames are read and nothing is cleared, a cell shows the       *)
(* outputs and the count that the session has of it.                       *)
THEOREM CellsAgreeWithSession == Spec => []ReplicasAgree
<1>1. Init => CatchesUp
  <2> SUFFICES ASSUME Init, NEW c \in Cells PROVE Replays(<<>>, Seen(c), kept[c], c, route)
    BY DEF Init, CatchesUp
  <2>1. Seen(c) = Blank /\ kept[c] = Blank
    BY DEF Init, Seen, Unused, Blank
  <2> QED
    BY <2>1, BlankTyped, ReplaysNothing
<1>2. CatchesUp => ReplicasAgree
  <2> SUFFICES ASSUME CatchesUp, "clear" \notin scenario.commands, pipe = <<>>,
                      NEW c \in Cells, shown[c].active
               PROVE  shown[c].outs = kept[c].outs /\ shown[c].count = kept[c].count
    BY DEF ReplicasAgree, Quiet
  <2>1. Seen(c) = kept[c]
    BY ReplaysNothing DEF CatchesUp
  <2>2. Seen(c).outs = kept[c].outs /\ Seen(c).count = kept[c].count
    BY <2>1
  <2> QED
    BY <2>2 DEF Seen
<1> QED
  BY <1>1, <1>2, AlwaysTyped, CatchUpStep, PTL DEF Spec
-----------------------------------------------------------------------------
(* A cell is busy only while there is a kernel, where none is stopped.     *)

(* Frames of S in the frames s: none, or at most one.                      *)
Free(S, s) == \A i \in 1..Len(s) : s[i] \notin S
AtMostOne(S, s) == \A i, j \in 1..Len(s) : s[i] \in S /\ s[j] \in S => i = j

(* No frame of S comes after one of T.                                     *)
Before(S, T, s) == \A j \in 1..Len(s) : s[j] \in S => \A i \in 1..(j - 1) : s[i] \notin T

LEMMA FramesAppend ==
    ASSUME NEW F, NEW s \in Seq(F), NEW e \in F, NEW S, NEW T
    PROVE  /\ Free(S, Append(s, e)) <=> Free(S, s) /\ e \notin S
           /\ AtMostOne(S, s) /\ (e \in S => Free(S, s)) => AtMostOne(S, Append(s, e))
           /\ Before(S, T, s) /\ (e \in S => Free(T, s)) => Before(S, T, Append(s, e))
<1> DEFINE t == Append(s, e)
           n == Len(s)
<1>1. n \in Nat /\ Len(t) = n + 1 /\ t[n + 1] = e /\ \A i \in 1..n : t[i] = s[i]
  OBVIOUS
<1>2. \A i \in 1..(n + 1) : i = n + 1 \/ i \in 1..n
  BY <1>1
<1> HIDE DEF t
<1>3. Free(S, t) <=> Free(S, s) /\ e \notin S
  BY <1>1, <1>2 DEF Free
<1>4. AtMostOne(S, s) /\ (e \in S => Free(S, s)) => AtMostOne(S, t)
  BY <1>1, <1>2 DEF Free, AtMostOne
<1>5. ASSUME Before(S, T, s), e \in S => Free(T, s) PROVE Before(S, T, t)
  <2> SUFFICES ASSUME NEW j \in 1..(n + 1), t[j] \in S, NEW i \in 1..(j - 1) PROVE t[i] \notin T
    BY <1>1 DEF Before
  <2>1. i \in 1..n /\ t[i] = s[i]
    BY <1>1
  <2>2. CASE j = n + 1
    BY <1>1, <1>5, <2>1, <2>2 DEF Free
  <2>3. CASE j # n + 1
    BY <1>1, <1>2, <1>5, <2>1, <2>3 DEF Before
  <2> QED
    BY <2>2, <2>3
<1> QED
  BY <1>3, <1>4, <1>5 DEF t

LEMMA FramesTail ==
    ASSUME NEW F, NEW s \in Seq(F), s # <<>>, NEW S, NEW T
    PROVE  /\ Free(S, s) <=> Head(s) \notin S /\ Free(S, Tail(s))
           /\ AtMostOne(S, s) => AtMostOne(S, Tail(s)) /\ (Head(s) \in S => Free(S, Tail(s)))
           /\ Before(S, T, s) => Before(S, T, Tail(s)) /\ (Head(s) \in T => Free(S, Tail(s)))
<1> DEFINE t == Tail(s)
           n == Len(t)
<1>1. n \in Nat /\ Len(s) = n + 1 /\ Head(s) = s[1] /\ \A i \in 1..n : t[i] = s[i + 1]
  OBVIOUS
<1> HIDE DEF t, n
<1>2. \A i \in 1..n : i + 1 \in 1..(n + 1) /\ i + 1 # 1
  BY <1>1
<1>3. 1 \in 1..(n + 1) /\ \A i \in 1..(n + 1) : i # 1 => (i - 1) \in 1..n /\ (i - 1) + 1 = i
  BY <1>1
<1>4. Free(S, s) <=> Head(s) \notin S /\ Free(S, t)
  <2>1. Free(S, s) => Head(s) \notin S /\ Free(S, t)
    BY <1>1, <1>2, <1>3 DEF Free, n
  <2>2. ASSUME Head(s) \notin S, Free(S, t), NEW i \in 1..(n + 1) PROVE s[i] \notin S
    <3>1. CASE i = 1
      BY <1>1, <2>2, <3>1
    <3>2. CASE i # 1
      <4>1. s[i] = t[i - 1] /\ i - 1 \in 1..n
        BY <1>1, <1>3, <3>2
      <4> QED
        BY <2>2, <4>1 DEF Free, n
    <3> QED
      BY <3>1, <3>2
  <2> QED
    BY <1>1, <2>1, <2>2 DEF Free
<1>5. ASSUME AtMostOne(S, s) PROVE AtMostOne(S, t) /\ (Head(s) \in S => Free(S, t))
  <2>1. ASSUME NEW i \in 1..n, NEW j \in 1..n, t[i] \in S, t[j] \in S PROVE i = j
    <3>1. i + 1 = j + 1
      BY <1>1, <1>2, <1>5, <2>1 DEF AtMostOne
    <3> QED
      BY <3>1
  <2>2. ASSUME NEW i \in 1..n, t[i] \in S, Head(s) \in S PROVE FALSE
    BY <1>1, <1>2, <1>3, <1>5, <2>2 DEF AtMostOne
  <2> QED
    BY <2>1, <2>2 DEF AtMostOne, Free, n
<1>6. ASSUME Before(S, T, s) PROVE Before(S, T, t) /\ (Head(s) \in T => Free(S, t))
  <2>1. ASSUME NEW j \in 1..n, t[j] \in S, NEW i \in 1..(j - 1) PROVE t[i] \notin T
    <3>1. i \in 1..n /\ i + 1 \in 1..((j + 1) - 1)
      BY <1>1, <2>1
    <3> QED
      BY <1>1, <1>2, <1>6, <2>1, <3>1 DEF Before
  <2>2. ASSUME NEW j \in 1..n, t[j] \in S, Head(s) \in T PROVE FALSE
    <3>1. 1 \in 1..((j + 1) - 1)
      BY <1>1, <2>2
    <3> QED
      BY <1>1, <1>2, <1>6, <2>2, <3>1 DEF Before
  <2> QED
    BY <2>1, <2>2 DEF Before, Free, n
<1> QED
  BY <1>4, <1>5, <1>6 DEF t

LEMMA FreeAppend ==
    ASSUME NEW F, NEW s \in Seq(F), NEW e \in F, NEW S
    PROVE  Free(S, Append(s, e)) <=> Free(S, s) /\ e \notin S
BY FramesAppend

(* One request at a time is answered by one frame.                         *)
RepliesGood ==
    /\ AtMostOne(Replies, pipe)
    /\ request.what # "answered" => Free(Replies, pipe)

LEMMA RepliesStep == CInv /\ RepliesGood /\ [Next]_vars => RepliesGood'
<1> SUFFICES ASSUME CInv, RepliesGood, [Next]_vars PROVE RepliesGood'
  OBVIOUS
<1>0. pipe \in Seq(Frames) /\ Replies' = Replies
  BY DEF CInv, CTyped, Replies
<1>1. CASE Command
  <2>1. pipe' = pipe /\ (request' = request \/ request.what = "none")
    BY <1>1 DEF Command, StartKernel, StopKernel, Run, DropCell, Clear
  <2> QED
    BY <2>1, <1>0 DEF RepliesGood
<1>2. CASE Read
  <2>1. pipe # <<>> /\ pipe' = Tail(pipe) /\ Handle(Head(pipe)) /\ Head(pipe) \in Frames
    BY <1>0, <1>2 DEF Read
  <2>2. AtMostOne(Replies, pipe') /\ (Head(pipe) \in Replies => Free(Replies, pipe'))
    BY <1>0, <2>1, FramesTail DEF RepliesGood
  <2>3. \/ request' = request /\ (request.what # "answered" => Free(Replies, pipe'))
        \/ Head(pipe) \in Replies
    <3>1. CASE Head(pipe).what \in {"stopped", "started", "executed"}
      BY <2>1, <3>1, FrameOfRun
    <3>2. CASE Head(pipe).what \notin {"stopped", "started", "executed"}
      <4>1. request' = request
        BY <2>1, <3>2 DEF Handle, KernelExited, ApplyEvent
      <4> QED
        BY <4>1, <1>0, <2>1, FramesTail DEF RepliesGood
    <3> QED
      BY <3>1, <3>2
  <2> QED
    BY <1>0, <2>2, <2>3 DEF RepliesGood
<1>3. CASE Serve
  <2>0. CASE ServeLaunch
    <3>1. /\ request.what = "start" /\ request' = [request EXCEPT !.what = "launched"] /\ pipe' = pipe
      BY <1>3, <2>0 DEF Serve, ServeLaunch, ServeExecute, ServeStart, ServeStop
    <3>2. request'.what = "launched"
      BY <3>1 DEF CInv, CTyped
    <3> QED
      BY <1>0, <3>1, <3>2 DEF RepliesGood
  <2> SUFFICES ASSUME ~ServeLaunch PROVE RepliesGood'
    BY <2>0
  <2>1. /\ request.what # "answered" /\ request' = [request EXCEPT !.what = "answered"]
        /\ \E e \in Frames : pipe' = Append(pipe, e)
    <3>1. CASE ServeExecute
      <4>1. Ev("executed", issued) \in Frames
        BY <3>1 DEF ServeExecute, CInv, RequestsGood, Ev, Replies, Frames
      <4> QED
        BY <1>3, <3>1, <4>1 DEF Serve, ServeExecute
    <3>2. CASE ServeStart \/ ServeStop
      BY <1>3, <3>2 DEF Serve, ServeStart, ServeStop, Replies, Frames
    <3> QED
      BY <1>3, <3>1, <3>2 DEF Serve
  <2>2. request'.what = "answered"
    BY <2>1 DEF CInv, CTyped
  <2>3. AtMostOne(Replies, pipe')
    <3>1. PICK e \in Frames : pipe' = Append(pipe, e)
      BY <2>1
    <3>2. AtMostOne(Replies, pipe) /\ Free(Replies, pipe)
      BY <2>1 DEF RepliesGood
    <3> QED
      BY <1>0, <3>1, <3>2, FramesAppend
  <2> QED
    BY <1>0, <2>2, <2>3 DEF RepliesGood
<1>4. ASSUME NEW k \in Kernels, Pump(k) PROVE RepliesGood'
  <2>1. request' = request
    BY <1>4 DEF Pump, frontVars
  <2>2. pipe' = pipe \/ \E e \in RunEvents \cup {Exited} : pipe' = Append(pipe, e)
    <3>1. CASE Forward(k)
      <4>1. kernel[k].chan \in Seq(RunEvents \cup {Exited}) /\ kernel[k].chan # <<>>
        BY <1>4, KernelsTyped DEF CInv, Pump
      <4>2. Head(kernel[k].chan) \in RunEvents \cup {Exited}
        BY <4>1
      <4> QED
        BY <3>1, <4>2 DEF Forward
    <3>2. CASE ForwardExit(k)
      BY <3>2 DEF ForwardExit, Exited
    <3> QED
      BY <1>4, <3>1, <3>2 DEF Pump
  <2>3. \A e \in RunEvents \cup {Exited} : e \in Frames /\ e \notin Replies
    BY FrameOfRun DEF Frames, RunEvents, RunKinds, AllOutputs, Exited, Ev, Replies
  <2>4. ASSUME NEW e \in RunEvents \cup {Exited}, pipe' = Append(pipe, e) PROVE RepliesGood'
    <3>1. e \in Frames /\ e \notin Replies
      BY <2>3
    <3>2. /\ AtMostOne(Replies, pipe) => AtMostOne(Replies, pipe')
          /\ Free(Replies, pipe) => Free(Replies, pipe')
      BY <1>0, <2>4, <3>1, FramesAppend
    <3> QED
      BY <1>0, <2>1, <3>2 DEF RepliesGood
  <2> QED
    BY <1>0, <2>1, <2>2, <2>4 DEF RepliesGood
<1>5. CASE (\E set \in clears : ServeClear(set)) \/ UNCHANGED vars
  <2>1. UNCHANGED <<pipe, request>>
    BY <1>5 DEF ServeClear, vars, frontVars
  <2> QED
    BY <1>0, <2>1 DEF RepliesGood
<1>6. ASSUME NEW k \in Kernels, KernelStep(k) \/ IopubLoop(k) \/ SocketOwner(k) \/ WatchExit(k)
      PROVE  RepliesGood'
  <2>1. UNCHANGED <<pipe, request>>
    BY <1>6 DEF KernelStep, IopubLoop, SocketOwner, WatchExit, frontVars
  <2> QED
    BY <1>0, <2>1 DEF RepliesGood
<1> QED
  BY <1>1, <1>2, <1>3, <1>4, <1>5, <1>6 DEF Next, Backend
StartedFrame == Ev("started", 0)
StoppedFrame == Ev("stopped", 0)
RunFrames == [what : RunKinds, run : Runs]

(* A kernel that is not there, or has exited and is dropped.               *)
Gone(ker) ==
    /\ ~ker.alive /\ ~ker.watch /\ ker.cur = 0
    /\ ker.todo = <<>> /\ ker.iopub = <<>> /\ ker.shell = <<>> /\ ker.chan = <<>>

(* A kernel that has a run to do, or events of runs on the way.            *)
Working(ker) ==
    \/ ker.cur # 0 \/ ker.todo # <<>> \/ ker.iopub # <<>> \/ ker.shell # <<>>
    \/ ~ Free(RunFrames, ker.chan)

KernelKnown == started \/ request.what = "launched" \/ ~ Free({StartedFrame}, pipe)

(* One kernel at a time, and the front end learns of its start before it   *)
(* has an event of a run of it, and of its exit after it has all of them.  *)
(* It may learn of its exit before it learns of its start.                 *)
OneKernel ==
    /\ request.what # "stop" /\ Free({StoppedFrame}, pipe)
    /\ request.what = "start" => ~started
    /\ \A k \in Kernels : IF kernel[k].pump THEN slot = k ELSE Gone(kernel[k]) /\ slot # k
    /\ slot # 0 => Free({Exited}, pipe) /\ KernelKnown
    /\ ~ Free({Exited}, pipe) => KernelKnown
    /\ AtMostOne({Exited}, pipe)
    /\ Before(RunFrames, {Exited}, pipe)
    /\ ~ Free(RunFrames, pipe) => started
    /\ \A k \in Kernels : Working(kernel[k]) => started
    /\ BusyHasKernel

NoStop == "stop" \notin scenario.commands

OneKernelAtATime == RepliesGood /\ (NoStop => OneKernel)

(* A kernel and its tasks go on: none starts to work by itself.            *)
LEMMA TasksWorking ==
    ASSUME CInv, NEW k \in Kernels, ~ kernel[k].pump => Gone(kernel[k]),
           KernelStep(k) \/ IopubLoop(k) \/ SocketOwner(k) \/ WatchExit(k)
    PROVE  \E r : /\ kernel' = [kernel EXCEPT ![k] = r]
                  /\ kernel[k].pump /\ r.pump /\ (Working(r) => Working(kernel[k]))
<1> DEFINE ker == kernel[k]
           Good(r) == ker.pump /\ r.pump /\ (Working(r) => Working(ker))
<1>0. ker \in KernelRecord /\ ker.chan \in Seq(RunEvents \cup {Exited}) /\ ker.pump \in BOOLEAN
  BY KernelsTyped DEF CInv, KernelRecord
<1> HIDE DEF ker
<1>1. ASSUME NEW r, ker.pump, r.pump = ker.pump, Working(ker), kernel' = [kernel EXCEPT ![k] = r]
      PROVE  \E q : kernel' = [kernel EXCEPT ![k] = q] /\ Good(q)
  BY <1>1
<1>2. ASSUME Exit(k) PROVE \E q : kernel' = [kernel EXCEPT ![k] = q] /\ Good(q)
  <2> DEFINE r == [ker EXCEPT !.alive = FALSE]
  <2>1. kernel' = [kernel EXCEPT ![k] = r] /\ ker.alive
    BY <1>2 DEF Exit, ker
  <2>2. ker.pump
    BY <2>1 DEF Gone, ker
  <2>3. Good(r)
    BY <1>0, <2>2 DEF KernelRecord, Working
  <2> QED
    BY <2>1, <2>3 DEF ker
<1>3. ASSUME Begin(k) \/ Abort(k) PROVE \E q : kernel' = [kernel EXCEPT ![k] = q] /\ Good(q)
  <2>1. ker.todo # <<>> /\ ker.alive
    BY <1>3 DEF Begin, Abort, ker
  <2>2. ker.pump /\ Working(ker)
    BY <2>1 DEF Gone, Working, ker
  <2>3. CASE Begin(k)
    <3> DEFINE n == Head(ker.todo)
               r == [ker EXCEPT !.cur = n, !.todo = Tail(@), !.iopub = @ \o <<Ev("busy", n), Ev("input", n)>>]
    <3>1. kernel' = [kernel EXCEPT ![k] = r]
      BY <2>3 DEF Begin, ker
    <3>2. r.pump = ker.pump
      BY <1>0 DEF KernelRecord
    <3> HIDE DEF r
    <3> QED
      BY <1>1, <2>2, <3>1, <3>2 DEF ker
  <2>4. CASE Abort(k)
    <3> DEFINE n == Head(ker.todo)
               r == [ker EXCEPT !.todo = Tail(@), !.iopub = @ \o <<Ev("busy", n), Ev("idle", n)>>,
                                !.shell = Append(@, Ev("failed", n))]
    <3>1. kernel' = [kernel EXCEPT ![k] = r]
      BY <2>4 DEF Abort, ker
    <3>2. r.pump = ker.pump
      BY <1>0 DEF KernelRecord
    <3> HIDE DEF r
    <3> QED
      BY <1>1, <2>2, <3>1, <3>2 DEF ker
  <2> QED
    BY <1>3, <2>3, <2>4
<1>4. ASSUME NEW what, Emit(k, what) PROVE \E q : kernel' = [kernel EXCEPT ![k] = q] /\ Good(q)
  <2> DEFINE r == [ker EXCEPT !.emitted = @ + 1, !.iopub = Append(@, Ev(what, ker.cur))]
  <2>1. kernel' = [kernel EXCEPT ![k] = r] /\ ker.alive /\ ker.cur # 0
    BY <1>4 DEF Emit, ker
  <2>2. r.pump = ker.pump
    BY <1>0 DEF KernelRecord
  <2>3. ker.pump /\ Working(ker)
    BY <2>1 DEF Gone, Working, ker
  <2> HIDE DEF r
  <2> QED
    BY <1>1, <2>1, <2>2, <2>3
<1>5. ASSUME NEW ok \in BOOLEAN, End(k, ok) PROVE \E q : kernel' = [kernel EXCEPT ![k] = q] /\ Good(q)
  <2> DEFINE n == ker.cur
             r == [ker EXCEPT
                      !.cur = 0, !.emitted = 0,
                      !.iopub = IF ok THEN Append(@, Ev("idle", n)) ELSE @ \o <<Ev("error", n), Ev("idle", n)>>,
                      !.shell = Append(@, Ev(IF ok THEN "ok" ELSE "failed", n))]
  <2>1. kernel' = [kernel EXCEPT ![k] = r] /\ ker.alive /\ ker.cur # 0
    BY <1>5 DEF End, ker
  <2>2. r.pump = ker.pump
    BY <1>0 DEF KernelRecord
  <2>3. ker.pump /\ Working(ker)
    BY <2>1 DEF Gone, Working, ker
  <2> HIDE DEF r
  <2> QED
    BY <1>1, <2>1, <2>2, <2>3
<1>6. ASSUME IopubLoop(k) PROVE \E q : kernel' = [kernel EXCEPT ![k] = q] /\ Good(q)
  <2> DEFINE r == [ker EXCEPT !.iopub = Tail(@), !.chan = Append(@, Head(ker.iopub))]
  <2>1. kernel' = [kernel EXCEPT ![k] = r] /\ ker.iopub # <<>>
    BY <1>6 DEF IopubLoop, ker
  <2>2. r.pump = ker.pump
    BY <1>0 DEF KernelRecord
  <2>3. ker.pump /\ Working(ker)
    BY <2>1 DEF Gone, Working, ker
  <2> HIDE DEF r
  <2> QED
    BY <1>1, <2>1, <2>2, <2>3 DEF ker
<1>7. ASSUME SocketOwner(k) PROVE \E q : kernel' = [kernel EXCEPT ![k] = q] /\ Good(q)
  <2> DEFINE r == [ker EXCEPT !.shell = Tail(@), !.chan = Append(@, Head(ker.shell))]
  <2>1. kernel' = [kernel EXCEPT ![k] = r] /\ ker.shell # <<>>
    BY <1>7 DEF SocketOwner, ker
  <2>2. r.pump = ker.pump
    BY <1>0 DEF KernelRecord
  <2>3. ker.pump /\ Working(ker)
    BY <2>1 DEF Gone, Working, ker
  <2> HIDE DEF r
  <2> QED
    BY <1>1, <2>1, <2>2, <2>3 DEF ker
<1>8. ASSUME WatchExit(k) PROVE \E q : kernel' = [kernel EXCEPT ![k] = q] /\ Good(q)
  <2> DEFINE chan == Append(ker.chan, Exited)
             r == [ker EXCEPT !.watch = FALSE, !.chan = chan]
  <2>1. kernel' = [kernel EXCEPT ![k] = r] /\ ker.watch
    BY <1>8 DEF WatchExit, ker, Exited
  <2>2. ker.pump
    BY <2>1 DEF Gone, ker
  <2>3. Free(RunFrames, chan) <=> Free(RunFrames, ker.chan)
    <3>1. Exited \in RunEvents \cup {Exited} /\ Exited \notin RunFrames
      BY DEF Exited, Ev, RunFrames, RunKinds, AllOutputs
    <3> QED
      BY <1>0, <3>1, FreeAppend
  <2> HIDE DEF chan
  <2>4. /\ r.pump = ker.pump /\ r.cur = ker.cur /\ r.todo = ker.todo /\ r.iopub = ker.iopub
        /\ r.shell = ker.shell /\ r.chan = chan
    BY <1>0 DEF KernelRecord
  <2> HIDE DEF r
  <2>5. Good(r)
    BY <2>2, <2>3, <2>4 DEF Working
  <2> QED
    BY <2>1, <2>5 DEF ker
<1> HIDE DEF Good
<1>9. \E q : kernel' = [kernel EXCEPT ![k] = q] /\ Good(q)
  BY <1>2, <1>3, <1>4, <1>5, <1>6, <1>7, <1>8 DEF KernelStep
<1> QED
  BY <1>9 DEF Good, ker
LEMMA OneKernelTasks ==
    ASSUME CInv, OneKernel, NEW k \in Kernels,
           KernelStep(k) \/ IopubLoop(k) \/ SocketOwner(k) \/ WatchExit(k)
    PROVE  OneKernel'
<1>1. /\ UNCHANGED <<request, pipe, started, slot, shown>>
      /\ KernelKnown' = KernelKnown /\ BusyHasKernel' = BusyHasKernel
  BY DEF KernelStep, IopubLoop, SocketOwner, WatchExit, frontVars, sessionVars, KernelKnown, BusyHasKernel
<1>2. PICK r : /\ kernel' = [kernel EXCEPT ![k] = r]
               /\ kernel[k].pump /\ r.pump /\ (Working(r) => Working(kernel[k]))
  <2>1. ~ kernel[k].pump => Gone(kernel[k])
    BY DEF OneKernel
  <2> QED
    BY <2>1, TasksWorking
<1>3. kernel'[k] = r /\ \A j \in Kernels : j # k => kernel'[j] = kernel[j]
  BY <1>2 DEF CInv, CTyped
<1>4. \A j \in Kernels : IF kernel'[j].pump THEN slot' = j ELSE Gone(kernel'[j]) /\ slot' # j
  BY <1>1, <1>2, <1>3 DEF OneKernel
<1>5. \A j \in Kernels : Working(kernel'[j]) => started'
  BY <1>1, <1>2, <1>3 DEF OneKernel
<1> QED
  BY <1>1, <1>4, <1>5 DEF OneKernel, StoppedFrame, StartedFrame, Exited, RunFrames

LEMMA OneKernelForward ==
    ASSUME CInv, OneKernel, NEW k \in Kernels, kernel[k].pump, kernel[k].chan # <<>>, Forward(k),
           UNCHANGED <<request, started, shown>>
    PROVE  OneKernel'
<1> DEFINE e == Head(kernel[k].chan)
           chan == Tail(kernel[k].chan)
           r == [kernel[k] EXCEPT !.chan = chan]
<1>1. /\ pipe' = Append(pipe, e) /\ e.what # "exited" /\ slot' = slot
      /\ kernel' = [kernel EXCEPT ![k] = r]
  BY DEF Forward
<1>2. /\ kernel[k] \in KernelRecord /\ kernel[k].chan \in Seq(RunEvents \cup {Exited})
      /\ pipe \in Seq(Frames) /\ kernel \in [Kernels -> KernelRecord]
  BY KernelsTyped DEF CInv, CTyped
<1>3. e \in RunEvents \cup {Exited}
  BY <1>2
<1>4. e \in RunFrames /\ e \in Frames /\ e # Exited /\ e # StartedFrame /\ e # StoppedFrame
  BY <1>1, <1>3 DEF RunEvents, RunFrames, Routed, Frames, Exited, Ev, StartedFrame, StoppedFrame, RunKinds, AllOutputs
<1>5. Working(kernel[k]) /\ (Free(RunFrames, kernel[k].chan) => Free(RunFrames, chan))
  <2>1. ~ Free(RunFrames, kernel[k].chan)
    BY <1>2, <1>4 DEF Free
  <2> QED
    BY <2>1 DEF Working
<1>6. started /\ slot = k /\ slot # 0
  BY <1>5 DEF OneKernel, Kernels
<1> HIDE DEF e, chan
<1>7. r.pump
  BY <1>2 DEF KernelRecord
<1> HIDE DEF r
<1>8. kernel'[k] = r /\ \A j \in Kernels : j # k => kernel'[j] = kernel[j]
  BY <1>1, <1>2
<1>9. \A j \in Kernels : IF kernel'[j].pump THEN slot' = j ELSE Gone(kernel'[j]) /\ slot' # j
  BY <1>1, <1>6, <1>7, <1>8 DEF OneKernel
<1>10. Free({StoppedFrame}, pipe') /\ Free({Exited}, pipe')
  <2>1. Free({StoppedFrame}, pipe) /\ Free({Exited}, pipe)
    BY <1>6 DEF OneKernel
  <2> QED
    BY <1>1, <1>2, <1>4, <2>1, FreeAppend
<1>11. AtMostOne({Exited}, pipe')
  BY <1>10 DEF AtMostOne, Free
<1>12. Before(RunFrames, {Exited}, pipe')
  <2>1. Before(RunFrames, {Exited}, pipe) /\ Free({Exited}, pipe)
    BY <1>6 DEF OneKernel
  <2> QED
    BY <1>1, <1>2, <1>4, <2>1, FramesAppend
<1>13. started' /\ KernelKnown' /\ BusyHasKernel' /\ request' = request
  BY <1>6 DEF KernelKnown, BusyHasKernel
<1> QED
  BY <1>9, <1>10, <1>11, <1>12, <1>13 DEF OneKernel, StoppedFrame, Exited, RunFrames

LEMMA OneKernelExit ==
    ASSUME CInv, OneKernel, NEW k \in Kernels, kernel[k].pump, ForwardExit(k),
           UNCHANGED <<request, started, shown>>
    PROVE  OneKernel'
<1> DEFINE r == [Killed(kernel[k]) EXCEPT !.chan = <<>>, !.pump = FALSE]
<1>1. slot = k /\ slot # 0
  BY DEF OneKernel, Kernels
<1>2. slot' = 0 /\ pipe' = Append(pipe, Exited) /\ kernel' = [kernel EXCEPT ![k] = r]
  BY <1>1 DEF ForwardExit, Exited
<1>3. kernel[k] \in KernelRecord /\ pipe \in Seq(Frames) /\ kernel \in [Kernels -> KernelRecord]
  BY KernelsTyped DEF CInv, CTyped
<1>4. Gone(r) /\ ~r.pump /\ ~Working(r)
  BY <1>3 DEF KernelRecord, Killed, Gone, Working, Free
<1> HIDE DEF r
<1>5. kernel'[k] = r /\ \A j \in Kernels : j # k => kernel'[j] = kernel[j]
  BY <1>2, <1>3
<1>6. \A j \in Kernels : IF kernel'[j].pump THEN slot' = j ELSE Gone(kernel'[j]) /\ slot' # j
  BY <1>1, <1>2, <1>4, <1>5 DEF OneKernel, Kernels
<1>7. \A j \in Kernels : Working(kernel'[j]) => started'
  BY <1>4, <1>5 DEF OneKernel
<1>8. /\ Exited \in Frames /\ Exited # StartedFrame /\ Exited # StoppedFrame /\ Exited \notin RunFrames
  BY DEF Frames, Exited, Ev, StartedFrame, StoppedFrame, RunFrames, RunKinds, AllOutputs
<1>9. /\ Free({StoppedFrame}, pipe') <=> Free({StoppedFrame}, pipe)
      /\ Free({StartedFrame}, pipe') <=> Free({StartedFrame}, pipe)
      /\ Free(RunFrames, pipe') <=> Free(RunFrames, pipe)
  BY <1>2, <1>3, <1>8, FreeAppend
<1>10. Free({Exited}, pipe) /\ AtMostOne({Exited}, pipe) /\ Before(RunFrames, {Exited}, pipe)
  BY <1>1 DEF OneKernel
<1>11. AtMostOne({Exited}, pipe') /\ Before(RunFrames, {Exited}, pipe')
  BY <1>2, <1>3, <1>8, <1>10, FramesAppend
<1>12. KernelKnown' /\ BusyHasKernel' /\ request' = request /\ (~ Free(RunFrames, pipe') => started')
  BY <1>1, <1>9 DEF OneKernel, KernelKnown, BusyHasKernel, StartedFrame
<1> QED
  BY <1>2, <1>6, <1>7, <1>9, <1>11, <1>12 DEF OneKernel, StoppedFrame, Exited, RunFrames

LEMMA OneKernelServe ==
    ASSUME CInv, RepliesGood, OneKernel, Serve
    PROVE  OneKernel'
<1>1. /\ UNCHANGED <<started, shown>> /\ request.what # "answered"
      /\ \/ ServeLaunch /\ request' = [request EXCEPT !.what = "launched"]
         \/ (ServeExecute \/ ServeStart) /\ request' = [request EXCEPT !.what = "answered"]
  BY DEF Serve, OneKernel, ServeLaunch, ServeExecute, ServeStart, ServeStop
<1>2. /\ ServeLaunch => request'.what = "launched"
      /\ request'.what \in {"launched", "answered"}
      /\ pipe \in Seq(Frames) /\ kernel \in [Kernels -> KernelRecord]
      /\ slot \in 0..made /\ made \in 0..MaxKernels
  <2>1. \A w : [request EXCEPT !.what = w].what = w
    BY DEF CInv, CTyped
  <2> QED
    BY <1>1, <2>1 DEF CInv, CTyped, ServeLaunch, ServeExecute, ServeStart
<1>3. Free({StartedFrame}, pipe)
  <2>1. Free(Replies, pipe) /\ StartedFrame \in Replies
    BY <1>1 DEF RepliesGood, StartedFrame, Replies
  <2> QED
    BY <2>1 DEF Free
<1>4. BusyHasKernel'
  BY <1>1 DEF OneKernel, BusyHasKernel
<1>5. CASE ServeExecute
  <2> DEFINE e == Ev("executed", issued)
  <2>1. pipe' = Append(pipe, e) /\ slot' = slot
    BY <1>5 DEF ServeExecute
  <2>2. e \in Frames /\ e \notin {StartedFrame} /\ e \notin {StoppedFrame} /\ e \notin {Exited} /\ e \notin RunFrames
    BY <1>5 DEF ServeExecute, CInv, RequestsGood, Ev, Replies, Frames, StartedFrame, StoppedFrame, Exited,
                RunFrames, RunKinds, AllOutputs
  <2> HIDE DEF e
  <2>3. \A S : e \notin S => (Free(S, pipe') <=> Free(S, pipe))
    BY <1>2, <2>1, <2>2, FreeAppend
  <2>4. AtMostOne({Exited}, pipe') /\ Before(RunFrames, {Exited}, pipe')
    <3>1. AtMostOne({Exited}, pipe) /\ Before(RunFrames, {Exited}, pipe)
      BY DEF OneKernel
    <3> QED
      BY <1>2, <2>1, <2>2, <3>1, FramesAppend
  <2>5. /\ \A j \in Kernels : IF kernel'[j].pump THEN slot' = j ELSE Gone(kernel'[j]) /\ slot' # j
        /\ \A j \in Kernels : Working(kernel'[j]) => started'
    <3>1. CASE slot = 0
      BY <1>1, <1>5, <2>1, <3>1 DEF ServeExecute, OneKernel
    <3>2. CASE slot # 0
      <4> DEFINE todo == Append(kernel[slot].todo, issued)
                 r == [kernel[slot] EXCEPT !.todo = todo]
      <4>1. slot \in Kernels /\ kernel' = [kernel EXCEPT ![slot] = r]
        BY <1>2, <1>5, <3>2 DEF ServeExecute, Kernels
      <4> HIDE DEF todo
      <4>2. r.pump = kernel[slot].pump
        BY <1>2, <4>1 DEF KernelRecord
      <4> HIDE DEF r
      <4>3. kernel'[slot] = r /\ \A j \in Kernels : j # slot => kernel'[j] = kernel[j]
        BY <1>2, <4>1
      <4>4. started
        BY <1>3, <1>5, <3>2 DEF ServeExecute, OneKernel, KernelKnown
      <4>5. kernel[slot].pump
        BY <4>1 DEF OneKernel
      <4> QED
        BY <1>1, <2>1, <4>2, <4>3, <4>4, <4>5 DEF OneKernel
    <3> QED
      BY <3>1, <3>2
  <2>7. request.what = "execute"
    BY <1>5 DEF ServeExecute
  <2>6. /\ Free({StartedFrame}, pipe') <=> Free({StartedFrame}, pipe)
        /\ Free({StoppedFrame}, pipe') <=> Free({StoppedFrame}, pipe)
        /\ Free({Exited}, pipe') <=> Free({Exited}, pipe)
        /\ Free(RunFrames, pipe') <=> Free(RunFrames, pipe)
    BY <2>2, <2>3
  <2> QED
    BY <1>1, <1>2, <1>4, <2>1, <2>4, <2>5, <2>6, <2>7 DEF OneKernel, KernelKnown, StoppedFrame, StartedFrame, Exited, RunFrames
<1>6. CASE ServeStart
  <2>1. pipe' = Append(pipe, StartedFrame) /\ UNCHANGED <<slot, kernel>> /\ request.what = "launched"
    BY <1>6 DEF ServeStart, sessionVars, StartedFrame
  <2>2. /\ StartedFrame \in Frames /\ StartedFrame \notin {StoppedFrame} /\ StartedFrame \notin {Exited}
        /\ StartedFrame \notin RunFrames
    BY DEF Ev, Replies, Frames, StartedFrame, StoppedFrame, Exited, RunFrames, RunKinds, AllOutputs
  <2>3. /\ Free({StoppedFrame}, pipe') <=> Free({StoppedFrame}, pipe)
        /\ Free({Exited}, pipe') <=> Free({Exited}, pipe)
        /\ Free(RunFrames, pipe') <=> Free(RunFrames, pipe)
        /\ ~ Free({StartedFrame}, pipe')
    BY <1>2, <2>1, <2>2, FreeAppend
  <2>4. AtMostOne({Exited}, pipe') /\ Before(RunFrames, {Exited}, pipe')
    <3>1. AtMostOne({Exited}, pipe) /\ Before(RunFrames, {Exited}, pipe)
      BY DEF OneKernel
    <3> QED
      BY <1>2, <2>1, <2>2, <3>1, FramesAppend
  <2>5. /\ \A k \in Kernels : IF kernel'[k].pump THEN slot' = k ELSE Gone(kernel'[k]) /\ slot' # k
        /\ \A k \in Kernels : Working(kernel'[k]) => started'
    BY <1>1, <2>1 DEF OneKernel
  <2>6. KernelKnown'
    BY <2>3 DEF KernelKnown, StartedFrame
  <2>7. request'.what # "stop" /\ request'.what # "start"
    BY <1>2
  <2> QED
    BY <1>1, <1>4, <2>1, <2>3, <2>4, <2>5, <2>6, <2>7 DEF OneKernel, StoppedFrame, Exited, RunFrames
<1>7. CASE ServeLaunch
  <2>1. /\ made < MaxKernels /\ made' = made + 1 /\ slot' = made' /\ request.what = "start"
        /\ kernel' = [kernel EXCEPT ![made'] = NewKernel] /\ pipe' = pipe
    BY <1>7 DEF ServeLaunch, CInv, RequestsGood
  <2>2. ~started /\ slot = 0 /\ Free({Exited}, pipe) /\ Free(RunFrames, pipe)
    BY <1>3, <2>1 DEF OneKernel, KernelKnown
  <2>3. made' \in Kernels /\ slot' # 0 /\ kernel'[made'] = NewKernel
    BY <1>2, <2>1 DEF Kernels
  <2>4. \A j \in Kernels : j # made' => kernel'[j] = kernel[j]
    BY <1>2, <2>1
  <2>5. NewKernel.pump /\ ~Working(NewKernel)
    BY DEF NewKernel, Working, Free
  <2>6. /\ \A j \in Kernels : IF kernel'[j].pump THEN slot' = j ELSE Gone(kernel'[j]) /\ slot' # j
        /\ \A j \in Kernels : Working(kernel'[j]) => started'
    <3>1. ASSUME NEW j \in Kernels, j # made' PROVE ~kernel[j].pump /\ Gone(kernel[j]) /\ (Working(kernel[j]) => started)
      BY <2>2, <3>1 DEF OneKernel, Kernels
    <3> QED
      BY <1>1, <2>1, <2>3, <2>4, <2>5, <3>1
  <2>7. request'.what = "launched" /\ KernelKnown'
    BY <1>2, <1>7 DEF KernelKnown
  <2> QED
    BY <1>4, <2>1, <2>2, <2>6, <2>7 DEF OneKernel, StoppedFrame, Exited, RunFrames
<1> QED
  BY <1>1, <1>5, <1>6, <1>7
LEMMA OneKernelRead ==
    ASSUME CInv, RepliesGood, OneKernel, Read
    PROVE  OneKernel'
<1> DEFINE e == Head(pipe)
<1>1. /\ pipe # <<>> /\ pipe' = Tail(pipe) /\ Handle(e) /\ UNCHANGED <<slot, kernel>>
      /\ pipe \in Seq(Frames) /\ shown \in [Cells -> Display]
  BY DEF Read, sessionVars, CInv, CTyped
<1>2. e \in Frames
  BY <1>1
<1>3. \A S : Free(S, pipe) <=> e \notin S /\ Free(S, pipe')
  BY <1>1, FramesTail
<1>4. /\ AtMostOne({Exited}, pipe') /\ (e = Exited => Free({Exited}, pipe'))
      /\ Before(RunFrames, {Exited}, pipe') /\ (e = Exited => Free(RunFrames, pipe'))
  <2>1. AtMostOne({Exited}, pipe) /\ Before(RunFrames, {Exited}, pipe)
    BY DEF OneKernel
  <2> QED
    BY <1>1, <2>1, FramesTail
<1>5. e \in Replies => Free(Replies, pipe')
  BY <1>1, FramesTail DEF RepliesGood
<1>11. e \in Replies => request.what = "answered"
  BY <1>3 DEF RepliesGood
<1> HIDE DEF e
<1>6. /\ Free({StoppedFrame}, pipe') /\ e # StoppedFrame
      /\ Free(RunFrames, pipe) <=> e \notin RunFrames /\ Free(RunFrames, pipe')
      /\ Free({Exited}, pipe) <=> e # Exited /\ Free({Exited}, pipe')
      /\ Free({StartedFrame}, pipe) <=> e # StartedFrame /\ Free({StartedFrame}, pipe')
  <2>1. Free({StoppedFrame}, pipe)
    BY DEF OneKernel
  <2> QED
    BY <1>3, <2>1
<1>7. \A j \in Kernels : IF kernel'[j].pump THEN slot' = j ELSE Gone(kernel'[j]) /\ slot' # j
  BY <1>1 DEF OneKernel
<1>8. CASE e = Exited
  <2>1. KernelExited
    BY <1>1, <1>8 DEF Handle, Exited, Ev
  <2>2. slot = 0
    BY <1>6, <1>8 DEF OneKernel
  <2>3. \A j \in Kernels : ~Working(kernel[j])
    BY <2>2 DEF OneKernel, Gone, Working, Free, Kernels
  <2>4. BusyHasKernel'
    <3>1. \A c \in Cells : shown'[c].status = "none"
      BY <1>1, <2>1 DEF KernelExited, ClearedStatuses, Display
    <3> QED
      BY <3>1 DEF BusyHasKernel
  <2>5. ~started' /\ request' = request
    BY <2>1 DEF KernelExited
  <2>6. Free({Exited}, pipe') /\ Free(RunFrames, pipe')
    BY <1>4, <1>8
  <2> QED
    BY <1>1, <1>4, <1>6, <1>7, <2>2, <2>3, <2>4, <2>5, <2>6 DEF OneKernel, KernelKnown, StoppedFrame, StartedFrame, Exited, RunFrames
<1>9. CASE e = StartedFrame
  <2>1. Started
    BY <1>1, <1>9 DEF Handle, StartedFrame, Ev
  <2>2. started' /\ KernelKnown' /\ request'.what # "stop" /\ request'.what # "start" /\ BusyHasKernel'
    BY <2>1 DEF Started, NoRequest, KernelKnown, BusyHasKernel
  <2> QED
    BY <1>1, <1>4, <1>6, <1>7, <1>9, <2>2 DEF OneKernel, StoppedFrame, Exited, RunFrames
<1>10. CASE e # Exited /\ e # StartedFrame
  <2>1. /\ started' = started /\ KernelKnown' = KernelKnown
    <3>1. CASE e.what = "executed"
      <4>1. Executed /\ e \in Replies
        BY <1>1, <1>2, <3>1 DEF Handle, Frames, Replies, RunEvents, RunKinds, AllOutputs, Exited, Ev
      <4> QED
        BY <1>3, <1>10, <1>11, <4>1 DEF Executed, NoRequest, KernelKnown, StartedFrame
    <3>2. CASE e \in RunEvents
      <4>1. ApplyEvent(e)
        BY <1>1, <1>2, <3>2 DEF Handle, RunEvents, RunKinds, AllOutputs
      <4> QED
        BY <1>3, <1>10, <4>1 DEF ApplyEvent, KernelKnown, StartedFrame
    <3> QED
      BY <1>2, <1>6, <1>10, <3>1, <3>2 DEF Frames, Replies, StartedFrame, StoppedFrame
  <2>2. request' = request \/ request' = NoRequest
    BY <1>1 DEF Handle, KernelExited, Stopped, Started, Executed, ApplyEvent
  <2>3. BusyHasKernel'
    <3>1. CASE e \in RunFrames
      <4>1. started
        BY <1>6, <3>1 DEF OneKernel
      <4> QED
        BY <2>1, <4>1 DEF BusyHasKernel
    <3>2. CASE e \notin RunFrames
      <4>1. e.what = "executed"
        BY <1>2, <1>6, <1>10, <3>2 DEF Frames, RunFrames, RunEvents, Routed, Replies, StartedFrame, StoppedFrame, Ev
      <4>2. shown' = shown
        BY <1>1, <4>1 DEF Handle, Executed
      <4> QED
        BY <2>1, <4>2 DEF BusyHasKernel, OneKernel
    <3> QED
      BY <3>1, <3>2
  <2>4. request'.what # "stop" /\ (request'.what = "start" => ~started')
    BY <2>1, <2>2 DEF OneKernel, NoRequest
  <2> QED
    BY <1>1, <1>4, <1>6, <1>7, <1>10, <2>1, <2>3, <2>4 DEF OneKernel, StoppedFrame, Exited, RunFrames
<1> QED
  BY <1>8, <1>9, <1>10

LEMMA OneKernelCommand ==
    ASSUME CInv, OneKernel, NoStop, Command
    PROVE  OneKernel'
<1>1. UNCHANGED <<pipe, slot, kernel, started>> /\ KernelKnown' = KernelKnown
  <2>1. UNCHANGED <<pipe, slot, kernel, started>>
    BY DEF Command, sessionVars, StartKernel, StopKernel, Run, DropCell, Clear
  <2>2. request.what = "launched" <=> request'.what = "launched"
    BY DEF Command, StartKernel, StopKernel, Run, DropCell, Clear, Ask
  <2> QED
    BY <2>1, <2>2 DEF KernelKnown, StartedFrame
<1>2. request'.what # "stop" /\ (request'.what = "start" => ~started)
  <2>1. ~StopKernel
    BY DEF StopKernel, NoStop
  <2> QED
    BY <2>1 DEF Command, StartKernel, Run, DropCell, Clear, Ask, OneKernel
<1>3. BusyHasKernel'
  <2>1. ASSUME NEW c \in Cells, shown'[c].status = "busy" PROVE shown'[c] = shown[c]
    <3>1. [Next]_vars /\ ~Read
      <4>1. ASSUME Read PROVE FALSE
        <5>1. pipe' = Tail(pipe) /\ pipe # <<>> /\ pipe \in Seq(Frames)
          BY <4>1 DEF Read, CInv, CTyped
        <5>2. Len(Tail(pipe)) # Len(pipe)
          BY <5>1
        <5> QED
          BY <1>1, <5>1, <5>2
      <4> QED
        BY <4>1 DEF Next
    <3>2. shown'[c] # Unused /\ shown'[c] # [Unused EXCEPT !.active = FALSE]
      BY <2>1 DEF Unused
    <3> QED
      BY <3>1, <3>2, DisplayStep
  <2> QED
    BY <1>1, <2>1 DEF BusyHasKernel, OneKernel
<1> QED
  BY <1>1, <1>2, <1>3 DEF OneKernel, StoppedFrame, Exited, RunFrames

LEMMA OneKernelStep == CInv /\ OneKernelAtATime /\ [Next]_vars => OneKernelAtATime'
<1> SUFFICES ASSUME CInv, RepliesGood, OneKernel, NoStop, [Next]_vars PROVE OneKernel'
  BY RepliesStep, SameScenario DEF OneKernelAtATime, NoStop
<1>1. ASSUME NEW k \in Kernels, Pump(k) PROVE OneKernel'
  <2>1. kernel[k].pump /\ kernel[k].chan # <<>> /\ UNCHANGED <<request, started, shown>>
        /\ (Forward(k) \/ ForwardExit(k))
    BY <1>1 DEF Pump, frontVars
  <2> QED
    BY <2>1, OneKernelForward, OneKernelExit
<1>2. CASE (\E set \in clears : ServeClear(set)) \/ UNCHANGED vars
  <2>1. UNCHANGED <<request, started, shown, pipe, slot, kernel>>
    BY <1>2 DEF ServeClear, vars, frontVars, sessionVars
  <2> QED
    BY <2>1 DEF OneKernel, KernelKnown, BusyHasKernel, StoppedFrame, StartedFrame, Exited, RunFrames
<1> QED
  BY <1>1, <1>2, OneKernelCommand, OneKernelRead, OneKernelServe, OneKernelTasks DEF Next, Backend

LEMMA AlwaysOneKernel == Spec => []OneKernelAtATime
<1>1. Init => OneKernelAtATime
  <2> SUFFICES ASSUME Init PROVE OneKernelAtATime
    OBVIOUS
  <2>1. Free(Replies, pipe) /\ AtMostOne(Replies, pipe)
    BY DEF Init, Free, AtMostOne
  <2>2. /\ Free({StoppedFrame}, pipe) /\ Free({Exited}, pipe) /\ AtMostOne({Exited}, pipe)
        /\ Before(RunFrames, {Exited}, pipe) /\ Free(RunFrames, pipe)
    BY DEF Init, Free, AtMostOne, Before
  <2>3. Gone(NotMade) /\ ~NotMade.pump /\ ~Working(NotMade)
    BY DEF NotMade, NewKernel, Gone, Working, Free
  <2>4. /\ \A k \in Kernels : IF kernel[k].pump THEN slot = k ELSE Gone(kernel[k]) /\ slot # k
        /\ \A k \in Kernels : Working(kernel[k]) => started
    BY <2>3 DEF Init, Kernels
  <2>5. BusyHasKernel
    BY DEF Init, BusyHasKernel, Unused
  <2>6. slot = 0 /\ request.what = "none"
    BY DEF Init, NoRequest
  <2> QED
    BY <2>1, <2>2, <2>4, <2>5, <2>6 DEF OneKernelAtATime, RepliesGood, OneKernel
<1> QED
  BY <1>1, AlwaysTyped, OneKernelStep, PTL DEF Spec

(* Where no kernel is stopped, a cell is shown as busy only while the      *)
(* front end knows a kernel: the report of an exit comes after all events. *)
THEOREM BusyOnlyUntilExit == Spec => []BusyUntilExit
<1>1. OneKernelAtATime => BusyUntilExit
  BY DEF OneKernelAtATime, NoStop, OneKernel, BusyUntilExit
<1> QED
  BY <1>1, AlwaysOneKernel, PTL
-----------------------------------------------------------------------------
(* What a cell shows comes from one run, where no kernel is stopped.       *)

(* Events that set or add to what a cell shows, and the order of two.      *)
VisibleKinds == {"input", "stream", "result", "error"}
Visible(s) == {e \in {s[i] : i \in 1..Len(s)} : e.what \in VisibleKinds}
Alone(e) == IF e.what \in VisibleKinds THEN {e} ELSE {}
InOrder(d, e) == d.run < e.run \/ (d.run = e.run /\ e.what # "input")
AllInOrder(D, E) == \A d \in D, e \in E : InOrder(d, e)
Sorted(s) ==
    \A i, j \in 1..Len(s) :
        i < j /\ s[i].what \in VisibleKinds /\ s[j].what \in VisibleKinds => InOrder(s[i], s[j])

(* The events of a kernel that its pump has not forwarded.                 *)
Of(ker) == Visible(ker.chan) \cup Visible(ker.iopub)

(* A kernel sends runs in their order, and P, which is read first, is of   *)
(* earlier runs or earlier in the same run.                                *)
Rising(ker) ==
    \A i \in 1..Len(ker.todo) :
        ker.cur < ker.todo[i] /\ \A j \in 1..(i - 1) : ker.todo[j] < ker.todo[i]
Below(E, ker) ==
    \A e \in E : /\ ker.cur # 0 => e.run <= ker.cur
                 /\ \A i \in 1..Len(ker.todo) : e.run < ker.todo[i]
InLine(P, ker) ==
    /\ Sorted(ker.chan) /\ Sorted(ker.iopub) /\ AllInOrder(Visible(ker.chan), Visible(ker.iopub))
    /\ AllInOrder(P, Of(ker)) /\ Below(P \cup Of(ker), ker) /\ Rising(ker)
    /\ Visible(ker.shell) = {}

(* Where there is a kernel, it is the only one with events.                *)
Unread == Visible(pipe) \cup (IF slot = 0 THEN {} ELSE Of(kernel[slot]))
Running == IF slot = 0 THEN 0 ELSE kernel[slot].cur

(* A run that shows or may show outputs yet.                               *)
Current(m) ==
    \/ m = Running /\ m # 0
    \/ \E e \in Unread : e.run = m /\ e.what # "input"

Shows(c, m) ==
    /\ \A i \in 1..Len(shown[c].outs) : shown[c].outs[i].run = m
    /\ shown[c].count \in {0, m}

(* Its cell is still to be emptied for it, or shows nothing of other runs, *)
(* and no event of an earlier run is to come.                              *)
Settled(m) ==
    \/ Ev("input", m) \in Unread
    \/ Shows(route[m], m) /\ \A e \in Unread : m <= e.run

RunsInOrder ==
    /\ Sorted(pipe)
    /\ slot # 0 => InLine(Visible(pipe), kernel[slot])
    /\ \A m \in Runs : Current(m) => Settled(m)
    /\ \A c \in Cells : \E m \in 0..MaxRuns : Shows(c, m)
LEMMA VisibleAppend ==
    ASSUME NEW F, NEW s \in Seq(F), NEW e \in F
    PROVE  /\ Visible(Append(s, e)) = Visible(s) \cup Alone(e)
           /\ Sorted(s) /\ AllInOrder(Visible(s), Alone(e)) => Sorted(Append(s, e))
<1> DEFINE t == Append(s, e)
           n == Len(s)
<1>1. n \in Nat /\ Len(t) = n + 1 /\ t[n + 1] = e /\ \A i \in 1..n : t[i] = s[i]
  OBVIOUS
<1>2. /\ \A i \in 1..(n + 1) : i = n + 1 \/ i \in 1..n
      /\ n + 1 \in 1..(n + 1) /\ \A i \in 1..n : i \in 1..(n + 1)
  BY <1>1
<1> HIDE DEF t
<1>3. Visible(t) = Visible(s) \cup Alone(e)
  <2>1. ASSUME NEW d \in Visible(t) PROVE d \in Visible(s) \cup Alone(e)
    BY <1>1, <1>2, <2>1 DEF Visible, Alone
  <2>2. ASSUME NEW d \in Visible(s) \cup Alone(e) PROVE d \in Visible(t)
    <3>1. CASE d \in Visible(s)
      BY <1>1, <1>2, <3>1 DEF Visible
    <3>2. CASE d \in Alone(e)
      BY <1>1, <1>2, <3>2 DEF Visible, Alone
    <3> QED
      BY <2>2, <3>1, <3>2
  <2> QED
    BY <2>1, <2>2
<1>4. ASSUME Sorted(s), AllInOrder(Visible(s), Alone(e)) PROVE Sorted(t)
  <2> SUFFICES ASSUME NEW i \in 1..(n + 1), NEW j \in 1..(n + 1), i < j,
                      t[i].what \in VisibleKinds, t[j].what \in VisibleKinds
               PROVE  InOrder(t[i], t[j])
    BY <1>1 DEF Sorted
  <2>1. i \in 1..n /\ t[i] = s[i] /\ s[i] \in Visible(s)
    BY <1>1, <1>2 DEF Visible
  <2>2. CASE j = n + 1
    <3>1. t[j] \in Alone(e)
      BY <1>1, <2>2 DEF Alone
    <3> QED
      BY <1>4, <2>1, <3>1 DEF AllInOrder
  <2>3. CASE j # n + 1
    <3>1. j \in 1..n /\ t[j] = s[j]
      BY <1>1, <1>2, <2>3
    <3> QED
      BY <1>4, <2>1, <3>1 DEF Sorted
  <2> QED
    BY <2>2, <2>3
<1> QED
  BY <1>3, <1>4 DEF t

LEMMA VisibleTail ==
    ASSUME NEW F, NEW s \in Seq(F), s # <<>>
    PROVE  /\ Visible(s) = Alone(Head(s)) \cup Visible(Tail(s))
           /\ Sorted(s) => Sorted(Tail(s)) /\ AllInOrder(Alone(Head(s)), Visible(Tail(s)))
<1> DEFINE t == Tail(s)
           n == Len(t)
           e == Head(s)
<1>1. n \in Nat /\ Len(s) = n + 1 /\ e = s[1] /\ \A i \in 1..n : t[i] = s[i + 1]
  OBVIOUS
<1> HIDE DEF t, n, e
<1>2. /\ \A i \in 1..n : i + 1 \in 1..(n + 1) /\ 1 < i + 1
      /\ 1 \in 1..(n + 1)
      /\ \A i \in 1..(n + 1) : i # 1 => i - 1 \in 1..n /\ (i - 1) + 1 = i
      /\ \A i, j \in 1..n : i < j => i + 1 < j + 1
  BY <1>1
<1>3. Visible(s) = Alone(e) \cup Visible(t)
  <2>1. ASSUME NEW i \in 1..(n + 1), s[i].what \in VisibleKinds PROVE s[i] \in Alone(e) \cup Visible(t)
    <3>1. CASE i = 1
      BY <1>1, <2>1, <3>1 DEF Alone
    <3>2. CASE i # 1
      <4>1. i - 1 \in 1..n /\ t[i - 1] = s[i]
        BY <1>1, <1>2, <3>2
      <4> QED
        BY <2>1, <4>1 DEF Visible, n
    <3> QED
      BY <3>1, <3>2
  <2>2. ASSUME NEW i \in 1..n, t[i].what \in VisibleKinds PROVE t[i] \in Visible(s)
    BY <1>1, <1>2, <2>2 DEF Visible
  <2>3. Alone(e) \subseteq Visible(s)
    BY <1>1, <1>2 DEF Alone, Visible
  <2>4. Visible(s) \subseteq Alone(e) \cup Visible(t)
    BY <1>1, <2>1 DEF Visible
  <2>5. Visible(t) \subseteq Visible(s)
    <3>1. ASSUME NEW d \in Visible(t) PROVE d \in Visible(s)
      <4>1. PICK i \in 1..n : d = t[i] /\ t[i].what \in VisibleKinds
        BY <3>1 DEF Visible, n
      <4> QED
        BY <2>2, <4>1
    <3> QED
      BY <3>1
  <2> QED
    BY <2>3, <2>4, <2>5
<1>4. ASSUME Sorted(s) PROVE Sorted(t) /\ AllInOrder(Alone(e), Visible(t))
  <2>1. Sorted(t)
    <3> SUFFICES ASSUME NEW i \in 1..n, NEW j \in 1..n, i < j,
                        t[i].what \in VisibleKinds, t[j].what \in VisibleKinds
                 PROVE  InOrder(t[i], t[j])
      BY DEF Sorted, n
    <3> QED
      BY <1>1, <1>2, <1>4 DEF Sorted
  <2>2. ASSUME NEW d \in Alone(e), NEW x \in Visible(t) PROVE InOrder(d, x)
    <3>1. PICK i \in 1..n : x = t[i] /\ t[i].what \in VisibleKinds
      BY <2>2 DEF Visible, n
    <3>2. d = s[1] /\ s[1].what \in VisibleKinds
      BY <1>1, <2>2 DEF Alone
    <3> QED
      BY <1>1, <1>2, <1>4, <3>1, <3>2 DEF Sorted
  <2> QED
    BY <2>1, <2>2 DEF AllInOrder
<1> QED
  BY <1>3, <1>4 DEF t, e

(* Two messages at once.                                                   *)
LEMMA VisibleTwo ==
    ASSUME NEW s \in Seq(RunEvents), NEW a \in RunEvents, NEW b \in RunEvents,
           NEW X, X = Alone(a) \cup Alone(b), AllInOrder(Alone(a), Alone(b))
    PROVE  /\ Visible(Append(Append(s, a), b)) = Visible(s) \cup X
           /\ Sorted(s) /\ AllInOrder(Visible(s), X) => Sorted(Append(Append(s, a), b))
<1> DEFINE q == Append(s, a)
           t == Append(q, b)
<1>1. q \in Seq(RunEvents)
  OBVIOUS
<1>2. /\ Visible(q) = Visible(s) \cup Alone(a)
      /\ Sorted(s) /\ AllInOrder(Visible(s), Alone(a)) => Sorted(q)
  BY VisibleAppend
<1> HIDE DEF q
<1>3. /\ Visible(t) = Visible(q) \cup Alone(b)
      /\ Sorted(q) /\ AllInOrder(Visible(q), Alone(b)) => Sorted(t)
  BY <1>1, VisibleAppend
<1> HIDE DEF t
<1>4. AllInOrder(Visible(s), X) => AllInOrder(Visible(s), Alone(a)) /\ AllInOrder(Visible(s) \cup Alone(a), Alone(b))
  BY DEF AllInOrder
<1>5. Visible(t) = Visible(s) \cup X /\ (Sorted(s) /\ AllInOrder(Visible(s), X) => Sorted(t))
  BY <1>2, <1>3, <1>4
<1> QED
  BY <1>5 DEF t, q

(* What a kernel and its tasks do in one step, as far as a cell shows it:  *)
(* messages are added at the end, of the run that it executes.             *)
Goes(P, ker, r) ==
    /\ InLine(P, r)
    /\ Of(ker) \subseteq Of(r)
    /\ r.cur # 0 /\ r.cur # ker.cur => Ev("input", r.cur) \in Of(r)
    /\ \A x \in Of(r) \ Of(ker) :
           /\ x.what # "input" => ker.cur # 0 /\ x.run = ker.cur
           /\ ker.cur <= x.run
           /\ \A e \in P \cup Of(ker) : e.run <= x.run

LEMMA OfTyped ==
    ASSUME NEW ker \in KernelRecord
    PROVE  /\ Of(ker) \subseteq RunEvents /\ \A e \in RunEvents : e.run \in Nat /\ e.run > 0
           /\ ker.chan \in Seq(RunEvents \cup {Exited}) /\ ker.iopub \in Seq(RunEvents)
           /\ ker.shell \in Seq(RunEvents) /\ ker.todo \in Seq(Routed) /\ ker.cur \in Nat /\ \A n \in Routed : n \in Nat /\ n > 0
<1>1. /\ ker.chan \in Seq(RunEvents \cup {Exited}) /\ ker.iopub \in Seq(RunEvents)
      /\ ker.shell \in Seq(RunEvents) /\ ker.todo \in Seq(Routed) /\ ker.cur \in Routed \cup {0}
  BY DEF KernelRecord
<1>2. \A n \in Routed : n \in Nat /\ n > 0
  BY DEF Routed, Runs
<1>3. \A e \in RunEvents : e.run \in Nat /\ e.run > 0
  BY <1>2 DEF RunEvents
<1>4. Exited.what \notin VisibleKinds
  BY DEF Exited, Ev, VisibleKinds
<1>5. Visible(ker.iopub) \subseteq RunEvents
  BY <1>1 DEF Visible
<1>6. Visible(ker.chan) \subseteq RunEvents
  <2>1. ASSUME NEW i \in 1..Len(ker.chan), ker.chan[i].what \in VisibleKinds PROVE ker.chan[i] \in RunEvents
    BY <1>1, <1>4, <2>1
  <2> QED
    BY <2>1 DEF Visible
<1>7. Of(ker) \subseteq RunEvents
  BY <1>5, <1>6 DEF Of
<1>8. ker.cur \in Nat
  BY <1>1, <1>2
<1> QED
  BY <1>1, <1>2, <1>3, <1>7, <1>8

(* Messages X come on iopub, after all others.                             *)
LEMMA IopubGrows ==
    ASSUME NEW P, NEW ker, NEW r, NEW X, InLine(P, ker), Visible(r.shell) = {},
           r.chan = ker.chan, Visible(r.iopub) = Visible(ker.iopub) \cup X, Sorted(r.iopub),
           AllInOrder(P \cup Of(ker), X), Below(P \cup Of(ker) \cup X, r), Rising(r)
    PROVE  InLine(P, r) /\ Of(r) = Of(ker) \cup X
<1>1. Of(r) = Of(ker) \cup X
  BY DEF Of
<1>2. Sorted(r.chan) /\ AllInOrder(Visible(r.chan), Visible(r.iopub))
  BY DEF InLine, AllInOrder, Of
<1>3. AllInOrder(P, Of(r))
  BY <1>1 DEF InLine, AllInOrder
<1> QED
  BY <1>1, <1>2, <1>3 DEF InLine

LEMMA NextRun ==
    ASSUME NEW ker \in KernelRecord, ker.todo # <<>>, Rising(ker), NEW r, r.todo = Tail(ker.todo)
    PROVE  /\ Head(ker.todo) \in Routed
           /\ r.cur \in {0, Head(ker.todo)} => Rising(r)
           /\ \A E : /\ Below(E, ker) => \A e \in E : e.run < Head(ker.todo)
                     /\ Below(E, ker) /\ r.cur = 0 => Below(E, r)
           /\ \A i \in 1..Len(r.todo) : Head(ker.todo) < r.todo[i]
<1> DEFINE s == ker.todo
           t == Tail(ker.todo)
           m == Len(t)
<1>1. /\ s \in Seq(Routed) /\ \A n \in Routed : n \in Nat /\ n > 0
  BY OfTyped
<1>2. /\ m \in Nat /\ Len(s) = m + 1 /\ s[1] = Head(s) /\ s[1] \in Routed
      /\ \A i \in 1..m : t[i] = s[i + 1] /\ t[i] \in Routed
  BY <1>1
<1> HIDE DEF t, m
<1>3. /\ \A i \in 1..m : i + 1 \in 1..(m + 1) /\ 1 \in 1..((i + 1) - 1)
      /\ 1 \in 1..(m + 1)
      /\ \A i \in 1..m : \A j \in 1..(i - 1) : j + 1 \in 1..((i + 1) - 1) /\ j \in 1..m
  BY <1>2
<1>4. \A i \in 1..m : s[1] < t[i]
  BY <1>2, <1>3 DEF Rising
<1>5. \A i \in 1..m : \A j \in 1..(i - 1) : t[j] < t[i]
  BY <1>2, <1>3 DEF Rising
<1>6. r.cur \in {0, Head(s)} => Rising(r)
  <2>1. \A i \in 1..m : 0 < t[i]
    BY <1>1, <1>2
  <2>2. r.todo = t /\ Len(r.todo) = m
    BY DEF t, m
  <2>3. ASSUME r.cur \in {0, Head(s)} PROVE \A i \in 1..m : r.cur < t[i]
    BY <1>2, <1>4, <2>1, <2>3
  <2> QED
    BY <1>5, <2>2, <2>3 DEF Rising
<1>7. ASSUME NEW E, Below(E, ker)
      PROVE  (\A e \in E : e.run < Head(s)) /\ (r.cur = 0 => Below(E, r))
  <2>1. \A e \in E : e.run < Head(s)
    BY <1>2, <1>3, <1>7 DEF Below
  <2>2. ASSUME r.cur = 0 PROVE Below(E, r)
    <3>1. ASSUME NEW e \in E, NEW i \in 1..m PROVE e.run < t[i]
      <4>1. i + 1 \in 1..Len(ker.todo) /\ t[i] = ker.todo[i + 1]
        BY <1>2, <1>3
      <4> QED
        BY <1>7, <4>1 DEF Below
    <3> QED
      BY <2>2, <3>1 DEF Below, t, m
  <2> QED
    BY <2>1, <2>2
<1> QED
  BY <1>2, <1>4, <1>6, <1>7 DEF t, m
LEMMA BeginGoes ==
    ASSUME CInv, NEW k \in Kernels, Begin(k), NEW P \in SUBSET RunEvents, InLine(P, kernel[k])
    PROVE  \E r : kernel' = [kernel EXCEPT ![k] = r] /\ Goes(P, kernel[k], r)
<1> DEFINE ker == kernel[k]
           n == Head(ker.todo)
           a == Ev("busy", n)
           b == Ev("input", n)
           iopub == ker.iopub \o <<a, b>>
           todo == Tail(ker.todo)
           r == [ker EXCEPT !.cur = n, !.todo = todo, !.iopub = iopub]
<1>0. ker \in KernelRecord
  BY KernelsTyped DEF CInv
<1> HIDE DEF ker
<1>1. kernel' = [kernel EXCEPT ![k] = r] /\ ker.cur = 0 /\ ker.todo # <<>>
  BY DEF Begin, ker
<1>2. InLine(P, ker)
  BY DEF ker
<1> HIDE DEF iopub, todo, n
<1>3. /\ r.cur = n /\ r.todo = todo /\ r.iopub = iopub /\ r.chan = ker.chan
      /\ r.shell = ker.shell
  BY <1>0 DEF KernelRecord
<1> HIDE DEF r
<1>4. /\ n \in Routed /\ Rising(r) /\ \A e \in P \cup Of(ker) : e.run < n
      /\ \A i \in 1..Len(todo) : n < todo[i]
  BY <1>0, <1>1, <1>2, <1>3, NextRun DEF InLine, n, todo
<1>5. a \in RunEvents /\ b \in RunEvents /\ Alone(a) = {} /\ Alone(b) = {b} /\ b.run = n /\ b.what = "input"
  BY <1>4, EventTyped DEF Ev, Alone, VisibleKinds, RunKinds
<1> DEFINE X == {b}
<1> HIDE DEF a, b
<1>6. /\ \A e \in RunEvents : e.run \in Nat /\ e.run > 0
      /\ Of(ker) \subseteq RunEvents /\ ker.iopub \in Seq(RunEvents) /\ n \in Nat /\ n > 0
  BY <1>0, <1>4, OfTyped
<1>7. AllInOrder(P \cup Of(ker), X)
  BY <1>4, <1>5 DEF AllInOrder, InOrder
<1>8. Visible(r.iopub) = Visible(ker.iopub) \cup X /\ Sorted(r.iopub)
  <2>1. Sorted(ker.iopub) /\ AllInOrder(Visible(ker.iopub), X) /\ AllInOrder(Alone(a), Alone(b))
    BY <1>2, <1>5, <1>7 DEF InLine, AllInOrder, Of
  <2>2. X = Alone(a) \cup Alone(b) /\ r.iopub = ker.iopub \o <<a, b>>
    BY <1>3, <1>5 DEF iopub
  <2>3. a \in RunEvents /\ b \in RunEvents /\ ker.iopub \in Seq(RunEvents) /\ X = Alone(a) \cup Alone(b)
    BY <1>5, <1>6, <2>2
  <2>4. r.iopub = Append(Append(ker.iopub, a), b)
    BY <2>2, <2>3
  <2> HIDE DEF X
  <2> QED
    BY <2>1, <2>3, <2>4, VisibleTwo
<1>9. Below(P \cup Of(ker) \cup X, r)
  <2>1. ASSUME NEW e \in P \cup Of(ker) \cup X
        PROVE  e.run <= n /\ \A i \in 1..Len(todo) : e.run < todo[i]
    <3>1. e.run \in Nat /\ e.run <= n
      BY <1>4, <1>5, <1>6
    <3>2. \A i \in 1..Len(todo) : todo[i] \in Nat
      <4>1. ker.todo \in Seq(Nat)
        BY <1>0, OfTyped
      <4>2. todo \in Seq(Nat)
        BY <1>1, <4>1 DEF todo
      <4> QED
        BY <4>2
    <3> QED
      BY <1>4, <1>6, <3>1, <3>2
  <2> QED
    BY <1>3, <2>1 DEF Below
<1> HIDE DEF X
<1>10. InLine(P, r) /\ Of(r) = Of(ker) \cup X
  <2>1. Visible(r.shell) = {}
    BY <1>2, <1>3 DEF InLine
  <2> QED
    BY <1>2, <1>3, <1>4, <1>7, <1>8, <1>9, <2>1, IopubGrows
<1>11. \A e \in P \cup Of(ker) : e.run <= n
  BY <1>4, <1>6
<1>12. Goes(P, ker, r)
  <2>1. ASSUME NEW x \in Of(r) \ Of(ker)
        PROVE  /\ x.what # "input" => ker.cur # 0 /\ x.run = ker.cur
               /\ ker.cur <= x.run
               /\ \A e \in P \cup Of(ker) : e.run <= x.run
    <3>1. x = b
      BY <1>10, <2>1 DEF X
    <3> QED
      BY <1>1, <1>5, <1>6, <1>11, <3>1
  <2>2. Ev("input", r.cur) \in Of(r)
    BY <1>3, <1>10 DEF b, X
  <2> QED
    BY <1>10, <2>1, <2>2 DEF Goes
<1> QED
  BY <1>1, <1>12 DEF ker

LEMMA AbortGoes ==
    ASSUME CInv, NEW k \in Kernels, Abort(k), NEW P \in SUBSET RunEvents, InLine(P, kernel[k])
    PROVE  \E r : kernel' = [kernel EXCEPT ![k] = r] /\ Goes(P, kernel[k], r)
<1> DEFINE ker == kernel[k]
           n == Head(ker.todo)
           a == Ev("busy", n)
           b == Ev("idle", n)
           iopub == ker.iopub \o <<a, b>>
           shell == Append(ker.shell, Ev("failed", n))
           todo == Tail(ker.todo)
           r == [ker EXCEPT !.todo = todo, !.iopub = iopub, !.shell = shell]
<1>0. ker \in KernelRecord
  BY KernelsTyped DEF CInv
<1> HIDE DEF ker
<1>1. kernel' = [kernel EXCEPT ![k] = r] /\ ker.cur = 0 /\ ker.todo # <<>>
  BY DEF Abort, ker
<1>2. InLine(P, ker)
  BY DEF ker
<1> HIDE DEF iopub, todo, shell, n
<1>3. r.cur = 0 /\ r.todo = todo /\ r.iopub = iopub /\ r.chan = ker.chan /\ r.shell = shell
  BY <1>0, <1>1 DEF KernelRecord
<1> HIDE DEF r
<1>4. n \in Routed /\ Rising(r) /\ Below(P \cup Of(ker) \cup {}, r)
  <2>1. Rising(ker) /\ Below(P \cup Of(ker), ker) /\ P \cup Of(ker) \cup {} = P \cup Of(ker)
    BY <1>2 DEF InLine
  <2> QED
    BY <1>0, <1>1, <1>3, <2>1, NextRun DEF n, todo
<1>5. a \in RunEvents /\ b \in RunEvents /\ Alone(a) = {} /\ Alone(b) = {}
  BY <1>4, EventTyped DEF Ev, Alone, VisibleKinds, RunKinds
<1> HIDE DEF a, b
<1> DEFINE X == {}
<1>6. X = Alone(a) \cup Alone(b) /\ AllInOrder(P \cup Of(ker), X) /\ Below(P \cup Of(ker) \cup X, r)
  BY <1>4, <1>5 DEF AllInOrder
<1>7. Visible(r.iopub) = Visible(ker.iopub) \cup X /\ Sorted(r.iopub)
  <2>1. Sorted(ker.iopub) /\ AllInOrder(Visible(ker.iopub), X) /\ AllInOrder(Alone(a), Alone(b))
    BY <1>2, <1>5 DEF InLine, AllInOrder
  <2>2. ker.iopub \in Seq(RunEvents) /\ r.iopub = ker.iopub \o <<a, b>>
    BY <1>0, <1>3, OfTyped DEF iopub
  <2>3. a \in RunEvents /\ b \in RunEvents /\ ker.iopub \in Seq(RunEvents) /\ X = Alone(a) \cup Alone(b)
    BY <1>5, <1>6, <2>2
  <2>4. r.iopub = Append(Append(ker.iopub, a), b)
    BY <2>2, <2>3
  <2> HIDE DEF X
  <2> QED
    BY <2>1, <2>3, <2>4, VisibleTwo
<1> HIDE DEF X
<1>8. InLine(P, r) /\ Of(r) = Of(ker) \cup X
  <2>1. r.chan = ker.chan /\ Rising(r)
    BY <1>3, <1>4
  <2>2. Below(P \cup Of(ker) \cup X, r) /\ AllInOrder(P \cup Of(ker), X)
    BY <1>6
  <2>3. Visible(r.shell) = {}
    <3> DEFINE x == Ev("failed", n)
    <3>1. x \in RunEvents /\ Alone(x) = {}
      BY <1>4, EventTyped DEF Ev, Alone, VisibleKinds, RunKinds
    <3>2. ker.shell \in Seq(RunEvents) /\ Visible(ker.shell) = {} /\ r.shell = Append(ker.shell, x)
      BY <1>0, <1>2, <1>3, OfTyped DEF InLine, shell
    <3> HIDE DEF x
    <3> QED
      BY <3>1, <3>2, VisibleAppend
  <2> QED
    BY <1>2, <1>7, <2>1, <2>2, <2>3, IopubGrows
<1>9. Goes(P, ker, r)
  BY <1>1, <1>3, <1>8 DEF Goes, X
<1> QED
  BY <1>1, <1>9 DEF ker

(* An output or an error of the run that the kernel executes.              *)
LEMMA OutputGoes ==
    ASSUME NEW ker \in KernelRecord, ker.cur # 0, NEW P \in SUBSET RunEvents, InLine(P, ker),
           NEW X, NEW b, X \subseteq {b}, b.run = ker.cur, b.what # "input",
           NEW r, r.chan = ker.chan, r.todo = ker.todo, r.cur \in {0, ker.cur}, Visible(r.shell) = {},
           Visible(r.iopub) = Visible(ker.iopub) \cup X,
           AllInOrder(Visible(ker.iopub), X) => Sorted(r.iopub)
    PROVE  Goes(P, ker, r)
<1>1. /\ \A e \in RunEvents : e.run \in Nat /\ e.run > 0
      /\ Of(ker) \subseteq RunEvents /\ ker.cur \in Nat
      /\ \A i \in 1..Len(ker.todo) : ker.todo[i] \in Nat /\ ker.todo[i] > 0
  <2>1. \A i \in 1..Len(ker.todo) : ker.todo[i] \in Routed
    BY OfTyped
  <2> QED
    BY <2>1, OfTyped
<1>2. \A e \in P \cup Of(ker) : e.run <= ker.cur
  BY DEF InLine, Below
<1>3. AllInOrder(P \cup Of(ker), X)
  BY <1>1, <1>2 DEF AllInOrder, InOrder
<1>4. Sorted(r.iopub)
  BY <1>3 DEF AllInOrder, Of
<1>5. Rising(r)
  <2>1. \A i \in 1..Len(ker.todo) : r.cur < ker.todo[i]
    BY <1>1 DEF InLine, Rising
  <2> QED
    BY <2>1 DEF InLine, Rising
<1>6. Below(P \cup Of(ker) \cup X, r)
  <2>1. ASSUME NEW e \in P \cup Of(ker) \cup X PROVE e.run <= ker.cur
    BY <1>1, <1>2
  <2>2. ASSUME NEW e \in P \cup Of(ker) \cup X, NEW i \in 1..Len(ker.todo) PROVE e.run < ker.todo[i]
    <3>1. CASE e = b
      BY <3>1 DEF InLine, Rising
    <3>2. CASE e # b
      BY <3>2 DEF InLine, Below
    <3> QED
      BY <3>1, <3>2
  <2> QED
    BY <2>1, <2>2 DEF Below
<1>7. InLine(P, r) /\ Of(r) = Of(ker) \cup X
  BY <1>3, <1>4, <1>5, <1>6, IopubGrows
<1>8. \A x \in Of(r) \ Of(ker) : x = b
  BY <1>7
<1> QED
  BY <1>1, <1>2, <1>7, <1>8 DEF Goes

LEMMA EmitGoes ==
    ASSUME CInv, NEW k \in Kernels, NEW what \in AllOutputs, Emit(k, what),
           NEW P \in SUBSET RunEvents, InLine(P, kernel[k])
    PROVE  \E r : kernel' = [kernel EXCEPT ![k] = r] /\ Goes(P, kernel[k], r)
<1> DEFINE ker == kernel[k]
           b == Ev(what, ker.cur)
           iopub == Append(ker.iopub, b)
           r == [ker EXCEPT !.emitted = @ + 1, !.iopub = iopub]
<1>0. ker \in KernelRecord
  BY KernelsTyped DEF CInv
<1> HIDE DEF ker
<1>1. kernel' = [kernel EXCEPT ![k] = r] /\ ker.cur # 0 /\ InLine(P, ker)
  BY DEF Emit, ker
<1> HIDE DEF iopub
<1>2. /\ r.cur = ker.cur /\ r.todo = ker.todo /\ r.iopub = iopub /\ r.chan = ker.chan
      /\ Visible(r.shell) = {}
  BY <1>0, <1>1 DEF KernelRecord, InLine
<1> HIDE DEF r
<1>3. b \in RunEvents /\ b.run = ker.cur /\ b.what # "input" /\ Alone(b) \subseteq {b}
  <2>1. ker.cur \in Routed /\ what \in RunKinds
    BY <1>0, <1>1 DEF KernelRecord, RunKinds
  <2> QED
    BY <2>1, EventTyped DEF Ev, AllOutputs, Alone
<1> HIDE DEF b
<1>4. /\ Visible(r.iopub) = Visible(ker.iopub) \cup Alone(b)
      /\ AllInOrder(Visible(ker.iopub), Alone(b)) => Sorted(r.iopub)
  <2>1. ker.iopub \in Seq(RunEvents) /\ Sorted(ker.iopub)
    BY <1>0, <1>1, OfTyped DEF InLine
  <2> QED
    BY <1>2, <1>3, <2>1, VisibleAppend DEF iopub
<1> DEFINE X == Alone(b)
<1> HIDE DEF X
<1>5. Goes(P, ker, r)
  <2>1. /\ X \subseteq {b} /\ Visible(r.iopub) = Visible(ker.iopub) \cup X
        /\ AllInOrder(Visible(ker.iopub), X) => Sorted(r.iopub)
    BY <1>3, <1>4 DEF X
  <2> QED
    BY <1>0, <1>1, <1>2, <1>3, <2>1, OutputGoes
<1> QED
  BY <1>1, <1>5 DEF ker

LEMMA EndGoes ==
    ASSUME CInv, NEW k \in Kernels, NEW ok \in BOOLEAN, End(k, ok),
           NEW P \in SUBSET RunEvents, InLine(P, kernel[k])
    PROVE  \E r : kernel' = [kernel EXCEPT ![k] = r] /\ Goes(P, kernel[k], r)
<1> DEFINE ker == kernel[k]
           n == ker.cur
           a == Ev("error", n)
           b == Ev("idle", n)
           iopub == IF ok THEN Append(ker.iopub, b) ELSE ker.iopub \o <<a, b>>
           shell == Append(ker.shell, Ev(IF ok THEN "ok" ELSE "failed", n))
           r == [ker EXCEPT !.cur = 0, !.emitted = 0, !.iopub = iopub, !.shell = shell]
           X == IF ok THEN {} ELSE {a}
<1>0. ker \in KernelRecord
  BY KernelsTyped DEF CInv
<1> HIDE DEF ker
<1>1. kernel' = [kernel EXCEPT ![k] = r] /\ ker.cur # 0 /\ InLine(P, ker)
  BY DEF End, ker
<1> HIDE DEF iopub, shell
<1>2. /\ r.cur = 0 /\ r.todo = ker.todo /\ r.iopub = iopub /\ r.chan = ker.chan
      /\ r.shell = shell
  BY <1>0 DEF KernelRecord
<1> HIDE DEF r
<1>3. /\ a \in RunEvents /\ b \in RunEvents /\ a.run = ker.cur /\ a.what # "input"
      /\ Alone(a) = {a} /\ Alone(b) = {}
  <2>1. ker.cur \in Routed
    BY <1>0, <1>1 DEF KernelRecord
  <2> QED
    BY <2>1, EventTyped DEF Ev, RunKinds, VisibleKinds, Alone
<1>7. Visible(r.shell) = {}
  <2> DEFINE x == Ev(IF ok THEN "ok" ELSE "failed", n)
  <2>1. x \in RunEvents /\ Alone(x) = {}
    <3>1. ker.cur \in Routed
      BY <1>0, <1>1 DEF KernelRecord
    <3> QED
      BY <3>1, EventTyped DEF Ev, Alone, VisibleKinds, RunKinds
  <2>2. ker.shell \in Seq(RunEvents) /\ Visible(ker.shell) = {} /\ r.shell = Append(ker.shell, x)
    BY <1>0, <1>1, <1>2, OfTyped DEF InLine, shell
  <2> HIDE DEF x
  <2> QED
    BY <2>1, <2>2, VisibleAppend
<1> HIDE DEF a, b
<1>4. /\ Visible(iopub) = Visible(ker.iopub) \cup X
      /\ AllInOrder(Visible(ker.iopub), X) => Sorted(iopub)
  <2>1. ker.iopub \in Seq(RunEvents) /\ Sorted(ker.iopub)
    BY <1>0, <1>1, OfTyped DEF InLine
  <2>2. CASE ok
    <3>1. iopub = Append(ker.iopub, b) /\ X = Alone(b) /\ AllInOrder(Visible(ker.iopub), Alone(b))
      BY <1>3, <2>2 DEF iopub, AllInOrder
    <3>2. b \in RunEvents
      BY <1>3
    <3> HIDE DEF X
    <3> QED
      BY <2>1, <3>1, <3>2, VisibleAppend
  <2>3. CASE ~ok
    <3>1. iopub = ker.iopub \o <<a, b>> /\ X = Alone(a) \cup Alone(b) /\ AllInOrder(Alone(a), Alone(b))
      BY <1>3, <2>3 DEF iopub, AllInOrder
    <3>2. a \in RunEvents /\ b \in RunEvents
      BY <1>3
    <3>3. iopub = Append(Append(ker.iopub, a), b) /\ X = Alone(a) \cup Alone(b) /\ AllInOrder(Alone(a), Alone(b))
      BY <2>1, <3>1, <3>2
    <3> HIDE DEF X
    <3> QED
      BY <2>1, <3>2, <3>3, VisibleTwo
  <2> QED
    BY <2>2, <2>3
<1>5. X \subseteq {a}
  OBVIOUS
<1> HIDE DEF X
<1>6. Goes(P, ker, r)
  BY <1>0, <1>1, <1>2, <1>3, <1>4, <1>5, <1>7, OutputGoes
<1> QED
  BY <1>1, <1>6 DEF ker
(* The events for the pump are the messages in their order, and others     *)
(* that are not visible.                                                   *)
LEMMA SameGoes ==
    ASSUME NEW P, NEW ker, NEW r, InLine(P, ker), r.cur = ker.cur, r.todo = ker.todo,
           Visible(r.shell) = {},
           Sorted(r.chan), Sorted(r.iopub), AllInOrder(Visible(r.chan), Visible(r.iopub)),
           Of(r) = Of(ker)
    PROVE  Goes(P, ker, r)
<1>1. Rising(r) /\ Below(P \cup Of(r), r)
  BY DEF InLine, Rising, Below
<1>2. InLine(P, r)
  BY <1>1 DEF InLine
<1> QED
  BY <1>2 DEF Goes

LEMMA TasksGo ==
    ASSUME CInv, NEW k \in Kernels, NEW P \in SUBSET RunEvents, InLine(P, kernel[k]),
           Exit(k) \/ IopubLoop(k) \/ SocketOwner(k) \/ WatchExit(k)
    PROVE  \E r : kernel' = [kernel EXCEPT ![k] = r] /\ Goes(P, kernel[k], r)
<1> DEFINE ker == kernel[k]
<1>0. ker \in KernelRecord
  BY KernelsTyped DEF CInv
<1> HIDE DEF ker
<1>1. /\ InLine(P, ker) /\ Sorted(ker.chan) /\ Sorted(ker.iopub)
      /\ AllInOrder(Visible(ker.chan), Visible(ker.iopub))
      /\ ker.chan \in Seq(RunEvents \cup {Exited}) /\ ker.iopub \in Seq(RunEvents)
      /\ ker.shell \in Seq(RunEvents) /\ Visible(ker.shell) = {}
  BY <1>0, OfTyped DEF InLine, ker
<1>2. ASSUME NEW e \in RunEvents \cup {Exited}, Alone(e) = {}, NEW r, r.chan = Append(ker.chan, e),
             r.iopub = ker.iopub, r.cur = ker.cur, r.todo = ker.todo, Visible(r.shell) = {}
      PROVE  Goes(P, ker, r)
  <2> DEFINE F == RunEvents \cup {Exited}
  <2>0. ker.chan \in Seq(F) /\ e \in F
    BY <1>1
  <2> HIDE DEF F
  <2>3. /\ Visible(Append(ker.chan, e)) = Visible(ker.chan) \cup Alone(e)
        /\ Sorted(ker.chan) /\ AllInOrder(Visible(ker.chan), Alone(e)) => Sorted(Append(ker.chan, e))
    BY <2>0, VisibleAppend
  <2>1. Visible(r.chan) = Visible(ker.chan)
    BY <1>2, <2>3
  <2>2. Sorted(r.chan)
    <3>1. AllInOrder(Visible(ker.chan), Alone(e))
      BY <1>2 DEF AllInOrder
    <3> QED
      BY <1>1, <1>2, <2>3, <3>1
  <2> QED
    BY <1>1, <1>2, <2>1, <2>2, SameGoes DEF Of
<1>3. ASSUME Exit(k) PROVE \E r : kernel' = [kernel EXCEPT ![k] = r] /\ Goes(P, ker, r)
  <2> DEFINE r == [ker EXCEPT !.alive = FALSE]
  <2>1. kernel' = [kernel EXCEPT ![k] = r]
    BY <1>3 DEF Exit, ker
  <2>2. /\ r.chan = ker.chan /\ r.iopub = ker.iopub /\ r.cur = ker.cur /\ r.todo = ker.todo
        /\ r.shell = ker.shell
    BY <1>0 DEF KernelRecord
  <2> HIDE DEF r
  <2>3. Goes(P, ker, r)
    BY <1>1, <2>2, SameGoes DEF Of
  <2> QED
    BY <2>1, <2>3
<1>4. ASSUME SocketOwner(k) PROVE \E r : kernel' = [kernel EXCEPT ![k] = r] /\ Goes(P, ker, r)
  <2> DEFINE e == Head(ker.shell)
             chan == Append(ker.chan, e)
             shell == Tail(ker.shell)
             r == [ker EXCEPT !.shell = shell, !.chan = chan]
  <2>1. kernel' = [kernel EXCEPT ![k] = r] /\ ker.shell # <<>>
    BY <1>4 DEF SocketOwner, ker
  <2>2. e \in RunEvents
    BY <1>1, <2>1
  <2>3. Alone(e) = {} /\ Visible(shell) = {}
    <3>1. Visible(ker.shell) = Alone(e) \cup Visible(shell)
      BY <1>1, <2>1, VisibleTail
    <3> QED
      BY <1>1, <3>1
  <2> HIDE DEF chan, e, shell
  <2>4. r.chan = chan /\ r.iopub = ker.iopub /\ r.cur = ker.cur /\ r.todo = ker.todo /\ r.shell = shell
    BY <1>0 DEF KernelRecord
  <2> HIDE DEF r
  <2>5. Goes(P, ker, r)
    BY <1>2, <2>2, <2>3, <2>4 DEF chan
  <2> QED
    BY <2>1, <2>5
<1>5. ASSUME WatchExit(k) PROVE \E r : kernel' = [kernel EXCEPT ![k] = r] /\ Goes(P, ker, r)
  <2> DEFINE chan == Append(ker.chan, Exited)
             r == [ker EXCEPT !.watch = FALSE, !.chan = chan]
  <2>1. kernel' = [kernel EXCEPT ![k] = r]
    BY <1>5 DEF WatchExit, ker, Exited
  <2>2. Alone(Exited) = {} /\ Exited \in RunEvents \cup {Exited}
    BY DEF Alone, Exited, Ev, VisibleKinds
  <2> HIDE DEF chan
  <2>3. /\ r.chan = chan /\ r.iopub = ker.iopub /\ r.cur = ker.cur /\ r.todo = ker.todo
        /\ r.shell = ker.shell
    BY <1>0 DEF KernelRecord
  <2> HIDE DEF r
  <2>4. Goes(P, ker, r)
    BY <1>1, <1>2, <2>2, <2>3 DEF chan
  <2> QED
    BY <2>1, <2>4
<1>6. ASSUME IopubLoop(k) PROVE \E r : kernel' = [kernel EXCEPT ![k] = r] /\ Goes(P, ker, r)
  <2> DEFINE e == Head(ker.iopub)
             chan == Append(ker.chan, e)
             iopub == Tail(ker.iopub)
             r == [ker EXCEPT !.iopub = iopub, !.chan = chan]
  <2>1. kernel' = [kernel EXCEPT ![k] = r] /\ ker.iopub # <<>>
    BY <1>6 DEF IopubLoop, ker
  <2>2. e \in RunEvents \cup {Exited}
    BY <1>1, <2>1
  <2>3. /\ Visible(ker.iopub) = Alone(e) \cup Visible(iopub)
        /\ Sorted(iopub) /\ AllInOrder(Alone(e), Visible(iopub))
    BY <1>1, <2>1, VisibleTail
  <2>4. AllInOrder(Visible(ker.chan), Alone(e))
    BY <1>1, <2>3 DEF AllInOrder
  <2> HIDE DEF e, iopub
  <2>5. Visible(chan) = Visible(ker.chan) \cup Alone(e) /\ Sorted(chan)
    BY <1>1, <2>2, <2>4, VisibleAppend
  <2> HIDE DEF chan
  <2>6. /\ r.chan = chan /\ r.iopub = iopub /\ r.cur = ker.cur /\ r.todo = ker.todo
        /\ Visible(r.shell) = {}
    BY <1>0, <1>1 DEF KernelRecord
  <2> HIDE DEF r
  <2>7. Of(r) = Of(ker)
    BY <2>3, <2>5, <2>6 DEF Of
  <2>8. AllInOrder(Visible(r.chan), Visible(r.iopub))
    BY <1>1, <2>3, <2>5, <2>6 DEF AllInOrder
  <2>9. Goes(P, ker, r)
    BY <1>1, <2>3, <2>5, <2>6, <2>7, <2>8, SameGoes
  <2> QED
    BY <2>1, <2>9
<1> QED
  BY <1>3, <1>4, <1>5, <1>6 DEF ker
LEMMA UnreadTyped ==
    ASSUME CInv
    PROVE  /\ Visible(pipe) \subseteq RunEvents /\ Unread \subseteq RunEvents
           /\ \A e \in RunEvents : e.run \in Routed /\ e.run \in Nat /\ e.run > 0 /\ e.run \in Runs
           /\ \A e \in Visible(pipe) : e.what \in VisibleKinds
           /\ Running \in Nat
<1>1. pipe \in Seq(Frames) /\ kernel \in [Kernels -> KernelRecord] /\ slot \in 0..made /\ made \in 0..MaxKernels
  BY DEF CInv, CTyped
<1>2. \A e \in Frames : e.what \in VisibleKinds => e \in RunEvents
  BY FrameOfRun DEF VisibleKinds
<1>3. Visible(pipe) \subseteq RunEvents
  <2>1. \A i \in 1..Len(pipe) : pipe[i].what \in VisibleKinds => pipe[i] \in RunEvents
    BY <1>1, <1>2
  <2> QED
    BY <2>1 DEF Visible
<1>4. slot # 0 => slot \in Kernels /\ kernel[slot] \in KernelRecord
  BY <1>1 DEF Kernels
<1>5. Unread \subseteq RunEvents /\ Running \in Nat
  <2>1. CASE slot = 0
    BY <1>3, <2>1 DEF Unread, Running
  <2>2. CASE slot # 0
    <3>1. Of(kernel[slot]) \subseteq RunEvents /\ kernel[slot].cur \in Nat
      BY <1>4, <2>2, OfTyped
    <3> QED
      BY <1>3, <2>2, <3>1 DEF Unread, Running
  <2> QED
    BY <2>1, <2>2
<1>6. \A e \in RunEvents : e.run \in Routed /\ e.run \in Nat /\ e.run > 0 /\ e.run \in Runs
  BY DEF RunEvents, Routed, Runs
<1>7. \A e \in Visible(pipe) : e.what \in VisibleKinds
  BY DEF Visible
<1> QED
  BY <1>3, <1>5, <1>6, <1>7

(* A kernel goes on: nothing is shown, and what is added is of the run     *)
(* that it executes.                                                       *)
LEMMA OrderTasks ==
    ASSUME CInv, OneKernel, RunsInOrder, NEW k \in Kernels,
           KernelStep(k) \/ IopubLoop(k) \/ SocketOwner(k) \/ WatchExit(k)
    PROVE  RunsInOrder'
<1> DEFINE P == Visible(pipe)
           ker == kernel[k]
<1>1. UNCHANGED <<pipe, slot, shown, route>>
  BY DEF KernelStep, IopubLoop, SocketOwner, WatchExit, frontVars, sessionVars
<1>2. slot = k /\ slot # 0
  <2>1. ~ kernel[k].pump => Gone(kernel[k])
    BY DEF OneKernel
  <2>2. kernel[k].pump
    BY <2>1, TasksWorking
  <2> QED
    BY <2>2 DEF OneKernel, Kernels
<1>3. P \subseteq RunEvents /\ InLine(P, ker)
  BY <1>2, UnreadTyped DEF RunsInOrder
<1>4. PICK r : kernel' = [kernel EXCEPT ![k] = r] /\ Goes(P, ker, r)
  <2>1. \/ Begin(k) \/ Abort(k) \/ (\E what \in AllOutputs : Emit(k, what)) \/ (\E ok \in BOOLEAN : End(k, ok))
        \/ Exit(k) \/ IopubLoop(k) \/ SocketOwner(k) \/ WatchExit(k)
    <3>1. scenario.outputs \subseteq AllOutputs
      BY DEF CInv, CTyped
    <3> QED
      BY <3>1 DEF KernelStep
  <2>2. P \in SUBSET RunEvents
    BY <1>3
  <2> HIDE DEF P
  <2> QED
    BY <1>3, <2>1, <2>2, BeginGoes, AbortGoes, EmitGoes, EndGoes, TasksGo
<1>5. kernel'[k] = r
  BY <1>4 DEF CInv, CTyped
<1> HIDE DEF P
<1>6. Unread = P \cup Of(ker) /\ Unread' = P \cup Of(r) /\ Running = ker.cur /\ Running' = r.cur /\ P' = P
  BY <1>1, <1>2, <1>5 DEF Unread, Running, P
<1> HIDE DEF ker
<1>7. Unread \subseteq Unread'
  BY <1>4, <1>6 DEF Goes
<1>8. ASSUME NEW x \in Unread', x \notin Unread
      PROVE  /\ x.what # "input" => Running # 0 /\ x.run = Running
             /\ Running <= x.run /\ \A e \in Unread : e.run <= x.run
  BY <1>4, <1>6, <1>8 DEF Goes
<1>9. ASSUME NEW m \in Runs, Current(m)' PROVE Settled(m)'
  <2> DEFINE input == Ev("input", m)
  <2>1. input' = input
    BY DEF Ev
  <2>2. Current(m) \/ input \in Unread'
    <3>1. CASE m = Running' /\ m # 0
      BY <1>4, <1>6, <3>1 DEF Goes, Current
    <3>2. CASE \E e \in Unread' : e.run = m /\ e.what # "input"
      BY <1>8, <3>2 DEF Current
    <3> QED
      BY <1>9, <3>1, <3>2 DEF Current
  <2>3. CASE input \in Unread'
    BY <2>1, <2>3 DEF Settled
  <2>4. CASE Current(m) /\ input \notin Unread
    <3>1. Shows(route[m], m) /\ \A e \in Unread : m <= e.run
      BY <2>4 DEF RunsInOrder, Settled
    <3>2. ASSUME NEW x \in Unread', x \notin Unread PROVE m <= x.run
      BY <1>8, <2>4, <3>2 DEF Current
    <3>3. Shows(route[m], m)'
      BY <1>1, <3>1 DEF Shows
    <3> QED
      BY <3>1, <3>2, <3>3 DEF Settled
  <2> QED
    BY <1>7, <2>2, <2>3, <2>4
<1>10. \A c \in Cells : \E m \in 0..MaxRuns : Shows(c, m)'
  BY <1>1 DEF RunsInOrder, Shows
<1>11. Sorted(pipe') /\ InLine(P, r)
  BY <1>1, <1>4 DEF RunsInOrder, Goes
<1> QED
  BY <1>1, <1>2, <1>5, <1>9, <1>10, <1>11 DEF RunsInOrder, P

LEMMA OrderForward ==
    ASSUME CInv, OneKernel, RunsInOrder, NEW k \in Kernels, kernel[k].pump, kernel[k].chan # <<>>, Forward(k),
           UNCHANGED shown
    PROVE  RunsInOrder'
<1> DEFINE P == Visible(pipe)
           ker == kernel[k]
           e == Head(ker.chan)
           chan == Tail(ker.chan)
           r == [ker EXCEPT !.chan = chan]
<1>1. /\ pipe' = Append(pipe, e) /\ UNCHANGED <<slot, route>> /\ kernel' = [kernel EXCEPT ![k] = r]
      /\ ker.chan # <<>> /\ e.what # "exited"
  BY DEF Forward
<1>2. slot = k /\ slot # 0 /\ kernel \in [Kernels -> KernelRecord] /\ pipe \in Seq(Frames)
  BY DEF OneKernel, Kernels, CInv, CTyped
<1>3. InLine(P, ker) /\ Sorted(pipe)
  BY <1>2 DEF RunsInOrder
<1>4. ker \in KernelRecord
  BY <1>2
<1> HIDE DEF ker
<1>5. ker.chan \in Seq(RunEvents \cup {Exited})
  BY <1>4, OfTyped
<1>6. e \in Frames
  <2>1. e \in RunEvents \cup {Exited}
    BY <1>1, <1>5
  <2> QED
    BY <2>1 DEF Frames
<1>7. /\ Visible(ker.chan) = Alone(e) \cup Visible(chan)
      /\ Sorted(ker.chan) => Sorted(chan) /\ AllInOrder(Alone(e), Visible(chan))
  BY <1>1, <1>5, VisibleTail
<1> HIDE DEF e, chan
<1>8. r.chan = chan /\ r.iopub = ker.iopub /\ r.cur = ker.cur /\ r.todo = ker.todo /\ r.shell = ker.shell
  BY <1>4 DEF KernelRecord
<1> HIDE DEF r
<1>9. /\ Visible(pipe') = P \cup Alone(e)
      /\ Sorted(pipe) /\ AllInOrder(P, Alone(e)) => Sorted(pipe')
  BY <1>1, <1>2, <1>6, VisibleAppend
<1>10. AllInOrder(P, Alone(e)) /\ AllInOrder(P \cup Alone(e), Of(r)) /\ AllInOrder(Visible(r.chan), Visible(r.iopub))
  BY <1>3, <1>7, <1>8 DEF InLine, AllInOrder, Of
<1>11. P \cup Alone(e) \cup Of(r) = P \cup Of(ker)
  BY <1>7, <1>8 DEF Of
<1> HIDE DEF P
<1>12. InLine(P \cup Alone(e), r)
  <2>1. Rising(r) /\ Below(P \cup Alone(e) \cup Of(r), r)
    <3>1. Rising(r) /\ Below(P \cup Of(ker), r)
      BY <1>3, <1>8 DEF InLine, Rising, Below
    <3> QED
      BY <1>11, <3>1
  <2> QED
    BY <1>3, <1>7, <1>8, <1>10, <2>1 DEF InLine
<1>13. kernel'[k] = r
  BY <1>1, <1>2
<1>14. Unread' = Unread /\ Running' = Running
  BY <1>1, <1>2, <1>8, <1>9, <1>11, <1>13 DEF Unread, Running, ker, P
<1>15. \A m : (Current(m)' <=> Current(m)) /\ (Settled(m)' <=> Settled(m))
  BY <1>1, <1>14 DEF Current, Settled, Shows, Ev
<1>16. \A c \in Cells : \E m \in 0..MaxRuns : Shows(c, m)'
  BY DEF RunsInOrder, Shows
<1>17. Sorted(pipe')
  BY <1>3, <1>9, <1>10
<1>18. slot' # 0 => InLine(Visible(pipe'), kernel'[slot'])
  BY <1>1, <1>2, <1>9, <1>12, <1>13
<1>19. \A m \in Runs : Current(m)' => Settled(m)'
  BY <1>15 DEF RunsInOrder
<1> QED
  BY <1>16, <1>17, <1>18, <1>19 DEF RunsInOrder
(* The events of a kernel that has exited are dropped: an output of a run  *)
(* that is left to read comes after the run's input.                       *)
LEMMA OrderExit ==
    ASSUME CInv, OneKernel, RunsInOrder, NEW k \in Kernels, kernel[k].pump, ForwardExit(k),
           UNCHANGED shown
    PROVE  RunsInOrder'
<1> DEFINE P == Visible(pipe)
           ker == kernel[k]
<1>1. slot = k /\ slot # 0 /\ pipe \in Seq(Frames)
  BY DEF OneKernel, Kernels, CInv, CTyped
<1>2. slot' = 0 /\ pipe' = Append(pipe, Exited) /\ UNCHANGED route
  BY <1>1 DEF ForwardExit, Exited
<1>3. Exited \in Frames /\ Alone(Exited) = {}
  BY DEF Frames, Alone, Exited, Ev, VisibleKinds
<1>4. Visible(pipe') = P /\ Sorted(pipe')
  <2>1. Sorted(pipe) /\ AllInOrder(Visible(pipe), Alone(Exited))
    BY <1>3 DEF RunsInOrder, AllInOrder
  <2>2. Visible(pipe') = Visible(pipe) \cup Alone(Exited) /\ Sorted(pipe')
    BY <1>1, <1>2, <1>3, <2>1, VisibleAppend
  <2> QED
    BY <1>3, <2>2
<1>5. Unread' = P /\ Unread = P \cup Of(ker) /\ Running' = 0
  BY <1>1, <1>2, <1>4 DEF Unread, Running
<1>6. AllInOrder(P, Of(ker))
  BY <1>1 DEF RunsInOrder, InLine
<1>7. \A e \in P : e.run \in Nat
  BY UnreadTyped
<1> HIDE DEF P, ker
<1>8. ASSUME NEW m \in Runs, Current(m)' PROVE Settled(m)'
  <2> DEFINE input == Ev("input", m)
  <2>1. PICK e \in P : e.run = m /\ e.what # "input"
    BY <1>5, <1>8 DEF Current
  <2>2. Settled(m)
    BY <1>5, <2>1 DEF Current, RunsInOrder
  <2>3. CASE input \in Unread
    <3>1. input.run = m /\ input.what = "input" /\ input' = input
      BY DEF Ev
    <3>2. ~ InOrder(e, input)
      BY <1>7, <2>1, <3>1 DEF InOrder
    <3>3. input \notin Of(ker)
      BY <1>6, <2>1, <3>2 DEF AllInOrder
    <3> QED
      BY <1>5, <2>3, <3>1, <3>3 DEF Settled
  <2>4. CASE input \notin Unread
    <3>1. Shows(route[m], m) /\ \A x \in Unread : m <= x.run
      BY <2>2, <2>4 DEF Settled
    <3>2. Shows(route[m], m)'
      BY <1>2, <3>1 DEF Shows
    <3> QED
      BY <1>5, <3>1, <3>2 DEF Settled
  <2> QED
    BY <2>3, <2>4
<1>9. \A c \in Cells : \E m \in 0..MaxRuns : Shows(c, m)'
  BY DEF RunsInOrder, Shows
<1> QED
  BY <1>2, <1>4, <1>8, <1>9 DEF RunsInOrder

LEMMA OrderServe ==
    ASSUME CInv, RepliesGood, OneKernel, RunsInOrder, Serve
    PROVE  RunsInOrder'
<1> DEFINE P == Visible(pipe)
<1>1. /\ UNCHANGED <<started, shown>> /\ request.what # "answered"
      /\ ServeExecute \/ ServeStart \/ ServeLaunch
  BY DEF Serve, OneKernel, ServeLaunch, ServeExecute, ServeStart, ServeStop
<1>2. /\ pipe \in Seq(Frames) /\ kernel \in [Kernels -> KernelRecord]
      /\ route \in [Runs -> Cells \cup {NoCells}]
      /\ slot \in 0..made /\ made \in 0..MaxKernels
  BY <1>1 DEF CInv, CTyped
<1>3. pipe' = pipe \/ \E e \in Replies : pipe' = Append(pipe, e)
  <2>1. CASE ServeExecute
    <3>1. Ev("executed", issued) \in Replies
      BY <2>1 DEF ServeExecute, CInv, RequestsGood, Ev, Replies
    <3> QED
      BY <2>1, <3>1 DEF ServeExecute
  <2>2. CASE ServeStart
    BY <2>2 DEF ServeStart, Replies
  <2>3. CASE ServeLaunch
    BY <2>3 DEF ServeLaunch
  <2> QED
    BY <1>1, <2>1, <2>2, <2>3
<1>4. \A e \in Replies : e \in Frames /\ Alone(e) = {}
  BY DEF Frames, Replies, Alone, Ev, VisibleKinds
<1>5. Visible(pipe') = P /\ Sorted(pipe')
  <2>0. CASE pipe' = pipe
    BY <2>0 DEF RunsInOrder
  <2> SUFFICES ASSUME NEW e \in Replies, pipe' = Append(pipe, e) PROVE Visible(pipe') = P /\ Sorted(pipe')
    BY <1>3, <2>0
  <2>1. Sorted(pipe) /\ AllInOrder(Visible(pipe), Alone(e))
    BY <1>4 DEF RunsInOrder, AllInOrder
  <2>2. Visible(pipe') = Visible(pipe) \cup Alone(e) /\ Sorted(pipe')
    BY <1>2, <1>4, <2>1, VisibleAppend
  <2> QED
    BY <1>4, <2>2
<1>6. /\ P \subseteq RunEvents /\ Unread \subseteq RunEvents /\ \A n \in RunEvents : n.run \in Routed /\ n.run \in Nat
      /\ \A n \in Routed : n <= issued /\ n \in Nat
  BY UnreadTyped DEF CInv, RequestsGood, Routed, Runs
<1>7. \A n \in Routed : route'[n] = route[n]
  <2>1. CASE ServeExecute
    <3>1. issued \notin Routed /\ Routed \subseteq Runs
      BY <2>1 DEF ServeExecute, CInv, RequestsGood, Routed
    <3>2. route' = route \/ route' = [route EXCEPT ![issued] = request.cell]
      BY <2>1 DEF ServeExecute
    <3> QED
      BY <1>2, <3>1, <3>2
  <2>2. CASE ServeStart
    BY <2>2 DEF ServeStart, sessionVars
  <2>3. CASE ServeLaunch
    BY <2>3 DEF ServeLaunch
  <2> QED
    BY <1>1, <2>1, <2>2, <2>3
<1>8. /\ slot' # 0 => InLine(P, kernel'[slot'])
      /\ Unread' = Unread /\ (Running' # 0 => Running' = Running)
  <2>1. CASE ServeExecute /\ slot = 0
    BY <1>5, <2>1 DEF ServeExecute, Unread, Running
  <2>2. CASE ServeExecute /\ slot # 0
    <3> DEFINE ker == kernel[slot]
               todo == Append(ker.todo, issued)
               r == [ker EXCEPT !.todo = todo]
    <3>1. slot \in Kernels /\ kernel' = [kernel EXCEPT ![slot] = r] /\ slot' = slot
      BY <1>2, <2>2 DEF ServeExecute, Kernels
    <3>2. ker \in KernelRecord /\ InLine(P, ker)
      BY <1>2, <2>2, <3>1 DEF RunsInOrder
    <3> HIDE DEF ker, todo
    <3>3. /\ r.chan = ker.chan /\ r.iopub = ker.iopub /\ r.shell = ker.shell /\ r.cur = ker.cur
          /\ r.todo = todo
      BY <3>2 DEF KernelRecord
    <3> HIDE DEF r
    <3>4. kernel'[slot'] = r
      BY <1>2, <3>1
    <3>5. Of(r) = Of(ker) /\ P \cup Of(ker) \subseteq RunEvents
      BY <1>6, <3>2, <3>3, OfTyped DEF Of
    <3>6. issued \in Runs /\ issued \notin Routed /\ issued \in Nat
      BY <2>2 DEF ServeExecute, CInv, RequestsGood, Runs
    <3>7. \A n \in Routed : n < issued
      BY <1>6, <3>6
    <3> DEFINE m == Len(ker.todo)
    <3>8. /\ ker.todo \in Seq(Routed) /\ m \in Nat /\ Len(todo) = m + 1 /\ todo[m + 1] = issued
          /\ \A i \in 1..m : todo[i] = ker.todo[i] /\ ker.todo[i] \in Routed
      <4>1. ker.todo \in Seq(Routed)
        BY <3>2, OfTyped
      <4> QED
        BY <4>1 DEF todo
    <3>9. \A i \in 1..(m + 1) : i = m + 1 \/ i \in 1..m
      BY <3>8
    <3>10. ker.cur < issued
      <4>1. ker.cur \in Routed \cup {0}
        BY <3>2 DEF KernelRecord
      <4>2. CASE ker.cur = 0
        BY <3>6, <4>2 DEF Runs
      <4> QED
        BY <3>7, <4>1, <4>2
    <3> HIDE DEF m
    <3>11. Rising(r)
      <4> SUFFICES ASSUME NEW i \in 1..(m + 1) PROVE r.cur < todo[i] /\ \A j \in 1..(i - 1) : todo[j] < todo[i]
        BY <3>3, <3>8 DEF Rising
      <4>1. CASE i = m + 1
        <5>1. \A j \in 1..(i - 1) : j \in 1..m
          BY <3>8, <4>1
        <5> QED
          BY <3>3, <3>7, <3>8, <3>10, <4>1, <5>1
      <4>2. CASE i # m + 1
        <5>1. i \in 1..m /\ \A j \in 1..(i - 1) : j \in 1..m
          BY <3>8, <3>9, <4>2
        <5>2. ker.cur < ker.todo[i] /\ \A j \in 1..(i - 1) : ker.todo[j] < ker.todo[i]
          BY <3>2, <5>1 DEF InLine, Rising, m
        <5> QED
          BY <3>3, <3>8, <5>1, <5>2
      <4> QED
        BY <4>1, <4>2
    <3>12. Below(P \cup Of(r), r)
      <4> SUFFICES ASSUME NEW x \in P \cup Of(ker)
                   PROVE  /\ ker.cur # 0 => x.run <= ker.cur
                          /\ \A i \in 1..(m + 1) : x.run < todo[i]
        BY <3>3, <3>5, <3>8 DEF Below
      <4>1. ker.cur # 0 => x.run <= ker.cur
        BY <3>2 DEF InLine, Below
      <4>2. \A i \in 1..m : x.run < ker.todo[i]
        BY <3>2 DEF InLine, Below, m
      <4>3. x.run < issued
        BY <1>6, <3>5, <3>7
      <4> QED
        BY <3>8, <3>9, <4>1, <4>2, <4>3
    <3>13. InLine(P, r)
      BY <3>2, <3>3, <3>5, <3>11, <3>12 DEF InLine
    <3>14. Unread' = Unread /\ Running' = Running
      BY <1>5, <2>2, <3>1, <3>3, <3>4, <3>5 DEF Unread, Running, ker
    <3> QED
      BY <3>4, <3>13, <3>14
  <2>4. CASE ServeStart
    BY <1>5, <2>4 DEF ServeStart, sessionVars, RunsInOrder, Unread, Running
  <2>3. CASE ServeLaunch
    <3>1. /\ made < MaxKernels /\ made' = made + 1 /\ slot' = made'
          /\ kernel' = [kernel EXCEPT ![made'] = NewKernel]
      BY <2>3 DEF ServeLaunch, CInv, RequestsGood
    <3>2. slot = 0
      <4>1. ~started /\ (slot # 0 => KernelKnown)
        BY <2>3 DEF ServeLaunch, OneKernel
      <4>2. Free(Replies, pipe) /\ StartedFrame \in Replies
        BY <1>1 DEF RepliesGood, StartedFrame, Replies
      <4> QED
        BY <2>3, <4>1, <4>2 DEF ServeLaunch, KernelKnown, Free
    <3>3. slot' # 0 /\ slot' \in Kernels /\ kernel'[slot'] = NewKernel
      BY <1>2, <3>1 DEF Kernels
    <3>4. /\ Visible(NewKernel.chan) = {} /\ Visible(NewKernel.iopub) = {} /\ Visible(NewKernel.shell) = {}
          /\ Sorted(NewKernel.chan) /\ Sorted(NewKernel.iopub) /\ NewKernel.cur = 0 /\ Len(NewKernel.todo) = 0
      BY DEF NewKernel, Visible, Sorted
    <3>5. InLine(P, NewKernel)
      BY <3>4 DEF InLine, AllInOrder, Of, Below, Rising
    <3>6. Unread' = Unread /\ Running' = 0
      BY <1>5, <3>2, <3>3, <3>4 DEF Unread, Running, Of
    <3> QED
      BY <3>3, <3>5, <3>6
  <2> QED
    BY <1>1, <2>1, <2>2, <2>3, <2>4
<1>9. ASSUME NEW m \in Runs, Current(m)' PROVE Settled(m)'
  <2>1. Current(m) /\ Settled(m)
    BY <1>8, <1>9 DEF Current, RunsInOrder
  <2>2. m \in Routed
    <3>1. CASE m = Running /\ m # 0
      <4>1. slot # 0 => kernel[slot] \in KernelRecord
        BY <1>2 DEF Kernels
      <4> QED
        BY <3>1, <4>1 DEF Running, KernelRecord
    <3>2. CASE \E x \in Unread : x.run = m
      BY <1>6, <3>2
    <3> QED
      BY <2>1, <3>1, <3>2 DEF Current
  <2>3. route'[m] = route[m]
    BY <1>7, <2>2
  <2> QED
    BY <1>1, <1>8, <2>1, <2>3 DEF Settled, Shows, Ev
<1>10. \A c \in Cells : \E m \in 0..MaxRuns : Shows(c, m)'
  BY <1>1 DEF RunsInOrder, Shows
<1> QED
  BY <1>5, <1>8, <1>9, <1>10 DEF RunsInOrder
(* A display shows outputs of run m alone.                                 *)
OfRun(d, m) ==
    /\ \A i \in 1..Len(d.outs) : d.outs[i].run = m
    /\ d.count \in {0, m}

LEMMA AppliedOfRun ==
    ASSUME NEW d \in Display, NEW e \in RunEvents
    PROVE  /\ e.what \notin VisibleKinds => \A m : OfRun(d, m) => OfRun(Applied(d, e), m)
           /\ e.what = "input" => OfRun(Applied(d, e), e.run)
           /\ OfRun(d, e.run) => OfRun(Applied(d, e), e.run)
<1>1. e.what \in RunKinds /\ d.outs \in Seq(Output)
  BY DEF RunEvents, Display
<1>2. ASSUME NEW m, e.what \notin VisibleKinds, OfRun(d, m) PROVE OfRun(Applied(d, e), m)
  <2>1. CASE e.what \in {"busy", "idle", "ok", "failed"}
    <3>1. Applied(d, e).outs = d.outs /\ Applied(d, e).count = d.count
      BY <2>1 DEF Applied, Display
    <3> QED
      BY <1>2, <3>1 DEF OfRun
  <2>2. CASE e.what = "clear"
    <3>1. Applied(d, e).outs = <<>> /\ Applied(d, e).count = d.count
      BY <2>2 DEF Applied, Display
    <3> QED
      BY <1>2, <3>1 DEF OfRun
  <2> QED
    BY <1>1, <1>2, <2>1, <2>2 DEF VisibleKinds, RunKinds, AllOutputs
<1>3. ASSUME e.what = "input" PROVE OfRun(Applied(d, e), e.run)
  <2>1. Applied(d, e).outs = <<>> /\ Applied(d, e).count = e.run
    BY <1>3 DEF Applied, Display
  <2> QED
    BY <2>1 DEF OfRun
<1>4. ASSUME OfRun(d, e.run), e.what \in {"stream", "result", "error"} PROVE OfRun(Applied(d, e), e.run)
  <2> DEFINE outs == WithOutput(d.outs, e)
  <2>1. outs = d.outs \/ outs = Append(d.outs, e)
    BY DEF WithOutput
  <2>2. \A i \in 1..Len(outs) : outs[i].run = e.run
    <3>1. CASE outs = d.outs
      BY <1>4, <3>1 DEF OfRun
    <3>2. CASE outs = Append(d.outs, e)
      <4> DEFINE n == Len(d.outs)
      <4>1. n \in Nat /\ Len(outs) = n + 1 /\ outs[n + 1] = e /\ \A i \in 1..n : outs[i] = d.outs[i]
        BY <1>1, <3>2
      <4>2. \A i \in 1..(n + 1) : i = n + 1 \/ i \in 1..n
        BY <4>1
      <4> HIDE DEF outs
      <4> QED
        BY <1>4, <4>1, <4>2 DEF OfRun
    <3> QED
      BY <2>1, <3>1, <3>2
  <2> HIDE DEF outs
  <2>3. Applied(d, e).outs = outs /\ Applied(d, e).count \in {d.count, e.run}
    BY <1>4 DEF Applied, Display, outs
  <2> QED
    BY <1>4, <2>2, <2>3 DEF OfRun
<1>5. \A m : e.what \notin VisibleKinds /\ OfRun(d, m) => OfRun(Applied(d, e), m)
  BY <1>2
<1>6. e.what \in VisibleKinds => e.what \in {"input", "stream", "result", "error"}
  BY DEF VisibleKinds
<1> QED
  BY <1>3, <1>4, <1>5, <1>6

LEMMA ShowsOfRun ==
    ASSUME NEW c, NEW m
    PROVE  /\ Shows(c, m) <=> OfRun(shown[c], m)
           /\ Shows(c, m)' <=> OfRun(shown'[c], m)
BY DEF Shows, OfRun

LEMMA OrderRead ==
    ASSUME CInv, DroppedBlank, RunsInOrder, Read
    PROVE  RunsInOrder'
<1> DEFINE e == Head(pipe)
           P == Visible(pipe)
           Q == Visible(pipe')
           n == e.run
<1>1. /\ pipe # <<>> /\ pipe' = Tail(pipe) /\ UNCHANGED <<slot, route, kernel>>
      /\ pipe \in Seq(Frames) /\ shown \in [Cells -> Display] /\ e \in Frames
  BY DEF Read, sessionVars, CInv, CTyped
<1>2. P = Alone(e) \cup Q /\ Sorted(pipe') /\ AllInOrder(Alone(e), Q)
  BY <1>1, VisibleTail DEF RunsInOrder
<1>3. /\ P \subseteq RunEvents /\ Unread \subseteq RunEvents /\ Running \in Nat
      /\ \A x \in RunEvents : x.run \in Routed /\ x.run \in Nat /\ x.run > 0 /\ x.run \in Runs
  BY UnreadTyped
<1> HIDE DEF e
<1>4. slot' # 0 => InLine(Q, kernel'[slot'])
  <2>1. \A E, F, ker : E \subseteq F /\ Below(F, ker) => Below(E, ker)
    BY DEF Below
  <2>2. ASSUME NEW ker, InLine(P, ker) PROVE InLine(Q, ker)
    <3>1. Q \cup Of(ker) \subseteq P \cup Of(ker)
      BY <1>2
    <3>2. Below(Q \cup Of(ker), ker)
      BY <2>1, <2>2, <3>1 DEF InLine
    <3>3. AllInOrder(Q, Of(ker))
      BY <1>2, <2>2 DEF InLine, AllInOrder
    <3> QED
      BY <2>2, <3>2, <3>3 DEF InLine
  <2> QED
    BY <1>1, <2>2 DEF RunsInOrder
<1>5. /\ Unread = Alone(e) \cup Unread' /\ Running' = Running
      /\ AllInOrder(Alone(e), Unread')
      /\ Running # 0 => \A x \in Unread : x.run <= Running
  <2>1. CASE slot = 0
    BY <1>1, <1>2, <2>1 DEF Unread, Running
  <2>2. CASE slot # 0
    <3>1. AllInOrder(P, Of(kernel[slot])) /\ Below(P \cup Of(kernel[slot]), kernel[slot])
      BY <2>2 DEF RunsInOrder, InLine
    <3>2. Unread = P \cup Of(kernel[slot]) /\ Unread' = Q \cup Of(kernel[slot]) /\ Running = kernel[slot].cur /\ Running' = Running
      BY <1>1, <2>2 DEF Unread, Running
    <3> QED
      BY <1>2, <3>1, <3>2 DEF AllInOrder, Below
  <2> QED
    BY <2>1, <2>2
<1>6. CASE e.what \notin VisibleKinds
  <2>1. Unread' = Unread
    BY <1>5, <1>6 DEF Alone
  <2>2. ASSUME NEW c \in Cells, NEW m, Shows(c, m) PROVE Shows(c, m)'
    <3>1. shown[c] \in Display /\ OfRun(shown[c], m)
      BY <1>1, <2>2, ShowsOfRun
    <3>2. \/ shown'[c] = shown[c]
          \/ shown'[c] = [shown[c] EXCEPT !.status = "none"]
          \/ e \in RunEvents /\ shown'[c] = Applied(shown[c], e)
      BY ReadStep DEF e
    <3>3. CASE shown'[c] = [shown[c] EXCEPT !.status = "none"]
      <4>1. shown'[c].outs = shown[c].outs /\ shown'[c].count = shown[c].count
        BY <3>1, <3>3 DEF Display
      <4>2. OfRun(shown'[c], m)
        BY <3>1, <4>1 DEF OfRun
      <4> QED
        BY <4>2, ShowsOfRun
    <3>4. CASE e \in RunEvents /\ shown'[c] = Applied(shown[c], e)
      BY <1>6, <3>1, <3>4, AppliedOfRun, ShowsOfRun
    <3>5. CASE shown'[c] = shown[c]
      BY <3>1, <3>5, ShowsOfRun
    <3> QED
      BY <3>2, <3>3, <3>4, <3>5
  <2>3. ASSUME NEW m \in Runs, Current(m)' PROVE Settled(m)'
    <3>1. Settled(m)
      BY <1>5, <2>1, <2>3 DEF Current, RunsInOrder
    <3>2. CASE Ev("input", m) \in Unread
      BY <2>1, <3>2 DEF Settled, Ev
    <3>3. CASE Ev("input", m) \notin Unread
      <4>1. Shows(route[m], m) /\ \A x \in Unread : m <= x.run
        BY <3>1, <3>3 DEF Settled
      <4>2. m \in Routed
        <5>1. CASE m = Running /\ m # 0
          <6>1. slot # 0 => kernel[slot] \in KernelRecord
            BY DEF CInv, CTyped, Kernels
          <6> QED
            BY <5>1, <6>1 DEF Running, KernelRecord
        <5>2. CASE \E x \in Unread : x.run = m
          BY <1>3, <5>2
        <5> QED
          BY <1>5, <2>1, <2>3, <5>1, <5>2 DEF Current
      <4>3. route[m] \in Cells
        BY <4>2 DEF Routed
      <4>4. Shows(route[m], m)'
        <5> DEFINE c == route[m]
        <5>1. c \in Cells /\ c' = c
          BY <1>1, <4>3
        <5> HIDE DEF c
        <5>2. OfRun(shown'[c], m)
          BY <2>2, <4>1, <5>1, ShowsOfRun DEF c
        <5> QED
          BY <5>1, <5>2 DEF Shows, OfRun, c
      <4> QED
        BY <2>1, <4>1, <4>4 DEF Settled
    <3> QED
      BY <3>2, <3>3
  <2>4. \A c \in Cells : \E m \in 0..MaxRuns : Shows(c, m)'
    BY <2>2 DEF RunsInOrder
  <2> QED
    BY <1>2, <1>4, <2>3, <2>4 DEF RunsInOrder
<1>7. CASE e.what \in VisibleKinds
  <2> DEFINE c == route[n]
  <2>1. Alone(e) = {e} /\ e \in Unread /\ e \in RunEvents /\ n \in Nat /\ n > 0 /\ n \in Runs /\ n \in Routed
    <3>1. Alone(e) = {e} /\ e \in Unread
      BY <1>5, <1>7 DEF Alone
    <3> QED
      BY <1>3, <3>1
  <2>2. c \in Cells /\ shown[c] \in Display
    BY <1>1, <2>1 DEF Routed
  <2> HIDE DEF n, c
  <2>3. e.run = n /\ route[n] = c
    BY DEF n, c
  <2>4. \A x \in Unread' : InOrder(e, x) /\ n <= x.run /\ (x.what = "input" => n < x.run)
    <3>1. ASSUME NEW x \in Unread' PROVE InOrder(e, x)
      BY <1>5, <2>1, <3>1 DEF AllInOrder
    <3>2. Unread' \subseteq RunEvents
      BY <1>3, <1>5
    <3>3. \A x \in Unread' : x.run \in Nat
      BY <1>3, <3>2
    <3> QED
      BY <2>1, <2>3, <3>1, <3>3 DEF InOrder
  <2>5. e.what # "input" => Shows(c, n)
    <3>1. ASSUME e.what # "input" PROVE Shows(c, n)
      <4>1. Settled(n)
        BY <2>1, <2>3, <3>1 DEF Current, RunsInOrder
      <4>2. Ev("input", n).what = "input" /\ Ev("input", n).run = n
        BY DEF Ev
      <4>3. Ev("input", n) \notin Unread
        BY <1>5, <2>1, <2>4, <3>1, <4>2
      <4> QED
        BY <2>3, <4>1, <4>3 DEF Settled
    <3> QED
      BY <3>1
  <2>6. OfRun(shown'[c], n)
    <3>1. CASE shown[c].active
      <4>1. shown'[c] = Applied(shown[c], e)
        BY <1>7, <2>2, <2>3, <3>1, ReadStep DEF e, VisibleKinds
      <4>2. e.what # "input" => OfRun(shown[c], n)
        BY <2>5, ShowsOfRun
      <4> QED
        BY <2>1, <2>2, <2>3, <4>1, <4>2, AppliedOfRun
    <3>2. CASE ~ shown[c].active
      <4>1. shown'[c] = shown[c]
        BY <1>7, <2>2, <2>3, <3>2, ReadStep DEF e, VisibleKinds
      <4>2. shown[c].outs = <<>> /\ shown[c].count = 0
        BY <2>2, <3>2 DEF DroppedBlank
      <4> QED
        BY <4>1, <4>2 DEF OfRun
    <3> QED
      BY <3>1, <3>2
  <2>7. ASSUME NEW m \in Runs, Current(m)' PROVE Settled(m)'
    <3>1. n <= m
      <4>1. CASE m = Running' /\ m # 0
        BY <1>5, <2>1, <2>3, <4>1
      <4>2. CASE \E x \in Unread' : x.run = m
        BY <2>4, <4>2
      <4> QED
        BY <2>7, <4>1, <4>2 DEF Current
    <3>2. CASE m = n
      <4>1. Shows(route[m], m)'
        BY <1>1, <2>3, <2>6, <3>2 DEF Shows, OfRun
      <4> QED
        BY <2>4, <3>2, <4>1 DEF Settled
    <3>3. CASE m # n
      <4>1. Settled(m)
        BY <1>5, <2>7 DEF Current, RunsInOrder
      <4>2. ~ \A x \in Unread : m <= x.run
        <5>1. m \in Nat
          BY DEF Runs
        <5> QED
          BY <2>1, <2>3, <3>1, <3>3, <5>1
      <4> DEFINE input == Ev("input", m)
      <4>3. input \in Unread
        BY <4>1, <4>2 DEF Settled
      <4>4. input.run = m /\ input' = input
        BY DEF Ev
      <4> HIDE DEF input
      <4>5. input # e
        BY <2>3, <3>3, <4>4
      <4>6. input \in Unread'
        BY <1>5, <2>1, <4>3, <4>5
      <4> QED
        BY <4>4, <4>6 DEF Settled, input
    <3> QED
      BY <3>2, <3>3
  <2>8. ASSUME NEW d \in Cells PROVE \E m \in 0..MaxRuns : OfRun(shown'[d], m)
    <3>1. CASE d = c
      <4>1. n \in 0..MaxRuns
        BY <2>1 DEF Runs
      <4> QED
        BY <2>6, <3>1, <4>1
    <3>2. CASE d # c
      <4>1. shown'[d] = shown[d]
        BY <1>7, <2>3, <3>2, ReadStep DEF e, VisibleKinds
      <4> QED
        BY <4>1 DEF RunsInOrder, Shows, OfRun
    <3> QED
      BY <3>1, <3>2
  <2>9. \A d \in Cells : \E m \in 0..MaxRuns : Shows(d, m)'
    BY <2>8, ShowsOfRun
  <2> QED
    BY <1>2, <1>4, <2>7, <2>9 DEF RunsInOrder
<1> QED
  BY <1>6, <1>7
LEMMA OrderCommand ==
    ASSUME CInv, OneKernel, RunsInOrder, Command
    PROVE  RunsInOrder'
<1>1. UNCHANGED <<pipe, slot, kernel, route>>
  BY DEF Command, sessionVars
<1>2. ASSUME NEW c \in Cells, NEW m, Shows(c, m) PROVE Shows(c, m)'
  <2>1. [Next]_vars /\ ~Read
    <3>1. ASSUME Read PROVE FALSE
      <4>1. pipe' = Tail(pipe) /\ pipe # <<>> /\ pipe \in Seq(Frames)
        BY <3>1 DEF Read, CInv, CTyped
      <4>2. Len(Tail(pipe)) # Len(pipe)
        BY <4>1
      <4> QED
        BY <1>1, <4>1, <4>2
    <3> QED
      BY <3>1 DEF Next
  <2>2. shown'[c] \in {shown[c], Unused, [Unused EXCEPT !.active = FALSE]}
    BY <2>1, DisplayStep
  <2>3. \A k : OfRun(Unused, k) /\ OfRun([Unused EXCEPT !.active = FALSE], k)
    BY DEF OfRun, Unused
  <2>4. OfRun(shown'[c], m)
    BY <1>2, <2>2, <2>3, ShowsOfRun
  <2> QED
    BY <2>4, ShowsOfRun
<1>3. Unread' = Unread /\ Running' = Running
  BY <1>1 DEF Unread, Running
<1>4. ASSUME NEW m \in Runs, Current(m)' PROVE Settled(m)'
  <2>1. Settled(m)
    BY <1>3, <1>4 DEF Current, RunsInOrder
  <2>2. CASE Ev("input", m) \in Unread
    BY <1>3, <2>2 DEF Settled, Ev
  <2>3. CASE Ev("input", m) \notin Unread
    <3>1. Shows(route[m], m) /\ \A x \in Unread : m <= x.run
      BY <2>1, <2>3 DEF Settled
    <3>2. m \in Routed
      <4>1. CASE m = Running /\ m # 0
        <5>1. slot # 0 => kernel[slot] \in KernelRecord
          BY DEF CInv, CTyped, Kernels
        <5> QED
          BY <4>1, <5>1 DEF Running, KernelRecord
      <4>2. CASE \E x \in Unread : x.run = m
        BY <4>2, UnreadTyped
      <4> QED
        BY <1>3, <1>4, <4>1, <4>2 DEF Current
    <3> DEFINE c == route[m]
    <3>3. c \in Cells /\ c' = c
      BY <1>1, <3>2 DEF Routed
    <3> HIDE DEF c
    <3>4. OfRun(shown'[c], m)
      BY <1>2, <3>1, <3>3, ShowsOfRun DEF c
    <3>5. Shows(route[m], m)'
      BY <3>3, <3>4 DEF Shows, OfRun, c
    <3> QED
      BY <1>3, <3>1, <3>5 DEF Settled
  <2> QED
    BY <2>2, <2>3
<1>5. \A c \in Cells : \E m \in 0..MaxRuns : Shows(c, m)'
  BY <1>2 DEF RunsInOrder
<1> QED
  BY <1>1, <1>4, <1>5 DEF RunsInOrder

OrderKept == DroppedBlank /\ OneKernelAtATime /\ (NoStop => RunsInOrder)

LEMMA OrderStep == CInv /\ OrderKept /\ [Next]_vars => OrderKept'
<1> SUFFICES ASSUME CInv, DroppedBlank, RepliesGood, OneKernel, RunsInOrder, NoStop, [Next]_vars
             PROVE  RunsInOrder'
  <2>1. CInv /\ OrderKept /\ [Next]_vars => DroppedBlank' /\ OneKernelAtATime' /\ (NoStop' <=> NoStop)
    BY DroppedStep, OneKernelStep, SameScenario DEF OrderKept, NoStop
  <2> QED
    BY <2>1 DEF OrderKept, OneKernelAtATime
<1>1. ASSUME NEW k \in Kernels, Pump(k) PROVE RunsInOrder'
  <2>1. kernel[k].pump /\ kernel[k].chan # <<>> /\ UNCHANGED shown /\ (Forward(k) \/ ForwardExit(k))
    BY <1>1 DEF Pump, frontVars
  <2> QED
    BY <2>1, OrderForward, OrderExit
<1>2. CASE (\E set \in clears : ServeClear(set)) \/ UNCHANGED vars
  <2>1. UNCHANGED <<shown, pipe, slot, kernel, route>>
    BY <1>2 DEF ServeClear, vars, frontVars, sessionVars
  <2>2. Unread' = Unread /\ Running' = Running /\ Sorted(pipe')
    BY <2>1 DEF Unread, Running, RunsInOrder
  <2>3. \A m \in Runs : Current(m)' => Settled(m)'
    BY <2>1, <2>2 DEF RunsInOrder, Current, Settled, Shows, Ev
  <2>4. \A c \in Cells : \E m \in 0..MaxRuns : Shows(c, m)'
    BY <2>1 DEF RunsInOrder, Shows
  <2> QED
    BY <2>1, <2>2, <2>3, <2>4 DEF RunsInOrder
<1> QED
  BY <1>1, <1>2, OrderCommand, OrderRead, OrderServe, OrderTasks DEF Next, Backend

LEMMA AlwaysInOrder == Spec => []OrderKept
<1>1. Init /\ OneKernelAtATime => OrderKept
  <2> SUFFICES ASSUME Init PROVE DroppedBlank /\ RunsInOrder
    BY DEF OrderKept
  <2>1. DroppedBlank
    BY DEF Init, DroppedBlank, Unused
  <2>2. slot = 0 /\ Unread = {} /\ Running = 0 /\ Sorted(pipe)
    BY DEF Init, Unread, Running, Visible, Sorted
  <2>3. \A m \in Runs : ~Current(m)
    BY <2>2 DEF Current
  <2>4. ASSUME NEW c \in Cells PROVE Shows(c, 0) /\ 0 \in 0..MaxRuns
    <3>1. shown[c] = Unused
      BY DEF Init
    <3> QED
      BY <3>1 DEF Shows, Unused
  <2> QED
    BY <2>1, <2>2, <2>3, <2>4 DEF RunsInOrder
<1> QED
  BY <1>1, AlwaysTyped, AlwaysOneKernel, OrderStep, PTL DEF Spec

(* Where no kernel is stopped, the outputs that a cell shows and its count *)
(* come from one run: those of an earlier run are all read before the      *)
(* input of the next one, which empties the cell.                          *)
THEOREM CellsShowOneRun == Spec => []OneRunShown
<1>1. CInv /\ OrderKept => OneRunShown
  <2> SUFFICES ASSUME CInv, RunsInOrder, NEW c \in Cells,
                      NEW i \in 1..Len(shown[c].outs), NEW j \in 1..Len(shown[c].outs)
               PROVE  /\ shown[c].outs[i].run = shown[c].outs[j].run
                      /\ shown[c].count \in {0, shown[c].outs[i].run}
    BY DEF OrderKept, OneRunShown, NoStop
  <2> QED
    BY DEF RunsInOrder, Shows
<1> QED
  BY <1>1, AlwaysTyped, AlwaysInOrder, PTL
=============================================================================
