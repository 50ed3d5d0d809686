----------------------------- MODULE ExecProofs -----------------------------
(***************************************************************************)
(* Proofs about Exec, for every value of its constants.                    *)
(*                                                                         *)
(* First the types of all variables, and that no queued run is ever left   *)
(* without a wakeup.  The inductive invariant adds to both that a buffer   *)
(* state is Sound: a start in flight has a number and so has a queue with  *)
(* runs in it.  Without the first, clearing the flag held of a stop could  *)
(* leave no start at all; without the second, done() could skip its pump   *)
(* although runs are queued.                                               *)
(*                                                                         *)
(* Then that Exec implements RunDelivery, that a run that was dropped      *)
(* never reaches a kernel, and that a stop does not overtake a run.  All   *)
(* follow from what may be under way together: one invariant, DInv, about  *)
(* the buffer, every call and callback, the frames not read and the        *)
(* kernels.                                                                *)
(***************************************************************************)
EXTENDS Exec, SequenceTheorems, TLAPS

Sound(b) ==
    /\ b \in BufferState
    /\ b.starting.id = 0 => b.starting = NoStart
    /\ b.queue.id = 0 => b.queue.runs = <<>>

(* The buffer state b needs no pump.                                       *)
Fed(b) == b.queue.runs # <<>> => b.inFlight # 0 \/ b.starting # NoStart

IInv == TypeOK /\ Sound(buf) /\ Fed(buf)

(* What a command or a callback may find, and what it must leave.          *)
Waits == [calls : [Clients -> Seq(Call)], loop : Seq(Frame)]

WiresOK ==
    /\ calls \in [Clients -> Seq(Call)]
    /\ loop \in Seq(Frame)

ProcessesOK ==
    /\ backend \in [Clients -> {"unborn", "up", "dead"}]
    /\ client \in 0..MaxClients
    /\ lastStart \in 0..MaxStarts

FrontOK ==
    /\ ProcessesOK
    /\ WiresOK
    /\ Sound(buf)
    /\ Fed(buf)

-----------------------------------------------------------------------------
(* Calls and frames.                                                       *)

(* The requests of a kernel start or stop.                                 *)
StartKinds == {"open_py", "start_kernel", "execute_silent", "stop_kernel"}

LEMMA NoCallTyped == NoCall \in Call
BY BoundsAssumption DEF NoCall, Call, Request, Kinds

LEMMA StartCallTyped ==
    ASSUME NEW kind \in StartKinds, NEW c \in 0..MaxClients,
           NEW id \in 0..MaxStarts, NEW s \in 0..MaxStarts,
           kind = "open_py" => id # 0
    PROVE  StartCall(kind, c, id, s) \in Call
<1>1. StartCall(kind, c, id, s) \in Request
  BY NoCallTyped DEF StartCall, Call, Request, StartKinds, Kinds
<1>2. StartCall(kind, c, id, s).kind = kind /\ StartCall(kind, c, id, s).start = id
  BY NoCallTyped DEF StartCall, Call, Request
<1> QED
  BY <1>1, <1>2 DEF Call, StartKinds

LEMMA CloseCallTyped ==
    ASSUME NEW c \in 0..MaxClients, NEW s \in 0..MaxStarts
    PROVE  CloseCall(c, s) \in Call
<1>1. CloseCall(c, s) \in Request
  BY NoCallTyped DEF CloseCall, Call, Request, Kinds
<1>2. CloseCall(c, s).kind = "close"
  BY NoCallTyped DEF CloseCall, Call, Request
<1> QED
  BY <1>1, <1>2 DEF Call

LEMMA UpdateCallTyped ==
    ASSUME NEW c \in Clients, NEW b \in BufferState, b.queue.runs # <<>>
    PROVE  UpdateCall(c, b) \in Call
<1> DEFINE run == Head(b.queue.runs)
<1>1. run \in 0..MaxRuns /\ run # 0
  <2>1. b.queue.runs \in Seq(Runs)
    BY DEF BufferState, Queue
  <2>2. run \in Runs
    BY <2>1
  <2> QED
    BY <2>2, BoundsAssumption DEF Runs
<1>2. c \in 0..MaxClients /\ b.session \in 0..MaxStarts /\ b.queue.id \in 0..MaxRuns
  BY BoundsAssumption DEF BufferState, Queue, Clients
<1>3. UpdateCall(c, b) \in Request
  BY <1>1, <1>2, NoCallTyped DEF UpdateCall, Call, Request, Kinds
<1>4. UpdateCall(c, b).kind = "update_cell_source" /\ UpdateCall(c, b).run = run
  BY NoCallTyped DEF UpdateCall, Call, Request
<1> QED
  BY <1>1, <1>3, <1>4 DEF Call

LEMMA ReplyTyped ==
    ASSUME NEW x \in Call, NEW e \in {"ok", "err", "gone"}
    PROVE  Reply(x, e) \in Frame
BY DEF Reply, Frame

LEMMA WithoutTyped ==
    ASSUME NEW T, NEW s \in Seq(T), NEW i \in 1..Len(s)
    PROVE  Without(s, i) \in Seq(T)
BY DEF Without

(* Client:call leaves typed calls and callbacks.                           *)
LEMMA SendTyped ==
    ASSUME NEW x \in Call, NEW w \in Waits, Send(x, w)
    PROVE  WiresOK'
<1>1. CASE exited[x.client] \/ closed[x.client]
  <2>1. Append(w.loop, Reply(x, "gone")) \in Seq(Frame)
    BY ReplyTyped DEF Waits
  <2> QED
    BY <1>1, <2>1 DEF Send, Waits, WiresOK
<1>2. CASE ~(exited[x.client] \/ closed[x.client])
  <2>1. [w.calls EXCEPT ![x.client] = Append(w.calls[x.client], x)]
          \in [Clients -> Seq(Call)]
    <3>1. x.client \in Clients => Append(w.calls[x.client], x) \in Seq(Call)
      BY DEF Waits
    <3> QED
      BY <3>1 DEF Waits
  <2> QED
    BY <1>2, <2>1 DEF Send, Waits, WiresOK
<1> QED
  BY <1>1, <1>2

-----------------------------------------------------------------------------
(* Buffer states.                                                          *)

LEMMA NoStartTyped == NoStart \in Starting
BY BoundsAssumption DEF NoStart, Starting

LEMMA NoQueueTyped == NoQueue \in Queue
BY BoundsAssumption DEF NoQueue, Queue

LEMMA DefaultSound == Sound(DefaultBufferState) /\ Fed(DefaultBufferState)
<1>1. DefaultBufferState \in BufferState
  BY BoundsAssumption, NoStartTyped, NoQueueTyped DEF DefaultBufferState, BufferState
<1>2. /\ DefaultBufferState.starting = NoStart
      /\ DefaultBufferState.queue = NoQueue
  BY DEF DefaultBufferState
<1>3. NoQueue.runs = <<>>
  BY DEF NoQueue
<1> QED
  BY <1>1, <1>2, <1>3 DEF Sound, Fed

(* Dropping the queue keeps a buffer state sound and leaves nothing to     *)
(* pump.                                                                   *)
LEMMA DiscardSound ==
    ASSUME NEW b, Sound(b)
    PROVE  /\ Sound(Discard(b))
           /\ Discard(b).queue.runs = <<>>
           /\ Discard(b).starting = b.starting
           /\ Fed(Discard(b))
<1>1. Discard(b) \in BufferState
  BY NoQueueTyped DEF Sound, Discard, BufferState
<1>2. Discard(b).starting = b.starting /\ Discard(b).queue = NoQueue
  BY DEF Sound, Discard, BufferState
<1>3. NoQueue.runs = <<>>
  BY DEF NoQueue
<1> QED
  BY <1>1, <1>2, <1>3 DEF Sound, Fed

LEMMA EnqueueSound ==
    ASSUME NEW b, Sound(b), NEW n \in Runs, lastRun \in 0..MaxRuns, lastRun + n <= MaxRuns
    PROVE  Sound(Enqueue(b, n)) /\ Enqueue(b, n).starting = b.starting
<1> DEFINE new == [i \in 1..n |-> lastRun + i]
           queue == [id |-> IF b.queue.id = 0 THEN lastRun + 1 ELSE b.queue.id,
                     runs |-> b.queue.runs \o new]
<1>1. n \in Nat \ {0} /\ lastRun \in Nat
  BY BoundsAssumption DEF Runs
<1>2. new \in Seq(Runs)
  <2>1. \A i \in 1..n : lastRun + i \in Runs
    BY <1>1, BoundsAssumption DEF Runs
  <2> QED
    BY <1>1, <2>1
<1>3. b.queue.runs \in Seq(Runs) /\ b.queue.id \in 0..MaxRuns
  BY DEF Sound, BufferState, Queue
<1>4. b.queue.runs \o new \in Seq(Runs)
  BY <1>2, <1>3
<1>5. (IF b.queue.id = 0 THEN lastRun + 1 ELSE b.queue.id) \in 1..MaxRuns
  BY <1>1, <1>3, BoundsAssumption DEF Runs
<1>6. queue \in Queue /\ queue.id # 0
  BY <1>4, <1>5, BoundsAssumption DEF Queue
<1> HIDE DEF queue
<1>7. Enqueue(b, n) = [b EXCEPT !.queue = queue]
  BY DEF Enqueue, queue
<1>8. [b EXCEPT !.queue = queue] \in BufferState
  BY <1>6 DEF Sound, BufferState
<1>9. /\ [b EXCEPT !.queue = queue].queue = queue
      /\ [b EXCEPT !.queue = queue].starting = b.starting
  BY DEF Sound, BufferState
<1> QED
  BY <1>6, <1>7, <1>8, <1>9 DEF Sound

LEMMA TakeRunSound ==
    ASSUME NEW b, Sound(b), b.queue.runs # <<>>
    PROVE  Sound(TakeRun(b)) /\ Fed(TakeRun(b))
<1> DEFINE queue == [b.queue EXCEPT !.runs = Tail(b.queue.runs)]
           run == Head(b.queue.runs)
<1>1. /\ b.queue.runs \in Seq(Runs)
      /\ b.queue \in Queue
      /\ b.queue.id # 0
  BY DEF Sound, BufferState, Queue
<1>2. run \in Runs
  BY <1>1
<1>3. run \in 0..MaxRuns /\ run # 0
  BY <1>2, BoundsAssumption DEF Runs
<1>4. Tail(b.queue.runs) \in Seq(Runs)
  BY <1>1
<1>5. queue \in Queue /\ queue.id # 0
  BY <1>1, <1>4 DEF Queue
<1> HIDE DEF queue, run
<1>6. TakeRun(b) = [b EXCEPT !.queue = queue, !.inFlight = run]
  BY DEF TakeRun, queue, run
<1>7. [b EXCEPT !.queue = queue, !.inFlight = run] \in BufferState
  BY <1>3, <1>5 DEF Sound, BufferState
<1>8. /\ [b EXCEPT !.queue = queue, !.inFlight = run].queue = queue
      /\ [b EXCEPT !.queue = queue, !.inFlight = run].starting = b.starting
      /\ [b EXCEPT !.queue = queue, !.inFlight = run].inFlight = run
  BY DEF Sound, BufferState
<1> QED
  BY <1>3, <1>5, <1>6, <1>7, <1>8 DEF Sound, Fed

-----------------------------------------------------------------------------
(* The steps the handlers are made of.                                     *)

LEMMA LeaveOK ==
    ASSUME ProcessesOK, NEW b, Sound(b), Fed(b), NEW w \in Waits, Leave(b, w)
    PROVE  FrontOK'
BY DEF Leave, FrontOK, ProcessesOK, WiresOK, Waits, Sound, Fed

LEMMA EmitOK ==
    ASSUME ProcessesOK, NEW b, Sound(b), Fed(b), NEW w \in Waits,
           NEW x \in Call, Emit(b, x, w)
    PROVE  FrontOK'
<1>1. WiresOK'
  BY SendTyped DEF Emit
<1> QED
  BY <1>1 DEF Emit, FrontOK, ProcessesOK, Sound, Fed

LEMMA EnsureClientOK ==
    ASSUME ProcessesOK, NEW c \in Clients, EnsureClient(c)
    PROVE  /\ backend' \in [Clients -> {"unborn", "up", "dead"}]
           /\ client' \in 0..MaxClients
BY BoundsAssumption DEF EnsureClient, ProcessesOK, Clients

(* A pump leaves no queued run without a wakeup, whatever it finds.        *)
LEMMA PumpOK ==
    ASSUME ProcessesOK, NEW b, Sound(b), NEW w \in Waits, PumpFrom(b, w)
    PROVE  FrontOK'
<1>1. CASE ~Ready(b)
  <2>1. Fed(b)
    BY <1>1 DEF Ready, Fed
  <2> QED
    BY <1>1, <2>1, LeaveOK DEF PumpFrom
<1>2. ASSUME Ready(b), NEW c \in Clients, EnsureClient(c), buf' = TakeRun(b),
             Send(UpdateCall(c, b), w), UNCHANGED lastStart
      PROVE  FrontOK'
  <2>1. b.queue.runs # <<>>
    BY <1>2 DEF Ready
  <2>2. UpdateCall(c, b) \in Call
    BY <2>1, UpdateCallTyped DEF Sound
  <2>3. WiresOK'
    BY <1>2, <2>2, SendTyped
  <2>4. ProcessesOK'
    BY <1>2, EnsureClientOK DEF ProcessesOK
  <2>5. Sound(buf)' /\ Fed(buf)'
    BY <1>2, <2>1, TakeRunSound DEF Sound, Fed
  <2> QED
    BY <2>3, <2>4, <2>5 DEF FrontOK
<1>3. CASE Leave(Discard(b), w)
  BY <1>3, DiscardSound, LeaveOK
<1> QED
  BY <1>1, <1>2, <1>3 DEF PumpFrom

(* Replacing the start in flight by another one with a number, or none.    *)
LEMMA StartingSound ==
    ASSUME NEW b, Sound(b), NEW h \in Starting, h.id = 0 => h = NoStart
    PROVE  /\ Sound([b EXCEPT !.starting = h])
           /\ [b EXCEPT !.starting = h].starting = h
           /\ [b EXCEPT !.starting = h].queue = b.queue
<1>1. [b EXCEPT !.starting = h] \in BufferState
  BY DEF Sound, BufferState
<1>2. /\ [b EXCEPT !.starting = h].starting = h
      /\ [b EXCEPT !.starting = h].queue = b.queue
  BY DEF Sound, BufferState
<1> QED
  BY <1>1, <1>2 DEF Sound

LEMMA NumberedFed ==
    ASSUME NEW b, Sound(b), b.starting.id # 0
    PROVE  Fed(b)
BY DEF Fed, NoStart

LEMMA WaitingSound ==
    ASSUME NEW b, Sound(b), b.starting # NoStart, NEW v \in BOOLEAN
    PROVE  /\ Sound([b EXCEPT !.starting.waiting = v])
           /\ Fed([b EXCEPT !.starting.waiting = v])
<1> DEFINE h == [b.starting EXCEPT !.waiting = v]
<1>1. b.starting \in Starting /\ b.starting.id # 0
  BY DEF Sound, BufferState
<1>2. h \in Starting /\ h.id # 0
  BY <1>1 DEF Starting
<1> HIDE DEF h
<1>3. [b EXCEPT !.starting.waiting = v] = [b EXCEPT !.starting = h]
  BY DEF h
<1> QED
  BY <1>2, <1>3, StartingSound, NumberedFed

(* start_kernel: a buffer state that it leaves as it is must need no pump. *)
LEMMA StartOK ==
    ASSUME ProcessesOK, lastRun \in 0..MaxRuns, NEW b, Sound(b),
           NEW callback \in BOOLEAN, callback \/ Fed(b),
           NEW w \in Waits, StartFrom(b, callback, w)
    PROVE  FrontOK'
<1>1. CASE b.starting # NoStart
  BY <1>1, WaitingSound, LeaveOK DEF StartFrom
<1>2. CASE b.starting = NoStart /\ b.started /\ b.session # 0
  <2>1. CASE callback
    BY <1>2, <2>1, PumpOK DEF StartFrom
  <2>2. CASE ~callback
    BY <1>2, <2>2, LeaveOK DEF StartFrom
  <2> QED
    BY <2>1, <2>2
<1>3. CASE b.starting = NoStart /\ ~(b.started /\ b.session # 0)
  <2> DEFINE method == IF b.session # 0 THEN "start_kernel" ELSE "open_py"
             id == lastStart + 1
             start(c) == [id |-> id, kind |-> "start", client |-> c,
                          launching |-> b.session # 0,
                          held |-> FALSE, waiting |-> callback, since |-> lastRun]
  <2>1. ASSUME NEW c \in Clients, id <= MaxStarts, EnsureClient(c),
               buf' = [b EXCEPT !.starting = start(c)],
               Send(StartCall(method, c, id, b.session), w), lastStart' = id
        PROVE  FrontOK'
    <3>1. id \in 0..MaxStarts /\ id # 0 /\ c \in 0..MaxClients
      BY <2>1, BoundsAssumption DEF ProcessesOK, Clients
    <3>2. start(c) \in Starting /\ start(c).id # 0
      BY <3>1 DEF Starting
    <3>3. method \in StartKinds /\ b.session \in 0..MaxStarts
      BY DEF StartKinds, Sound, BufferState
    <3> HIDE DEF method, id, start
    <3>4. StartCall(method, c, id, b.session) \in Call
      BY <3>1, <3>3, StartCallTyped
    <3>5. WiresOK'
      BY <2>1, <3>4, SendTyped
    <3>6. ProcessesOK'
      BY <2>1, <3>1, EnsureClientOK DEF ProcessesOK
    <3>7. Sound(buf') /\ buf'.starting.id # 0
      BY <2>1, <3>2, StartingSound
    <3>8. Sound(buf)' /\ Fed(buf)'
      BY <3>7 DEF Sound, Fed, NoStart
    <3> QED
      BY <3>5, <3>6, <3>8 DEF FrontOK
  <2>2. CASE Leave(Discard(b), w)
    BY <2>2, DiscardSound, LeaveOK
  <2> QED
    BY <1>3, <2>1, <2>2 DEF StartFrom
<1> QED
  BY <1>1, <1>2, <1>3

LEMMA FinishStartOK ==
    ASSUME FrontOK, NEW id, NEW ok \in BOOLEAN, NEW w \in Waits,
           FinishStart(id, ok, w)
    PROVE  FrontOK'
<1> DEFINE b == [buf EXCEPT !.starting = NoStart]
<1>1. Sound(b)
  BY NoStartTyped, StartingSound DEF FrontOK
<1>2. CASE buf.starting.id # id
  BY <1>2, LeaveOK DEF FinishStart, FrontOK
<1>3. CASE buf.starting.id = id /\ ok
  BY <1>1, <1>3, PumpOK DEF FinishStart, FrontOK
<1>4. CASE buf.starting.id = id /\ ~ok
  BY <1>1, <1>4, DiscardSound, LeaveOK DEF FinishStart, FrontOK
<1> QED
  BY <1>2, <1>3, <1>4

LEMMA StopHeldOK ==
    ASSUME ProcessesOK, lastRun \in 0..MaxRuns, NEW b, Sound(b),
           NEW kind \in {"stop", "restart"}, NEW w \in Waits, StopHeld(b, kind, w)
    PROVE  FrontOK'
<1> DEFINE id == lastStart + 1
           hold == [id |-> id, kind |-> kind, client |-> client, launching |-> FALSE,
                    held |-> Held(b), waiting |-> FALSE, since |-> lastRun]
<1>1. id \in 0..MaxStarts /\ id # 0
  BY BoundsAssumption DEF ProcessesOK, StopHeld
<1>2. hold \in Starting /\ hold.id # 0
  <2>1. Held(b) \in BOOLEAN
    BY DEF Held
  <2> QED
    BY <1>1, <2>1 DEF Starting, ProcessesOK
<1>3. "stop_kernel" \in StartKinds /\ b.session \in 0..MaxStarts
  BY DEF StartKinds, Sound, BufferState
<1>4. /\ client \in 0..MaxClients
      /\ lastStart' = id
      /\ buf' = [b EXCEPT !.starting = hold]
      /\ \/ calls' = w.calls /\ loop' = w.loop
         \/ Send(StartCall("stop_kernel", client, id, b.session), w)
      /\ UNCHANGED <<client, backend>>
  BY DEF StopHeld, ProcessesOK
<1> HIDE DEF id, hold
<1>5. WiresOK'
  <2>1. StartCall("stop_kernel", client, id, b.session) \in Call
    BY <1>1, <1>3, <1>4, StartCallTyped
  <2> QED
    BY <1>4, <2>1, SendTyped DEF WiresOK, Waits
<1>6. ProcessesOK'
  BY <1>1, <1>4 DEF ProcessesOK
<1>7. Sound(buf') /\ buf'.starting.id # 0
  BY <1>2, <1>4, StartingSound
<1>8. Sound(buf)' /\ Fed(buf)'
  BY <1>7 DEF Sound, Fed, NoStart
<1> QED
  BY <1>5, <1>6, <1>8 DEF FrontOK

LEMMA FlightDoneSound ==
    ASSUME NEW b, Sound(b)
    PROVE  Sound([b EXCEPT !.inFlight = 0]) /\ [b EXCEPT !.inFlight = 0].starting = b.starting
<1>1. [b EXCEPT !.inFlight = 0] \in BufferState
  BY BoundsAssumption DEF Sound, BufferState
<1>2. /\ [b EXCEPT !.inFlight = 0].starting = b.starting
      /\ [b EXCEPT !.inFlight = 0].queue = b.queue
  BY DEF Sound, BufferState
<1> QED
  BY <1>1, <1>2 DEF Sound

(* done(): whatever becomes of the run, the rest of the queue is pumped,   *)
(* or a stop is sent whose end will pump it.                               *)
LEMMA DoneOK ==
    ASSUME FrontOK, NEW x \in Call, NEW failed \in BOOLEAN, NEW w \in Waits,
           Done(x, failed, w)
    PROVE  FrontOK'
<1> DEFINE mine == buf.inFlight = x.run
           b1 == IF mine THEN [buf EXCEPT !.inFlight = 0] ELSE buf
           b2 == IF failed /\ ~Discarded(x) THEN Discard(b1) ELSE b1
           h == b2.starting
           stop == StartCall("stop_kernel", h.client, h.id, b2.session)
<1>1. Sound(b1)
  BY FlightDoneSound DEF FrontOK
<1>2. Sound(b2)
  BY <1>1, DiscardSound
<1>3. \/ h.held /\ Emit([b2 EXCEPT !.starting.held = FALSE], stop, w)
      \/ PumpFrom(b2, w)
      \/ b2.queue.id = 0 /\ Leave(b2, w)
  BY DEF Done
<1> HIDE DEF b2, h, stop
<1>4. CASE h.held /\ Emit([b2 EXCEPT !.starting.held = FALSE], stop, w)
  <2> DEFINE h2 == [h EXCEPT !.held = FALSE]
  <2>1. h \in Starting /\ h.id # 0
    BY <1>2, <1>4 DEF Sound, BufferState, NoStart, h
  <2>2. h2 \in Starting /\ h2.id # 0
    BY <2>1 DEF Starting
  <2>3. [b2 EXCEPT !.starting.held = FALSE] = [b2 EXCEPT !.starting = h2]
    BY DEF h
  <2> HIDE DEF h2
  <2>4. /\ Sound([b2 EXCEPT !.starting.held = FALSE])
        /\ Fed([b2 EXCEPT !.starting.held = FALSE])
    BY <1>2, <2>2, <2>3, StartingSound, NumberedFed
  <2>5. stop \in Call
    <3>1. /\ h.client \in 0..MaxClients
          /\ h.id \in 0..MaxStarts
          /\ b2.session \in 0..MaxStarts
          /\ "stop_kernel" \in StartKinds
      BY <1>2, <2>1 DEF Sound, BufferState, Starting, StartKinds
    <3> QED
      BY <3>1, StartCallTyped DEF stop
  <2> QED
    BY <1>4, <2>4, <2>5, EmitOK DEF FrontOK
<1>5. CASE PumpFrom(b2, w)
  BY <1>2, <1>5, PumpOK DEF FrontOK
<1>6. CASE b2.queue.id = 0 /\ Leave(b2, w)
  <2>1. Fed(b2)
    BY <1>2, <1>6 DEF Sound, Fed
  <2> QED
    BY <1>2, <1>6, <2>1, LeaveOK DEF FrontOK
<1> QED
  BY <1>3, <1>4, <1>5, <1>6

-----------------------------------------------------------------------------
(* The callbacks.                                                          *)

LEMMA OpenPyReplyOK ==
    ASSUME FrontOK, NEW f \in Frame, NEW w \in Waits,
           f.call.kind = "open_py", OpenPyReply(f, w)
    PROVE  FrontOK'
<1> DEFINE x == f.call
           launch == StartCall("start_kernel", x.client, x.start, x.start)
           h == [buf.starting EXCEPT !.launching = TRUE]
           b == [buf EXCEPT !.session = x.start]
<1>1. /\ x.client \in 0..MaxClients
      /\ x.start \in 0..MaxStarts
      /\ x.start # 0
      /\ "start_kernel" \in StartKinds
  BY DEF Frame, Call, Request, StartKinds
<1>2. [buf EXCEPT !.session = x.start, !.starting.launching = TRUE]
         = [b EXCEPT !.starting = h]
  BY DEF FrontOK, Sound, BufferState
<1>3. \/ FinishStart(x.start, FALSE, w)
      \/ Emit(buf, CloseCall(x.client, x.start), w)
      \/ Leave(buf, w)
      \/ buf.starting.id = x.start /\ Emit([b EXCEPT !.starting = h], launch, w)
  BY <1>2 DEF OpenPyReply
<1>4. CASE FinishStart(x.start, FALSE, w)
  BY <1>4, FinishStartOK
<1>5. CASE Emit(buf, CloseCall(x.client, x.start), w)
  <2>1. CloseCall(x.client, x.start) \in Call
    BY <1>1, CloseCallTyped
  <2> QED
    BY <1>5, <2>1, EmitOK DEF FrontOK
<1>6. CASE Leave(buf, w)
  BY <1>6, LeaveOK DEF FrontOK
<1>7. CASE buf.starting.id = x.start /\ Emit([b EXCEPT !.starting = h], launch, w)
  <2>1. h \in Starting /\ h.id # 0
    BY <1>1, <1>7 DEF FrontOK, Sound, BufferState, Starting
  <2>2. Sound(b)
    BY <1>1 DEF FrontOK, Sound, BufferState
  <2>3. Sound([b EXCEPT !.starting = h]) /\ Fed([b EXCEPT !.starting = h])
    BY <2>1, <2>2, StartingSound, NumberedFed
  <2>4. launch \in Call
    BY <1>1, StartCallTyped
  <2> QED
    BY <1>7, <2>3, <2>4, EmitOK DEF FrontOK
<1> QED
  BY <1>3, <1>4, <1>5, <1>6, <1>7

LEMMA StartKernelReplyOK ==
    ASSUME FrontOK, NEW f \in Frame, NEW w \in Waits, StartKernelReply(f, w)
    PROVE  FrontOK'
<1> DEFINE x == f.call
           setup == StartCall("execute_silent", x.client, x.start, x.session)
           h == [buf.starting EXCEPT !.launching = FALSE]
           b == [buf EXCEPT !.started = TRUE]
<1>1. /\ x.client \in 0..MaxClients
      /\ x.start \in 0..MaxStarts
      /\ x.session \in 0..MaxStarts
      /\ "execute_silent" \in StartKinds
  BY DEF Frame, Call, Request, StartKinds
<1>2. [buf EXCEPT !.started = TRUE, !.starting.launching = FALSE]
         = [b EXCEPT !.starting = h]
  BY DEF FrontOK, Sound, BufferState
<1>3. \/ FinishStart(x.start, FALSE, w)
      \/ Emit(buf, CloseCall(x.client, x.session), w)
      \/ Emit([b EXCEPT !.starting = h], setup, w)
  BY <1>2 DEF StartKernelReply
<1>4. CASE FinishStart(x.start, FALSE, w)
  BY <1>4, FinishStartOK
<1>5. CASE Emit(buf, CloseCall(x.client, x.session), w)
  <2>1. CloseCall(x.client, x.session) \in Call
    BY <1>1, CloseCallTyped
  <2> QED
    BY <1>5, <2>1, EmitOK DEF FrontOK
<1>6. CASE Emit([b EXCEPT !.starting = h], setup, w)
  <2>1. h \in Starting /\ (h.id = 0 => h = NoStart) /\ (h = NoStart => buf.starting = NoStart)
    <3>1. buf.starting \in Starting /\ (buf.starting.id = 0 => buf.starting = NoStart)
      BY DEF FrontOK, Sound, BufferState
    <3>2. h \in Starting /\ h.id = buf.starting.id
      BY <3>1 DEF Starting
    <3>3. NoStart.id = 0 /\ NoStart.launching = FALSE
      BY DEF NoStart
    <3>4. buf.starting.launching = FALSE => h = buf.starting
      BY <3>1 DEF Starting
    <3> QED
      BY <3>1, <3>2, <3>3, <3>4
  <2>2. Sound(b) /\ b.queue = buf.queue /\ b.inFlight = buf.inFlight
    BY DEF FrontOK, Sound, BufferState
  <2>3. Sound([b EXCEPT !.starting = h])
    BY <2>1, <2>2, StartingSound
  <2>4. Fed([b EXCEPT !.starting = h])
    <3>1. /\ [b EXCEPT !.starting = h].starting = h
          /\ [b EXCEPT !.starting = h].queue = buf.queue
          /\ [b EXCEPT !.starting = h].inFlight = buf.inFlight
      BY <2>2 DEF Sound, BufferState
    <3> QED
      BY <2>1, <3>1 DEF FrontOK, Fed
  <2>5. setup \in Call
    BY <1>1, StartCallTyped
  <2> QED
    BY <1>6, <2>3, <2>4, <2>5, EmitOK DEF FrontOK
<1> QED
  BY <1>3, <1>4, <1>5, <1>6

LEMMA UpdateCellSourceReplyOK ==
    ASSUME FrontOK, NEW f \in Frame, NEW w \in Waits,
           f.call.kind = "update_cell_source", UpdateCellSourceReply(f, w)
    PROVE  FrontOK'
<1> DEFINE x == f.call
           execute == [x EXCEPT !.kind = "execute", !.session = buf.session,
                                !.stage = "sent"]
<1>1. x \in Request /\ x \in Call /\ x.run # 0 /\ buf.session \in 0..MaxStarts
  BY DEF Frame, Call, FrontOK, Sound, BufferState
<1>2. execute \in Request /\ execute.kind = "execute" /\ execute.run = x.run
  BY <1>1 DEF Request, Kinds
<1>3. execute \in Call
  BY <1>1, <1>2 DEF Call
<1>4. CASE Done(x, FALSE, w)
  BY <1>1, <1>4, DoneOK
<1>5. CASE Done(x, TRUE, w)
  BY <1>1, <1>5, DoneOK
<1>6. CASE Emit(buf, execute, w)
  BY <1>3, <1>6, EmitOK DEF FrontOK
<1> QED
  BY <1>4, <1>5, <1>6 DEF UpdateCellSourceReply

(* The state after a stop.                                                 *)
LEMMA StoppedSound ==
    ASSUME NEW b, Sound(b)
    PROVE  Sound(Stopped(b))
<1> DEFINE s == [b EXCEPT !.started = FALSE]
<1>1. Sound(s)
  BY DEF Sound, BufferState
<1>2. Stopped(b) = [s EXCEPT !.starting = NoStart]
  BY DEF Stopped, Sound, BufferState
<1> QED
  BY <1>1, <1>2, NoStartTyped, StartingSound

LEMMA StopKernelReplyOK ==
    ASSUME FrontOK, lastRun \in 0..MaxRuns, NEW f \in Frame, NEW w \in Waits,
           StopKernelReply(f, w)
    PROVE  FrontOK'
<1> DEFINE b == [buf EXCEPT !.starting = NoStart]
<1>1. Sound(b) /\ Sound(Stopped(buf))
  BY NoStartTyped, StartingSound, StoppedSound DEF FrontOK
<1>2. CASE Leave(buf, w)
  BY <1>2, LeaveOK DEF FrontOK
<1>3. CASE Leave(Discard(b), w)
  BY <1>1, <1>3, DiscardSound, LeaveOK DEF FrontOK
<1>4. CASE PumpFrom(b, w)
  BY <1>1, <1>4, PumpOK DEF FrontOK
<1>5. CASE StartFrom(Stopped(buf), TRUE, w)
  BY <1>1, <1>5, StartOK DEF FrontOK
<1>6. CASE PumpFrom(Stopped(buf), w)
  BY <1>1, <1>6, PumpOK DEF FrontOK
<1> QED
  BY <1>2, <1>3, <1>4, <1>5, <1>6 DEF StopKernelReply

LEMMA KernelExitedOK ==
    ASSUME FrontOK, NEW f \in Frame, NEW w \in Waits, KernelExited(f, w)
    PROVE  FrontOK'
<1>1. CASE Leave(buf, w)
  BY <1>1, LeaveOK DEF FrontOK
<1>2. CASE Leave([Discard(buf) EXCEPT !.started = FALSE], w)
  <2> DEFINE b == Discard(buf)
  <2>1. Sound(b) /\ b.queue.runs = <<>>
    BY DiscardSound DEF FrontOK
  <2> HIDE DEF b
  <2>2. /\ Sound([b EXCEPT !.started = FALSE])
        /\ [b EXCEPT !.started = FALSE].queue = b.queue
    BY <2>1 DEF Sound, BufferState
  <2>3. Fed([b EXCEPT !.started = FALSE])
    BY <2>1, <2>2 DEF Fed
  <2> QED
    BY <1>2, <2>2, <2>3, LeaveOK DEF FrontOK, b
<1> QED
  BY <1>1, <1>2 DEF KernelExited

LEMMA BackendExitedOK ==
    ASSUME FrontOK, NEW f \in Frame, NEW w \in Waits, BackendExited(f, w)
    PROVE  FrontOK'
<1>1. WiresOK'
  BY DEF BackendExited, WiresOK, Waits
<1>2. ProcessesOK'
  BY BoundsAssumption DEF BackendExited, ProcessesOK, FrontOK
<1>3. Sound(buf') /\ Fed(buf')
  BY DefaultSound DEF BackendExited, FrontOK
<1>4. Sound(buf)' /\ Fed(buf)'
  BY <1>3 DEF Sound, Fed
<1> QED
  BY <1>1, <1>2, <1>4 DEF FrontOK

LEMMA HandleOK ==
    ASSUME FrontOK, lastRun \in 0..MaxRuns, NEW f \in Frame, NEW w \in Waits,
           Handle(f, w)
    PROVE  FrontOK'
<1>1. f.call \in Call
  BY DEF Frame
<1>2. CASE f.call.kind = "open_py" /\ OpenPyReply(f, w)
  BY <1>2, OpenPyReplyOK
<1>3. CASE StartKernelReply(f, w)
  BY <1>3, StartKernelReplyOK
<1>4. CASE ExecuteSilentReply(f, w)
  BY <1>4, FinishStartOK DEF ExecuteSilentReply
<1>5. CASE f.call.kind = "update_cell_source" /\ UpdateCellSourceReply(f, w)
  BY <1>5, UpdateCellSourceReplyOK
<1>6. CASE ExecuteReply(f, w)
  BY <1>1, <1>6, DoneOK DEF ExecuteReply
<1>7. CASE StopKernelReply(f, w)
  BY <1>7, StopKernelReplyOK
<1>8. CASE CloseReply(w)
  BY <1>8, LeaveOK DEF CloseReply, FrontOK
<1>9. CASE KernelExited(f, w)
  BY <1>9, KernelExitedOK
<1>10. CASE BackendExited(f, w)
  BY <1>10, BackendExitedOK
<1> QED
  BY <1>2, <1>3, <1>4, <1>5, <1>6, <1>7, <1>8, <1>9, <1>10 DEF Handle

-----------------------------------------------------------------------------
(* The commands.                                                           *)

LEMMA RunOK ==
    ASSUME FrontOK, lastRun \in 0..MaxRuns, NEW n \in Runs, NEW w \in Waits, Run(n, w)
    PROVE  FrontOK' /\ lastRun' \in 0..MaxRuns
<1>1. lastRun + n <= MaxRuns /\ lastRun' = lastRun + n
  BY DEF Run
<1>2. lastRun' \in 0..MaxRuns
  BY <1>1, BoundsAssumption DEF Runs
<1>3. Sound(Enqueue(buf, n))
  BY <1>1, EnqueueSound DEF FrontOK
<1>4. CASE StartFrom(Enqueue(buf, n), TRUE, w)
  BY <1>2, <1>3, <1>4, StartOK DEF FrontOK
<1>5. CASE PumpFrom(Enqueue(buf, n), w)
  BY <1>2, <1>3, <1>5, PumpOK DEF FrontOK
<1> QED
  BY <1>4, <1>5 DEF Run

LEMMA StopKernelCommandOK ==
    ASSUME FrontOK, lastRun \in 0..MaxRuns, NEW w \in Waits, StopKernelCommand(w)
    PROVE  FrontOK'
<1> DEFINE b == Discard(buf)
<1>1. Sound(b) /\ Fed(b)
  BY DiscardSound DEF FrontOK
<1> HIDE DEF b
<1>2. CASE b.starting.kind = "stop" /\ Leave([b EXCEPT !.starting.waiting = FALSE], w)
  <2>1. b.starting # NoStart
    BY <1>2 DEF NoStart
  <2> QED
    BY <1>1, <1>2, <2>1, WaitingSound, LeaveOK DEF FrontOK
<1>3. CASE Leave(b, w)
  BY <1>1, <1>3, LeaveOK DEF FrontOK
<1>4. CASE StopHeld(b, "stop", w)
  BY <1>1, <1>4, StopHeldOK DEF FrontOK
<1> QED
  BY <1>2, <1>3, <1>4 DEF StopKernelCommand, b

LEMMA CommandOK ==
    ASSUME FrontOK, lastRun \in 0..MaxRuns, Command
    PROVE  FrontOK' /\ lastRun' \in 0..MaxRuns
<1> DEFINE w == Waiting(calls, loop)
<1>1. w \in Waits
  BY DEF Waiting, Waits, FrontOK, WiresOK
<1> HIDE DEF w
<1>2. ASSUME NEW n \in Runs, Run(n, w)
      PROVE  FrontOK' /\ lastRun' \in 0..MaxRuns
  BY <1>1, <1>2, RunOK
<1>3. CASE StartKernel(w)
  BY <1>1, <1>3, StartOK DEF StartKernel, FrontOK
<1>4. CASE StopKernelCommand(w)
  BY <1>1, <1>4, StopKernelCommandOK DEF StopKernelCommand
<1>5. CASE RestartKernel(w)
  <2>1. CASE StartFrom(buf, FALSE, w)
    BY <1>1, <1>5, <2>1, StartOK DEF RestartKernel, FrontOK
  <2>2. CASE StopHeld(buf, "restart", w)
    BY <1>1, <1>5, <2>2, StopHeldOK DEF RestartKernel, FrontOK
  <2> QED
    BY <1>5, <2>1, <2>2 DEF RestartKernel
<1>6. CASE Shutdown(w)
  <2>1. CASE Emit(DefaultBufferState, CloseCall(client, buf.session), w)
    <3>1. CloseCall(client, buf.session) \in Call
      BY CloseCallTyped DEF FrontOK, ProcessesOK, Sound, BufferState
    <3> QED
      BY <1>1, <1>6, <2>1, <3>1, DefaultSound, EmitOK DEF Shutdown, FrontOK
  <2>2. CASE Leave(DefaultBufferState, w)
    BY <1>1, <1>6, <2>2, DefaultSound, LeaveOK DEF Shutdown, FrontOK
  <2> QED
    BY <1>6, <2>1, <2>2 DEF Shutdown
<1> QED
  BY <1>2, <1>3, <1>4, <1>5, <1>6 DEF Command, w

-----------------------------------------------------------------------------
(* Steps of the front end.                                                 *)

LEMMA UnsubmittedTyped ==
    ASSUME TypeOK
    PROVE  Unsubmitted \subseteq Runs
<1>1. buf.queue.runs \in Seq(Runs) /\ buf.inFlight \in 0..MaxRuns
  BY DEF TypeOK, BufferState, Queue
<1>2. \A i \in 1..Len(buf.queue.runs) : buf.queue.runs[i] \in Runs
  BY <1>1
<1>3. buf.inFlight # 0 => buf.inFlight \in Runs
  BY <1>1, BoundsAssumption DEF Runs
<1> QED
  BY <1>2, <1>3 DEF Unsubmitted

LEMMA RecordsTyped ==
    ASSUME TypeOK, Records
    PROVE  dropped' \subseteq Runs
BY UnsubmittedTyped DEF TypeOK, Records

LEMMA FrontOfIInv ==
    ASSUME IInv
    PROVE  FrontOK
BY DEF IInv, TypeOK, BackendTypeOK, ClientTypeOK, FrontOK, ProcessesOK, WiresOK

LEMMA UserCommandOK ==
    ASSUME IInv, UserCommand
    PROVE  IInv'
<1>1. FrontOK' /\ lastRun' \in 0..MaxRuns
  BY FrontOfIInv, CommandOK DEF IInv, TypeOK, UserCommand
<1>2. dropped' \subseteq Runs
  BY RecordsTyped DEF IInv, UserCommand
<1>3. UNCHANGED <<serverVars, pipe, exited, closed, scenario>>
  BY DEF UserCommand
<1>4. BackendTypeOK'
  BY <1>1, <1>3 DEF IInv, TypeOK, BackendTypeOK, serverVars, FrontOK, ProcessesOK, WiresOK
<1>5. ClientTypeOK'
  BY <1>1, <1>3 DEF IInv, TypeOK, ClientTypeOK, FrontOK, WiresOK
<1>6. Sound(buf)' /\ Fed(buf)' /\ buf' \in BufferState
  BY <1>1 DEF FrontOK, Sound
<1> QED
  BY <1>1, <1>2, <1>3, <1>4, <1>5, <1>6 DEF IInv, TypeOK, FrontOK, ProcessesOK

LEMMA CallbackOK ==
    ASSUME IInv, Callback
    PROVE  FrontOK' /\ pipe' \in [Clients -> Seq(Frame)]
<1>1. /\ FrontOK
      /\ lastRun \in 0..MaxRuns
      /\ pipe \in [Clients -> Seq(Frame)]
      /\ calls \in [Clients -> Seq(Call)]
      /\ loop \in Seq(Frame)
  BY FrontOfIInv DEF IInv, TypeOK, BackendTypeOK, ClientTypeOK
<1>2. ASSUME NEW c \in Clients, Readable(c), pipe' = [pipe EXCEPT ![c] = Tail(pipe[c])],
             NEW cs \in Remaining(c, Head(pipe[c])),
             Handle(Head(pipe[c]), Waiting(cs, loop))
      PROVE  FrontOK' /\ pipe' \in [Clients -> Seq(Frame)]
  <2>1. pipe[c] \in Seq(Frame) /\ pipe[c] # <<>>
    BY <1>1, <1>2 DEF Readable
  <2>2. Head(pipe[c]) \in Frame /\ Tail(pipe[c]) \in Seq(Frame)
    BY <2>1
  <2>3. cs \in [Clients -> Seq(Call)]
    <3>1. \A i \in 1..Len(calls[c]) : Without(calls[c], i) \in Seq(Call)
      BY <1>1, WithoutTyped
    <3>2. \A i \in 1..Len(calls[c]) :
             [calls EXCEPT ![c] = Without(calls[c], i)] \in [Clients -> Seq(Call)]
      BY <1>1, <3>1
    <3> QED
      BY <1>1, <1>2, <3>2 DEF Remaining
  <2>4. Waiting(cs, loop) \in Waits
    BY <1>1, <2>3 DEF Waiting, Waits
  <2> QED
    BY <1>1, <1>2, <2>2, <2>4, HandleOK
<1>3. CASE loop # <<>> /\ Handle(Head(loop), Waiting(calls, Tail(loop))) /\ UNCHANGED pipe
  <2>1. Head(loop) \in Frame /\ Tail(loop) \in Seq(Frame)
    BY <1>1, <1>3
  <2>2. Waiting(calls, Tail(loop)) \in Waits
    BY <1>1, <2>1 DEF Waiting, Waits
  <2> QED
    BY <1>1, <1>3, <2>1, <2>2, HandleOK
<1> QED
  BY <1>2, <1>3 DEF Callback

LEMMA EventLoopOK ==
    ASSUME IInv, EventLoop
    PROVE  IInv'
<1>1. FrontOK' /\ pipe' \in [Clients -> Seq(Frame)]
  BY CallbackOK DEF EventLoop
<1>2. dropped' \subseteq Runs
  BY RecordsTyped DEF IInv, EventLoop
<1>3. UNCHANGED <<serverVars, exited, closed, lastRun, scenario>>
  BY DEF EventLoop, Callback
<1>4. BackendTypeOK'
  BY <1>1, <1>3 DEF IInv, TypeOK, BackendTypeOK, serverVars, FrontOK, ProcessesOK, WiresOK
<1>5. ClientTypeOK'
  BY <1>1, <1>3 DEF IInv, TypeOK, ClientTypeOK, FrontOK, WiresOK
<1>6. Sound(buf)' /\ Fed(buf)' /\ buf' \in BufferState
  BY <1>1 DEF FrontOK, Sound
<1> QED
  BY <1>1, <1>2, <1>3, <1>4, <1>5, <1>6 DEF IInv, TypeOK, FrontOK, ProcessesOK

-----------------------------------------------------------------------------
(* Steps of the backend.                                                   *)

LEMMA ExceptTyped ==
    ASSUME NEW S, NEW T, NEW g \in [S -> T], NEW a, NEW v, a \in S => v \in T
    PROVE  [g EXCEPT ![a] = v] \in [S -> T]
OBVIOUS

LEMMA KillTyped ==
    ASSUME BackendTypeOK, NEW k
    PROVE  Kill(k) \in [Starts -> KernelRecord]
<1>1. ASSUME k \in Starts
      PROVE  [kernel[k] EXCEPT !.st = IF @ = "exited" THEN "exited" ELSE "gone"]
                \in KernelRecord
  BY <1>1 DEF BackendTypeOK, KernelRecord, KernelStates
<1> QED
  BY <1>1 DEF Kill, BackendTypeOK

LEMMA StageTyped ==
    ASSUME NEW x \in Call, NEW t \in {"sent", "begun", "installed", "answered"}
    PROVE  [x EXCEPT !.stage = t] \in Call
<1> DEFINE y == [x EXCEPT !.stage = t]
<1>1. y \in Request /\ y.kind = x.kind /\ y.start = x.start /\ y.run = x.run
  BY DEF Call, Request
<1> QED
  BY <1>1 DEF Call

LEMMA SourceTyped ==
    ASSUME NEW x \in Call, NEW r \in 0..MaxRuns
    PROVE  [x EXCEPT !.stage = "begun", !.source = r] \in Call
<1> DEFINE y == [x EXCEPT !.stage = "begun", !.source = r]
<1>1. y \in Request /\ y.kind = x.kind /\ y.start = x.start /\ y.run = x.run
  BY DEF Call, Request
<1> QED
  BY <1>1 DEF Call

LEMMA StagedTyped ==
    ASSUME BackendTypeOK, NEW c \in Clients, NEW i \in 1..Len(calls[c]), NEW x \in Call
    PROVE  [calls EXCEPT ![c] = [calls[c] EXCEPT ![i] = x]] \in [Clients -> Seq(Call)]
<1>1. calls[c] \in Seq(Call)
  BY DEF BackendTypeOK
<1>2. [calls[c] EXCEPT ![i] = x] \in Seq(Call)
  BY <1>1
<1> QED
  BY <1>2 DEF BackendTypeOK

LEMMA AnswerTyped ==
    ASSUME BackendTypeOK, NEW c \in Clients, NEW i \in 1..Len(calls[c]),
           NEW e \in {"ok", "err", "gone"}, Answer(c, i, e)
    PROVE  /\ calls' \in [Clients -> Seq(Call)]
           /\ pipe' \in [Clients -> Seq(Frame)]
<1> DEFINE x == [calls[c][i] EXCEPT !.stage = "answered"]
<1>1. calls[c][i] \in Call
  BY DEF BackendTypeOK
<1>2. x \in Call
  BY <1>1, StageTyped
<1>3. Reply(x, e) \in Frame
  BY <1>2, ReplyTyped
<1>4. calls' = [calls EXCEPT ![c] = [calls[c] EXCEPT ![i] = x]]
  BY DEF Answer
<1>5. pipe' = [pipe EXCEPT ![c] = Append(pipe[c], Reply(x, e))]
  BY DEF Answer
<1> HIDE DEF x
<1>6. Append(pipe[c], Reply(x, e)) \in Seq(Frame)
  BY <1>3 DEF BackendTypeOK
<1> QED
  BY <1>2, <1>4, <1>5, <1>6, StagedTyped DEF BackendTypeOK

LEMMA ServeTyped ==
    ASSUME BackendTypeOK, NEW c \in Clients, Serve(c)
    PROVE  BackendTypeOK'
<1>1. PICK i \in 1..Len(calls[c]) :
        \/ OpenPy(c, i) \/ Close(c, i) \/ StartKernelLookup(c, i)
        \/ StartKernelInstall(c, i) \/ StartKernelDone(c, i)
        \/ StartKernelFails(c, i) \/ StopKernel(c, i)
        \/ UpdateCellSource(c, i) \/ ExecuteLookup(c, i) \/ ExecuteSend(c, i)
        \/ ExecuteSilent(c, i)
  BY DEF Serve
<1> DEFINE x == calls[c][i]
<1>2. x \in Call
  BY DEF BackendTypeOK
<1>3. /\ x.start \in 0..MaxStarts
      /\ x.session \in 0..MaxStarts
      /\ x.run \in 0..MaxRuns
      /\ x.source \in 0..MaxRuns
      /\ c \in 0..MaxClients
  BY <1>2, BoundsAssumption DEF Call, Request, Clients
<1>4. Kill(slot[x.session]) \in [Starts -> KernelRecord]
  BY KillTyped
<1> USE BoundsAssumption
<1>15. 0 \in 0..MaxClients /\ 0 \in 0..MaxStarts /\ 0 \in 0..MaxRuns
  OBVIOUS
<1>5. CASE OpenPy(c, i)
  BY <1>3, <1>5, AnswerTyped DEF OpenPy, BackendTypeOK
<1>6. CASE Close(c, i)
  <2>1. kernel' \in [Starts -> KernelRecord]
    BY <1>4, <1>6 DEF Close, BackendTypeOK
  <2>2. calls' \in [Clients -> Seq(Call)] /\ pipe' \in [Clients -> Seq(Frame)]
    BY <1>6, AnswerTyped DEF Close
  <2>3. live' \in [Starts -> 0..MaxClients]
    BY <1>6, <1>15 DEF Close, BackendTypeOK
  <2>4. slot' \in [Starts -> 0..MaxStarts]
    BY <1>6, <1>15 DEF Close, BackendTypeOK
  <2>5. source' \in [Starts -> 0..MaxRuns]
    BY <1>6, <1>15 DEF Close, BackendTypeOK
  <2> QED
    BY <1>6, <2>1, <2>2, <2>3, <2>4, <2>5 DEF Close, BackendTypeOK
<1>7. CASE StartKernelLookup(c, i)
  <2>1. [x EXCEPT !.stage = "begun"] \in Call
    BY <1>2, StageTyped
  <2>2. [calls EXCEPT ![c] = [calls[c] EXCEPT ![i] = [x EXCEPT !.stage = "begun"]]]
           \in [Clients -> Seq(Call)]
    BY <2>1, StagedTyped
  <2> QED
    BY <1>7, <2>2, AnswerTyped DEF StartKernelLookup, BackendTypeOK, serverVars
<1>8. CASE StartKernelInstall(c, i)
  <2>1. [st |-> "running", session |-> x.session, client |-> c] \in KernelRecord
    BY <1>3 DEF KernelRecord, KernelStates
  <2>2. kernel' \in [Starts -> KernelRecord]
    BY <1>4, <1>8, <2>1 DEF StartKernelInstall
  <2>3. [x EXCEPT !.stage = "installed"] \in Call
    BY <1>2, StageTyped
  <2>4. calls' \in [Clients -> Seq(Call)]
    BY <1>8, <2>3, StagedTyped DEF StartKernelInstall
  <2> QED
    BY <1>3, <1>8, <2>2, <2>4 DEF StartKernelInstall, BackendTypeOK
<1>16. CASE StartKernelDone(c, i)
  BY <1>16, AnswerTyped DEF StartKernelDone, BackendTypeOK, serverVars
<1>9. CASE StartKernelFails(c, i)
  BY <1>9, AnswerTyped DEF StartKernelFails, BackendTypeOK, serverVars
<1>10. CASE StopKernel(c, i)
  <2>1. kernel' \in [Starts -> KernelRecord]
    BY <1>4, <1>10 DEF StopKernel, BackendTypeOK
  <2>3. slot' \in [Starts -> 0..MaxStarts]
    BY <1>10, <1>15 DEF StopKernel, BackendTypeOK
  <2>2. calls' \in [Clients -> Seq(Call)] /\ pipe' \in [Clients -> Seq(Frame)]
    BY <1>10, AnswerTyped DEF StopKernel
  <2> QED
    BY <1>10, <2>1, <2>2, <2>3 DEF StopKernel, BackendTypeOK
<1>11. CASE UpdateCellSource(c, i)
  BY <1>3, <1>11, AnswerTyped DEF UpdateCellSource, BackendTypeOK
<1>12. CASE ExecuteLookup(c, i)
  <2> DEFINE y == [x EXCEPT !.stage = "begun", !.source = source[x.session]]
  <2>1. HasSession(c, x) => y \in Call
    <3>1. HasSession(c, x) => source[x.session] \in 0..MaxRuns
      BY DEF HasSession, BackendTypeOK
    <3> QED
      BY <1>2, <3>1, SourceTyped
  <2>2. HasSession(c, x) =>
          [calls EXCEPT ![c] = [calls[c] EXCEPT ![i] = y]] \in [Clients -> Seq(Call)]
    BY <2>1, StagedTyped
  <2> QED
    BY <1>12, <2>2, AnswerTyped DEF ExecuteLookup, BackendTypeOK, serverVars
<1>13. CASE ExecuteSend(c, i)
  <2>1. x.run \in Runs
    BY <1>2, <1>3, <1>13 DEF ExecuteSend, Pending, Call, Runs
  <2>2. [run |-> x.run, source |-> x.source] \in Delivery
    BY <1>3, <2>1 DEF Delivery
  <2> DEFINE d == [run |-> x.run, source |-> x.source]
  <2>5. \A k \in Starts : Append(delivered[k], d) \in Seq(Delivery)
    BY <2>2 DEF BackendTypeOK
  <2>6. \/ delivered' = delivered
        \/ delivered' = [delivered EXCEPT ![slot[x.session]] =
                            Append(delivered[slot[x.session]], d)]
    BY <1>13 DEF ExecuteSend
  <2> HIDE DEF d
  <2>3. delivered' \in [Starts -> Seq(Delivery)]
    <3>1. delivered \in [Starts -> Seq(Delivery)]
      BY DEF BackendTypeOK
    <3>2. [delivered EXCEPT ![slot[x.session]] = Append(delivered[slot[x.session]], d)]
             \in [Starts -> Seq(Delivery)]
      BY <2>5, <3>1, ExceptTyped
    <3> QED
      BY <2>6, <3>1, <3>2
  <2>4. calls' \in [Clients -> Seq(Call)] /\ pipe' \in [Clients -> Seq(Frame)]
    BY <1>13, AnswerTyped DEF ExecuteSend
  <2> QED
    BY <1>13, <2>3, <2>4 DEF ExecuteSend, BackendTypeOK
<1>14. CASE ExecuteSilent(c, i)
  BY <1>14, AnswerTyped DEF ExecuteSilent, BackendTypeOK, serverVars
<1> QED
  BY <1>1, <1>5, <1>6, <1>7, <1>8, <1>9, <1>10, <1>11, <1>12, <1>13, <1>14, <1>16

LEMMA BackendsOK ==
    ASSUME IInv, Backends
    PROVE  IInv'
<1>1. BackendTypeOK
  BY DEF IInv, TypeOK
<1>2. ASSUME NEW c \in Clients, Serve(c)
      PROVE  BackendTypeOK'
  BY <1>1, <1>2, ServeTyped
<1>3. ASSUME NEW k \in Starts, WatchExit(k)
      PROVE  BackendTypeOK'
  BY <1>1, <1>3 DEF WatchExit, BackendTypeOK, KernelRecord, KernelStates, wireVars
<1>4. ASSUME NEW k \in Starts, PumpTakesKernel(k)
      PROVE  BackendTypeOK'
  <2>1. kernel' \in [Starts -> KernelRecord]
    <3>1. \A t \in KernelStates : [kernel[k] EXCEPT !.st = t] \in KernelRecord
      BY <1>1 DEF BackendTypeOK, KernelRecord
    <3>2. \E t \in KernelStates :
             kernel' = [kernel EXCEPT ![k] = [kernel[k] EXCEPT !.st = t]]
      BY <1>1, <1>4 DEF PumpTakesKernel, BackendTypeOK, KernelStates
    <3> QED
      BY <1>1, <3>1, <3>2, ExceptTyped DEF BackendTypeOK
  <2>2. slot' \in [Starts -> 0..MaxStarts]
    <3>1. slot \in [Starts -> 0..MaxStarts] /\ 0 \in 0..MaxStarts
      BY <1>1, BoundsAssumption DEF BackendTypeOK
    <3>2. slot' = slot \/ slot' = [slot EXCEPT ![kernel[k].session] = 0]
      BY <1>4 DEF PumpTakesKernel
    <3> QED
      BY <3>1, <3>2
  <2>3. UNCHANGED <<backend, live, source, delivered, overtaken, calls, pipe>>
    BY <1>4 DEF PumpTakesKernel, wireVars
  <2> QED
    BY <1>1, <2>1, <2>2, <2>3 DEF BackendTypeOK
<1>5. ASSUME NEW k \in Starts, PumpReportsExit(k)
      PROVE  BackendTypeOK'
  <2> DEFINE x == [NoCall EXCEPT !.session = kernel[k].session]
             f == [type |-> "kernel_exited", err |-> "ok", call |-> x]
             c == kernel[k].client
  <2>1. kernel[k].session \in 0..MaxStarts
    BY <1>1 DEF BackendTypeOK, KernelRecord
  <2>2. x \in Request /\ x.kind = "none"
    BY <2>1, NoCallTyped DEF Call, Request, NoCall
  <2>3. f \in Frame
    BY <2>2 DEF Call, Frame
  <2>4. kernel' \in [Starts -> KernelRecord]
    BY <1>1, <1>5 DEF PumpReportsExit, BackendTypeOK, KernelRecord, KernelStates
  <2>5. pipe' = [pipe EXCEPT ![c] = Append(pipe[c], f)]
    BY <1>5 DEF PumpReportsExit
  <2> HIDE DEF f, c
  <2>6. c \in Clients => Append(pipe[c], f) \in Seq(Frame)
    BY <1>1, <2>3 DEF BackendTypeOK
  <2>7. pipe' \in [Clients -> Seq(Frame)]
    BY <1>1, <2>5, <2>6, ExceptTyped DEF BackendTypeOK
  <2>8. overtaken' \subseteq 0..MaxStarts
    BY <1>1, <1>5 DEF PumpReportsExit, BackendTypeOK, KernelRecord
  <2> QED
    BY <1>1, <1>5, <2>4, <2>7, <2>8 DEF PumpReportsExit, BackendTypeOK
<1>6. BackendTypeOK'
  BY <1>2, <1>3, <1>4, <1>5 DEF Backends, PumpStep
<1>7. UNCHANGED <<clientVars, frontendVars, scenario>>
  BY DEF Backends
<1> QED
  BY <1>6, <1>7 DEF IInv, TypeOK, ClientTypeOK, clientVars, frontendVars, Sound, Fed

LEMMA ExitsOK ==
    ASSUME IInv, Exits
    PROVE  IInv'
<1>1. BackendTypeOK /\ ClientTypeOK
  BY DEF IInv, TypeOK
<1>2. ASSUME NEW c \in Clients, ExitCallback(c)
      PROVE  BackendTypeOK' /\ ClientTypeOK'
  <2> DEFINE x == [NoCall EXCEPT !.client = c]
             f == [type |-> "on_exit", err |-> "ok", call |-> x]
  <2>1. c \in 0..MaxClients
    BY BoundsAssumption DEF Clients
  <2>2. x \in Request /\ x.kind = "none"
    BY <2>1, NoCallTyped DEF Call, Request, NoCall
  <2>3. f \in Frame
    BY <2>2 DEF Call, Frame
  <2>4. loop' = Append(loop, f)
    BY <1>2 DEF ExitCallback
  <2> HIDE DEF f
  <2>5. loop' \in Seq(Frame)
    BY <1>1, <2>3, <2>4 DEF ClientTypeOK
  <2> QED
    BY <1>1, <1>2, <2>5
       DEF ExitCallback, BackendTypeOK, ClientTypeOK, serverVars, wireVars
<1>3. ASSUME NEW c \in Clients, CloseClient(c)
      PROVE  BackendTypeOK' /\ ClientTypeOK'
  <2> DEFINE failures == [i \in 1..Len(calls[c]) |-> Reply(calls[c][i], "gone")]
  <2>1. calls[c] \in Seq(Call)
    BY <1>1 DEF BackendTypeOK
  <2>2. \A i \in 1..Len(calls[c]) : Reply(calls[c][i], "gone") \in Frame
    BY <2>1, ReplyTyped
  <2>3. failures \in Seq(Frame)
    BY <2>1, <2>2
  <2>4. loop' = loop \o failures
    BY <1>3 DEF CloseClient
  <2> HIDE DEF failures
  <2>5. loop' \in Seq(Frame)
    BY <1>1, <2>3, <2>4 DEF ClientTypeOK
  <2>6. /\ closed' \in [Clients -> BOOLEAN]
        /\ calls' \in [Clients -> Seq(Call)]
        /\ pipe' \in [Clients -> Seq(Frame)]
    BY <1>1, <1>3 DEF CloseClient, BackendTypeOK, ClientTypeOK
  <2> QED
    BY <1>1, <1>3, <2>5, <2>6
       DEF CloseClient, BackendTypeOK, ClientTypeOK, serverVars
<1>4. BackendTypeOK' /\ ClientTypeOK'
  BY <1>2, <1>3 DEF Exits, Gone
<1>5. UNCHANGED <<frontendVars, scenario>>
  BY DEF Exits
<1> QED
  BY <1>4, <1>5 DEF IInv, TypeOK, frontendVars, Sound, Fed

LEMMA CrashesOK ==
    ASSUME IInv, Crashes
    PROVE  IInv'
<1>1. BackendTypeOK
  BY DEF IInv, TypeOK
<1>2. ASSUME NEW k \in Starts, KernelDies(k)
      PROVE  BackendTypeOK'
  BY <1>1, <1>2 DEF KernelDies, BackendTypeOK, KernelRecord, KernelStates, wireVars
<1>3. ASSUME NEW c \in Clients, BackendDies(c)
      PROVE  BackendTypeOK'
  <2>1. kernel' \in [Starts -> KernelRecord]
    <3>1. \A k \in Starts : [kernel[k] EXCEPT !.st = "gone"] \in KernelRecord
      BY <1>1 DEF BackendTypeOK, KernelRecord, KernelStates
    <3> QED
      BY <1>1, <1>3, <3>1 DEF BackendDies, BackendTypeOK
  <2>2. live' \in [Starts -> 0..MaxClients] /\ slot' \in [Starts -> 0..MaxStarts]
    BY <1>1, <1>3, BoundsAssumption DEF BackendDies, BackendTypeOK
  <2>3. backend' \in [Clients -> {"unborn", "up", "dead"}]
    BY <1>1, <1>3 DEF BackendDies, BackendTypeOK
  <2> QED
    BY <1>1, <1>3, <2>1, <2>2, <2>3 DEF BackendDies, BackendTypeOK, wireVars
<1>4. BackendTypeOK'
  BY <1>2, <1>3 DEF Crashes
<1>5. UNCHANGED <<clientVars, frontendVars, scenario>>
  BY DEF Crashes
<1> QED
  BY <1>4, <1>5 DEF IInv, TypeOK, ClientTypeOK, clientVars, frontendVars, Sound, Fed

-----------------------------------------------------------------------------
(* The inductive invariant and what follows from it.                       *)

LEMMA InitInductive == Init => IInv
<1> SUFFICES ASSUME Init PROVE IInv
  OBVIOUS
<1>1. BackendTypeOK
  BY BoundsAssumption DEF Init, BackendInit, BackendTypeOK, KernelRecord, KernelStates
<1>2. ClientTypeOK
  BY DEF Init, ClientInit, ClientTypeOK
<1>3. Sound(buf) /\ Fed(buf)
  BY DefaultSound DEF Init
<1> QED
  BY <1>1, <1>2, <1>3, BoundsAssumption DEF Init, IInv, TypeOK, Sound

LEMMA NextInductive == IInv /\ [Next]_vars => IInv'
<1> SUFFICES ASSUME IInv, [Next]_vars PROVE IInv'
  OBVIOUS
<1>1. CASE UserCommand
  BY <1>1, UserCommandOK
<1>2. CASE EventLoop
  BY <1>2, EventLoopOK
<1>3. CASE Backends
  BY <1>3, BackendsOK
<1>4. CASE Exits
  BY <1>4, ExitsOK
<1>5. CASE Crashes
  BY <1>5, CrashesOK
<1>6. CASE UNCHANGED vars
  BY <1>6 DEF IInv, TypeOK, BackendTypeOK, ClientTypeOK, Sound, Fed,
              vars, serverVars, wireVars, clientVars
<1> QED
  BY <1>1, <1>2, <1>3, <1>4, <1>5, <1>6 DEF Next

LEMMA Inductive == Spec => []IInv
BY InitInductive, NextInductive, PTL DEF Spec

(* Every variable always has its type: no handler ever reads a call, a run *)
(* or a session that is not there.                                         *)
THEOREM TypeCorrect == Spec => []TypeOK
<1>1. IInv => TypeOK
  BY DEF IInv
<1> QED
  BY <1>1, Inductive, PTL

(* There is no lost wakeup: whenever runs are queued, a run, a start or a  *)
(* stop is in flight, and each of them pumps the queue when it ends.  This *)
(* is the guard of pump() together with all the places that call it.       *)
THEOREM NoLostWakeup == Spec => []NoStuckRuns
<1>1. IInv => NoStuckRuns
  BY DEF IInv, Fed, NoStuckRuns
<1> QED
  BY <1>1, Inductive, PTL

-----------------------------------------------------------------------------
(* Calls under way.                                                        *)

(* The calls of a run, and those of a start or stop.                       *)
OfRun(x) == x.kind \in {"update_cell_source", "execute"}
OfStart(x) == x.kind \in StartKinds

(* Two calls under way: at most one is for a run, in a session, or of a    *)
(* start; none is in a session whose opening or stop is under way.         *)
Apart(x, y) ==
    /\ OfRun(x) /\ OfRun(y) => x.run # y.run /\ (x.session # 0 => x.session # y.session)
    /\ OfStart(x) /\ OfStart(y) => x.start # y.start
    /\ x.kind = "open_py" /\ (OfRun(y) \/ y.kind = "stop_kernel") => y.session # x.start
    /\ y.kind = "open_py" /\ (OfRun(x) \/ x.kind = "stop_kernel") => x.session # y.start
    /\ x.kind = "stop_kernel" /\ OfRun(y) => y.session # x.session
    /\ y.kind = "stop_kernel" /\ OfRun(x) => x.session # y.session

(* The lanes in which calls are under way: that of the callbacks, and one  *)
(* of pending calls for each client.                                       *)
Callbacks(l) == [j \in 1..Len(l) |-> l[j].call]
Lanes(cs, l) == [c \in 0..MaxClients |-> IF c = 0 THEN Callbacks(l) ELSE cs[c]]

AllApart(L) ==
    \A c, d \in 0..MaxClients : \A i \in 1..Len(L[c]), j \in 1..Len(L[d]) :
        c # d \/ i # j => Apart(L[c][i], L[d][j])

Within(L) == UNION {{L[c][i] : i \in 1..Len(L[c])} : c \in 0..MaxClients}

Frames(p) == UNION {{p[c][i] : i \in 1..Len(p[c])} : c \in Clients}

LEMMA InFrames ==
    ASSUME NEW p
    PROVE  /\ \A c \in Clients : \A i \in 1..Len(p[c]) : p[c][i] \in Frames(p)
           /\ \A f \in Frames(p) : \E c \in Clients : \E i \in 1..Len(p[c]) : f = p[c][i]
BY DEF Frames

-----------------------------------------------------------------------------
(* The invariant, of a buffer state b, calls, the number ls of the last    *)
(* start, and what stays the same while a handler runs: k.frames, the      *)
(* frames not read, k.issued, the number of the last run, and k.dropped.   *)

Settings == [frames : SUBSET Frame, issued : 0..MaxRuns, dropped : SUBSET Runs]

Delivered(r) == \E n \in Starts : \E i \in 1..Len(delivered[n]) : delivered[n][i].run = r

(* A run that has left the queue: those that are queued were issued later, *)
(* and that in flight is the last that left.                               *)
Before(r, b, k) ==
    /\ r <= k.issued
    /\ \A i \in 1..Len(b.queue.runs) : r < b.queue.runs[i]
    /\ b.inFlight # 0 => r <= b.inFlight

QueueGood(b, k, ls) ==
    /\ \A i, j \in 1..Len(b.queue.runs) : i < j => b.queue.runs[i] < b.queue.runs[j]
    /\ \A i \in 1..Len(b.queue.runs) :
        b.queue.runs[i] <= k.issued /\ b.inFlight < b.queue.runs[i]
    /\ b.queue.id <= k.issued /\ b.inFlight <= k.issued
    /\ b.session <= ls /\ b.starting.id <= ls
    /\ b.starting.held => b.session # 0

(* A frame that answers the update of a source.                            *)
Answers(f) == f.type = "reply" /\ f.call.kind = "update_cell_source"

BufferGood(b, k, ls) ==
    /\ QueueGood(b, k, ls)
    /\ \A r \in Runs : Delivered(r) => Before(r, b, k)
    /\ \A r \in k.dropped : ~Delivered(r) /\ r <= k.issued
                            /\ \A i \in 1..Len(b.queue.runs) : b.queue.runs[i] # r
    /\ \A f \in k.frames : Answers(f) =>
        /\ f.call.run <= k.issued /\ f.call.stage = "answered"
        /\ \A i \in 1..Len(b.queue.runs) : f.call.run < b.queue.runs[i]

(* The calls of a run: those from the present queue, and those in the      *)
(* present session, are of the run in flight.                              *)
RunGood(x, b, k, ls) ==
    OfRun(x) =>
        /\ Before(x.run, b, k)
        /\ x.queue \in 1..k.issued /\ x.session <= ls
        /\ x.kind = "update_cell_source" /\ x.queue = b.queue.id =>
            x.run = b.inFlight /\ x.session \in {0, b.session}
        /\ x.session # 0 /\ x.session = b.session => x.run = b.inFlight

(* The calls of a start or stop: a session is opened where there is none,  *)
(* and a stop under way is the one in flight, with no run beside it.       *)
StartGood(x, b, ls) ==
    OfStart(x) =>
        /\ x.start \in 1..ls
        /\ b.starting.held => x.start # b.starting.id
        /\ x.kind = "open_py" =>
            /\ x.start # b.session
            /\ x.start = b.starting.id => b.session = 0
        /\ x.kind = "stop_kernel" =>
            /\ x.session \in 1..ls
            /\ x.session = b.session =>
                b.inFlight = 0 /\ b.starting.id = x.start /\ ~b.starting.held

(* The calls of a run that was dropped: only one to update the source may  *)
(* be left, from a queue that was given up.                                *)
DropGood(x, b, k) ==
    OfRun(x) /\ x.run \in k.dropped =>
        x.kind = "update_cell_source" /\ x.queue # b.queue.id

(* An answer to the update of a source answers the only one of its run,    *)
(* and the source is that of the run.                                      *)
AnswerGood(x, k) ==
    \A f \in k.frames : Answers(f) =>
        /\ x.kind = "update_cell_source" /\ x.run = f.call.run => x.stage = "answered"
        /\ f.err = "ok" /\ f.call = x =>
            x.session # 0 /\ source[x.session] \in {0, x.run}

Fresh(n) == delivered[n] = <<>> /\ \A s \in Starts : slot[s] # n

Unsent(x) == x.kind = "execute" /\ x.stage # "answered"

Unstarted(x) == x.kind = "start_kernel" /\ x.stage \in {"sent", "begun"}

(* What the backend has for a call: its run has not been delivered, later  *)
(* runs neither in its session; the source it reads is its own; the kernel *)
(* to be launched has not been.                                            *)
ServedGood(x) ==
    /\ x.kind = "update_cell_source" \/ Unsent(x) => ~Delivered(x.run)
    /\ Unsent(x) /\ x.session # 0 =>
        \A n \in Starts : kernel[n].session = x.session =>
            \A i \in 1..Len(delivered[n]) : delivered[n][i].run < x.run
    /\ x.kind = "execute" /\ x.stage = "sent" /\ x.session # 0 =>
        source[x.session] \in {0, x.run}
    /\ x.kind = "execute" /\ x.stage = "begun" => x.session # 0 /\ x.source = x.run
    /\ x.kind = "open_py" \/ Unstarted(x) => Fresh(x.start)

CallGood(x, b, k, ls) ==
    /\ RunGood(x, b, k, ls)
    /\ StartGood(x, b, ls)
    /\ DropGood(x, b, k)
    /\ AnswerGood(x, k)
    /\ ServedGood(x)

Good(b, T, k, ls) == BufferGood(b, k, ls) /\ \A x \in T : CallGood(x, b, k, ls)

(* Kernels that have not been started, and those in a slot.                *)
SlotsGood(ls) ==
    /\ \A n \in Starts : n > ls => Fresh(n)
    /\ \A s \in Starts : slot[s] # 0 => kernel[slot[s]].session = s

(* The client fails calls by itself only when the backend is gone.         *)
LoopGood(l) == \A j \in 1..Len(l) : l[j].type = "reply" => l[j].err = "gone"

Fixed(p, lr, D) == [frames |-> Frames(p), issued |-> lr, dropped |-> D]

DInv ==
    /\ AllApart(Lanes(calls, loop))
    /\ Good(buf, Within(Lanes(calls, loop)), Fixed(pipe, lastRun, dropped), lastStart)
    /\ SlotsGood(lastStart)
    /\ LoopGood(loop)

-----------------------------------------------------------------------------
(* Lanes.                                                                  *)

AllLanes == [0..MaxClients -> Seq(Call)]

LEMMA CallFields ==
    ASSUME NEW x \in Call
    PROVE  /\ x \in Request
           /\ x.kind \in Kinds
           /\ x.client \in 0..MaxClients /\ x.start \in 0..MaxStarts
           /\ x.session \in 0..MaxStarts /\ x.run \in 0..MaxRuns
           /\ x.queue \in 0..MaxRuns /\ x.source \in 0..MaxRuns
           /\ x.stage \in {"sent", "begun", "installed", "answered"}
           /\ OfRun(x) => x.run # 0
BY DEF Call, Request, OfRun

LEMMA ApartSymmetric ==
    ASSUME NEW x, NEW y, Apart(x, y)
    PROVE  Apart(y, x)
BY DEF Apart

LEMMA InLanes ==
    ASSUME NEW L
    PROVE  /\ \A c \in 0..MaxClients : \A i \in 1..Len(L[c]) : L[c][i] \in Within(L)
           /\ \A x \in Within(L) : \E c \in 0..MaxClients : \E i \in 1..Len(L[c]) : x = L[c][i]
BY DEF Within

LEMMA CallbacksTyped ==
    ASSUME NEW l \in Seq(Frame)
    PROVE  /\ Callbacks(l) \in Seq(Call) /\ Len(Callbacks(l)) = Len(l)
           /\ \A j \in 1..Len(l) : Callbacks(l)[j] = l[j].call
<1>1. \A j \in 1..Len(l) : l[j].call \in Call
  <2> SUFFICES ASSUME NEW j \in 1..Len(l) PROVE l[j].call \in Call
    OBVIOUS
  <2>1. l[j] \in Frame
    OBVIOUS
  <2> QED
    BY <2>1 DEF Frame
<1>2. Len(l) \in Nat
  OBVIOUS
<1> QED
  BY <1>1, <1>2 DEF Callbacks

LEMMA LanesTyped ==
    ASSUME NEW w \in Waits
    PROVE  /\ Lanes(w.calls, w.loop) \in AllLanes
           /\ Within(Lanes(w.calls, w.loop)) \subseteq Call
<1> DEFINE L == Lanes(w.calls, w.loop)
<1>1. L \in AllLanes
  <2>1. w.loop \in Seq(Frame) /\ w.calls \in [Clients -> Seq(Call)]
    BY DEF Waits
  <2>2. Callbacks(w.loop) \in Seq(Call)
    BY <2>1, CallbacksTyped
  <2>3. \A c \in 0..MaxClients : c # 0 => c \in Clients
    BY BoundsAssumption DEF Clients
  <2> QED
    BY <2>1, <2>2, <2>3 DEF Lanes, AllLanes
<1>2. Within(L) \subseteq Call
  <2> SUFFICES ASSUME NEW x \in Within(L) PROVE x \in Call
    OBVIOUS
  <2>1. PICK c \in 0..MaxClients : \E i \in 1..Len(L[c]) : x = L[c][i]
    BY InLanes
  <2>2. L[c] \in Seq(Call)
    BY <1>1 DEF AllLanes
  <2> QED
    BY <2>1, <2>2
<1> QED
  BY <1>1, <1>2

(* Two calls of the same run are one.                                      *)
LEMMA OneCallOfRun ==
    ASSUME NEW L \in AllLanes, AllApart(L), NEW x \in Within(L), NEW y \in Within(L),
           OfRun(x), OfRun(y), x.run = y.run
    PROVE  x = y
<1>1. PICK c \in 0..MaxClients : \E i \in 1..Len(L[c]) : x = L[c][i]
  BY InLanes
<1>2. PICK d \in 0..MaxClients : \E j \in 1..Len(L[d]) : y = L[d][j]
  BY InLanes
<1>3. ~ Apart(x, y)
  BY DEF Apart
<1> QED
  BY <1>1, <1>2, <1>3 DEF AllApart

LEMMA LaneAppended ==
    ASSUME NEW L \in AllLanes, AllApart(L), NEW c \in 0..MaxClients, NEW x \in Call,
           \A z \in Within(L) : Apart(x, z)
    PROVE  LET M == [L EXCEPT ![c] = Append(L[c], x)] IN
           /\ M \in AllLanes
           /\ AllApart(M)
           /\ \A z \in Within(M) : z = x \/ z \in Within(L)
<1> DEFINE s == Append(L[c], x)
           M == [L EXCEPT ![c] = s]
           n == Len(L[c])
<1>1. L[c] \in Seq(Call)
  BY DEF AllLanes
<1>2. n \in Nat /\ s \in Seq(Call) /\ Len(s) = n + 1 /\ s[n + 1] = x /\ \A i \in 1..n : s[i] = L[c][i]
  BY <1>1
<1>3. \A i \in 1..(n + 1) : i = n + 1 \/ i \in 1..n
  BY <1>2
<1> HIDE DEF s, n
<1>4. M \in AllLanes
  BY <1>2 DEF AllLanes
<1>5. M[c] = s /\ \A d \in 0..MaxClients : d # c => M[d] = L[d]
  BY DEF AllLanes
<1> HIDE DEF M
<1>6. \A d \in 0..MaxClients : \A i \in 1..Len(M[d]) :
          (d = c /\ i = n + 1 /\ M[d][i] = x) \/ (i \in 1..Len(L[d]) /\ M[d][i] = L[d][i])
  BY <1>2, <1>3, <1>5 DEF n
<1>7. \A d \in 0..MaxClients : \A i \in 1..Len(L[d]) : L[d][i] \in Within(L)
  BY InLanes
<1>8. AllApart(M)
  <2> SUFFICES ASSUME NEW d \in 0..MaxClients, NEW e \in 0..MaxClients,
                      NEW i \in 1..Len(M[d]), NEW j \in 1..Len(M[e]), d # e \/ i # j
               PROVE  Apart(M[d][i], M[e][j])
    BY DEF AllApart
  <2>1. CASE d = c /\ i = n + 1 /\ M[d][i] = x
    <3>1. j \in 1..Len(L[e]) /\ M[e][j] = L[e][j]
      BY <1>6, <2>1
    <3> QED
      BY <1>7, <2>1, <3>1
  <2>2. CASE i \in 1..Len(L[d]) /\ M[d][i] = L[d][i]
    <3>1. CASE j \in 1..Len(L[e]) /\ M[e][j] = L[e][j]
      BY <2>2, <3>1 DEF AllApart
    <3>2. CASE M[e][j] = x
      BY <1>7, <2>2, <3>2, ApartSymmetric
    <3> QED
      BY <1>6, <3>1, <3>2
  <2> QED
    BY <1>6, <2>1, <2>2
<1>9. \A z \in Within(M) : z = x \/ z \in Within(L)
  <2> SUFFICES ASSUME NEW d \in 0..MaxClients, NEW i \in 1..Len(M[d])
               PROVE  M[d][i] = x \/ M[d][i] \in Within(L)
    BY InLanes
  <2> QED
    BY <1>6, <1>7
<1> QED
  BY <1>4, <1>8, <1>9 DEF M, s

LEMMA WithoutPlaces ==
    ASSUME NEW S, NEW s \in Seq(S), NEW i \in 1..Len(s)
    PROVE  /\ Len(Without(s, i)) = Len(s) - 1
           /\ \A j \in 1..(Len(s) - 1) : Without(s, i)[j] = s[IF j < i THEN j ELSE j + 1]
<1> DEFINE n == Len(s)
           l == SubSeq(s, 1, i - 1)
           r == SubSeq(s, i + 1, n)
<1>1. n \in Nat /\ i \in 1..n
  OBVIOUS
<1>2. l \in Seq(S) /\ Len(l) = i - 1 /\ \A j \in 1..(i - 1) : l[j] = s[j]
  OBVIOUS
<1>3. r \in Seq(S) /\ Len(r) = n - i /\ \A j \in 1..(n - i) : r[j] = s[j + i]
  OBVIOUS
<1>4. Without(s, i) = l \o r
  BY DEF Without
<1> HIDE DEF n, l, r
<1>5. Len(l \o r) = n - 1
  <2>1. Len(l \o r) = Len(l) + Len(r)
    BY <1>2, <1>3, ConcatProperties
  <2> QED
    BY <1>1, <1>2, <1>3, <2>1
<1>6. ASSUME NEW j \in 1..(n - 1) PROVE (l \o r)[j] = s[IF j < i THEN j ELSE j + 1]
  <2>1. CASE j < i
    <3>1. j \in 1..Len(l)
      BY <1>1, <1>2, <2>1
    <3>2. (l \o r)[j] = l[j]
      BY <1>2, <1>3, <3>1
    <3> QED
      BY <1>2, <2>1, <3>1, <3>2
  <2>2. CASE ~(j < i)
    <3>1. j - Len(l) \in 1..Len(r) /\ (j - Len(l)) + i = j + 1 /\ j > Len(l) /\ j <= Len(l) + Len(r)
      BY <1>1, <1>2, <1>3, <2>2
    <3>2. (l \o r)[j] = r[j - Len(l)]
      BY <1>2, <1>3, <3>1
    <3>3. r[j - Len(l)] = s[j + 1]
      BY <1>3, <3>1
    <3> QED
      BY <2>2, <3>2, <3>3
  <2> QED
    BY <2>1, <2>2
<1> QED
  BY <1>4, <1>5, <1>6 DEF n

(* A call is taken away.                                                   *)
LEMMA LaneRemoved ==
    ASSUME NEW L \in AllLanes, AllApart(L), NEW c \in 0..MaxClients, NEW i \in 1..Len(L[c])
    PROVE  LET M == [L EXCEPT ![c] = Without(L[c], i)] IN
           /\ M \in AllLanes
           /\ AllApart(M)
           /\ Within(M) \subseteq Within(L)
           /\ \A z \in Within(M) : Apart(L[c][i], z)
<1> DEFINE s == Without(L[c], i)
           M == [L EXCEPT ![c] = s]
           n == Len(L[c])
           old(j) == IF j < i THEN j ELSE j + 1
<1>1. L[c] \in Seq(Call) /\ n \in Nat
  BY DEF AllLanes
<1>2. s \in Seq(Call)
  BY <1>1, WithoutTyped
<1>3. Len(s) = n - 1 /\ \A j \in 1..(n - 1) : s[j] = L[c][old(j)]
  BY <1>1, WithoutPlaces
<1>4. \A j \in 1..(n - 1) : old(j) \in 1..n /\ old(j) # i
  BY <1>1
<1>5. \A j, h \in 1..(n - 1) : j # h => old(j) # old(h)
  BY <1>1
<1> HIDE DEF s, n, old
<1>6. M \in AllLanes
  BY <1>2 DEF AllLanes
<1>7. M[c] = s /\ \A d \in 0..MaxClients : d # c => M[d] = L[d]
  BY DEF AllLanes
<1> HIDE DEF M
<1> DEFINE at(d, j) == IF d = c THEN old(j) ELSE j
<1>8. \A d \in 0..MaxClients : \A j \in 1..Len(M[d]) :
          at(d, j) \in 1..Len(L[d]) /\ M[d][j] = L[d][at(d, j)] /\ (d # c \/ at(d, j) # i)
  BY <1>3, <1>4, <1>7 DEF n
<1>9. \A d \in 0..MaxClients : \A j, h \in 1..Len(M[d]) : j # h => at(d, j) # at(d, h)
  BY <1>3, <1>5, <1>7
<1> HIDE DEF at
<1>10. AllApart(M)
  <2> SUFFICES ASSUME NEW d \in 0..MaxClients, NEW e \in 0..MaxClients,
                      NEW j \in 1..Len(M[d]), NEW h \in 1..Len(M[e]), d # e \/ j # h
               PROVE  Apart(M[d][j], M[e][h])
    BY DEF AllApart
  <2>1. d # e \/ at(d, j) # at(e, h)
    BY <1>9
  <2> QED
    BY <1>8, <2>1 DEF AllApart
<1>11. \A z \in Within(M) : z \in Within(L) /\ Apart(L[c][i], z)
  <2> SUFFICES ASSUME NEW d \in 0..MaxClients, NEW j \in 1..Len(M[d])
               PROVE  M[d][j] \in Within(L) /\ Apart(L[c][i], M[d][j])
    BY InLanes
  <2>1. M[d][j] \in Within(L)
    BY <1>8, InLanes
  <2>2. Apart(L[c][i], M[d][j])
    BY <1>8 DEF AllApart
  <2> QED
    BY <2>1, <2>2
<1> QED
  BY <1>6, <1>10, <1>11 DEF M, s

(* A call that makes a step of its own keeps its place.                    *)
Alike(x, z) ==
    /\ x.kind = z.kind /\ x.client = z.client /\ x.start = z.start
    /\ x.session = z.session /\ x.run = z.run /\ x.queue = z.queue

LEMMA LaneChanged ==
    ASSUME NEW L \in AllLanes, AllApart(L), NEW c \in 0..MaxClients, NEW i \in 1..Len(L[c]),
           NEW x \in Call, Alike(x, L[c][i])
    PROVE  LET M == [L EXCEPT ![c] = [L[c] EXCEPT ![i] = x]] IN
           /\ M \in AllLanes
           /\ AllApart(M)
           /\ \A z \in Within(M) : z = x \/ (z \in Within(L) /\ Apart(L[c][i], z))
<1> DEFINE s == [L[c] EXCEPT ![i] = x]
           M == [L EXCEPT ![c] = s]
<1>1. L[c] \in Seq(Call)
  BY DEF AllLanes
<1>2. s \in Seq(Call) /\ Len(s) = Len(L[c]) /\ s[i] = x
      /\ \A j \in 1..Len(L[c]) : j # i => s[j] = L[c][j]
  BY <1>1
<1> HIDE DEF s
<1>3. M \in AllLanes
  BY <1>2 DEF AllLanes
<1>4. M[c] = s /\ \A d \in 0..MaxClients : d # c => M[d] = L[d]
  BY DEF AllLanes
<1> HIDE DEF M
<1>5. \A d \in 0..MaxClients : \A j \in 1..Len(M[d]) :
          /\ j \in 1..Len(L[d])
          /\ IF d = c /\ j = i THEN M[d][j] = x ELSE M[d][j] = L[d][j]
  BY <1>2, <1>4
<1>6. \A z : Apart(L[c][i], z) => Apart(x, z)
  BY DEF Apart, Alike, OfRun, OfStart
<1>7. AllApart(M)
  <2> SUFFICES ASSUME NEW d \in 0..MaxClients, NEW e \in 0..MaxClients,
                      NEW j \in 1..Len(M[d]), NEW h \in 1..Len(M[e]), d # e \/ j # h
               PROVE  Apart(M[d][j], M[e][h])
    BY DEF AllApart
  <2>1. Apart(L[d][j], L[e][h])
    BY <1>5 DEF AllApart
  <2>2. CASE d = c /\ j = i
    BY <1>5, <1>6, <2>1, <2>2
  <2>3. CASE e = c /\ h = i
    <3>1. Apart(x, L[d][j])
      BY <1>6, <2>1, <2>3, ApartSymmetric
    <3> QED
      BY <1>5, <2>3, <3>1, ApartSymmetric
  <2>4. CASE ~(d = c /\ j = i) /\ ~(e = c /\ h = i)
    BY <1>5, <2>1, <2>4
  <2> QED
    BY <2>2, <2>3, <2>4
<1>8. ASSUME NEW z \in Within(M), z # x PROVE z \in Within(L) /\ Apart(L[c][i], z)
  <2>1. PICK d \in 0..MaxClients : \E j \in 1..Len(M[d]) : z = M[d][j]
    BY InLanes
  <2>2. PICK j \in 1..Len(M[d]) : z = M[d][j]
    BY <2>1
  <2>3. j \in 1..Len(L[d]) /\ ~(d = c /\ j = i) /\ z = L[d][j]
    BY <1>5, <1>8, <2>2
  <2>4. Apart(L[c][i], z)
    BY <2>3 DEF AllApart
  <2> QED
    BY <2>3, <2>4, InLanes
<1> QED
  BY <1>3, <1>7, <1>8 DEF M, s

-----------------------------------------------------------------------------
(* What a change of the buffer state leaves good.                          *)

LEMMA BufferFields ==
    ASSUME NEW b \in BufferState
    PROVE  /\ b.session \in 0..MaxStarts /\ b.starting \in Starting
           /\ b.starting.id \in 0..MaxStarts /\ b.starting.held \in BOOLEAN
           /\ b.queue \in Queue /\ b.queue.id \in 0..MaxRuns
           /\ b.inFlight \in 0..MaxRuns
           /\ b.queue.runs \in Seq(Runs) /\ Len(b.queue.runs) \in Nat
           /\ \A i \in 1..Len(b.queue.runs) :
                b.queue.runs[i] \in Runs /\ b.queue.runs[i] \in Nat /\ b.queue.runs[i] > 0
<1>1. /\ b.session \in 0..MaxStarts /\ b.starting \in Starting
      /\ b.queue \in Queue /\ b.inFlight \in 0..MaxRuns
  BY DEF BufferState
<1>2. b.starting.id \in 0..MaxStarts /\ b.starting.held \in BOOLEAN
  BY <1>1 DEF Starting
<1>3. b.queue.id \in 0..MaxRuns /\ b.queue.runs \in Seq(Runs)
  BY <1>1 DEF Queue
<1>4. \A i \in 1..Len(b.queue.runs) : b.queue.runs[i] \in Runs
  BY <1>3
<1>5. \A r \in Runs : r \in Nat /\ r > 0
  BY BoundsAssumption DEF Runs
<1> QED
  BY <1>1, <1>2, <1>3, <1>4, <1>5

LEMMA SettingsFields ==
    ASSUME NEW k \in Settings
    PROVE  /\ k.issued \in 0..MaxRuns /\ k.issued \in Nat
           /\ k.frames \subseteq Frame
           /\ \A f \in k.frames : f.call \in Call
           /\ k.dropped \subseteq Runs
BY BoundsAssumption DEF Settings, Frame

DeliveredTyped == delivered \in [Starts -> Seq(Delivery)]

LEMMA DeliveredRuns ==
    ASSUME DeliveredTyped, NEW n \in Starts, NEW i \in 1..Len(delivered[n])
    PROVE  delivered[n][i].run \in Runs
<1>1. delivered[n] \in Seq(Delivery)
  BY DEF DeliveredTyped
<1>2. delivered[n][i] \in Delivery
  BY <1>1
<1> QED
  BY <1>2 DEF Delivery

LEMMA NoQueueFields == NoQueue.id = 0 /\ NoQueue.runs = <<>> /\ Len(NoQueue.runs) = 0
BY DEF NoQueue

LEMMA NoStartFields == NoStart.id = 0 /\ NoStart.held = FALSE
BY DEF NoStart

(* The queue given up, a run done, a start done, or everything reset.      *)
LEMMA Eased ==
    ASSUME NEW b \in BufferState, NEW T, T \subseteq Call, NEW k \in Settings,
           NEW ls \in 0..MaxStarts, Good(b, T, k, ls), NEW e \in BufferState,
           e.queue = b.queue \/ e.queue = NoQueue,
           \/ e.inFlight = b.inFlight
           \/ e.inFlight = 0 /\ e.session = 0 /\ e.queue = NoQueue
           \/ e.inFlight = 0 /\ \A y \in T : OfRun(y) => y.run # b.inFlight,
           e.session = b.session \/ (e.session = 0 /\ e.queue = NoQueue),
           \/ /\ e.starting.id = b.starting.id /\ e.starting.held = b.starting.held
              /\ e.session = b.session
           \/ /\ e.starting.id = 0 /\ e.starting.held = FALSE
              /\ \A y \in T : y.kind = "stop_kernel" => y.session # e.session
    PROVE  Good(e, T, k, ls)
<1>1. \A i \in 1..Len(e.queue.runs) :
          i \in 1..Len(b.queue.runs) /\ e.queue.runs[i] = b.queue.runs[i]
  BY NoQueueFields
<1>2. e.queue.id = b.queue.id \/ e.queue.id = 0
  BY NoQueueFields
<1>3. e.inFlight = b.inFlight \/ e.inFlight = 0
  OBVIOUS
<1>4. /\ k.issued \in Nat /\ ls \in Nat /\ b.inFlight \in Nat /\ e.inFlight \in Nat
      /\ b.session \in Nat /\ b.queue.id \in Nat
  BY BufferFields, SettingsFields, BoundsAssumption
<1>5. BufferGood(b, k, ls)
  BY DEF Good
<1>6. \A i \in 1..Len(b.queue.runs) : b.queue.runs[i] \in Nat /\ b.queue.runs[i] > 0
  BY BufferFields
<1>7. \A r : Before(r, b, k) => Before(r, e, k)
  BY <1>1, <1>3 DEF Before
<1>8. QueueGood(e, k, ls)
  <2>1. QueueGood(b, k, ls)
    BY <1>5 DEF BufferGood
  <2>2. \A i \in 1..Len(e.queue.runs) : e.queue.runs[i] <= k.issued /\ e.inFlight < e.queue.runs[i]
    BY <1>1, <1>3, <1>6, <2>1 DEF QueueGood
  <2>3. \A i, j \in 1..Len(e.queue.runs) : i < j => e.queue.runs[i] < e.queue.runs[j]
    BY <1>1, <2>1 DEF QueueGood
  <2>4. e.queue.id <= k.issued /\ e.inFlight <= k.issued
    BY <1>2, <1>3, <1>4, <2>1 DEF QueueGood
  <2>5. e.session <= ls /\ e.starting.id <= ls
    BY <1>4, <2>1 DEF QueueGood
  <2>6. e.starting.held => e.session # 0
    BY <2>1 DEF QueueGood
  <2> QED
    BY <2>2, <2>3, <2>4, <2>5, <2>6 DEF QueueGood
<1>9. BufferGood(e, k, ls)
  BY <1>1, <1>5, <1>7, <1>8 DEF BufferGood
<1>10. ASSUME NEW x \in T PROVE CallGood(x, e, k, ls)
  <2>1. CallGood(x, b, k, ls)
    BY <1>10 DEF Good
  <2>2. x \in Call
    BY <1>10
  <2>3. x.queue \in 0..MaxRuns /\ x.run \in Nat /\ x.session \in Nat /\ (OfRun(x) => x.run # 0)
    BY <2>2, CallFields, BoundsAssumption
  <2>4. RunGood(x, e, k, ls)
    <3> SUFFICES ASSUME OfRun(x) PROVE RunGood(x, e, k, ls)
      BY DEF RunGood
    <3>1. /\ Before(x.run, b, k)
          /\ x.queue \in 1..k.issued /\ x.session <= ls
          /\ x.kind = "update_cell_source" /\ x.queue = b.queue.id =>
              x.run = b.inFlight /\ x.session \in {0, b.session}
          /\ x.session # 0 /\ x.session = b.session => x.run = b.inFlight
      BY <2>1 DEF CallGood, RunGood
    <3>2. x.queue # 0
      BY <1>4, <3>1
    <3>3. ASSUME x.kind = "update_cell_source", x.queue = e.queue.id
          PROVE  x.run = e.inFlight /\ x.session \in {0, e.session}
      <4>1. e.queue.id = b.queue.id /\ e.queue.id # 0
        BY <1>2, <3>2, <3>3
      <4>2. e.session = b.session
        BY <4>1, NoQueueFields
      <4>3. x.run = b.inFlight /\ x.session \in {0, b.session}
        BY <3>1, <3>3, <4>1
      <4>4. e.inFlight = b.inFlight
        <5>1. e.queue # NoQueue
          BY <4>1, NoQueueFields
        <5> QED
          BY <1>10, <4>3, <5>1
      <4> QED
        BY <4>2, <4>3, <4>4
    <3>4. ASSUME x.session # 0, x.session = e.session PROVE x.run = e.inFlight
      BY <1>10, <3>1, <3>4
    <3> QED
      BY <1>7, <3>1, <3>3, <3>4 DEF RunGood
  <2>5. StartGood(x, e, ls)
    <3> SUFFICES ASSUME OfStart(x) PROVE StartGood(x, e, ls)
      BY DEF StartGood
    <3>1. /\ x.start \in 1..ls
          /\ b.starting.held => x.start # b.starting.id
          /\ x.kind = "open_py" =>
              /\ x.start # b.session
              /\ x.start = b.starting.id => b.session = 0
          /\ x.kind = "stop_kernel" =>
              /\ x.session \in 1..ls
              /\ x.session = b.session =>
                  b.inFlight = 0 /\ b.starting.id = x.start /\ ~b.starting.held
      BY <2>1 DEF CallGood, StartGood
    <3>2. x.start # 0
      BY <1>4, <3>1
    <3>3. x.kind = "stop_kernel" => x.session # 0
      BY <1>4, <3>1
    <3>4. x.kind = "open_py" => x.start # e.session /\ (x.start = e.starting.id => e.session = 0)
      BY <3>1, <3>2
    <3>5. ASSUME x.kind = "stop_kernel", x.session = e.session
          PROVE  e.inFlight = 0 /\ e.starting.id = x.start /\ ~e.starting.held
      BY <1>3, <1>10, <3>1, <3>3, <3>5
    <3>6. e.starting.held => x.start # e.starting.id
      BY <3>1
    <3> QED
      BY <3>1, <3>4, <3>5, <3>6 DEF StartGood
  <2>6. DropGood(x, e, k)
    <3>1. OfRun(x) => x.queue # 0
      BY <1>4, <2>1 DEF CallGood, RunGood
    <3> QED
      BY <1>2, <2>1, <3>1 DEF CallGood, DropGood
  <2> QED
    BY <2>1, <2>4, <2>5, <2>6 DEF CallGood
<1> QED
  BY <1>9, <1>10 DEF Good

(* The oldest run is sent: no other call is of its run or in its session.  *)
LEMMA RunTaken ==
    ASSUME NEW b, Sound(b), Ready(b), NEW T, T \subseteq Call, NEW k \in Settings,
           NEW ls \in 0..MaxStarts, Good(b, T, k, ls), NEW c \in Clients
    PROVE  LET x == UpdateCall(c, b) IN
           /\ Good(TakeRun(b), T, k, ls)
           /\ CallGood(x, TakeRun(b), k, ls)
           /\ \A y \in T : Apart(x, y)
<1> DEFINE e == TakeRun(b)
           run == Head(b.queue.runs)
           n == Len(e.queue.runs)
           x == UpdateCall(c, b)
<1>1. /\ b \in BufferState /\ e \in BufferState
      /\ b.queue.runs # <<>> /\ b.inFlight = 0 /\ b.starting = NoStart /\ b.queue.id # 0
  BY TakeRunSound DEF Sound, Ready
<1>2. /\ e.session = b.session /\ e.starting = b.starting
      /\ e.queue.id = b.queue.id /\ e.queue.runs = Tail(b.queue.runs) /\ e.inFlight = run
  BY <1>1 DEF TakeRun, BufferState, Queue
<1>3. /\ n \in Nat /\ Len(b.queue.runs) = n + 1 /\ run = b.queue.runs[1]
      /\ \A i \in 1..n : e.queue.runs[i] = b.queue.runs[i + 1]
  <2>1. b.queue.runs \in Seq(Runs)
    BY <1>1, BufferFields
  <2> QED
    BY <1>1, <1>2, <2>1
<1>4. /\ x.kind = "update_cell_source" /\ x.session = b.session /\ x.run = run
      /\ x.queue = b.queue.id /\ x.stage = "sent"
  BY NoCallTyped DEF UpdateCall, NoCall
<1> HIDE DEF e, run, n, x
<1>5. /\ k.issued \in Nat /\ ls \in Nat /\ b.session \in 0..MaxStarts /\ b.session \in Nat
      /\ b.queue.id \in Nat /\ run \in Nat /\ run > 0
      /\ \A i \in 1..(n + 1) : b.queue.runs[i] \in Nat
  BY <1>1, <1>3, BufferFields, SettingsFields, BoundsAssumption
<1>6. BufferGood(b, k, ls) /\ QueueGood(b, k, ls)
  BY DEF Good, BufferGood
<1>7. \A i \in 1..n : i + 1 \in 1..(n + 1) /\ 1 < i + 1 /\ run < e.queue.runs[i]
  <2> SUFFICES ASSUME NEW i \in 1..n PROVE i + 1 \in 1..(n + 1) /\ 1 < i + 1 /\ run < e.queue.runs[i]
    OBVIOUS
  <2>1. i + 1 \in 1..(n + 1) /\ 1 \in 1..(n + 1) /\ 1 < i + 1
    BY <1>3
  <2> QED
    BY <1>3, <1>6, <2>1 DEF QueueGood
<1>8. run <= k.issued
  BY <1>3, <1>6 DEF QueueGood
<1>9. ASSUME NEW r \in Nat, Before(r, b, k) PROVE Before(r, e, k) /\ r < run
  <2>1. r < run
    BY <1>3, <1>9 DEF Before
  <2>2. \A i \in 1..n : r < e.queue.runs[i]
    BY <1>3, <1>7, <1>9 DEF Before
  <2> QED
    BY <1>2, <1>5, <1>9, <2>1, <2>2 DEF Before, n
<1>10. QueueGood(e, k, ls)
  <2>1. \A i, j \in 1..n : i < j => e.queue.runs[i] < e.queue.runs[j]
    <3> SUFFICES ASSUME NEW i \in 1..n, NEW j \in 1..n, i < j
                 PROVE  b.queue.runs[i + 1] < b.queue.runs[j + 1]
      BY <1>3
    <3>1. i + 1 \in 1..(n + 1) /\ j + 1 \in 1..(n + 1) /\ i + 1 < j + 1
      BY <1>3
    <3> QED
      BY <1>3, <1>6, <3>1 DEF QueueGood
  <2>2. \A i \in 1..n : e.queue.runs[i] <= k.issued
    BY <1>3, <1>6, <1>7 DEF QueueGood
  <2>3. e.queue.id <= k.issued /\ e.session <= ls /\ e.starting.id <= ls
        /\ (e.starting.held => e.session # 0)
    BY <1>2, <1>6 DEF QueueGood
  <2> QED
    BY <1>2, <1>7, <1>8, <2>1, <2>2, <2>3 DEF QueueGood, n
<1>11. BufferGood(e, k, ls)
  <2>1. ASSUME NEW r \in Runs, Delivered(r) PROVE Before(r, e, k)
    BY <1>6, <1>9, <2>1, BoundsAssumption DEF BufferGood, Runs
  <2>2. ASSUME NEW r \in k.dropped
        PROVE  ~Delivered(r) /\ r <= k.issued /\ \A i \in 1..n : e.queue.runs[i] # r
    BY <1>3, <1>6, <1>7 DEF BufferGood
  <2>3. ASSUME NEW f \in k.frames, Answers(f)
        PROVE  /\ f.call.run <= k.issued /\ f.call.stage = "answered"
               /\ \A i \in 1..n : f.call.run < e.queue.runs[i]
    BY <1>3, <1>6, <1>7, <2>3 DEF BufferGood
  <2> QED
    BY <1>10, <2>1, <2>2, <2>3 DEF BufferGood, n
<1>12. ASSUME NEW y \in T, OfRun(y)
       PROVE  /\ y.run \in Nat /\ y.run # 0 /\ y.run < run /\ Before(y.run, e, k)
              /\ y.queue \in 1..k.issued /\ y.session <= ls
              /\ y.kind = "update_cell_source" => y.queue # b.queue.id
              /\ y.session # 0 => y.session # b.session
  <2>1. CallGood(y, b, k, ls) /\ y \in Call
    BY <1>12 DEF Good
  <2>2. y.run \in Nat /\ y.run # 0
    BY <1>12, <2>1, CallFields, BoundsAssumption
  <2>3. RunGood(y, b, k, ls)
    BY <2>1 DEF CallGood
  <2>4. Before(y.run, b, k)
    BY <1>12, <2>3 DEF RunGood
  <2>5. y.run < run /\ Before(y.run, e, k)
    BY <1>9, <2>2, <2>4
  <2>6. /\ y.queue \in 1..k.issued /\ y.session <= ls
        /\ y.kind = "update_cell_source" => y.queue # b.queue.id
        /\ y.session # 0 => y.session # b.session
    BY <1>1, <1>12, <2>2, <2>3 DEF RunGood
  <2> QED
    BY <2>2, <2>5, <2>6
<1>13. ASSUME NEW y \in T, OfStart(y)
       PROVE  /\ y.start \in 1..ls
              /\ y.kind = "open_py" => y.start # b.session
              /\ y.kind = "stop_kernel" => y.session \in 1..ls /\ y.session # b.session
  <2>1. StartGood(y, b, ls)
    BY DEF Good, CallGood
  <2>2. b.starting.id = 0
    BY <1>1, NoStartFields
  <2> QED
    BY <1>5, <1>13, <2>1, <2>2 DEF StartGood
<1>14. ASSUME NEW y \in T PROVE CallGood(y, e, k, ls)
  <2>1. CallGood(y, b, k, ls)
    BY DEF Good
  <2>2. RunGood(y, e, k, ls)
    BY <1>2, <1>12 DEF RunGood
  <2>3. StartGood(y, e, ls)
    <3>1. e.starting.id = 0 /\ ~e.starting.held
      BY <1>1, <1>2, NoStartFields
    <3> QED
      BY <1>2, <1>5, <1>13, <3>1 DEF StartGood
  <2>4. DropGood(y, e, k)
    BY <1>2, <2>1 DEF CallGood, DropGood
  <2> QED
    BY <2>1, <2>2, <2>3, <2>4 DEF CallGood
<1>15. CallGood(x, e, k, ls)
  <2>1. ~OfStart(x) /\ OfRun(x)
    BY <1>4 DEF OfStart, OfRun, StartKinds
  <2>2. RunGood(x, e, k, ls)
    <3>1. Before(run, e, k)
      BY <1>2, <1>5, <1>7, <1>8 DEF Before, n
    <3>2. b.queue.id \in 1..k.issued /\ b.session <= ls
      BY <1>1, <1>5, <1>6 DEF QueueGood
    <3> QED
      BY <1>2, <1>4, <3>1, <3>2 DEF RunGood
  <2>3. StartGood(x, e, ls)
    BY <2>1 DEF StartGood
  <2>4. DropGood(x, e, k)
    BY <1>3, <1>4, <1>6 DEF DropGood, BufferGood
  <2>5. AnswerGood(x, k)
    <3> SUFFICES ASSUME NEW f \in k.frames, Answers(f) PROVE x.run # f.call.run /\ f.call # x
      BY DEF AnswerGood
    <3>1. f.call.run < run /\ f.call.stage = "answered" /\ f.call.run \in Nat
      BY <1>3, <1>6, SettingsFields, CallFields, BoundsAssumption DEF BufferGood
    <3> QED
      BY <1>4, <1>5, <3>1
  <2>6. ServedGood(x)
    <3>1. ~Delivered(run)
      <4>1. Before(run, b, k) => run < run
        BY <1>3 DEF Before
      <4>2. run \in Runs
        BY <1>1, <1>3, BufferFields
      <4> QED
        BY <1>5, <1>6, <4>1, <4>2 DEF BufferGood
    <3> QED
      BY <1>4, <3>1 DEF ServedGood, Unsent, Unstarted
  <2> QED
    BY <2>2, <2>3, <2>4, <2>5, <2>6 DEF CallGood
<1>16. ASSUME NEW y \in T PROVE Apart(x, y)
  <2>1. ~OfStart(x) /\ x.kind # "stop_kernel" /\ x.kind # "open_py"
    BY <1>4 DEF OfStart, StartKinds
  <2>2. OfRun(y) => x.run # y.run /\ (x.session # 0 => x.session # y.session)
    BY <1>4, <1>5, <1>12
  <2>3. y.kind = "open_py" => x.session # y.start
    BY <1>4, <1>13 DEF OfStart, StartKinds
  <2>4. y.kind = "stop_kernel" => x.session # y.session
    BY <1>4, <1>13 DEF OfStart, StartKinds
  <2> QED
    BY <2>1, <2>2, <2>3, <2>4 DEF Apart
<1> QED
  BY <1>11, <1>14, <1>15, <1>16 DEF Good, e, x

(* A start or stop is begun: its number is new, and so is its session.     *)
LEMMA StartBegun ==
    ASSUME NEW b \in BufferState, b.starting = NoStart, NEW T, T \subseteq Call,
           NEW k \in Settings, NEW ls \in 0..MaxStarts, ls + 1 <= MaxStarts,
           Good(b, T, k, ls), NEW h \in Starting, h.id = ls + 1, h.held => b.session # 0
    PROVE  LET e == [b EXCEPT !.starting = h] IN
           /\ Good(e, T, k, ls + 1)
           /\ \A y \in T : OfStart(y) => y.start # ls + 1
<1> DEFINE e == [b EXCEPT !.starting = h]
           id == ls + 1
<1>1. /\ e.session = b.session /\ e.starting = h /\ e.queue = b.queue
      /\ e.inFlight = b.inFlight
  BY DEF BufferState
<1> HIDE DEF e
<1>2. ls \in Nat /\ b.session \in Nat /\ b.starting.id = 0 /\ b.starting.held = FALSE
  BY BoundsAssumption, BufferFields, NoStartFields
<1>3. BufferGood(b, k, ls) /\ QueueGood(b, k, ls)
  BY DEF Good, BufferGood
<1>4. \A r : Before(r, e, k) <=> Before(r, b, k)
  BY <1>1 DEF Before
<1>5. BufferGood(e, k, id)
  <2>1. b.session <= id /\ h.id <= id /\ (h.held => b.session # 0)
    BY <1>2, <1>3 DEF QueueGood
  <2>2. QueueGood(e, k, id)
    BY <1>1, <1>3, <2>1 DEF QueueGood
  <2> QED
    BY <1>1, <1>3, <1>4, <2>2 DEF BufferGood
<1>6. ASSUME NEW y \in T PROVE CallGood(y, e, k, id) /\ (OfStart(y) => y.start # id)
  <2>1. CallGood(y, b, k, ls) /\ y \in Call
    BY DEF Good
  <2>2. y.session \in Nat /\ y.start \in Nat
    BY <2>1, CallFields, BoundsAssumption
  <2>3. RunGood(y, e, k, id)
    <3>1. y.session <= ls => y.session <= id
      BY <1>2, <2>2
    <3> QED
      BY <1>1, <1>4, <2>1, <3>1 DEF CallGood, RunGood
  <2>4. ASSUME OfStart(y)
        PROVE  y.start \in 1..id /\ y.start # id
               /\ (y.kind = "open_py" => y.start # b.session)
               /\ (y.kind = "stop_kernel" => y.session \in 1..id /\ y.session # b.session)
    <3>1. StartGood(y, b, ls)
      BY <2>1 DEF CallGood
    <3>2. y.start \in 1..ls /\ (y.kind = "stop_kernel" => y.session \in 1..ls)
      BY <2>4, <3>1 DEF StartGood
    <3>3. y.kind = "open_py" => y.start # b.session
      BY <2>4, <3>1 DEF StartGood
    <3>4. y.kind = "stop_kernel" => y.session # b.session
      BY <1>2, <2>2, <2>4, <3>1, <3>2 DEF StartGood
    <3> QED
      BY <1>2, <3>2, <3>3, <3>4
  <2>5. StartGood(y, e, id)
    BY <1>1, <2>4 DEF StartGood
  <2>6. DropGood(y, e, k)
    BY <1>1, <2>1 DEF CallGood, DropGood
  <2> QED
    BY <2>1, <2>3, <2>4, <2>5, <2>6 DEF CallGood
<1> QED
  BY <1>5, <1>6 DEF Good, e

LEMMA StartCallFields ==
    ASSUME NEW kind, NEW c, NEW id, NEW s
    PROVE  LET x == StartCall(kind, c, id, s) IN
           /\ x.kind = kind /\ x.client = c /\ x.start = id /\ x.session = s
           /\ x.run = 0 /\ x.queue = 0 /\ x.stage = "sent"
BY DEF StartCall, NoCall

(* The call of a start that has just begun.                                *)
LEMMA StartSent ==
    ASSUME NEW b \in BufferState, b.starting = NoStart, NEW T, T \subseteq Call,
           NEW k \in Settings, NEW ls \in 0..MaxStarts, ls + 1 <= MaxStarts, SlotsGood(ls),
           Good(b, T, k, ls), NEW h \in Starting, h.id = ls + 1, ~h.held,
           NEW kind \in {"open_py", "start_kernel", "stop_kernel"}, NEW c \in 0..MaxClients,
           kind = "open_py" => b.session = 0,
           kind = "stop_kernel" => b.session # 0 /\ b.inFlight = 0
    PROVE  LET e == [b EXCEPT !.starting = h]
               x == StartCall(kind, c, ls + 1, b.session)
           IN  /\ CallGood(x, e, k, ls + 1)
               /\ \A y \in T : Apart(x, y)
<1> DEFINE e == [b EXCEPT !.starting = h]
           id == ls + 1
           x == StartCall(kind, c, ls + 1, b.session)
<1>1. /\ e.session = b.session /\ e.starting = h /\ e.queue = b.queue
      /\ e.inFlight = b.inFlight
  BY DEF BufferState
<1>2. x.kind = kind /\ x.start = id /\ x.session = b.session /\ x.stage = "sent"
  BY StartCallFields
<1> HIDE DEF e, x
<1>3. ls \in Nat /\ b.session \in Nat /\ b.session <= ls /\ b.inFlight \in Nat
  BY BoundsAssumption, BufferFields DEF Good, BufferGood, QueueGood
<1>4. OfStart(x) /\ ~OfRun(x) /\ x.kind # "update_cell_source" /\ x.kind # "execute"
  BY <1>2 DEF OfStart, OfRun, StartKinds
<1>5. CallGood(x, e, k, id)
  <2>1. RunGood(x, e, k, id) /\ DropGood(x, e, k)
    BY <1>4 DEF RunGood, DropGood
  <2>2. StartGood(x, e, id)
    <3>1. x.start \in 1..id /\ (b.session # 0 => b.session \in 1..id)
      BY <1>2, <1>3
    <3>2. x.kind = "open_py" => x.start # e.session /\ (x.start = e.starting.id => e.session = 0)
      BY <1>1, <1>2, <1>3
    <3> QED
      BY <1>1, <1>2, <3>1, <3>2 DEF StartGood
  <2>3. AnswerGood(x, k)
    <3> SUFFICES ASSUME NEW f \in k.frames, Answers(f) PROVE f.call # x
      BY <1>4 DEF AnswerGood
    <3> QED
      BY <1>4 DEF Answers
  <2>4. ServedGood(x)
    <3>1. id \in Starts
      BY <1>3 DEF Starts
    <3>2. Fresh(id)
      BY <1>3, <3>1 DEF SlotsGood
    <3> QED
      BY <1>2, <1>4, <3>2 DEF ServedGood, Unsent, Unstarted
  <2> QED
    BY <2>1, <2>2, <2>3, <2>4 DEF CallGood
<1>6. ASSUME NEW y \in T PROVE Apart(x, y)
  <2>1. CallGood(y, b, k, ls) /\ y \in Call
    BY DEF Good
  <2>2. y.session \in Nat /\ y.start \in Nat /\ y.run \in Nat /\ (OfRun(y) => y.run # 0)
    BY <2>1, CallFields, BoundsAssumption
  <2>3. OfStart(y) => y.start # x.start
    BY <1>2, StartBegun
  <2>4. OfRun(y) => y.session <= ls
    BY <2>1 DEF CallGood, RunGood
  <2>5. y.kind = "stop_kernel" => y.session <= ls
    BY <1>3, <2>1 DEF CallGood, StartGood, OfStart, StartKinds
  <2>6. x.kind = "open_py" /\ (OfRun(y) \/ y.kind = "stop_kernel") => y.session # x.start
    BY <1>2, <1>3, <2>2, <2>4, <2>5
  <2>7. y.kind = "open_py" /\ x.kind = "stop_kernel" => x.session # y.start
    BY <1>2, <2>1 DEF CallGood, StartGood, OfStart, StartKinds
  <2>8. x.kind = "stop_kernel" /\ OfRun(y) => y.session # x.session
    BY <1>2, <2>1, <2>2 DEF CallGood, RunGood
  <2> QED
    BY <1>4, <2>3, <2>6, <2>7, <2>8 DEF Apart
<1> QED
  BY <1>5, <1>6 DEF e, x

(* A stop that was held is sent, now that no run is in flight.             *)
LEMMA StopReleased ==
    ASSUME NEW b, Sound(b), b.starting.held, b.inFlight = 0,
           NEW T, T \subseteq Call, NEW k \in Settings, NEW ls \in 0..MaxStarts,
           Good(b, T, k, ls)
    PROVE  LET e == [b EXCEPT !.starting.held = FALSE]
               x == StartCall("stop_kernel", b.starting.client, b.starting.id, b.session)
           IN  /\ Good(e, T, k, ls)
               /\ CallGood(x, e, k, ls)
               /\ \A y \in T : Apart(x, y)
<1> DEFINE h == [b.starting EXCEPT !.held = FALSE]
           e == [b EXCEPT !.starting.held = FALSE]
           x == StartCall("stop_kernel", b.starting.client, b.starting.id, b.session)
<1>1. h.id = b.starting.id /\ h.held = FALSE
  BY BufferFields DEF Starting, Sound
<1>2. e = [b EXCEPT !.starting = h]
  OBVIOUS
<1> HIDE DEF h
<1>3. /\ e.session = b.session /\ e.starting = h /\ e.queue = b.queue
      /\ e.inFlight = b.inFlight
  BY <1>2 DEF BufferState, Sound
<1>4. x.kind = "stop_kernel" /\ x.start = b.starting.id /\ x.session = b.session
  BY StartCallFields
<1> HIDE DEF e, x
<1>5. b \in BufferState /\ b.starting.id # 0
  BY NoStartFields DEF Sound
<1>6. /\ ls \in Nat /\ b.session \in Nat /\ b.session <= ls /\ b.session # 0
      /\ b.starting.id \in 1..ls
  BY <1>5, BoundsAssumption, BufferFields DEF Good, BufferGood, QueueGood
<1>7. OfStart(x) /\ ~OfRun(x)
  BY <1>4 DEF OfStart, OfRun, StartKinds
<1>8. BufferGood(b, k, ls) /\ QueueGood(b, k, ls)
  BY DEF Good, BufferGood
<1>9. \A r : Before(r, e, k) <=> Before(r, b, k)
  BY <1>3 DEF Before
<1>10. BufferGood(e, k, ls)
  <2>1. QueueGood(e, k, ls)
    BY <1>1, <1>3, <1>8 DEF QueueGood
  <2> QED
    BY <1>3, <1>8, <1>9, <2>1 DEF BufferGood
<1>11. ASSUME NEW y \in T
       PROVE  /\ CallGood(y, e, k, ls)
              /\ OfStart(y) => y.start # b.starting.id
              /\ y.kind = "open_py" => y.start # b.session
              /\ OfRun(y) => y.session # b.session
  <2>1. CallGood(y, b, k, ls) /\ y \in Call
    BY DEF Good
  <2>2. y.session \in Nat /\ y.run \in Nat /\ (OfRun(y) => y.run # 0)
    BY <2>1, CallFields, BoundsAssumption
  <2>3. RunGood(y, e, k, ls)
    BY <1>3, <1>9, <2>1 DEF CallGood, RunGood
  <2>4. StartGood(y, e, ls)
    BY <1>1, <1>3, <2>1 DEF CallGood, StartGood
  <2>5. DropGood(y, e, k)
    BY <1>3, <2>1 DEF CallGood, DropGood
  <2>6. OfStart(y) => y.start # b.starting.id
    BY <2>1 DEF CallGood, StartGood
  <2>7. y.kind = "open_py" => y.start # b.session
    BY <2>1 DEF CallGood, StartGood, OfStart, StartKinds
  <2>8. OfRun(y) => y.session # b.session
    BY <1>6, <2>1, <2>2 DEF CallGood, RunGood
  <2> QED
    BY <2>1, <2>3, <2>4, <2>5, <2>6, <2>7, <2>8 DEF CallGood
<1>12. CallGood(x, e, k, ls)
  <2>1. RunGood(x, e, k, ls) /\ DropGood(x, e, k)
    BY <1>7 DEF RunGood, DropGood
  <2>2. StartGood(x, e, ls)
    BY <1>1, <1>3, <1>4, <1>6 DEF StartGood
  <2>3. AnswerGood(x, k)
    BY <1>4 DEF AnswerGood, Answers
  <2>4. ServedGood(x)
    BY <1>4 DEF ServedGood, Unsent, Unstarted
  <2> QED
    BY <2>1, <2>2, <2>3, <2>4 DEF CallGood
<1>13. ASSUME NEW y \in T PROVE Apart(x, y)
  BY <1>4, <1>7, <1>11 DEF Apart
<1> QED
  BY <1>10, <1>11, <1>12, <1>13 DEF Good, e, x

(* A session is opened for the start in flight.                            *)
LEMMA SessionOpened ==
    ASSUME NEW b, Sound(b), NEW T, T \subseteq Call, NEW k \in Settings,
           NEW ls \in 0..MaxStarts, Good(b, T, k, ls),
           NEW x \in Call, x.kind = "open_py", x.start = b.starting.id,
           StartGood(x, b, ls), \A y \in T : Apart(x, y),
           NEW e \in BufferState, e.session = x.start, e.starting.id = b.starting.id,
           e.starting.held = b.starting.held, e.queue = b.queue, e.inFlight = b.inFlight
    PROVE  Good(e, T, k, ls)
<1>1. OfStart(x)
  BY DEF OfStart, StartKinds
<1>2. x.start \in 1..ls /\ b.session = 0 /\ ~b.starting.held
  BY <1>1 DEF StartGood
<1>3. BufferGood(b, k, ls) /\ QueueGood(b, k, ls) /\ ls \in Nat
  BY BoundsAssumption DEF Good, BufferGood
<1>4. \A r : Before(r, e, k) <=> Before(r, b, k)
  BY DEF Before
<1>5. BufferGood(e, k, ls)
  <2>1. QueueGood(e, k, ls)
    BY <1>2, <1>3 DEF QueueGood
  <2> QED
    BY <1>3, <1>4, <2>1 DEF BufferGood
<1>6. ASSUME NEW y \in T PROVE CallGood(y, e, k, ls)
  <2>1. CallGood(y, b, k, ls) /\ y \in Call /\ Apart(x, y)
    BY DEF Good
  <2>2. RunGood(y, e, k, ls)
    <3>1. OfRun(y) => y.session # x.start
      BY <2>1 DEF Apart
    <3>2. y.session \in {0, b.session} => y.session \in {0, e.session}
      BY <1>2
    <3> QED
      BY <1>4, <2>1, <3>1, <3>2 DEF CallGood, RunGood
  <2>3. StartGood(y, e, ls)
    <3>1. OfStart(y) => y.start # x.start
      BY <1>1, <2>1 DEF Apart
    <3>2. y.kind = "stop_kernel" => y.session # x.start
      BY <2>1 DEF Apart
    <3> QED
      BY <2>1, <3>1, <3>2 DEF CallGood, StartGood
  <2>4. DropGood(y, e, k)
    BY <2>1 DEF CallGood, DropGood
  <2> QED
    BY <2>1, <2>2, <2>3, <2>4 DEF CallGood
<1> QED
  BY <1>5, <1>6 DEF Good

-----------------------------------------------------------------------------
(* Calls that take the place of another, and calls of no consequence.      *)

(* The next call of a start, which has got its kernel.                     *)
LEMMA StartGoesOn ==
    ASSUME NEW x \in Call, NEW b, NEW k \in Settings, NEW ls, NEW T,
           OfStart(x), x.start \in 1..ls, b.starting.held => x.start # b.starting.id,
           \A y \in T : Apart(x, y),
           NEW kind \in {"start_kernel", "execute_silent"},
           kind = "start_kernel" => Fresh(x.start), NEW c, NEW s
    PROVE  LET z == StartCall(kind, c, x.start, s) IN
           CallGood(z, b, k, ls) /\ \A y \in T : Apart(z, y)
<1> DEFINE z == StartCall(kind, c, x.start, s)
<1>1. z.kind = kind /\ z.start = x.start
  BY StartCallFields
<1> HIDE DEF z
<1>2. OfStart(z) /\ ~OfRun(z) /\ z.kind # "open_py" /\ z.kind # "stop_kernel"
  BY <1>1 DEF OfStart, OfRun, StartKinds
<1>3. StartGood(z, b, ls)
  BY <1>1, <1>2 DEF StartGood
<1>4. RunGood(z, b, k, ls) /\ DropGood(z, b, k)
  BY <1>2 DEF RunGood, DropGood
<1>5. AnswerGood(z, k) /\ ServedGood(z)
  BY <1>1 DEF AnswerGood, Answers, ServedGood, Unsent, Unstarted
<1>6. ASSUME NEW y \in T PROVE Apart(z, y)
  <2>1. OfStart(y) => y.start # x.start
    BY DEF Apart
  <2> QED
    BY <1>1, <1>2, <2>1 DEF Apart, OfStart
<1> QED
  BY <1>3, <1>4, <1>5, <1>6 DEF CallGood, z

LEMMA OtherCall ==
    ASSUME NEW x, x.kind \in {"none", "close"}, NEW b, NEW k, NEW ls
    PROVE  CallGood(x, b, k, ls) /\ \A y : Apart(x, y)
<1>1. ~OfRun(x) /\ ~OfStart(x) /\ x.kind # "open_py" /\ x.kind # "stop_kernel"
  BY DEF OfRun, OfStart, StartKinds
<1>2. AnswerGood(x, k) /\ ServedGood(x)
  BY DEF AnswerGood, Answers, ServedGood, Unsent, Unstarted
<1>3. RunGood(x, b, k, ls) /\ StartGood(x, b, ls) /\ DropGood(x, b, k)
  BY <1>1 DEF RunGood, StartGood, DropGood
<1> QED
  BY <1>1, <1>2, <1>3 DEF CallGood, Apart

(* The source of the run in flight is with the backend: its execute is     *)
(* sent.                                                                   *)
ExecuteCall(x, b) == [x EXCEPT !.kind = "execute", !.session = b.session, !.stage = "sent"]

LEMMA ExecuteReady ==
    ASSUME DeliveredTyped, NEW b, Sound(b), NEW T, T \subseteq Call, NEW k \in Settings,
           NEW ls \in 0..MaxStarts, Good(b, T, k, ls),
           NEW x \in Call, x.kind = "update_cell_source", CallGood(x, b, k, ls),
           x.queue = b.queue.id, \A y \in T : Apart(x, y),
           x.session # 0, source[x.session] \in {0, x.run}
    PROVE  LET z == ExecuteCall(x, b) IN
           /\ z \in Call
           /\ CallGood(z, b, k, ls)
           /\ \A y \in T : Apart(z, y)
<1> DEFINE z == ExecuteCall(x, b)
<1>1. /\ x \in Request /\ x.run \in 0..MaxRuns /\ x.run \in Nat /\ x.run # 0
      /\ b.session \in 0..MaxStarts
  BY CallFields, BoundsAssumption, BufferFields DEF OfRun, Sound
<1>2. /\ OfRun(x) /\ RunGood(x, b, k, ls) /\ DropGood(x, b, k) /\ ServedGood(x)
  BY DEF CallGood, OfRun
<1>3. x.run = b.inFlight /\ x.session = b.session /\ Before(x.run, b, k)
      /\ x.queue \in 1..k.issued /\ x.session <= ls
  BY <1>2 DEF RunGood
<1>4. /\ z.kind = "execute" /\ z.session = x.session /\ z.stage = "sent"
      /\ z.run = x.run /\ z.queue = x.queue
  BY <1>1, <1>3 DEF ExecuteCall, Request
<1>5. z \in Request
  BY <1>1, <1>3 DEF ExecuteCall, Request, Kinds
<1>6. z \in Call
  BY <1>1, <1>4, <1>5 DEF Call
<1> HIDE DEF z
<1>7. OfRun(z) /\ ~OfStart(z)
  BY <1>4 DEF OfRun, OfStart, StartKinds
<1>8. CallGood(z, b, k, ls)
  <2>1. RunGood(z, b, k, ls)
    BY <1>3, <1>4 DEF RunGood
  <2>2. StartGood(z, b, ls)
    BY <1>7 DEF StartGood
  <2>3. DropGood(z, b, k)
    BY <1>2, <1>4 DEF DropGood
  <2>4. AnswerGood(z, k)
    BY <1>4 DEF AnswerGood, Answers
  <2>5. ServedGood(z)
    <3>1. ~Delivered(x.run)
      BY <1>2 DEF ServedGood
    <3>2. ASSUME NEW n \in Starts, NEW i \in 1..Len(delivered[n])
          PROVE  delivered[n][i].run < x.run
      <4> DEFINE r == delivered[n][i].run
      <4>0. r \in Runs
        BY DeliveredRuns
      <4>1. Delivered(r)
        BY DEF Delivered
      <4> HIDE DEF r
      <4>2. r <= b.inFlight
        BY <1>1, <1>3, <4>0, <4>1 DEF Good, BufferGood, Before
      <4>3. r # x.run
        BY <3>1, <4>1
      <4>4. r \in Nat
        BY <4>0, BoundsAssumption DEF Runs
      <4>5. r < x.run
        BY <1>1, <1>3, <4>2, <4>3, <4>4
      <4> QED
        BY <4>5 DEF r
    <3> QED
      BY <1>4, <3>1, <3>2 DEF ServedGood, Unsent, Unstarted
  <2> QED
    BY <2>1, <2>2, <2>3, <2>4, <2>5 DEF CallGood
<1>9. ASSUME NEW y \in T PROVE Apart(z, y)
  <2>1. Apart(x, y)
    BY <1>9
  <2>2. OfRun(y) => y.run # x.run /\ (x.session # 0 => y.session # x.session)
    BY <1>2, <2>1 DEF Apart
  <2>3. y.kind = "open_py" => x.session # y.start
    BY <1>2, <2>1 DEF Apart
  <2>4. y.kind = "stop_kernel" => x.session # y.session
    BY <1>2, <2>1 DEF Apart
  <2> QED
    BY <1>4, <1>7, <2>2, <2>3, <2>4 DEF Apart
<1> QED
  BY <1>6, <1>8, <1>9 DEF z

-----------------------------------------------------------------------------
(* What a handler finds, and what it leaves.                               *)

(* The buffer state b and the calls and callbacks w found by a handler.    *)
Found(b, w, k) ==
    /\ AllApart(Lanes(w.calls, w.loop))
    /\ Good(b, Within(Lanes(w.calls, w.loop)), k, lastStart)
    /\ LoopGood(w.loop)

(* What it leaves: the queue with the number q is still the buffer's or    *)
(* has been given up, and then no run is sent.                             *)
Left(q, w, k) ==
    /\ AllApart(Lanes(calls', loop'))
    /\ Good(buf', Within(Lanes(calls', loop')), k, lastStart')
    /\ LoopGood(loop')
    /\ SlotsGood(lastStart')
    /\ buf'.queue.id \in {q, 0}
    /\ buf'.queue.id = 0 =>
        \A y \in Within(Lanes(calls', loop')) :
            OfRun(y) => y \in Within(Lanes(w.calls, w.loop))

LEMMA CallbacksAppend ==
    ASSUME NEW l \in Seq(Frame), NEW f \in Frame
    PROVE  Callbacks(Append(l, f)) = Append(Callbacks(l), f.call)
<1> DEFINE m == Append(l, f)
           n == Len(l)
<1>1. n \in Nat /\ m \in Seq(Frame) /\ Len(m) = n + 1 /\ m[n + 1] = f /\ \A i \in 1..n : m[i] = l[i]
  OBVIOUS
<1>2. f.call \in Call
  BY DEF Frame
<1>3. Callbacks(l) \in Seq(Call) /\ Len(Callbacks(l)) = n /\ \A j \in 1..n : Callbacks(l)[j] = l[j].call
  BY CallbacksTyped
<1>4. Callbacks(m) \in Seq(Call) /\ Len(Callbacks(m)) = n + 1
      /\ \A j \in 1..(n + 1) : Callbacks(m)[j] = m[j].call
  BY <1>1, CallbacksTyped
<1> HIDE DEF m, n
<1> DEFINE s == Append(Callbacks(l), f.call)
<1>5. s \in Seq(Call) /\ Len(s) = n + 1 /\ s[n + 1] = f.call /\ \A j \in 1..n : s[j] = l[j].call
  BY <1>2, <1>3
<1> HIDE DEF s
<1>6. \A j \in 1..(n + 1) : Callbacks(m)[j] = s[j]
  <2>1. \A j \in 1..(n + 1) : j = n + 1 \/ j \in 1..n
    BY <1>1
  <2> QED
    BY <1>1, <1>4, <1>5, <2>1
<1>7. Callbacks(m) = s
  BY <1>4, <1>5, <1>6, SeqEqual
<1> QED
  BY <1>7 DEF m, s

LEMMA SendLanes ==
    ASSUME NEW x \in Call, NEW w \in Waits, Send(x, w)
    PROVE  LET L == Lanes(w.calls, w.loop)
               M == Lanes(calls', loop')
           IN  M = L \/ \E c \in 0..MaxClients : M = [L EXCEPT ![c] = Append(L[c], x)]
<1> DEFINE L == Lanes(w.calls, w.loop)
           M == Lanes(calls', loop')
<1>1. w.loop \in Seq(Frame) /\ w.calls \in [Clients -> Seq(Call)]
  BY DEF Waits
<1>2. 0 \in 0..MaxClients /\ (\A c \in Clients : c \in 0..MaxClients /\ c # 0)
      /\ (\A c \in 0..MaxClients : c # 0 => c \in Clients)
  BY BoundsAssumption DEF Clients
<1>3. CASE exited[x.client] \/ closed[x.client]
  <2>1. loop' = Append(w.loop, Reply(x, "gone")) /\ calls' = w.calls
    BY <1>3 DEF Send
  <2>2. Reply(x, "gone") \in Frame /\ Reply(x, "gone").call = x
    BY ReplyTyped DEF Reply
  <2>3. Callbacks(loop') = Append(Callbacks(w.loop), x)
    BY <1>1, <2>1, <2>2, CallbacksAppend
  <2>4. M = [L EXCEPT ![0] = Append(L[0], x)]
    BY <1>2, <2>1, <2>3 DEF Lanes
  <2> QED
    BY <1>2, <2>4
<1>4. CASE ~(exited[x.client] \/ closed[x.client])
  <2>1. loop' = w.loop /\ calls' = [w.calls EXCEPT ![x.client] = Append(w.calls[x.client], x)]
    BY <1>4 DEF Send
  <2>2. CASE x.client \in Clients
    <3>1. M = [L EXCEPT ![x.client] = Append(L[x.client], x)]
      BY <1>1, <1>2, <2>1, <2>2 DEF Lanes
    <3> QED
      BY <1>2, <2>2, <3>1
  <2>3. CASE x.client \notin Clients
    <3>1. calls' = w.calls
      BY <1>1, <2>1, <2>3
    <3> QED
      BY <2>1, <3>1
  <2> QED
    BY <2>2, <2>3
<1> QED
  BY <1>3, <1>4

(* The callback of a call that fails at once knows it.                     *)
LEMMA SendLoop ==
    ASSUME NEW x \in Call, NEW w \in Waits, Send(x, w), LoopGood(w.loop)
    PROVE  LoopGood(loop')
<1>1. w.loop \in Seq(Frame)
  BY DEF Waits
<1> DEFINE f == Reply(x, "gone")
<1>2. f.err = "gone"
  BY DEF Reply
<1> HIDE DEF f
<1>3. CASE loop' = Append(w.loop, f)
  <2>1. Len(loop') = Len(w.loop) + 1 /\ loop'[Len(w.loop) + 1] = f
        /\ \A i \in 1..Len(w.loop) : loop'[i] = w.loop[i]
    BY <1>1, <1>3
  <2>2. Len(w.loop) \in Nat
    BY <1>1
  <2> QED
    BY <1>2, <2>1, <2>2 DEF LoopGood
<1> QED
  BY <1>3 DEF Send, f

LEMMA LeftSent ==
    ASSUME NEW b, NEW w \in Waits, NEW k, NEW ls, NEW x \in Call, NEW q,
           AllApart(Lanes(w.calls, w.loop)), LoopGood(w.loop),
           Good(b, Within(Lanes(w.calls, w.loop)), k, ls),
           CallGood(x, b, k, ls), \A y \in Within(Lanes(w.calls, w.loop)) : Apart(x, y),
           Send(x, w), buf' = b, lastStart' = ls, SlotsGood(ls), b.queue.id \in {q, 0},
           OfRun(x) => b.queue.id # 0
    PROVE  Left(q, w, k)
<1> DEFINE L == Lanes(w.calls, w.loop)
           M == Lanes(calls', loop')
<1>1. L \in AllLanes
  BY LanesTyped
<1>2. M = L \/ \E c \in 0..MaxClients : M = [L EXCEPT ![c] = Append(L[c], x)]
  BY SendLanes
<1>3. LoopGood(loop')
  BY SendLoop
<1> HIDE DEF L, M
<1>4. AllApart(M) /\ \A z \in Within(M) : z = x \/ z \in Within(L)
  <2>1. CASE M = L
    BY <2>1 DEF L
  <2>2. ASSUME NEW c \in 0..MaxClients, M = [L EXCEPT ![c] = Append(L[c], x)]
        PROVE  AllApart(M) /\ \A z \in Within(M) : z = x \/ z \in Within(L)
    <3>1. AllApart(L) /\ \A y \in Within(L) : Apart(x, y)
      BY DEF L
    <3> QED
      BY <1>1, <2>2, <3>1, LaneAppended
  <2> QED
    BY <1>2, <2>1, <2>2
<1>5. Good(b, Within(M), k, ls)
  BY <1>4 DEF Good, L
<1>6. b.queue.id = 0 => \A y \in Within(M) : OfRun(y) => y \in Within(L)
  BY <1>4
<1> QED
  BY <1>3, <1>4, <1>5, <1>6 DEF Left, L, M

LEMMA LeftAlone ==
    ASSUME NEW b, NEW w, NEW k, Found(b, w, k), NEW q, b.queue.id \in {q, 0},
           SlotsGood(lastStart), Leave(b, w)
    PROVE  Left(q, w, k)
BY DEF Left, Leave, Found

-----------------------------------------------------------------------------
(* The steps the handlers are made of.                                     *)

Backed(k) ==
    /\ k \in Settings
    /\ lastStart \in 0..MaxStarts
    /\ SlotsGood(lastStart)
    /\ DeliveredTyped

LEMMA DiscardFields ==
    ASSUME NEW b \in BufferState
    PROVE  /\ Discard(b) \in BufferState
           /\ Discard(b).queue = NoQueue /\ Discard(b).queue.id = 0
           /\ Discard(b).session = b.session /\ Discard(b).starting = b.starting
           /\ Discard(b).inFlight = b.inFlight
<1>1. Discard(b) \in BufferState
  BY NoQueueTyped DEF Discard, BufferState
<1>2. /\ Discard(b).queue = NoQueue /\ Discard(b).session = b.session
      /\ Discard(b).starting = b.starting /\ Discard(b).inFlight = b.inFlight
  BY DEF Discard, BufferState
<1> QED
  BY <1>1, <1>2, NoQueueFields

LEMMA FoundCalls ==
    ASSUME NEW b, NEW w \in Waits, NEW k, Found(b, w, k)
    PROVE  /\ Good(b, Within(Lanes(w.calls, w.loop)), k, lastStart)
           /\ Within(Lanes(w.calls, w.loop)) \subseteq Call
BY LanesTyped DEF Found

LEMMA DiscardFound ==
    ASSUME NEW b \in BufferState, NEW w \in Waits, NEW k, Backed(k), Found(b, w, k)
    PROVE  Found(Discard(b), w, k)
<1> DEFINE T == Within(Lanes(w.calls, w.loop))
<1>1. Good(b, T, k, lastStart) /\ T \subseteq Call /\ k \in Settings /\ lastStart \in 0..MaxStarts
  BY FoundCalls DEF Backed
<1> HIDE DEF T
<1>2. Good(Discard(b), T, k, lastStart)
  BY <1>1, DiscardFields, Eased
<1> QED
  BY <1>2 DEF Found, T

LEMMA DiscardLeft ==
    ASSUME NEW b \in BufferState, NEW w \in Waits, NEW k, Backed(k), Found(b, w, k),
           NEW q, Leave(Discard(b), w)
    PROVE  Left(q, w, k)
BY DiscardFound, DiscardFields, LeftAlone DEF Backed

LEMMA PumpLeft ==
    ASSUME NEW b, Sound(b), NEW w \in Waits, NEW k, Backed(k), Found(b, w, k),
           NEW q, b.queue.id \in {q, 0}, PumpFrom(b, w)
    PROVE  Left(q, w, k)
<1> DEFINE T == Within(Lanes(w.calls, w.loop))
<1>0. Good(b, T, k, lastStart) /\ T \subseteq Call /\ b \in BufferState
  BY FoundCalls DEF Sound
<1>1. CASE ~Ready(b)
  BY <1>1, LeftAlone DEF PumpFrom, Backed
<1>2. ASSUME Ready(b), NEW c \in Clients, buf' = TakeRun(b), Send(UpdateCall(c, b), w),
             lastStart' = lastStart
      PROVE  Left(q, w, k)
  <2> DEFINE x == UpdateCall(c, b)
  <2>1. b.queue.runs # <<>> /\ b.queue.id # 0
    BY <1>2 DEF Ready, Sound
  <2>2. x \in Call
    BY <1>0, <2>1, UpdateCallTyped
  <2>3. TakeRun(b).queue.id = b.queue.id
    BY <1>0 DEF TakeRun, BufferState, Queue
  <2>4. /\ Good(TakeRun(b), T, k, lastStart)
        /\ CallGood(x, TakeRun(b), k, lastStart)
        /\ \A y \in T : Apart(x, y)
    BY <1>0, <1>2, RunTaken DEF Backed
  <2> HIDE DEF x
  <2>5. SlotsGood(lastStart) /\ AllApart(Lanes(w.calls, w.loop)) /\ LoopGood(w.loop)
    BY DEF Backed, Found
  <2>6. Send(x, w)
    BY <1>2 DEF x
  <2> QED
    BY <1>2, <2>1, <2>2, <2>3, <2>4, <2>5, <2>6, LeftSent
<1>3. CASE Leave(Discard(b), w)
  BY <1>0, <1>3, DiscardLeft
<1> QED
  BY <1>1, <1>2, <1>3 DEF PumpFrom

(* A change of what only the start's callbacks see.                        *)
LEMMA WaitingFound ==
    ASSUME NEW b \in BufferState, NEW w \in Waits, NEW k, Backed(k), Found(b, w, k),
           NEW e \in BufferState, e.queue = b.queue, e.inFlight = b.inFlight,
           e.session = b.session, e.starting.id = b.starting.id,
           e.starting.held = b.starting.held
    PROVE  Found(e, w, k)
<1> DEFINE T == Within(Lanes(w.calls, w.loop))
<1>1. Good(b, T, k, lastStart) /\ T \subseteq Call /\ k \in Settings /\ lastStart \in 0..MaxStarts
  BY FoundCalls DEF Backed
<1> HIDE DEF T
<1>2. Good(e, T, k, lastStart)
  BY <1>1, Eased
<1> QED
  BY <1>2 DEF Found, T

LEMMA WaitingFields ==
    ASSUME NEW b, Sound(b), b.starting # NoStart, NEW v \in BOOLEAN
    PROVE  LET e == [b EXCEPT !.starting.waiting = v] IN
           /\ e \in BufferState
           /\ e.queue = b.queue /\ e.inFlight = b.inFlight /\ e.session = b.session
           /\ e.starting.id = b.starting.id /\ e.starting.held = b.starting.held
<1> DEFINE h == [b.starting EXCEPT !.waiting = v]
           e == [b EXCEPT !.starting.waiting = v]
<1>1. h.id = b.starting.id /\ h.held = b.starting.held
  BY BufferFields DEF Sound, Starting
<1>2. e = [b EXCEPT !.starting = h] /\ b \in BufferState
  BY DEF Sound
<1> HIDE DEF h
<1>3. /\ e.queue = b.queue /\ e.inFlight = b.inFlight /\ e.session = b.session
      /\ e.starting = h
  BY <1>2 DEF BufferState
<1>4. e \in BufferState
  BY WaitingSound DEF Sound
<1> QED
  BY <1>1, <1>3, <1>4

LEMMA StartLeft ==
    ASSUME NEW b, Sound(b), NEW callback \in BOOLEAN, NEW w \in Waits, NEW k, Backed(k),
           Found(b, w, k), NEW q, b.queue.id \in {q, 0}, lastRun \in 0..MaxRuns,
           StartFrom(b, callback, w)
    PROVE  Left(q, w, k)
<1> DEFINE T == Within(Lanes(w.calls, w.loop))
<1>0. /\ Good(b, T, k, lastStart) /\ T \subseteq Call /\ b \in BufferState
      /\ k \in Settings /\ lastStart \in 0..MaxStarts /\ SlotsGood(lastStart)
  BY FoundCalls DEF Backed, Sound
<1>1. CASE b.starting # NoStart
  <2> DEFINE e == [b EXCEPT !.starting.waiting = TRUE]
  <2>1. Leave(e, w)
    BY <1>1 DEF StartFrom
  <2>2. Found(e, w, k) /\ e.queue = b.queue
    BY <1>0, <1>1, WaitingFields, WaitingFound
  <2> HIDE DEF e
  <2> QED
    BY <1>0, <2>1, <2>2, LeftAlone
<1>2. CASE b.starting = NoStart /\ b.started /\ b.session # 0
  <2>1. PumpFrom(b, w) \/ Leave(b, w)
    BY <1>2 DEF StartFrom
  <2> QED
    BY <1>0, <2>1, PumpLeft, LeftAlone
<1>3. CASE b.starting = NoStart /\ ~(b.started /\ b.session # 0)
  <2> DEFINE id == lastStart + 1
             kind == IF b.session # 0 THEN "start_kernel" ELSE "open_py"
             start(c) == [id |-> id, kind |-> "start", client |-> c,
                          launching |-> b.session # 0,
                          held |-> FALSE, waiting |-> callback, since |-> lastRun]
  <2>1. CASE Leave(Discard(b), w)
    BY <1>0, <2>1, DiscardLeft
  <2>2. ASSUME NEW c \in Clients, id <= MaxStarts, buf' = [b EXCEPT !.starting = start(c)],
               Send(StartCall(kind, c, id, b.session), w), lastStart' = id
        PROVE  Left(q, w, k)
    <3> DEFINE h == start(c)
               x == StartCall(kind, c, id, b.session)
    <3>1. id \in 0..MaxStarts /\ id # 0 /\ c \in 0..MaxClients /\ b.session \in 0..MaxStarts
      BY <1>0, <2>2, BoundsAssumption, BufferFields DEF Clients
    <3>2. h \in Starting /\ h.id = id /\ ~h.held
      BY <3>1 DEF Starting
    <3>3. kind \in {"open_py", "start_kernel"} /\ (kind = "open_py" => b.session = 0)
      OBVIOUS
    <3> HIDE DEF kind, id, start, h
    <3>4. x \in Call
      <4>1. kind \in StartKinds
        BY <3>3 DEF StartKinds
      <4> QED
        BY <3>1, <4>1, StartCallTyped
    <3> HIDE DEF x
    <3> DEFINE e == [b EXCEPT !.starting = h]
    <3>5. e.queue = b.queue
      BY <1>0 DEF BufferState
    <3>6. Good(e, T, k, id)
      BY <1>0, <1>3, <2>2, <3>2, StartBegun DEF id
    <3>7. CallGood(x, e, k, id) /\ \A y \in T : Apart(x, y)
      BY <1>0, <1>3, <2>2, <3>1, <3>2, <3>3, StartSent DEF id, x
    <3> HIDE DEF e
    <3>8. SlotsGood(id)
      <4>1. \A n \in Starts : n > id => n > lastStart
        BY <1>0, BoundsAssumption DEF id, Starts
      <4> QED
        BY <1>0, <4>1 DEF SlotsGood
    <3>9. ~OfRun(x)
      <4>1. x.kind = kind
        BY StartCallFields DEF x
      <4> QED
        BY <3>3, <4>1 DEF OfRun
    <3>10. AllApart(Lanes(w.calls, w.loop)) /\ LoopGood(w.loop)
      BY DEF Found
    <3>11. Send(x, w) /\ buf' = e /\ lastStart' = id
      BY <2>2 DEF x, e, h
    <3> QED
      BY <3>4, <3>5, <3>6, <3>7, <3>8, <3>9, <3>10, <3>11, LeftSent
  <2> QED
    BY <1>3, <2>1, <2>2 DEF StartFrom
<1> QED
  BY <1>1, <1>2, <1>3

(* A start is over: no other call is its own, nor a stop of the session.   *)
LEMMA StartDone ==
    ASSUME NEW b, Sound(b), NEW w \in Waits, NEW k, Backed(k), Found(b, w, k),
           NEW x \in Call, OfStart(x), b.starting.id = x.start,
           \A y \in Within(Lanes(w.calls, w.loop)) : Apart(x, y),
           NEW e \in BufferState, e.starting = NoStart, e.queue = b.queue,
           e.inFlight = b.inFlight, e.session = b.session
    PROVE  Found(e, w, k)
<1> DEFINE T == Within(Lanes(w.calls, w.loop))
<1>1. Good(b, T, k, lastStart) /\ T \subseteq Call /\ k \in Settings /\ lastStart \in 0..MaxStarts
  BY FoundCalls DEF Backed
<1>2. ASSUME NEW y \in T, y.kind = "stop_kernel" PROVE y.session # e.session
  <2>1. Apart(x, y) /\ StartGood(y, b, lastStart)
    BY <1>1 DEF Good, CallGood
  <2>2. OfStart(y)
    BY <1>2 DEF OfStart, StartKinds
  <2>3. y.start # b.starting.id
    BY <2>1, <2>2 DEF Apart
  <2> QED
    BY <1>2, <2>1, <2>2, <2>3 DEF StartGood
<1> HIDE DEF T
<1>3. e.starting.id = 0 /\ e.starting.held = FALSE
  BY NoStartFields
<1>4. b \in BufferState
  BY DEF Sound
<1>5. Good(e, T, k, lastStart)
  BY <1>1, <1>2, <1>3, <1>4, Eased
<1> QED
  BY <1>5 DEF Found, T

LEMMA NoStartFieldsOf ==
    ASSUME NEW b, Sound(b)
    PROVE  LET e == [b EXCEPT !.starting = NoStart] IN
           /\ Sound(e) /\ e \in BufferState /\ e.starting = NoStart /\ e.queue = b.queue
           /\ e.inFlight = b.inFlight /\ e.session = b.session
<1> DEFINE e == [b EXCEPT !.starting = NoStart]
<1>1. Sound(e)
  BY NoStartTyped, StartingSound
<1>2. /\ e.starting = NoStart /\ e.queue = b.queue
      /\ e.inFlight = b.inFlight /\ e.session = b.session
  BY DEF Sound, BufferState
<1> QED
  BY <1>1, <1>2 DEF Sound

LEMMA FinishStartLeft ==
    ASSUME Sound(buf), NEW ok \in BOOLEAN, NEW w \in Waits, NEW k, Backed(k),
           Found(buf, w, k), NEW x \in Call, OfStart(x),
           \A y \in Within(Lanes(w.calls, w.loop)) : Apart(x, y),
           FinishStart(x.start, ok, w)
    PROVE  Left(buf.queue.id, w, k)
<1> DEFINE b == [buf EXCEPT !.starting = NoStart]
<1>0. Sound(b) /\ b \in BufferState /\ b.queue = buf.queue
  BY NoStartFieldsOf
<1>1. CASE buf.starting.id # x.start
  BY <1>1, LeftAlone DEF FinishStart, Backed
<1>2. CASE buf.starting.id = x.start
  <2>1. Found(b, w, k)
    BY <1>2, NoStartFieldsOf, StartDone
  <2>2. PumpFrom(b, w) \/ Leave(Discard(b), w)
    BY <1>2 DEF FinishStart
  <2> HIDE DEF b
  <2> QED
    BY <1>0, <2>1, <2>2, PumpLeft, DiscardLeft
<1> QED
  BY <1>1, <1>2

LEMMA StopHeldLeft ==
    ASSUME NEW b, Sound(b), b.starting = NoStart, b.session # 0, NEW w \in Waits, NEW k,
           Backed(k), Found(b, w, k), NEW q, b.queue.id \in {q, 0},
           client \in 0..MaxClients, lastRun \in 0..MaxRuns,
           NEW kind \in {"stop", "restart"}, StopHeld(b, kind, w)
    PROVE  Left(q, w, k)
<1> DEFINE T == Within(Lanes(w.calls, w.loop))
           id == lastStart + 1
           h == [id |-> id, kind |-> kind, client |-> client, launching |-> FALSE,
                 held |-> Held(b), waiting |-> FALSE, since |-> lastRun]
           x == StartCall("stop_kernel", client, id, b.session)
           e == [b EXCEPT !.starting = h]
<1>1. /\ Good(b, T, k, lastStart) /\ T \subseteq Call /\ b \in BufferState
      /\ k \in Settings /\ lastStart \in 0..MaxStarts /\ SlotsGood(lastStart)
      /\ AllApart(Lanes(w.calls, w.loop)) /\ LoopGood(w.loop)
  BY FoundCalls DEF Backed, Sound, Found
<1>2. /\ id \in 0..MaxStarts /\ id <= MaxStarts /\ id # 0 /\ b.session \in 0..MaxStarts
  BY <1>1, BoundsAssumption, BufferFields DEF StopHeld
<1>3. h \in Starting /\ h.id = id /\ h.held = (b.inFlight # 0)
  BY <1>2 DEF Starting, Held
<1>4. /\ lastStart' = id /\ buf' = e
      /\ IF h.held THEN calls' = w.calls /\ loop' = w.loop ELSE Send(x, w)
  BY DEF StopHeld
<1>5. x \in Call
  BY <1>2, StartCallTyped DEF StartKinds
<1>6. x.kind = "stop_kernel"
  BY StartCallFields
<1>7. e.queue = b.queue
  BY <1>1 DEF BufferState
<1>8. SlotsGood(id)
  <2>1. \A n \in Starts : n > id => n > lastStart
    BY <1>1, BoundsAssumption DEF Starts
  <2> QED
    BY <1>1, <2>1 DEF SlotsGood
<1> HIDE DEF T, h
<1>9. Good(e, T, k, id)
  BY <1>1, <1>2, <1>3, StartBegun
<1>10. CASE h.held
  BY <1>1, <1>4, <1>7, <1>8, <1>9, <1>10 DEF Left, T
<1>11. CASE ~h.held
  <2>1. CallGood(x, e, k, id) /\ \A y \in T : Apart(x, y)
    BY <1>1, <1>2, <1>3, <1>11, StartSent
  <2>2. ~OfRun(x) /\ Send(x, w)
    BY <1>4, <1>6, <1>11 DEF OfRun
  <2> HIDE DEF x, e, id
  <2> QED
    BY <1>1, <1>4, <1>5, <1>7, <1>8, <1>9, <2>1, <2>2, LeftSent DEF T
<1> QED
  BY <1>10, <1>11

(* A run is done.                                                          *)
LEMMA DoneLeft ==
    ASSUME Sound(buf), NEW failed \in BOOLEAN, NEW w \in Waits, NEW k, Backed(k),
           Found(buf, w, k), NEW x \in Call, OfRun(x),
           \A y \in Within(Lanes(w.calls, w.loop)) : Apart(x, y),
           Done(x, failed, w)
    PROVE  Left(buf.queue.id, w, k)
<1> DEFINE T == Within(Lanes(w.calls, w.loop))
           mine == buf.inFlight = x.run
           b1 == IF mine THEN [buf EXCEPT !.inFlight = 0] ELSE buf
           b2 == IF failed /\ ~Discarded(x) THEN Discard(b1) ELSE b1
           h == b2.starting
<1>1. /\ Good(buf, T, k, lastStart) /\ T \subseteq Call /\ buf \in BufferState
      /\ k \in Settings /\ lastStart \in 0..MaxStarts /\ SlotsGood(lastStart)
      /\ AllApart(Lanes(w.calls, w.loop)) /\ LoopGood(w.loop)
  BY FoundCalls DEF Backed, Sound, Found
<1>2. Sound(b1) /\ b1 \in BufferState
  <2>1. Sound(b1)
    BY FlightDoneSound
  <2> QED
    BY <2>1 DEF Sound
<1>3. /\ b1.queue = buf.queue /\ b1.session = buf.session /\ b1.starting = buf.starting
      /\ b1.inFlight = buf.inFlight \/ (mine /\ b1.inFlight = 0)
      /\ mine => b1.inFlight = 0
  BY <1>1 DEF BufferState
<1>4. Found(b1, w, k)
  <2>1. b1.inFlight = buf.inFlight \/ (b1.inFlight = 0 /\ \A y \in T : OfRun(y) => y.run # buf.inFlight)
    BY <1>3 DEF Apart
  <2> HIDE DEF T, b1
  <2>2. Good(b1, T, k, lastStart)
    BY <1>1, <1>2, <1>3, <2>1, Eased
  <2> QED
    BY <1>1, <2>2 DEF Found, T
<1>5. Sound(b2) /\ Found(b2, w, k) /\ (mine => b2.inFlight = 0) /\ b2.queue.id \in {buf.queue.id, 0}
  BY <1>2, <1>3, <1>4, DiscardFound, DiscardFields, DiscardSound
<1>6. IF mine /\ h.held
      THEN Emit([b2 EXCEPT !.starting.held = FALSE],
                StartCall("stop_kernel", h.client, h.id, b2.session), w)
      ELSE IF b2.queue.id # 0 THEN PumpFrom(b2, w)
      ELSE Leave(b2, w)
  BY DEF Done
<1> HIDE DEF b1, b2, mine
<1>7. CASE mine /\ h.held
  <2> DEFINE e == [b2 EXCEPT !.starting.held = FALSE]
             z == StartCall("stop_kernel", h.client, h.id, b2.session)
  <2>1. Good(e, T, k, lastStart) /\ CallGood(z, e, k, lastStart) /\ \A y \in T : Apart(z, y)
    BY <1>1, <1>5, <1>7, StopReleased DEF Found
  <2>2. z \in Call
    <3>1. h \in Starting /\ b2.session \in 0..MaxStarts /\ h.id \in 0..MaxStarts
      BY <1>5, BufferFields DEF Sound
    <3>2. h.client \in 0..MaxClients
      BY <3>1 DEF Starting
    <3>3. "stop_kernel" \in StartKinds
      BY DEF StartKinds
    <3> HIDE DEF h
    <3> QED
      BY <3>1, <3>2, <3>3, StartCallTyped
  <2>3. z.kind = "stop_kernel"
    BY StartCallFields
  <2>4. e.queue = b2.queue
    BY <1>5 DEF Sound, BufferState
  <2>5. Send(z, w) /\ buf' = e /\ lastStart' = lastStart
    BY <1>6, <1>7 DEF Emit
  <2> HIDE DEF e, z, h
  <2>6. ~OfRun(z)
    BY <2>3 DEF OfRun
  <2> QED
    BY <1>1, <1>5, <2>1, <2>2, <2>4, <2>5, <2>6, LeftSent
<1>8. CASE ~(mine /\ h.held)
  <2>1. PumpFrom(b2, w) \/ Leave(b2, w)
    BY <1>6, <1>8
  <2> QED
    BY <1>1, <1>5, <2>1, PumpLeft, LeftAlone
<1> QED
  BY <1>7, <1>8

-----------------------------------------------------------------------------
(* The callbacks.                                                          *)

(* What is known of the call that a reply answers, which is under way no   *)
(* more.                                                                   *)
Taken(f, w, k) ==
    /\ \A y \in Within(Lanes(w.calls, w.loop)) : Apart(f.call, y)
    /\ CallGood(f.call, buf, k, lastStart)
    /\ Answers(f) /\ f.err = "ok" =>
        f.call.session # 0 /\ source[f.call.session] \in {0, f.call.run}

LEMMA EmitOther ==
    ASSUME NEW w \in Waits, NEW k, Backed(k), Found(buf, w, k),
           NEW x \in Call, x.kind \in {"none", "close"}, Emit(buf, x, w)
    PROVE  Left(buf.queue.id, w, k)
<1> DEFINE b == buf
<1>1. CallGood(x, b, k, lastStart) /\ \A y \in Within(Lanes(w.calls, w.loop)) : Apart(x, y)
  BY OtherCall
<1>2. ~OfRun(x)
  BY DEF OfRun
<1>3. /\ Good(b, Within(Lanes(w.calls, w.loop)), k, lastStart)
      /\ AllApart(Lanes(w.calls, w.loop)) /\ LoopGood(w.loop) /\ SlotsGood(lastStart)
  BY DEF Found, Backed
<1>4. Send(x, w) /\ buf' = b /\ lastStart' = lastStart
  BY DEF Emit
<1> HIDE DEF b
<1>5. Left(b.queue.id, w, k)
  BY <1>1, <1>2, <1>3, <1>4, LeftSent
<1> QED
  BY <1>5 DEF b

LEMMA OpenPyReplyLeft ==
    ASSUME Sound(buf), NEW w \in Waits, NEW k, Backed(k), Found(buf, w, k),
           NEW f \in Frame, Taken(f, w, k), f.call.kind = "open_py", OpenPyReply(f, w)
    PROVE  Left(buf.queue.id, w, k)
<1> DEFINE x == f.call
           T == Within(Lanes(w.calls, w.loop))
           z == StartCall("start_kernel", x.client, x.start, x.start)
           e == [buf EXCEPT !.session = x.start, !.starting.launching = TRUE]
<1>1. /\ x \in Call /\ x.client \in 0..MaxClients /\ x.start \in 0..MaxStarts
      /\ OfStart(x) /\ \A y \in T : Apart(x, y)
      /\ StartGood(x, buf, lastStart) /\ ServedGood(x)
  BY CallFields DEF Frame, Taken, OfStart, StartKinds, CallGood
<1>2. \/ FinishStart(x.start, FALSE, w)
      \/ Emit(buf, CloseCall(x.client, x.start), w)
      \/ Leave(buf, w)
      \/ buf.starting.id = x.start /\ Emit(e, z, w)
  BY DEF OpenPyReply
<1>3. CASE FinishStart(x.start, FALSE, w)
  BY <1>1, <1>3, FinishStartLeft
<1>4. CASE Emit(buf, CloseCall(x.client, x.start), w)
  <2>1. CloseCall(x.client, x.start) \in Call
    BY <1>1, CloseCallTyped
  <2>2. CloseCall(x.client, x.start).kind = "close"
    BY DEF CloseCall, NoCall
  <2> QED
    BY <1>4, <2>1, <2>2, EmitOther
<1>5. CASE Leave(buf, w)
  BY <1>5, LeftAlone DEF Backed
<1>6. CASE buf.starting.id = x.start /\ Emit(e, z, w)
  <2> DEFINE h == [buf.starting EXCEPT !.launching = TRUE]
  <2>1. buf \in BufferState /\ buf.starting \in Starting
    BY BufferFields DEF Sound
  <2>2. h \in Starting /\ h.id = buf.starting.id /\ h.held = buf.starting.held
    BY <2>1 DEF Starting
  <2>3. e = [[buf EXCEPT !.session = x.start] EXCEPT !.starting = h]
    BY <2>1 DEF BufferState
  <2> HIDE DEF h
  <2>4. /\ e \in BufferState /\ e.session = x.start /\ e.starting = h
        /\ e.queue = buf.queue /\ e.inFlight = buf.inFlight
    BY <1>1, <2>1, <2>2, <2>3 DEF BufferState
  <2>5. z \in Call
    BY <1>1, StartCallTyped DEF StartKinds
  <2>6. z.kind = "start_kernel"
    BY StartCallFields
  <2>7. /\ Good(buf, T, k, lastStart) /\ T \subseteq Call /\ k \in Settings
        /\ lastStart \in 0..MaxStarts /\ SlotsGood(lastStart)
        /\ AllApart(Lanes(w.calls, w.loop)) /\ LoopGood(w.loop)
    BY FoundCalls DEF Backed, Found
  <2>8. Send(z, w) /\ buf' = e /\ lastStart' = lastStart
    BY <1>6 DEF Emit
  <2> HIDE DEF T, e, x
  <2>9. Good(e, T, k, lastStart)
    BY <1>1, <1>6, <2>2, <2>4, <2>7, SessionOpened DEF x
  <2>10. CallGood(z, e, k, lastStart) /\ \A y \in T : Apart(z, y)
    <3>1. x.start \in 1..lastStart /\ (e.starting.held => x.start # e.starting.id)
      BY <1>1, <2>2, <2>4 DEF StartGood
    <3>2. Fresh(x.start)
      BY <1>1 DEF ServedGood, x
    <3> QED
      BY <1>1, <2>7, <3>1, <3>2, StartGoesOn
  <2> HIDE DEF z
  <2>11. ~OfRun(z)
    BY <2>6 DEF OfRun
  <2> QED
    BY <2>4, <2>5, <2>7, <2>8, <2>9, <2>10, <2>11, LeftSent DEF T
<1> QED
  BY <1>2, <1>3, <1>4, <1>5, <1>6

LEMMA StartKernelReplyLeft ==
    ASSUME Sound(buf), NEW w \in Waits, NEW k, Backed(k), Found(buf, w, k),
           NEW f \in Frame, Taken(f, w, k), f.call.kind = "start_kernel",
           StartKernelReply(f, w)
    PROVE  Left(buf.queue.id, w, k)
<1> DEFINE x == f.call
           T == Within(Lanes(w.calls, w.loop))
           z == StartCall("execute_silent", x.client, x.start, x.session)
           e == [buf EXCEPT !.started = TRUE, !.starting.launching = FALSE]
<1>1. /\ x \in Call /\ x.client \in 0..MaxClients /\ x.start \in 0..MaxStarts
      /\ x.session \in 0..MaxStarts
      /\ OfStart(x) /\ \A y \in T : Apart(x, y)
      /\ StartGood(x, buf, lastStart)
  BY CallFields DEF Frame, Taken, OfStart, StartKinds, CallGood
<1>2. \/ FinishStart(x.start, FALSE, w)
      \/ Emit(buf, CloseCall(x.client, x.session), w)
      \/ Emit(e, z, w)
  BY DEF StartKernelReply
<1>3. CASE FinishStart(x.start, FALSE, w)
  BY <1>1, <1>3, FinishStartLeft
<1>4. CASE Emit(buf, CloseCall(x.client, x.session), w)
  <2>1. CloseCall(x.client, x.session) \in Call
    BY <1>1, CloseCallTyped
  <2>2. CloseCall(x.client, x.session).kind = "close"
    BY DEF CloseCall, NoCall
  <2> QED
    BY <1>4, <2>1, <2>2, EmitOther
<1>5. CASE Emit(e, z, w)
  <2> DEFINE h == [buf.starting EXCEPT !.launching = FALSE]
  <2>1. buf \in BufferState /\ buf.starting \in Starting
    BY BufferFields DEF Sound
  <2>2. h \in Starting /\ h.id = buf.starting.id /\ h.held = buf.starting.held
    BY <2>1 DEF Starting
  <2>3. e = [[buf EXCEPT !.started = TRUE] EXCEPT !.starting = h]
    BY <2>1 DEF BufferState
  <2> HIDE DEF h
  <2>4. /\ e \in BufferState /\ e.session = buf.session /\ e.starting = h
        /\ e.queue = buf.queue /\ e.inFlight = buf.inFlight
    BY <2>1, <2>2, <2>3 DEF BufferState
  <2>5. z \in Call
    BY <1>1, StartCallTyped DEF StartKinds
  <2>6. z.kind = "execute_silent"
    BY StartCallFields
  <2>7. Send(z, w) /\ buf' = e /\ lastStart' = lastStart
    BY <1>5 DEF Emit
  <2> HIDE DEF e
  <2>8. Found(e, w, k)
    BY <2>1, <2>2, <2>4, WaitingFound
  <2>9. /\ Good(e, T, k, lastStart) /\ k \in Settings /\ SlotsGood(lastStart)
        /\ AllApart(Lanes(w.calls, w.loop)) /\ LoopGood(w.loop)
    BY <2>8 DEF Backed, Found
  <2> HIDE DEF T, x
  <2>10. CallGood(z, e, k, lastStart) /\ \A y \in T : Apart(z, y)
    <3>1. x.start \in 1..lastStart /\ (e.starting.held => x.start # e.starting.id)
      BY <1>1, <2>2, <2>4 DEF StartGood
    <3> QED
      BY <1>1, <2>9, <3>1, StartGoesOn
  <2> HIDE DEF z
  <2>11. ~OfRun(z)
    BY <2>6 DEF OfRun
  <2> QED
    BY <2>4, <2>5, <2>7, <2>9, <2>10, <2>11, LeftSent DEF T
<1> QED
  BY <1>2, <1>3, <1>4, <1>5

LEMMA UpdateCellSourceReplyLeft ==
    ASSUME Sound(buf), NEW w \in Waits, NEW k, Backed(k), Found(buf, w, k),
           NEW f \in Frame, Taken(f, w, k), f.type = "reply",
           f.call.kind = "update_cell_source", UpdateCellSourceReply(f, w)
    PROVE  Left(buf.queue.id, w, k)
<1> DEFINE x == f.call
           T == Within(Lanes(w.calls, w.loop))
           z == ExecuteCall(x, buf)
<1>1. x \in Call /\ OfRun(x) /\ CallGood(x, buf, k, lastStart) /\ \A y \in T : Apart(x, y)
  BY DEF Frame, Taken, OfRun
<1>2. \/ Done(x, FALSE, w)
      \/ Done(x, TRUE, w)
      \/ ~Discarded(x) /\ f.err = "ok" /\ Emit(buf, z, w)
  BY DEF UpdateCellSourceReply, ExecuteCall
<1>3. CASE Done(x, FALSE, w) \/ Done(x, TRUE, w)
  BY <1>1, <1>3, DoneLeft
<1>4. CASE ~Discarded(x) /\ f.err = "ok" /\ Emit(buf, z, w)
  <2>1. x.queue = buf.queue.id
    BY <1>4 DEF Discarded
  <2>2. x.session # 0 /\ source[x.session] \in {0, x.run}
    BY <1>4 DEF Taken, Answers
  <2>3. /\ Good(buf, T, k, lastStart) /\ T \subseteq Call /\ k \in Settings
        /\ lastStart \in 0..MaxStarts /\ SlotsGood(lastStart) /\ DeliveredTyped
        /\ AllApart(Lanes(w.calls, w.loop)) /\ LoopGood(w.loop)
    BY FoundCalls DEF Backed, Found
  <2>4. Send(z, w) /\ buf' = buf /\ lastStart' = lastStart
    BY <1>4 DEF Emit
  <2>5. buf.queue.id # 0
    <3>1. x.queue \in 1..k.issued
      BY <1>1 DEF CallGood, RunGood
    <3> QED
      BY <2>1, <2>3, <3>1, SettingsFields
  <2> HIDE DEF T, x
  <2>6. z \in Call /\ CallGood(z, buf, k, lastStart) /\ \A y \in T : Apart(z, y)
    BY <1>1, <2>1, <2>2, <2>3, ExecuteReady DEF x
  <2> HIDE DEF z
  <2> QED
    BY <2>3, <2>4, <2>5, <2>6, LeftSent DEF T
<1> QED
  BY <1>2, <1>3, <1>4

LEMMA StoppedFields ==
    ASSUME NEW b, Sound(b)
    PROVE  /\ Sound(Stopped(b)) /\ Stopped(b) \in BufferState
           /\ Stopped(b).starting = NoStart /\ Stopped(b).queue = b.queue
           /\ Stopped(b).inFlight = b.inFlight /\ Stopped(b).session = b.session
<1>1. /\ Stopped(b).starting = NoStart /\ Stopped(b).queue = b.queue
      /\ Stopped(b).inFlight = b.inFlight /\ Stopped(b).session = b.session
  BY DEF Sound, Stopped, BufferState
<1>2. Sound(Stopped(b))
  BY StoppedSound
<1> QED
  BY <1>1, <1>2 DEF Sound

LEMMA StopKernelReplyLeft ==
    ASSUME Sound(buf), NEW w \in Waits, NEW k, Backed(k), Found(buf, w, k),
           lastRun \in 0..MaxRuns,
           NEW f \in Frame, Taken(f, w, k), f.call.kind = "stop_kernel",
           StopKernelReply(f, w)
    PROVE  Left(buf.queue.id, w, k)
<1> DEFINE x == f.call
           b == [buf EXCEPT !.starting = NoStart]
           s == Stopped(buf)
<1>1. x \in Call /\ OfStart(x) /\ \A y \in Within(Lanes(w.calls, w.loop)) : Apart(x, y)
  BY DEF Frame, Taken, OfStart, StartKinds
<1>2. CASE buf.starting.id # x.start
  BY <1>2, LeftAlone DEF StopKernelReply, Backed
<1>3. CASE buf.starting.id = x.start
  <2>1. \/ Leave(Discard(b), w)
        \/ PumpFrom(b, w)
        \/ StartFrom(s, TRUE, w)
        \/ PumpFrom(s, w)
    BY <1>3 DEF StopKernelReply
  <2>2. Sound(b) /\ b \in BufferState /\ b.queue = buf.queue /\ Found(b, w, k)
    BY <1>1, <1>3, NoStartFieldsOf, StartDone
  <2>3. Sound(s) /\ s \in BufferState /\ s.queue = buf.queue /\ Found(s, w, k)
    BY <1>1, <1>3, StoppedFields, StartDone
  <2> HIDE DEF b, s
  <2>4. b.queue.id \in {buf.queue.id, 0} /\ s.queue.id \in {buf.queue.id, 0}
    BY <2>2, <2>3
  <2>5. CASE Leave(Discard(b), w)
    BY <2>2, <2>5, DiscardLeft
  <2>6. CASE PumpFrom(b, w)
    BY <2>2, <2>4, <2>6, PumpLeft
  <2>7. CASE StartFrom(s, TRUE, w)
    <3>1. ASSUME NEW callback \in BOOLEAN, StartFrom(s, callback, w)
          PROVE  Left(buf.queue.id, w, k)
      BY <2>3, <2>4, <3>1, StartLeft
    <3> QED
      BY <2>7, <3>1
  <2>8. CASE PumpFrom(s, w)
    BY <2>3, <2>4, <2>8, PumpLeft
  <2> QED
    BY <2>1, <2>5, <2>6, <2>7, <2>8
<1> QED
  BY <1>2, <1>3

LEMMA KernelExitedLeft ==
    ASSUME Sound(buf), NEW w \in Waits, NEW k, Backed(k), Found(buf, w, k), NEW f,
           KernelExited(f, w)
    PROVE  Left(buf.queue.id, w, k)
<1> DEFINE d == Discard(buf)
           e == [d EXCEPT !.started = FALSE]
<1>1. Leave(e, w) \/ Leave(buf, w)
  BY DEF KernelExited
<1>2. d \in BufferState /\ d.queue.id = 0 /\ Found(d, w, k)
  BY DiscardFields, DiscardFound DEF Sound
<1> HIDE DEF d
<1>3. /\ e \in BufferState /\ e.queue = d.queue /\ e.inFlight = d.inFlight
      /\ e.session = d.session /\ e.starting = d.starting
  BY <1>2 DEF BufferState
<1> HIDE DEF e
<1>4. Found(e, w, k) /\ e.queue.id = 0
  BY <1>2, <1>3, WaitingFound
<1> QED
  BY <1>1, <1>4, LeftAlone DEF Backed

LEMMA DefaultFound ==
    ASSUME NEW b \in BufferState, NEW w \in Waits, NEW k, Backed(k), Found(b, w, k)
    PROVE  Found(DefaultBufferState, w, k) /\ DefaultBufferState.queue.id = 0
<1> DEFINE T == Within(Lanes(w.calls, w.loop))
           e == DefaultBufferState
<1>1. Good(b, T, k, lastStart) /\ T \subseteq Call /\ k \in Settings /\ lastStart \in 0..MaxStarts
  BY FoundCalls DEF Backed
<1>2. e.session = 0 /\ e.inFlight = 0 /\ e.queue = NoQueue /\ e.starting = NoStart
  BY DEF DefaultBufferState
<1>3. e \in BufferState
  BY DefaultSound DEF Sound
<1>4. ASSUME NEW y \in T, y.kind = "stop_kernel" PROVE y.session # e.session
  <2>1. y.session \in 1..lastStart
    BY <1>1, <1>4 DEF Good, CallGood, StartGood, OfStart, StartKinds
  <2> QED
    BY <1>1, <1>2, <2>1, BoundsAssumption
<1> HIDE DEF T, e
<1>5. e.starting.id = 0 /\ e.starting.held = FALSE
  BY <1>2, NoStartFields
<1>6. Good(e, T, k, lastStart)
  BY <1>1, <1>2, <1>3, <1>4, <1>5, Eased
<1> QED
  BY <1>2, <1>6, NoQueueFields DEF Found, T, e

LEMMA BackendExitedLeft ==
    ASSUME Sound(buf), NEW w \in Waits, NEW k, Backed(k), Found(buf, w, k), NEW f,
           BackendExited(f, w)
    PROVE  Left(buf.queue.id, w, k)
<1>1. /\ buf' \in {DefaultBufferState, buf}
      /\ calls' = w.calls /\ loop' = w.loop /\ lastStart' = lastStart
  BY DEF BackendExited
<1>2. Found(DefaultBufferState, w, k) /\ DefaultBufferState.queue.id = 0
  BY DefaultFound DEF Sound
<1> QED
  BY <1>1, <1>2 DEF Left, Found, Backed

LEMMA HandleLeft ==
    ASSUME Sound(buf), NEW w \in Waits, NEW k, Backed(k), Found(buf, w, k),
           lastRun \in 0..MaxRuns,
           NEW f \in Frame, f.type = "reply" => Taken(f, w, k), Handle(f, w)
    PROVE  Left(buf.queue.id, w, k)
<1>1. CASE f.type = "reply" /\ f.call.kind = "open_py" /\ OpenPyReply(f, w)
  BY <1>1, OpenPyReplyLeft
<1>2. CASE f.type = "reply" /\ f.call.kind = "start_kernel" /\ StartKernelReply(f, w)
  BY <1>2, StartKernelReplyLeft
<1>3. CASE f.type = "reply" /\ f.call.kind = "execute_silent" /\ ExecuteSilentReply(f, w)
  <2>1. f.call \in Call /\ OfStart(f.call)
        /\ \A y \in Within(Lanes(w.calls, w.loop)) : Apart(f.call, y)
    BY <1>3 DEF Frame, Taken, OfStart, StartKinds
  <2>2. \E ok \in BOOLEAN : FinishStart(f.call.start, ok, w)
    BY <1>3 DEF ExecuteSilentReply
  <2> QED
    BY <2>1, <2>2, FinishStartLeft
<1>4. CASE f.type = "reply" /\ f.call.kind = "update_cell_source" /\ UpdateCellSourceReply(f, w)
  BY <1>4, UpdateCellSourceReplyLeft
<1>5. CASE f.type = "reply" /\ f.call.kind = "execute" /\ ExecuteReply(f, w)
  <2>1. f.call \in Call /\ OfRun(f.call)
        /\ \A y \in Within(Lanes(w.calls, w.loop)) : Apart(f.call, y)
    BY <1>5 DEF Frame, Taken, OfRun
  <2>2. \E failed \in BOOLEAN : Done(f.call, failed, w)
    BY <1>5 DEF ExecuteReply
  <2> QED
    BY <2>1, <2>2, DoneLeft
<1>6. CASE f.type = "reply" /\ f.call.kind = "stop_kernel" /\ StopKernelReply(f, w)
  BY <1>6, StopKernelReplyLeft
<1>7. CASE f.type = "reply" /\ f.call.kind = "close" /\ CloseReply(w)
  BY <1>7, LeftAlone DEF CloseReply, Backed
<1>8. CASE f.type = "kernel_exited" /\ KernelExited(f, w)
  BY <1>8, KernelExitedLeft
<1>9. CASE f.type = "on_exit" /\ BackendExited(f, w)
  BY <1>9, BackendExitedLeft
<1> QED
  BY <1>1, <1>2, <1>3, <1>4, <1>5, <1>6, <1>7, <1>8, <1>9 DEF Handle

-----------------------------------------------------------------------------
(* The user's commands.                                                    *)

(* New runs are put behind those that are queued.                          *)
LEMMA EnqueueGood ==
    ASSUME NEW b, Sound(b), NEW n \in Runs, lastRun \in 0..MaxRuns, lastRun + n <= MaxRuns,
           NEW T, T \subseteq Call, NEW k \in Settings, k.issued = lastRun,
           NEW m \in Settings, m.frames = k.frames, m.dropped = k.dropped,
           m.issued = lastRun + n, NEW ls \in 0..MaxStarts, Good(b, T, k, ls)
    PROVE  /\ Good(Enqueue(b, n), T, m, ls)
           /\ b.queue.id # 0 => Enqueue(b, n).queue.id = b.queue.id
<1> DEFINE new == [i \in 1..n |-> lastRun + i]
           id == IF b.queue.id = 0 THEN lastRun + 1 ELSE b.queue.id
           runs == b.queue.runs \o new
           len == Len(b.queue.runs)
           e == Enqueue(b, n)
<1>1. b \in BufferState /\ b.queue.runs \in Seq(Runs) /\ len \in Nat
      /\ b.queue.id \in 0..MaxRuns /\ b.inFlight \in 0..MaxRuns
  BY BufferFields DEF Sound
<1>2. n \in Nat /\ n > 0 /\ lastRun \in Nat /\ MaxRuns \in Nat
  BY BoundsAssumption DEF Runs
<1>3. new \in Seq(Nat) /\ Len(new) = n /\ \A i \in 1..n : new[i] = lastRun + i
  <2>1. \A i \in 1..n : lastRun + i \in Nat
    BY <1>2
  <2> QED
    BY <1>2, <2>1
<1>4. b.queue.runs \in Seq(Nat)
  BY <1>1, BoundsAssumption DEF Runs
<1>5. /\ e.session = b.session /\ e.starting = b.starting /\ e.inFlight = b.inFlight
      /\ e.queue.id = id /\ e.queue.runs = runs
  BY <1>1 DEF Enqueue, BufferState
<1> HIDE DEF new, len
<1>6. /\ Len(runs) = len + n
      /\ \A i \in 1..(len + n) :
            IF i <= len THEN i \in 1..len /\ runs[i] = b.queue.runs[i]
            ELSE runs[i] = lastRun + (i - len) /\ i - len \in 1..n
  <2>1. Len(runs) = Len(b.queue.runs) + Len(new)
    BY <1>3, <1>4, ConcatProperties
  <2>2. Len(runs) = len + n
    BY <1>3, <2>1 DEF len
  <2>3. ASSUME NEW i \in 1..(len + n), i <= len
        PROVE  i \in 1..len /\ runs[i] = b.queue.runs[i]
    BY <1>1, <1>2, <1>3, <1>4, <2>1, <2>3, ConcatProperties DEF len
  <2>4. ASSUME NEW i \in 1..(len + n), ~(i <= len)
        PROVE  runs[i] = lastRun + (i - len) /\ i - len \in 1..n
    <3>1. i - len \in 1..n
      BY <1>1, <1>2, <2>4
    <3>2. i \in 1..(Len(b.queue.runs) + Len(new)) /\ i > Len(b.queue.runs)
      BY <1>1, <1>2, <1>3, <2>4 DEF len
    <3>3. runs[i] = new[i - Len(b.queue.runs)]
      BY <1>3, <1>4, <3>2, ConcatProperties
    <3> QED
      BY <1>3, <3>1, <3>3 DEF len
  <2> QED
    BY <2>2, <2>3, <2>4
<1> HIDE DEF e, runs
<1>7. /\ BufferGood(b, k, ls) /\ QueueGood(b, k, ls)
      /\ b.inFlight \in Nat /\ b.queue.id \in Nat /\ id \in Nat
      /\ id # 0 /\ (b.queue.id # 0 => id = b.queue.id)
      /\ (b.queue.id = 0 => id = lastRun + 1) /\ id <= lastRun + n
  <2>1. BufferGood(b, k, ls) /\ QueueGood(b, k, ls)
    BY DEF Good, BufferGood
  <2>2. b.inFlight \in Nat /\ b.queue.id \in Nat /\ b.queue.id <= lastRun
    BY <1>1, <1>2, <2>1 DEF QueueGood
  <2> QED
    BY <1>2, <2>1, <2>2
<1> HIDE DEF id
<1>8. \A i \in 1..len : b.queue.runs[i] \in Nat /\ b.queue.runs[i] <= lastRun
                       /\ b.inFlight < b.queue.runs[i]
  BY <1>4, <1>7 DEF QueueGood, len
<1>9. ASSUME NEW r \in Nat, r <= lastRun, \A i \in 1..len : r < b.queue.runs[i]
      PROVE  \A i \in 1..(len + n) : r < runs[i]
  <2> SUFFICES ASSUME NEW i \in 1..(len + n) PROVE r < runs[i]
    OBVIOUS
  <2>1. CASE i <= len
    BY <1>6, <1>9, <2>1
  <2>2. CASE ~(i <= len)
    <3>1. runs[i] = lastRun + (i - len) /\ i - len \in 1..n
      BY <1>6, <2>2
    <3>2. i - len \in Nat /\ i - len > 0
      BY <1>2, <3>1
    <3> QED
      BY <1>2, <1>9, <3>1, <3>2
  <2> QED
    BY <2>1, <2>2
<1>10. QueueGood(e, m, ls)
  <2>1. ASSUME NEW i \in 1..(len + n), NEW j \in 1..(len + n), i < j PROVE runs[i] < runs[j]
    <3>1. CASE j <= len
      <4>1. i <= len
        BY <1>1, <1>2, <2>1, <3>1
      <4> QED
        BY <1>6, <1>7, <2>1, <3>1, <4>1 DEF QueueGood, len
    <3>2. CASE ~(j <= len) /\ i <= len
      <4>1. runs[j] = lastRun + (j - len) /\ j - len \in 1..n
        BY <1>6, <3>2
      <4>2. runs[i] <= lastRun /\ runs[i] \in Nat
        BY <1>6, <1>8, <3>2
      <4> QED
        BY <1>2, <4>1, <4>2
    <3>3. CASE ~(j <= len) /\ ~(i <= len)
      <4>1. runs[j] = lastRun + (j - len) /\ runs[i] = lastRun + (i - len)
        BY <1>6, <3>3
      <4> QED
        BY <1>1, <1>2, <2>1, <4>1
    <3> QED
      BY <3>1, <3>2, <3>3
  <2>2. \A i \in 1..(len + n) : runs[i] <= lastRun + n
    <3> SUFFICES ASSUME NEW i \in 1..(len + n) PROVE runs[i] <= lastRun + n
      OBVIOUS
    <3>1. CASE i <= len
      <4>1. runs[i] \in Nat /\ runs[i] <= lastRun
        BY <1>6, <1>8, <3>1
      <4> QED
        BY <1>2, <4>1
    <3>2. CASE ~(i <= len)
      BY <1>2, <1>6, <3>2
    <3> QED
      BY <3>1, <3>2
  <2>3. \A i \in 1..(len + n) : b.inFlight < runs[i]
    <3>1. b.inFlight <= lastRun /\ \A i \in 1..len : b.inFlight < b.queue.runs[i]
      BY <1>7, <1>8 DEF QueueGood
    <3> QED
      BY <1>7, <1>9, <3>1
  <2>4. b.inFlight <= lastRun + n
    BY <1>2, <1>7 DEF QueueGood
  <2> QED
    BY <1>5, <1>6, <1>7, <2>1, <2>2, <2>3, <2>4 DEF QueueGood
<1>11. ASSUME NEW r \in Nat, Before(r, b, k) PROVE Before(r, e, m)
  <2>1. r <= lastRun /\ \A i \in 1..len : r < b.queue.runs[i]
    BY <1>11 DEF Before, len
  <2>2. r <= lastRun + n
    BY <1>2, <2>1
  <2> QED
    BY <1>5, <1>6, <1>9, <1>11, <2>1, <2>2 DEF Before
<1>12. BufferGood(e, m, ls)
  <2>1. \A r \in Runs : Delivered(r) => Before(r, e, m)
    BY <1>7, <1>11, BoundsAssumption DEF BufferGood, Runs
  <2>2. ASSUME NEW r \in m.dropped
        PROVE  ~Delivered(r) /\ r <= m.issued /\ \A i \in 1..(len + n) : runs[i] # r
    <3>1. r \in Nat /\ r <= lastRun /\ ~Delivered(r) /\ \A i \in 1..len : b.queue.runs[i] # r
      BY <1>7, SettingsFields, BoundsAssumption DEF BufferGood, len, Runs
    <3>2. ASSUME NEW i \in 1..(len + n) PROVE runs[i] # r
      <4>1. CASE i <= len
        BY <1>6, <3>1, <4>1
      <4>2. CASE ~(i <= len)
        <5>1. runs[i] = lastRun + (i - len) /\ i - len \in 1..n
          BY <1>6, <4>2
        <5> QED
          BY <1>2, <3>1, <5>1
      <4> QED
        BY <4>1, <4>2
    <3>3. r <= lastRun + n
      BY <1>2, <3>1
    <3> QED
      BY <3>1, <3>2, <3>3
  <2>3. ASSUME NEW f \in m.frames, Answers(f)
        PROVE  /\ f.call.run <= m.issued /\ f.call.stage = "answered"
               /\ \A i \in 1..(len + n) : f.call.run < runs[i]
    <3>1. f.call.run <= lastRun /\ f.call.stage = "answered"
          /\ \A i \in 1..len : f.call.run < b.queue.runs[i]
      BY <1>7, <2>3 DEF BufferGood, len
    <3>2. f.call.run \in Nat
      BY SettingsFields, CallFields, BoundsAssumption
    <3>3. f.call.run <= lastRun + n
      BY <1>2, <3>1, <3>2
    <3> QED
      BY <1>9, <3>1, <3>2, <3>3
  <2> QED
    BY <1>5, <1>6, <1>10, <2>1, <2>2, <2>3 DEF BufferGood
<1>13. ASSUME NEW x \in T PROVE CallGood(x, e, m, ls)
  <2>1. CallGood(x, b, k, ls) /\ x \in Call
    BY DEF Good
  <2>2. x.run \in Nat /\ x.queue \in Nat
    BY <2>1, CallFields, BoundsAssumption
  <2>3. OfRun(x) => x.queue <= lastRun /\ x.queue # 0
    BY <1>2, <2>1 DEF CallGood, RunGood
  <2>4. OfRun(x) /\ x.queue = id => x.queue = b.queue.id
    BY <1>2, <1>7, <2>2, <2>3
  <2>5. RunGood(x, e, m, ls)
    <3>1. OfRun(x) => x.queue \in 1..(lastRun + n)
      BY <1>2, <2>2, <2>3
    <3>2. OfRun(x) => Before(x.run, e, m)
      BY <1>11, <2>1, <2>2 DEF CallGood, RunGood
    <3> QED
      BY <1>5, <2>1, <2>4, <3>1, <3>2 DEF CallGood, RunGood
  <2>6. StartGood(x, e, ls)
    BY <1>5, <2>1 DEF CallGood, StartGood
  <2>7. DropGood(x, e, m)
    BY <1>5, <2>1, <2>4 DEF CallGood, DropGood
  <2>8. AnswerGood(x, m)
    BY <2>1 DEF CallGood, AnswerGood
  <2> QED
    BY <2>1, <2>5, <2>6, <2>7, <2>8 DEF CallGood
<1> QED
  BY <1>5, <1>7, <1>12, <1>13 DEF Good, e

LEMMA WaitingCallsOK ==
    ASSUME IInv
    PROVE  Waiting(calls, loop) \in Waits
BY DEF IInv, TypeOK, BackendTypeOK, ClientTypeOK, Waiting, Waits

LEMMA StopKernelCommandLeft ==
    ASSUME Sound(buf), NEW w \in Waits, NEW k, Backed(k), Found(buf, w, k),
           client \in 0..MaxClients, lastRun \in 0..MaxRuns, StopKernelCommand(w)
    PROVE  Left(buf.queue.id, w, k)
<1> DEFINE b == Discard(buf)
           e == [b EXCEPT !.starting.waiting = FALSE]
<1>1. /\ Sound(b) /\ b \in BufferState /\ Found(b, w, k)
      /\ b.queue.id \in {buf.queue.id, 0} /\ SlotsGood(lastStart)
  BY DiscardSound, DiscardFields, DiscardFound DEF Sound, Backed
<1>2. \/ b.starting.kind = "stop" /\ Leave(e, w)
      \/ Leave(b, w)
      \/ b.starting = NoStart /\ b.session # 0 /\ StopHeld(b, "stop", w)
  BY DEF StopKernelCommand
<1> HIDE DEF b
<1>3. CASE b.starting.kind = "stop" /\ Leave(e, w)
  <2>1. b.starting # NoStart /\ FALSE \in BOOLEAN
    BY <1>3 DEF NoStart
  <2>2. e \in BufferState /\ e.queue = b.queue /\ e.inFlight = b.inFlight
        /\ e.session = b.session /\ e.starting.id = b.starting.id
        /\ e.starting.held = b.starting.held
    BY <1>1, <2>1, WaitingFields
  <2> HIDE DEF e
  <2>3. Found(e, w, k) /\ e.queue.id \in {buf.queue.id, 0}
    BY <1>1, <2>2, WaitingFound
  <2> QED
    BY <1>1, <1>3, <2>3, LeftAlone
<1>4. CASE Leave(b, w)
  BY <1>1, <1>4, LeftAlone
<1>5. CASE b.starting = NoStart /\ b.session # 0 /\ StopHeld(b, "stop", w)
  BY <1>1, <1>5, StopHeldLeft
<1> QED
  BY <1>2, <1>3, <1>4, <1>5

LEMMA ShutdownLeft ==
    ASSUME Sound(buf), NEW w \in Waits, NEW k, Backed(k), Found(buf, w, k),
           client \in 0..MaxClients, Shutdown(w)
    PROVE  Left(buf.queue.id, w, k)
<1> DEFINE e == DefaultBufferState
           x == CloseCall(client, buf.session)
<1>1. Leave(e, w) \/ Emit(e, x, w)
  BY DEF Shutdown
<1>2. /\ Found(e, w, k) /\ e.queue.id = 0 /\ SlotsGood(lastStart)
      /\ buf.session \in 0..MaxStarts
  BY DefaultFound, BufferFields DEF Sound, Backed
<1>3. x \in Call /\ x.kind = "close"
  BY <1>2, CloseCallTyped DEF CloseCall, NoCall
<1> HIDE DEF e, x
<1>4. CASE Leave(e, w)
  BY <1>2, <1>4, LeftAlone
<1>5. CASE Emit(e, x, w)
  <2>1. CallGood(x, e, k, lastStart) /\ \A y \in Within(Lanes(w.calls, w.loop)) : Apart(x, y)
    BY <1>3, OtherCall
  <2>2. ~OfRun(x)
    BY <1>3 DEF OfRun
  <2>3. /\ Good(e, Within(Lanes(w.calls, w.loop)), k, lastStart)
        /\ AllApart(Lanes(w.calls, w.loop)) /\ LoopGood(w.loop)
    BY <1>2 DEF Found
  <2>4. Send(x, w) /\ buf' = e /\ lastStart' = lastStart
    BY <1>5 DEF Emit
  <2>5. e.queue.id \in {buf.queue.id, 0}
    BY <1>2
  <2> QED
    BY <1>2, <1>3, <2>1, <2>2, <2>3, <2>4, <2>5, LeftSent
<1> QED
  BY <1>1, <1>4, <1>5

(* What is under way when a command or a callback begins or ends.          *)
Now == Fixed(pipe, lastRun, dropped)

LEMMA NowFields ==
    ASSUME IInv
    PROVE  /\ Now \in Settings
           /\ Now.frames = Frames(pipe) /\ Now.issued = lastRun /\ Now.dropped = dropped
<1>1. Frames(pipe) \subseteq Frame
  <2> SUFFICES ASSUME NEW c \in Clients, NEW i \in 1..Len(pipe[c]) PROVE pipe[c][i] \in Frame
    BY DEF Frames
  <2>1. pipe[c] \in Seq(Frame)
    BY DEF IInv, TypeOK, BackendTypeOK
  <2> QED
    BY <2>1
<1> QED
  BY <1>1 DEF IInv, TypeOK, Now, Fixed, Settings

(* The settings of a command that issues n runs.                           *)
Later(n) == [frames |-> Frames(pipe), issued |-> lastRun + n, dropped |-> dropped]

LEMMA RunLeft ==
    ASSUME IInv, NEW w \in Waits, NEW n \in Runs, Backed(Now), Found(buf, w, Now), Run(n, w)
    PROVE  /\ Left(Enqueue(buf, n).queue.id, w, Later(n))
           /\ buf.queue.id # 0 => Enqueue(buf, n).queue.id = buf.queue.id
<1> DEFINE b == Enqueue(buf, n)
           m == Later(n)
           T == Within(Lanes(w.calls, w.loop))
<1>1. /\ Sound(buf) /\ lastRun \in 0..MaxRuns /\ lastRun + n <= MaxRuns
      /\ lastStart \in 0..MaxStarts /\ SlotsGood(lastStart) /\ DeliveredTyped
  BY DEF IInv, TypeOK, Run, Backed
<1>2. m.frames = Now.frames /\ m.dropped = Now.dropped /\ m.issued = lastRun + n
      /\ Now.issued = lastRun /\ Now \in Settings
  BY NowFields DEF Later
<1>3. m \in Settings
  <2>1. lastRun + n \in 0..MaxRuns
    BY <1>1, BoundsAssumption DEF Runs
  <2> QED
    BY <1>2, <2>1, SettingsFields DEF Settings, Later
<1>4. T \subseteq Call /\ Good(buf, T, Now, lastStart)
  BY FoundCalls
<1> HIDE DEF T, m
<1>5. Good(b, T, m, lastStart) /\ (buf.queue.id # 0 => b.queue.id = buf.queue.id)
  BY <1>1, <1>2, <1>3, <1>4, EnqueueGood
<1>6. Sound(b)
  BY <1>1, EnqueueSound
<1> HIDE DEF b
<1>7. Found(b, w, m)
  BY <1>5 DEF Found, T
<1>8. Backed(m)
  BY <1>1, <1>3 DEF Backed
<1>9. PumpFrom(b, w) \/ StartFrom(b, TRUE, w)
  BY DEF Run, b
<1>10. CASE PumpFrom(b, w)
  BY <1>5, <1>6, <1>7, <1>8, <1>10, PumpLeft DEF b, m
<1>11. CASE StartFrom(b, TRUE, w)
  <2>1. ASSUME NEW callback \in BOOLEAN, StartFrom(b, callback, w)
        PROVE  Left(b.queue.id, w, m)
    BY <1>1, <1>6, <1>7, <1>8, <2>1, StartLeft
  <2>2. Left(b.queue.id, w, m)
    BY <1>11, <2>1
  <2> QED
    BY <1>5, <2>2 DEF b, m
<1> QED
  BY <1>9, <1>10, <1>11

LEMMA CommandLeft ==
    ASSUME IInv, NEW w \in Waits, w = Waiting(calls, loop), Backed(Now), Found(buf, w, Now), Command
    PROVE  \E n \in 0..(MaxRuns - lastRun) : \E q :
               /\ lastRun' = lastRun + n
               /\ Left(q, w, Later(n))
               /\ buf.queue.id # 0 => q = buf.queue.id
<1>1. /\ Sound(buf) /\ lastRun \in 0..MaxRuns /\ client \in 0..MaxClients
      /\ MaxRuns \in Nat
  BY BoundsAssumption DEF IInv, TypeOK
<1>2. Now = Later(0)
  BY <1>1 DEF Now, Fixed, Later
<1>3. ASSUME NEW n \in Runs, Run(n, w)
      PROVE  \E i \in 0..(MaxRuns - lastRun) : \E q :
               /\ lastRun' = lastRun + i
               /\ Left(q, w, Later(i))
               /\ buf.queue.id # 0 => q = buf.queue.id
  <2>1. n \in 0..(MaxRuns - lastRun) /\ lastRun' = lastRun + n
    BY <1>1, <1>3 DEF Run, Runs
  <2> QED
    BY <1>3, <2>1, RunLeft
<1>4. ASSUME lastRun' = lastRun, Left(buf.queue.id, w, Now)
      PROVE  \E i \in 0..(MaxRuns - lastRun) : \E q :
               /\ lastRun' = lastRun + i
               /\ Left(q, w, Later(i))
               /\ buf.queue.id # 0 => q = buf.queue.id
  <2>1. 0 \in 0..(MaxRuns - lastRun) /\ lastRun' = lastRun + 0
    BY <1>1, <1>4
  <2> QED
    BY <1>2, <1>4, <2>1
<1>5. ASSUME NEW callback \in BOOLEAN, StartFrom(buf, callback, w) PROVE Left(buf.queue.id, w, Now)
  BY <1>1, <1>5, StartLeft
<1>6. CASE StartKernel(w)
  <2>1. StartFrom(buf, FALSE, w) /\ lastRun' = lastRun
    BY <1>6 DEF StartKernel
  <2> QED
    BY <1>4, <1>5, <2>1
<1>7. CASE StopKernelCommand(w)
  <2>1. lastRun' = lastRun
    BY <1>7 DEF StopKernelCommand
  <2> QED
    BY <1>1, <1>4, <1>7, <2>1, StopKernelCommandLeft
<1>8. CASE RestartKernel(w)
  <2>1. lastRun' = lastRun
    BY <1>8 DEF RestartKernel
  <2>2. StartFrom(buf, FALSE, w)
        \/ (buf.starting = NoStart /\ buf.session # 0 /\ StopHeld(buf, "restart", w))
    BY <1>8 DEF RestartKernel
  <2>3. CASE StartFrom(buf, FALSE, w)
    BY <1>4, <1>5, <2>1, <2>3
  <2>4. CASE buf.starting = NoStart /\ buf.session # 0 /\ StopHeld(buf, "restart", w)
    <3>1. Left(buf.queue.id, w, Now)
      BY <1>1, <2>4, StopHeldLeft
    <3> QED
      BY <1>4, <2>1, <3>1
  <2> QED
    BY <2>2, <2>3, <2>4
<1>9. CASE Shutdown(w)
  <2>1. lastRun' = lastRun
    BY <1>9 DEF Shutdown
  <2> QED
    BY <1>1, <1>4, <1>9, <2>1, ShutdownLeft
<1> QED
  BY <1>3, <1>6, <1>7, <1>8, <1>9 DEF Command

-----------------------------------------------------------------------------
(* A callback.                                                             *)

LEMMA DInvFound ==
    ASSUME IInv, DInv
    PROVE  /\ Backed(Now)
           /\ Found(buf, Waiting(calls, loop), Now)
<1> DEFINE w == Waiting(calls, loop)
<1>1. w.calls = calls /\ w.loop = loop
  BY DEF Waiting
<1>2. Backed(Now)
  BY NowFields DEF Backed, DInv, IInv, TypeOK, BackendTypeOK, DeliveredTyped
<1> HIDE DEF w
<1>3. Found(buf, w, Now)
  BY <1>1 DEF Found, DInv, Now
<1> QED
  BY <1>2, <1>3 DEF w

LEMMA CallbacksTail ==
    ASSUME NEW l \in Seq(Frame), l # <<>>
    PROVE  /\ Callbacks(Tail(l)) = Without(Callbacks(l), 1)
           /\ 1 \in 1..Len(Callbacks(l)) /\ Callbacks(l)[1] = Head(l).call
           /\ Tail(l) \in Seq(Frame)
<1> DEFINE n == Len(l)
           m == Tail(l)
           s == Callbacks(l)
           t == Without(s, 1)
<1>1. n \in Nat /\ n > 0 /\ m \in Seq(Frame) /\ Len(m) = n - 1 /\ \A j \in 1..(n - 1) : m[j] = l[j + 1]
  OBVIOUS
<1>2. s \in Seq(Call) /\ Len(s) = n /\ \A j \in 1..n : s[j] = l[j].call
  BY CallbacksTyped
<1>3. Callbacks(m) \in Seq(Call) /\ Len(Callbacks(m)) = n - 1
      /\ \A j \in 1..(n - 1) : Callbacks(m)[j] = m[j].call
  BY <1>1, CallbacksTyped
<1>4. 1 \in 1..n /\ Head(l) = l[1]
  BY <1>1
<1> HIDE DEF s, m, n
<1>5. t \in Seq(Call) /\ Len(t) = n - 1
      /\ \A j \in 1..(n - 1) : t[j] = s[IF j < 1 THEN j ELSE j + 1]
  BY <1>2, <1>4, WithoutTyped, WithoutPlaces
<1> HIDE DEF t
<1>6. \A j \in 1..(n - 1) : Callbacks(m)[j] = t[j]
  <2> SUFFICES ASSUME NEW j \in 1..(n - 1) PROVE Callbacks(m)[j] = t[j]
    OBVIOUS
  <2>1. ~(j < 1) /\ j + 1 \in 1..n
    BY <1>1
  <2>2. t[j] = s[j + 1]
    BY <1>5, <2>1
  <2> QED
    BY <1>1, <1>2, <1>3, <2>1, <2>2
<1>7. Callbacks(m) = t
  BY <1>3, <1>5, <1>6, SeqEqual
<1> QED
  BY <1>1, <1>2, <1>4, <1>7 DEF s, m, t

(* A handler finds what was under way without the call of its frame.       *)
LEMMA TakenFound ==
    ASSUME IInv, DInv, NEW c \in 0..MaxClients, NEW w \in Waits,
           NEW i \in 1..Len(Lanes(calls, loop)[c]),
           Lanes(w.calls, w.loop) =
               [Lanes(calls, loop) EXCEPT ![c] = Without(Lanes(calls, loop)[c], i)],
           LoopGood(w.loop),
           NEW f, f.call = Lanes(calls, loop)[c][i],
           Answers(f) /\ f.err = "ok" => f \in Now.frames
    PROVE  /\ Found(buf, w, Now) /\ Taken(f, w, Now)
           /\ Within(Lanes(w.calls, w.loop)) \subseteq Within(Lanes(calls, loop))
<1> DEFINE L == Lanes(calls, loop)
           M == Lanes(w.calls, w.loop)
<1>1. Waiting(calls, loop) \in Waits /\ Found(buf, Waiting(calls, loop), Now)
  BY DInvFound, WaitingCallsOK
<1>2. L \in AllLanes /\ AllApart(L) /\ Good(buf, Within(L), Now, lastStart)
  BY <1>1, LanesTyped DEF Found, Waiting
<1> HIDE DEF L, M
<1>3. M = [L EXCEPT ![c] = Without(L[c], i)] /\ i \in 1..Len(L[c]) /\ f.call = L[c][i]
  BY DEF L, M
<1>4. /\ AllApart(M) /\ Within(M) \subseteq Within(L)
      /\ \A z \in Within(M) : Apart(f.call, z)
  BY <1>2, <1>3, LaneRemoved
<1>5. Good(buf, Within(M), Now, lastStart)
  BY <1>2, <1>4 DEF Good
<1>6. f.call \in Within(L)
  BY <1>3, InLanes
<1>7. CallGood(f.call, buf, Now, lastStart)
  BY <1>2, <1>6 DEF Good
<1>8. ASSUME Answers(f), f.err = "ok"
      PROVE  f.call.session # 0 /\ source[f.call.session] \in {0, f.call.run}
  BY <1>7, <1>8 DEF CallGood, AnswerGood
<1> QED
  BY <1>4, <1>5, <1>7, <1>8 DEF Found, Taken, L, M

LEMMA CallbackLeft ==
    ASSUME IInv, DInv, Callback
    PROVE  /\ Frames(pipe') \subseteq Frames(pipe)
           /\ lastRun' = lastRun
           /\ \E w \in Waits :
                /\ Within(Lanes(w.calls, w.loop)) \subseteq Within(Lanes(calls, loop))
                /\ Left(buf.queue.id, w, Later(0))
<1> USE DInvFound
<1>1. /\ Sound(buf) /\ lastRun \in 0..MaxRuns /\ loop \in Seq(Frame)
      /\ calls \in [Clients -> Seq(Call)] /\ pipe \in [Clients -> Seq(Frame)]
  BY DEF IInv, TypeOK, BackendTypeOK, ClientTypeOK
<1>2. Now = Later(0) /\ Now.frames = Frames(pipe)
  BY <1>1, NowFields DEF Now, Fixed, Later
<1>3. lastRun' = lastRun
  BY DEF Callback
<1>4. LoopGood(loop)
  BY DEF DInv
<1>5. ASSUME NEW c \in Clients, Readable(c), pipe' = [pipe EXCEPT ![c] = Tail(pipe[c])],
             NEW cs \in Remaining(c, Head(pipe[c])),
             Handle(Head(pipe[c]), Waiting(cs, loop))
      PROVE  /\ Frames(pipe') \subseteq Frames(pipe)
             /\ \E w \in Waits :
                  /\ Within(Lanes(w.calls, w.loop)) \subseteq Within(Lanes(calls, loop))
                  /\ Left(buf.queue.id, w, Now)
  <2> DEFINE f == Head(pipe[c])
             w == Waiting(cs, loop)
  <2>1. pipe[c] \in Seq(Frame) /\ pipe[c] # <<>>
    BY <1>1, <1>5 DEF Readable
  <2>2. f \in Frame /\ f = pipe[c][1] /\ 1 \in 1..Len(pipe[c])
    BY <2>1
  <2>3. f \in Frames(pipe)
    BY <2>2 DEF Frames
  <2>4. Frames(pipe') \subseteq Frames(pipe)
    <3> DEFINE p == pipe'
    <3>0. p = [pipe EXCEPT ![c] = Tail(pipe[c])]
      BY <1>5
    <3> HIDE DEF p
    <3> SUFFICES ASSUME NEW d \in Clients, NEW j \in 1..Len(p[d])
                 PROVE  \E i \in 1..Len(pipe[d]) : p[d][j] = pipe[d][i]
      <4>1. Frames(p) \subseteq Frames(pipe)
        BY InFrames
      <4> QED
        BY <4>1 DEF p
    <3>1. CASE d = c
      <4>1. p[d] = Tail(pipe[c])
        BY <1>1, <3>0, <3>1
      <4>2. j + 1 \in 1..Len(pipe[c]) /\ p[d][j] = pipe[c][j + 1]
        BY <2>1, <4>1
      <4> QED
        BY <3>1, <4>2
    <3>2. CASE d # c
      <4>1. p[d] = pipe[d]
        BY <1>1, <3>0, <3>2
      <4> QED
        BY <4>1
    <3> QED
      BY <3>1, <3>2
  <2>5. w.calls = cs /\ w.loop = loop
    BY DEF Waiting
  <2>6. Handle(f, w) /\ cs \in Remaining(c, f)
    BY <1>5
  <2> HIDE DEF f, w
  <2>7. CASE f.type = "reply"
    <3>1. PICK i \in 1..Len(calls[c]) :
              calls[c][i] = f.call /\ cs = [calls EXCEPT ![c] = Without(calls[c], i)]
      BY <2>6, <2>7 DEF Remaining
    <3>2. /\ c \in 0..MaxClients /\ Lanes(calls, loop)[c] = calls[c]
          /\ Lanes(cs, loop) = [Lanes(calls, loop) EXCEPT ![c] = Without(Lanes(calls, loop)[c], i)]
      <4> DEFINE L == Lanes(calls, loop)
                 s == Without(calls[c], i)
      <4>1. c \in 0..MaxClients /\ c # 0 /\ \A d \in 0..MaxClients : d # 0 => d \in Clients
        BY BoundsAssumption DEF Clients
      <4>2. L[c] = calls[c] /\ cs = [calls EXCEPT ![c] = s]
        BY <3>1, <4>1 DEF Lanes
      <4> HIDE DEF s
      <4>3. Lanes(cs, loop) = [L EXCEPT ![c] = s]
        BY <1>1, <4>1, <4>2 DEF Lanes
      <4> QED
        BY <4>1, <4>2, <4>3 DEF s
    <3>3. w \in Waits
      <4>1. Without(calls[c], i) \in Seq(Call)
        BY <1>1, WithoutTyped
      <4>2. cs \in [Clients -> Seq(Call)]
        BY <1>1, <3>1, <4>1
      <4> QED
        BY <1>1, <4>2 DEF Waits, Waiting, w
    <3>4. /\ Found(buf, w, Now) /\ Taken(f, w, Now)
          /\ Within(Lanes(w.calls, w.loop)) \subseteq Within(Lanes(calls, loop))
      BY <1>2, <1>4, <2>3, <2>5, <3>1, <3>2, <3>3, TakenFound
    <3>5. Left(buf.queue.id, w, Now)
      BY <1>1, <2>2, <2>6, <3>3, <3>4, HandleLeft
    <3> QED
      BY <2>4, <3>3, <3>4, <3>5
  <2>8. CASE f.type # "reply"
    <3>1. cs = calls
      BY <2>6, <2>8 DEF Remaining
    <3>2. w \in Waits /\ Found(buf, w, Now)
      BY <3>1, WaitingCallsOK DEF w
    <3>3. Left(buf.queue.id, w, Now)
      BY <1>1, <2>2, <2>6, <2>8, <3>2, HandleLeft
    <3> QED
      BY <2>4, <2>5, <3>1, <3>2, <3>3
  <2> QED
    BY <2>7, <2>8
<1>6. ASSUME loop # <<>>, Handle(Head(loop), Waiting(calls, Tail(loop)))
      PROVE  \E w \in Waits :
                /\ Within(Lanes(w.calls, w.loop)) \subseteq Within(Lanes(calls, loop))
                /\ Left(buf.queue.id, w, Now)
  <2> DEFINE f == Head(loop)
             w == Waiting(calls, Tail(loop))
             L == Lanes(calls, loop)
  <2>1. f \in Frame /\ f = loop[1] /\ 1 \in 1..Len(loop) /\ Tail(loop) \in Seq(Frame)
        /\ \A j \in 1..Len(Tail(loop)) : j + 1 \in 1..Len(loop) /\ Tail(loop)[j] = loop[j + 1]
    BY <1>1, <1>6
  <2>2. w.calls = calls /\ w.loop = Tail(loop) /\ w \in Waits
    BY <1>1, <2>1 DEF Waiting, Waits
  <2>3. Handle(f, w)
    BY <1>6
  <2>4. LoopGood(w.loop)
    BY <1>4, <2>1, <2>2 DEF LoopGood
  <2>5. Answers(f) => f.err # "ok"
    BY <1>4, <2>1 DEF LoopGood, Answers
  <2>6. 0 \in 0..MaxClients /\ L[0] = Callbacks(loop)
    BY BoundsAssumption DEF Lanes
  <2>7. Callbacks(Tail(loop)) = Without(L[0], 1) /\ 1 \in 1..Len(L[0]) /\ f.call = L[0][1]
    BY <1>1, <1>6, <2>6, CallbacksTail
  <2>8. Lanes(w.calls, w.loop) = [L EXCEPT ![0] = Without(L[0], 1)]
    BY <2>2, <2>6, <2>7 DEF Lanes
  <2> HIDE DEF f, w
  <2>9. /\ Found(buf, w, Now) /\ Taken(f, w, Now)
        /\ Within(Lanes(w.calls, w.loop)) \subseteq Within(L)
    <3>1. PICK c \in 0..MaxClients : c = 0
      BY <2>6
    <3>2. PICK i \in 1..Len(L[c]) : i = 1
      BY <2>7, <3>1
    <3>3. f.call = L[c][i] /\ Lanes(w.calls, w.loop) = [L EXCEPT ![c] = Without(L[c], i)]
      BY <2>7, <2>8, <3>1, <3>2
    <3>4. Answers(f) /\ f.err = "ok" => f \in Now.frames
      BY <2>5
    <3> QED
      BY <2>2, <2>4, <3>3, <3>4, TakenFound
  <2>10. Left(buf.queue.id, w, Now)
    BY <1>1, <2>1, <2>2, <2>3, <2>9, HandleLeft
  <2> QED
    BY <2>2, <2>9, <2>10
<1> QED
  BY <1>2, <1>3, <1>5, <1>6 DEF Callback

-----------------------------------------------------------------------------
(* A command or a callback keeps the invariant.                            *)

(* What holds of calls under way and kernels when a step of the front end  *)
(* ends holds then, as the backend has done nothing.                       *)
LEMMA ServerSame ==
    ASSUME UNCHANGED serverVars,
           Good(buf', Within(Lanes(calls', loop')), Fixed(pipe', lastRun', dropped'), lastStart'),
           SlotsGood(lastStart')
    PROVE  /\ Good(buf, Within(Lanes(calls, loop)), Fixed(pipe, lastRun, dropped), lastStart)'
           /\ SlotsGood(lastStart)'
<1>1. /\ delivered' = delivered /\ slot' = slot /\ source' = source /\ kernel' = kernel
  BY DEF serverVars
<1>2. SlotsGood(lastStart)'
  BY <1>1 DEF SlotsGood, Fresh
<1>3. BufferGood(buf, Fixed(pipe, lastRun, dropped), lastStart)'
  BY <1>1 DEF Good, BufferGood, Delivered
<1>4. (\A x \in Within(Lanes(calls, loop)) :
          CallGood(x, buf, Fixed(pipe, lastRun, dropped), lastStart))'
  BY <1>1 DEF Good, CallGood, AnswerGood, ServedGood, Delivered, Fresh
<1> QED
  BY <1>2, <1>3, <1>4 DEF Good

(* A run that has not been submitted is not delivered, and no more than    *)
(* the call to update its source is under way.                             *)
LEMMA UnsubmittedGood ==
    ASSUME IInv, DInv, NEW r \in Unsubmitted
    PROVE  /\ r \in Runs /\ r <= lastRun /\ ~Delivered(r)
           /\ \A x \in Within(Lanes(calls, loop)) :
                OfRun(x) /\ x.run = r => x.kind = "update_cell_source"
<1> DEFINE L == Lanes(calls, loop)
<1>1. /\ Sound(buf) /\ buf \in BufferState /\ loop \in Seq(Frame)
      /\ calls \in [Clients -> Seq(Call)] /\ Now \in Settings /\ Now.issued = lastRun
  BY NowFields DEF IInv, TypeOK, BackendTypeOK, ClientTypeOK, Sound
<1>2. L \in AllLanes /\ Within(L) \subseteq Call /\ AllApart(L)
  <2>1. Waiting(calls, loop) \in Waits /\ Waiting(calls, loop).calls = calls
        /\ Waiting(calls, loop).loop = loop
    BY WaitingCallsOK DEF Waiting
  <2> QED
    BY <2>1, LanesTyped DEF DInv
<1>3. Good(buf, Within(L), Now, lastStart) /\ BufferGood(buf, Now, lastStart)
  BY DEF DInv, Now, Good
<1>4. ASSUME NEW i \in 1..Len(buf.queue.runs), r = buf.queue.runs[i]
      PROVE  /\ r \in Runs /\ r <= lastRun /\ ~Delivered(r)
             /\ \A x \in Within(L) : OfRun(x) => x.run # r
  <2>1. r \in Runs /\ r \in Nat
    BY <1>1, <1>4, BufferFields
  <2>2. r <= lastRun
    BY <1>1, <1>3, <1>4 DEF BufferGood, QueueGood
  <2>3. ~Before(r, buf, Now)
    BY <1>4, <2>1 DEF Before
  <2>4. ~Delivered(r)
    BY <1>3, <2>1, <2>3 DEF BufferGood
  <2>5. \A x \in Within(L) : OfRun(x) => x.run # r
    BY <1>3, <2>3 DEF Good, CallGood, RunGood
  <2> QED
    BY <2>1, <2>2, <2>4, <2>5
<1>5. ASSUME r = buf.inFlight, r # 0, UpdatePending(r)
      PROVE  /\ r \in Runs /\ r <= lastRun /\ ~Delivered(r)
             /\ \A x \in Within(L) : OfRun(x) /\ x.run = r => x.kind = "update_cell_source"
  <2>1. \E y \in Within(L) : y.kind = "update_cell_source" /\ y.run = r
    <3>1. ASSUME NEW c \in Clients, NEW i \in 1..Len(calls[c]),
                 calls[c][i].kind = "update_cell_source", calls[c][i].run = r
          PROVE  \E y \in Within(L) : y.kind = "update_cell_source" /\ y.run = r
      <4>1. c \in 0..MaxClients /\ L[c] = calls[c]
        BY BoundsAssumption DEF Clients, Lanes
      <4>2. L[c][i] \in Within(L)
        BY <4>1, InLanes
      <4> QED
        BY <3>1, <4>1, <4>2
    <3>2. ASSUME NEW i \in 1..Len(loop),
                 loop[i].call.kind = "update_cell_source", loop[i].call.run = r
          PROVE  \E y \in Within(L) : y.kind = "update_cell_source" /\ y.run = r
      <4>1. 0 \in 0..MaxClients /\ L[0] = Callbacks(loop)
        BY BoundsAssumption DEF Lanes
      <4>2. i \in 1..Len(L[0]) /\ L[0][i] = loop[i].call
        BY <1>1, <4>1, CallbacksTyped
      <4>3. L[0][i] \in Within(L)
        BY <4>1, <4>2, InLanes
      <4> QED
        BY <3>2, <4>2, <4>3
    <3> QED
      BY <1>5, <3>1, <3>2 DEF UpdatePending
  <2>2. PICK y \in Within(L) : y.kind = "update_cell_source" /\ y.run = r
    BY <2>1
  <2>3. ~Delivered(r) /\ OfRun(y)
    BY <1>3, <2>2 DEF Good, CallGood, ServedGood, OfRun
  <2>4. r \in Runs /\ r <= lastRun
    BY <1>1, <1>3, <1>5, BufferFields, BoundsAssumption DEF BufferGood, QueueGood, Runs
  <2>5. ASSUME NEW x \in Within(L), OfRun(x), x.run = r PROVE x.kind = "update_cell_source"
    BY <1>2, <2>2, <2>3, <2>5, OneCallOfRun
  <2> QED
    BY <2>3, <2>4, <2>5
<1> QED
  BY <1>4, <1>5 DEF Unsubmitted

LEMMA FrontEndKept ==
    ASSUME IInv, IInv', DInv, UNCHANGED serverVars, Records,
           NEW n \in 0..(MaxRuns - lastRun), lastRun' = lastRun + n,
           NEW w \in Waits, Within(Lanes(w.calls, w.loop)) \subseteq Within(Lanes(calls, loop)),
           NEW q, Left(q, w, Later(n)), buf.queue.id # 0 => q = buf.queue.id,
           Frames(pipe') \subseteq Frames(pipe)
    PROVE  /\ DInv'
           /\ \E S \in SUBSET (1..lastRun) :
                dropped' = dropped \cup S /\ \A r \in S : ~Delivered(r)
<1> DEFINE k == Later(n)
           m == Fixed(pipe', lastRun', dropped')
           S == IF buf.queue.id # 0 /\ buf'.queue.id # buf.queue.id THEN Unsubmitted ELSE {}
           T == Within(Lanes(calls', loop'))
           b == buf'
           ls == lastStart'
<1>1. /\ k.frames = Frames(pipe) /\ k.issued = lastRun' /\ k.dropped = dropped
      /\ m.frames = Frames(pipe') /\ m.issued = lastRun' /\ m.dropped = dropped'
  BY DEF Later, Fixed
<1>2. dropped' = dropped \cup S
  BY DEF Records
<1>3. ASSUME NEW r \in S
      PROVE  /\ r \in Runs /\ r <= lastRun /\ ~Delivered(r)
             /\ \A x \in Within(Lanes(calls, loop)) :
                  OfRun(x) /\ x.run = r => x.kind = "update_cell_source"
  <2>1. r \in Unsubmitted
    OBVIOUS
  <2> QED
    BY <2>1, UnsubmittedGood
<1>4. lastRun \in Nat /\ MaxRuns \in Nat /\ n \in Nat
  BY BoundsAssumption DEF IInv, TypeOK
<1>5. S # {} => /\ b.queue.id = 0 /\ b.queue.runs = <<>>
                /\ \A y \in T : OfRun(y) => y \in Within(Lanes(calls, loop))
  <2> SUFFICES ASSUME S # {}
               PROVE  /\ b.queue.id = 0 /\ b.queue.runs = <<>>
                      /\ \A y \in T : OfRun(y) => y \in Within(Lanes(calls, loop))
    OBVIOUS
  <2>1. buf.queue.id # 0 /\ b.queue.id # buf.queue.id
    OBVIOUS
  <2>2. b.queue.id = 0
    BY <2>1 DEF Left
  <2>3. b.queue.runs = <<>>
    BY <2>2 DEF IInv, Sound
  <2>4. \A y \in T : OfRun(y) => y \in Within(Lanes(calls, loop))
    BY <2>2 DEF Left
  <2> QED
    BY <2>2, <2>3, <2>4
<1>6. Good(b, T, k, ls) /\ SlotsGood(ls) /\ AllApart(Lanes(calls', loop')) /\ LoopGood(loop')
  BY DEF Left
<1> HIDE DEF k, m, S, T, b, ls
<1>7. \A r : Before(r, b, k) <=> Before(r, b, m)
  BY <1>1 DEF Before
<1>8. BufferGood(b, k, ls)
  BY <1>6 DEF Good
<1>9. BufferGood(b, m, ls)
  <2>1. QueueGood(b, m, ls)
    BY <1>1, <1>8 DEF BufferGood, QueueGood
  <2>2. ASSUME NEW r \in m.dropped
        PROVE  ~Delivered(r) /\ r <= m.issued /\ \A i \in 1..Len(b.queue.runs) : b.queue.runs[i] # r
    <3>1. CASE r \in dropped
      BY <1>1, <1>8, <3>1 DEF BufferGood
    <3>2. CASE r \in S
      <4>1. ~Delivered(r) /\ r <= lastRun /\ r \in Nat
        BY <1>3, <3>2, BoundsAssumption DEF Runs
      <4>2. r <= m.issued
        BY <1>1, <1>4, <4>1
      <4>3. Len(b.queue.runs) = 0
        BY <1>5, <3>2
      <4> QED
        BY <4>1, <4>2, <4>3
    <3> QED
      BY <1>1, <1>2, <3>1, <3>2
  <2> QED
    BY <1>1, <1>7, <1>8, <2>1, <2>2 DEF BufferGood
<1>10. ASSUME NEW x \in T PROVE CallGood(x, b, m, ls)
  <2>1. CallGood(x, b, k, ls)
    BY <1>6 DEF Good
  <2>2. RunGood(x, b, m, ls)
    BY <1>1, <1>7, <2>1 DEF CallGood, RunGood
  <2>3. DropGood(x, b, m)
    <3> SUFFICES ASSUME OfRun(x), x.run \in m.dropped
                 PROVE  x.kind = "update_cell_source" /\ x.queue # b.queue.id
      BY DEF DropGood
    <3>1. CASE x.run \in dropped
      BY <1>1, <2>1, <3>1 DEF CallGood, DropGood
    <3>2. CASE x.run \in S
      <4>1. x.kind = "update_cell_source"
        BY <1>3, <1>5, <3>2
      <4>2. x.queue \in 1..m.issued
        BY <2>2 DEF RunGood
      <4>3. x.queue # 0
        BY <1>1, <1>4, <4>2
      <4> QED
        BY <1>5, <3>2, <4>1, <4>3
    <3> QED
      BY <1>1, <1>2, <3>1, <3>2
  <2>4. AnswerGood(x, m)
    BY <1>1, <2>1 DEF CallGood, AnswerGood
  <2> QED
    BY <2>1, <2>2, <2>3, <2>4 DEF CallGood
<1>11. Good(b, T, m, ls)
  BY <1>9, <1>10 DEF Good
<1>12. DInv'
  <2>1. Good(buf', Within(Lanes(calls', loop')), Fixed(pipe', lastRun', dropped'), lastStart')
    BY <1>11 DEF b, T, m, ls
  <2>2. SlotsGood(lastStart')
    BY <1>6 DEF ls
  <2>3. /\ Good(buf, Within(Lanes(calls, loop)), Fixed(pipe, lastRun, dropped), lastStart)'
        /\ SlotsGood(lastStart)'
    BY <2>1, <2>2, ServerSame
  <2> QED
    BY <1>6, <2>3 DEF DInv
<1>13. S \in SUBSET (1..lastRun)
  BY <1>3, <1>4 DEF Runs
<1> QED
  BY <1>2, <1>3, <1>12, <1>13

LEMMA UserCommandKept ==
    ASSUME IInv, IInv', DInv, UserCommand
    PROVE  /\ DInv'
           /\ \E n \in 0..(MaxRuns - lastRun) : \E S \in SUBSET (1..lastRun) : Promise!Issue(n, S)
<1> DEFINE w == Waiting(calls, loop)
<1>1. /\ w \in Waits /\ Found(buf, w, Now) /\ Backed(Now)
      /\ Within(Lanes(w.calls, w.loop)) = Within(Lanes(calls, loop))
  BY DInvFound, WaitingCallsOK DEF Waiting
<1>2. Command /\ Records /\ UNCHANGED serverVars /\ Frames(pipe') = Frames(pipe)
  BY DEF UserCommand
<1>3. w = Waiting(calls, loop)
  OBVIOUS
<1> HIDE DEF w
<1>4. PICK n \in 0..(MaxRuns - lastRun) : \E q :
               /\ lastRun' = lastRun + n
               /\ Left(q, w, Later(n))
               /\ buf.queue.id # 0 => q = buf.queue.id
  BY <1>1, <1>2, <1>3, CommandLeft
<1>5. /\ DInv'
      /\ \E S \in SUBSET (1..lastRun) :
            dropped' = dropped \cup S /\ \A r \in S : ~Delivered(r)
  BY <1>1, <1>2, <1>4, FrontEndKept
<1>6. delivered' = delivered
  BY <1>2 DEF serverVars
<1> QED
  BY <1>4, <1>5, <1>6 DEF Promise!Issue, Promise!Delivered, Delivered

LEMMA EventLoopKept ==
    ASSUME IInv, IInv', DInv, EventLoop
    PROVE  /\ DInv'
           /\ \E n \in 0..(MaxRuns - lastRun) : \E S \in SUBSET (1..lastRun) : Promise!Issue(n, S)
<1>1. Callback /\ Records /\ UNCHANGED serverVars
  BY DEF EventLoop
<1>2. 0 \in 0..(MaxRuns - lastRun) /\ lastRun' = lastRun + 0
  BY <1>1, BoundsAssumption DEF IInv, TypeOK, Callback
<1>3. PICK n \in 0..(MaxRuns - lastRun) : n = 0
  BY <1>2
<1>4. Frames(pipe') \subseteq Frames(pipe)
  BY <1>1, CallbackLeft
<1>5. PICK w \in Waits :
          /\ Within(Lanes(w.calls, w.loop)) \subseteq Within(Lanes(calls, loop))
          /\ Left(buf.queue.id, w, Later(n))
  BY <1>1, <1>3, CallbackLeft
<1>6. /\ DInv'
      /\ \E S \in SUBSET (1..lastRun) :
            dropped' = dropped \cup S /\ \A r \in S : ~Delivered(r)
  BY <1>1, <1>2, <1>3, <1>4, <1>5, FrontEndKept
<1>7. delivered' = delivered
  BY <1>1 DEF serverVars
<1> QED
  BY <1>2, <1>3, <1>6, <1>7 DEF Promise!Issue, Promise!Delivered, Delivered

-----------------------------------------------------------------------------
(* The backend.                                                            *)

(* A step of the backend that serves call x, which becomes z; NoCall if it *)
(* serves none.                                                            *)
Installs(x, z) ==
    Unstarted(x) /\ z.stage \in {"installed", "answered"}
Submits(x, z) == x.kind = "execute" /\ x.stage = "begun" /\ z.stage = "answered"

Effects(x, z) ==
    /\ \A s \in Starts :
        \/ source'[s] \in {source[s], 0}
        \/ x.kind = "update_cell_source" /\ s = x.session /\ source'[s] = x.run
    /\ \A s \in Starts :
        \/ slot'[s] \in {slot[s], 0}
        \/ Installs(x, z) /\ s = x.session /\ slot'[s] = x.start
    /\ \A n \in Starts :
        IF Installs(x, z) /\ n = x.start
        THEN kernel'[n].session \in {kernel[n].session, x.session}
             /\ \A s \in Starts : slot'[s] = n => kernel'[n].session = s
        ELSE kernel'[n].session = kernel[n].session
    /\ \A n \in Starts :
        \/ delivered'[n] = delivered[n]
        \/ /\ Submits(x, z) /\ x.session \in Starts /\ n = slot[x.session]
           /\ \A i \in 1..Len(delivered'[n]) :
                \/ i \in 1..Len(delivered[n]) /\ delivered'[n][i] = delivered[n][i]
                \/ delivered'[n][i].run = x.run

(* The frames that it writes, and the call that it has got to.             *)
Answered(x, z) ==
    \A f \in Frames(pipe') : Answers(f) /\ f \notin Frames(pipe) =>
        /\ f.call = z /\ z.stage = "answered"
        /\ f.err = "ok" => x.session # 0 /\ source'[x.session] = x.run

Served(x, z) ==
    /\ Alike(z, x)
    /\ x.kind = "update_cell_source" => x.stage # "answered" /\ z.stage = "answered"
    /\ x.kind = "execute" => \/ z.stage = "answered"
                             \/ /\ x.stage = "sent" /\ z.stage = "begun"
                                /\ x.session # 0 /\ z.source = source[x.session] /\ z.source # 0
    /\ x.kind = "start_kernel" => \/ x.stage \in {"sent", "begun"}
                                  \/ x.stage = "installed" /\ z.stage = "answered"

LEMMA BackendKept ==
    ASSUME IInv, IInv', DInv, UNCHANGED frontendVars,
           AllApart(Lanes(calls', loop')), LoopGood(loop'),
           NEW x \in Call, CallGood(x, buf, Now, lastStart), NEW z \in Call, Served(x, z),
           \A y \in Within(Lanes(calls', loop')) :
               y = z \/ (y \in Within(Lanes(calls, loop)) /\ Apart(x, y)),
           Effects(x, z), Answered(x, z)
    PROVE  DInv'
<1> DEFINE T == Within(Lanes(calls, loop))
           U == Within(Lanes(calls', loop'))
           m == Fixed(pipe', lastRun', dropped')
<1>1. /\ buf' = buf /\ lastRun' = lastRun /\ lastStart' = lastStart /\ dropped' = dropped
      /\ Now.frames = Frames(pipe) /\ Now.issued = lastRun /\ Now.dropped = dropped
      /\ m.frames = Frames(pipe') /\ m.issued = lastRun /\ m.dropped = dropped
      /\ lastStart \in Nat /\ buf \in BufferState /\ Now \in Settings
  BY NowFields, BoundsAssumption DEF frontendVars, Fixed, IInv, TypeOK
<1>2. /\ Good(buf, T, Now, lastStart) /\ BufferGood(buf, Now, lastStart)
      /\ SlotsGood(lastStart) /\ T \subseteq Call
  BY DInvFound, WaitingCallsOK, LanesTyped DEF DInv, Now, Good, Waiting
<1>3. /\ x.kind \in Kinds /\ x.session \in 0..MaxStarts /\ x.run \in 0..MaxRuns
      /\ x.start \in 0..MaxStarts
      /\ z.kind = x.kind /\ z.start = x.start /\ z.session = x.session
      /\ z.run = x.run /\ z.queue = x.queue
  BY CallFields DEF Served, Alike
<1>4. /\ slot \in [Starts -> 0..MaxStarts] /\ MaxStarts \in Nat
      /\ \A s \in 0..MaxStarts : s # 0 => s \in Starts
  <2>1. slot \in [Starts -> 0..MaxStarts]
    BY DEF IInv, TypeOK, BackendTypeOK
  <2>2. MaxStarts \in Nat /\ \A s \in 0..MaxStarts : s # 0 => s \in Starts
    BY BoundsAssumption DEF Starts
  <2> QED
    BY <2>1, <2>2
<1> HIDE DEF T, U, m
<1>5. ASSUME NEW r, Delivered(r)' PROVE Delivered(r) \/ (Submits(x, z) /\ r = x.run)
  <2>1. PICK n \in Starts : \E i \in 1..Len(delivered'[n]) : delivered'[n][i].run = r
    BY <1>5 DEF Delivered
  <2>2. PICK i \in 1..Len(delivered'[n]) : delivered'[n][i].run = r
    BY <2>1
  <2>3. \/ i \in 1..Len(delivered[n]) /\ delivered'[n][i] = delivered[n][i]
        \/ Submits(x, z) /\ delivered'[n][i].run = x.run
    BY DEF Effects
  <2> QED
    BY <2>2, <2>3 DEF Delivered
<1>6. ASSUME NEW n \in Starts, Fresh(n), ~(Installs(x, z) /\ n = x.start) PROVE Fresh(n)'
  <2>1. delivered'[n] = <<>>
    <3>1. ~(x.session \in Starts /\ n = slot[x.session])
      BY <1>6 DEF Fresh
    <3> QED
      BY <1>6, <3>1 DEF Effects, Fresh
  <2>2. ASSUME NEW s \in Starts PROVE slot'[s] # n
    <3>1. slot[s] # n /\ n # 0
      BY <1>6, BoundsAssumption DEF Fresh, Starts
    <3> QED
      BY <1>6, <3>1 DEF Effects
  <2> QED
    BY <2>1, <2>2 DEF Fresh
<1>7. OfRun(x) => Before(x.run, buf, Now)
  BY DEF CallGood, RunGood
<1>8. Submits(x, z) => OfRun(x) /\ x.run \notin dropped
  BY <1>1 DEF Submits, OfRun, CallGood, DropGood
<1>9. \A r : Before(r, buf, Now) => Before(r, buf, m)
  BY <1>1 DEF Before
<1>10. BufferGood(buf, Fixed(pipe, lastRun, dropped), lastStart)'
  <2>1. QueueGood(buf, m, lastStart)
    BY <1>1, <1>2 DEF BufferGood, QueueGood
  <2>2. ASSUME NEW r \in Runs, Delivered(r)' PROVE Before(r, buf, m)
    BY <1>2, <1>5, <1>7, <1>8, <1>9, <2>2 DEF BufferGood
  <2>3. ASSUME NEW r \in dropped
        PROVE  ~Delivered(r)' /\ r <= lastRun /\ \A i \in 1..Len(buf.queue.runs) : buf.queue.runs[i] # r
    BY <1>1, <1>2, <1>5, <1>8 DEF BufferGood
  <2>4. ASSUME NEW f \in Frames(pipe'), Answers(f)
        PROVE  /\ f.call.run <= lastRun /\ f.call.stage = "answered"
               /\ \A i \in 1..Len(buf.queue.runs) : f.call.run < buf.queue.runs[i]
    <3>1. CASE f \in Frames(pipe)
      BY <1>1, <1>2, <2>4, <3>1 DEF BufferGood
    <3>2. CASE f \notin Frames(pipe)
      <4>1. f.call = z /\ z.stage = "answered" /\ z.kind = "update_cell_source"
        BY <2>4, <3>2 DEF Answered, Answers
      <4>2. Before(x.run, buf, Now)
        BY <1>3, <1>7, <4>1 DEF OfRun
      <4> QED
        BY <1>1, <1>3, <4>1, <4>2 DEF Before
    <3> QED
      BY <3>1, <3>2
  <2> QED
    BY <1>1, <2>1, <2>2, <2>3, <2>4 DEF BufferGood, m
<1>11. SlotsGood(lastStart)'
  <2>1. Installs(x, z) => x.start \in 1..lastStart /\ Fresh(x.start) /\ x.start \in Starts
    <3>1. ASSUME Installs(x, z) PROVE OfStart(x)
      BY <3>1 DEF Installs, Unstarted, OfStart, StartKinds
    <3>2. Installs(x, z) => x.start \in 1..lastStart /\ Fresh(x.start)
      BY <3>1 DEF CallGood, StartGood, ServedGood, Installs, Unstarted
    <3> QED
      BY <1>1, <1>3, <1>4, <3>2
  <2>2. ASSUME NEW n \in Starts, n > lastStart PROVE Fresh(n)'
    <3>1. Fresh(n)
      BY <1>2, <2>2 DEF SlotsGood
    <3>2. ~(Installs(x, z) /\ n = x.start)
      BY <1>1, <2>1, <2>2
    <3> QED
      BY <1>6, <3>1, <3>2
  <2>3. ASSUME NEW s \in Starts, slot'[s] # 0 PROVE kernel'[slot'[s]].session = s
    <3> DEFINE n == slot'[s]
    <3>1. CASE Installs(x, z) /\ n = x.start
      BY <2>1, <3>1 DEF Effects
    <3>2. CASE ~(Installs(x, z) /\ n = x.start)
      <4>1. n = slot[s] /\ n # 0
        BY <2>3, <3>2 DEF Effects
      <4>2. n \in Starts /\ kernel[n].session = s
        BY <1>2, <1>4, <4>1 DEF SlotsGood
      <4> HIDE DEF n
      <4>3. kernel'[n].session = kernel[n].session
        BY <3>2, <4>2 DEF Effects
      <4> QED
        BY <4>2, <4>3 DEF n
    <3> QED
      BY <3>1, <3>2
  <2> QED
    BY <1>1, <2>2, <2>3 DEF SlotsGood
<1>12. ASSUME NEW y \in U, y # z
       PROVE  CallGood(y, buf, Fixed(pipe, lastRun, dropped), lastStart)'
  <2>1. y \in T /\ Apart(x, y) /\ CallGood(y, buf, Now, lastStart) /\ y \in Call
    BY <1>2, <1>12 DEF U, T, Good
  <2>2. /\ y.session \in 0..MaxStarts /\ y.start \in 0..MaxStarts
        /\ OfRun(y) => y.run # 0
    BY <2>1, CallFields
  <2>3. OfRun(x) /\ OfRun(y) => x.run # y.run /\ (x.session # 0 => x.session # y.session)
    BY <2>1 DEF Apart
  <2>4. RunGood(y, buf, m, lastStart) /\ StartGood(y, buf, lastStart) /\ DropGood(y, buf, m)
    BY <1>1, <1>9, <2>1 DEF CallGood, RunGood, DropGood
  <2>5. ASSUME OfRun(y), y.session # 0, source[y.session] \in {0, y.run}
        PROVE  source'[y.session] \in {0, y.run}
    <3>1. y.session \in Starts
      BY <1>4, <2>2, <2>5
    <3>2. ~(x.kind = "update_cell_source" /\ y.session = x.session)
      BY <2>3, <2>5 DEF OfRun
    <3> QED
      BY <2>5, <3>1, <3>2 DEF Effects
  <2>6. AnswerGood(y, Fixed(pipe, lastRun, dropped))'
    <3> SUFFICES ASSUME NEW f \in Frames(pipe'), Answers(f)
                 PROVE  /\ y.kind = "update_cell_source" /\ y.run = f.call.run => y.stage = "answered"
                        /\ f.err = "ok" /\ f.call = y =>
                            y.session # 0 /\ source'[y.session] \in {0, y.run}
      BY <1>1 DEF AnswerGood, m
    <3>1. CASE f \in Frames(pipe)
      <4>1. /\ y.kind = "update_cell_source" /\ y.run = f.call.run => y.stage = "answered"
            /\ f.err = "ok" /\ f.call = y =>
                y.session # 0 /\ source[y.session] \in {0, y.run}
        BY <1>1, <2>1, <3>1 DEF CallGood, AnswerGood
      <4>2. f.call = y => OfRun(y)
        BY DEF Answers, OfRun
      <4> QED
        BY <2>5, <4>1, <4>2
    <3>2. CASE f \notin Frames(pipe)
      <4>1. f.call = z /\ z.kind = "update_cell_source"
        BY <3>2 DEF Answered, Answers
      <4> QED
        BY <1>3, <1>12, <2>3, <4>1 DEF OfRun
    <3> QED
      BY <3>1, <3>2
  <2>7. ServedGood(y)'
    <3>1. ServedGood(y)
      BY <2>1 DEF CallGood
    <3>2. ASSUME y.kind = "update_cell_source" \/ Unsent(y) PROVE ~Delivered(y.run)'
      <4>1. OfRun(y)
        BY <3>2 DEF OfRun, Unsent
      <4>2. ~Delivered(y.run)
        BY <3>1, <3>2 DEF ServedGood
      <4>3. ~(Submits(x, z) /\ y.run = x.run)
        BY <1>8, <2>3, <4>1
      <4> QED
        BY <1>5, <4>2, <4>3
    <3>3. ASSUME Unsent(y), y.session # 0, NEW n \in Starts, kernel'[n].session = y.session,
                 NEW i \in 1..Len(delivered'[n])
          PROVE  delivered'[n][i].run < y.run
      <4>1. OfRun(y) /\ y.session \in Starts
        BY <1>4, <2>2, <3>3 DEF OfRun, Unsent
      <4>2. ~(Installs(x, z) /\ n = x.start)
        <5> SUFFICES ASSUME Installs(x, z), n = x.start PROVE FALSE
          OBVIOUS
        <5>1. delivered[n] = <<>>
          BY DEF Installs, Unstarted, CallGood, ServedGood, Fresh
        <5>2. delivered'[n] = delivered[n]
          BY DEF Effects, Submits, Installs, Unstarted
        <5> QED
          BY <3>3, <5>1, <5>2
      <4>3. kernel[n].session = y.session
        BY <3>3, <4>2 DEF Effects
      <4>4. ~(Submits(x, z) /\ x.session \in Starts /\ n = slot[x.session])
        <5> SUFFICES ASSUME Submits(x, z), x.session \in Starts, n = slot[x.session] PROVE FALSE
          OBVIOUS
        <5>1. kernel[n].session = x.session /\ x.session # 0
          BY <1>2, BoundsAssumption DEF SlotsGood, Starts
        <5> QED
          BY <1>8, <2>3, <4>1, <4>3, <5>1
      <4>5. delivered'[n] = delivered[n]
        BY <4>4 DEF Effects
      <4> QED
        BY <3>1, <3>3, <4>3, <4>5 DEF ServedGood
    <3>4. y.kind = "execute" /\ y.stage = "sent" /\ y.session # 0 => source'[y.session] \in {0, y.run}
      BY <2>5, <3>1 DEF ServedGood, OfRun
    <3>5. y.kind = "execute" /\ y.stage = "begun" => y.session # 0 /\ y.source = y.run
      BY <3>1 DEF ServedGood
    <3>6. ASSUME y.kind = "open_py" \/ Unstarted(y)
          PROVE  Fresh(y.start)'
      <4>1. Fresh(y.start)
        BY <3>1, <3>6 DEF ServedGood, Unstarted
      <4>2. OfStart(y)
        BY <3>6 DEF OfStart, StartKinds, Unstarted
      <4>3. ~(Installs(x, z) /\ y.start = x.start)
        BY <2>1, <4>2 DEF Apart, Installs, Unstarted, OfStart, StartKinds
      <4>4. y.start \in Starts
        <5>1. y.start \in 1..lastStart
          BY <2>1, <4>2 DEF CallGood, StartGood
        <5> QED
          BY <1>1, <1>4, <2>2, <5>1
      <4> QED
        BY <1>6, <4>1, <4>3, <4>4
    <3> QED
      BY <3>2, <3>3, <3>4, <3>5, <3>6 DEF ServedGood
  <2> QED
    BY <1>1, <2>4, <2>6, <2>7 DEF CallGood, m
<1>13. CallGood(z, buf, Fixed(pipe, lastRun, dropped), lastStart)'
  <2>1. RunGood(z, buf, m, lastStart) /\ StartGood(z, buf, lastStart) /\ DropGood(z, buf, m)
    BY <1>1, <1>3, <1>9 DEF CallGood, RunGood, StartGood, DropGood, OfRun, OfStart
  <2>2. AnswerGood(z, Fixed(pipe, lastRun, dropped))'
    <3> SUFFICES ASSUME NEW f \in Frames(pipe'), Answers(f)
                 PROVE  /\ z.kind = "update_cell_source" /\ z.run = f.call.run => z.stage = "answered"
                        /\ f.err = "ok" /\ f.call = z =>
                            z.session # 0 /\ source'[z.session] \in {0, z.run}
      BY <1>1 DEF AnswerGood, m
    <3>1. z.kind = "update_cell_source" => z.stage = "answered"
      BY <1>3 DEF Served
    <3>2. CASE f \in Frames(pipe)
      <4>1. f.call # z
        <5>1. x.kind = "update_cell_source" /\ x.run = f.call.run => x.stage = "answered"
          BY <1>1, <3>2 DEF CallGood, AnswerGood
        <5> QED
          BY <1>3, <5>1 DEF Served, Answers
      <4> QED
        BY <3>1, <4>1
    <3>3. CASE f \notin Frames(pipe)
      BY <1>3, <3>1, <3>3 DEF Answered
    <3> QED
      BY <3>2, <3>3
  <2>3. ServedGood(z)'
    <3>1. ServedGood(x)
      BY DEF CallGood
    <3>2. ASSUME z.kind = "update_cell_source" \/ Unsent(z) PROVE ~Delivered(z.run)'
      <4>1. ~Submits(x, z)
        BY <1>3, <3>2 DEF Submits, Unsent
      <4>2. ~Delivered(x.run)
        BY <1>3, <3>1, <3>2 DEF ServedGood, Unsent, Unstarted, Served
      <4> QED
        BY <1>3, <1>5, <4>1, <4>2
    <3>3. ASSUME Unsent(z), z.session # 0, NEW n \in Starts, kernel'[n].session = z.session,
                 NEW i \in 1..Len(delivered'[n])
          PROVE  delivered'[n][i].run < z.run
      <4>1. ~Submits(x, z) /\ ~Installs(x, z) /\ Unsent(x)
        BY <1>3, <3>3 DEF Submits, Unsent, Installs, Unstarted, Served
      <4>2. delivered'[n] = delivered[n] /\ kernel'[n].session = kernel[n].session
        BY <4>1 DEF Effects
      <4> QED
        BY <1>3, <3>1, <3>3, <4>1, <4>2 DEF ServedGood
    <3>4. ~(z.kind = "execute" /\ z.stage = "sent")
      BY <1>3 DEF Served
    <3>5. ASSUME z.kind = "execute", z.stage = "begun" PROVE z.session # 0 /\ z.source = z.run
      <4>1. x.stage = "sent" /\ x.session # 0 /\ z.source = source[x.session] /\ z.source # 0
        BY <1>3, <3>5 DEF Served
      <4> QED
        BY <1>3, <3>1, <3>5, <4>1 DEF ServedGood
    <3>6. ASSUME z.kind = "open_py" \/ Unstarted(z)
          PROVE  Fresh(z.start)'
      <4>1. Fresh(x.start) /\ OfStart(x) /\ ~Installs(x, z)
        BY <1>3, <3>1, <3>6 DEF ServedGood, OfStart, StartKinds, Installs, Unstarted, Served
      <4>2. x.start \in Starts
        <5>1. x.start \in 1..lastStart
          BY <4>1 DEF CallGood, StartGood
        <5> QED
          BY <1>1, <1>3, <1>4, <5>1
      <4>3. Fresh(x.start)'
        BY <1>6, <4>1, <4>2
      <4> QED
        BY <1>3, <4>3
    <3> QED
      BY <3>2, <3>3, <3>4, <3>5, <3>6 DEF ServedGood
  <2> QED
    BY <1>1, <2>1, <2>2, <2>3 DEF CallGood, m
<1>14. (\A y \in Within(Lanes(calls, loop)) :
           CallGood(y, buf, Fixed(pipe, lastRun, dropped), lastStart))'
  BY <1>12, <1>13 DEF U
<1> QED
  BY <1>10, <1>11, <1>14 DEF DInv, Good

LEMMA QuietEffects ==
    ASSUME SlotsGood(lastStart), slot \in [Starts -> 0..MaxStarts], NEW x, NEW z,
           \A s \in Starts : source'[s] \in {source[s], 0},
           \A s \in Starts : slot'[s] \in {slot[s], 0},
           \A n \in Starts : kernel'[n].session = kernel[n].session,
           delivered' = delivered
    PROVE  Effects(x, z)
<1>1. ASSUME NEW n \in Starts, NEW s \in Starts, slot'[s] = n PROVE kernel'[n].session = s
  <2>1. slot[s] = n /\ n # 0
    BY <1>1, BoundsAssumption DEF Starts
  <2>2. kernel[n].session = s
    BY <2>1 DEF SlotsGood
  <2> QED
    BY <2>2
<1> QED
  BY <1>1 DEF Effects

LEMMA KillSessions ==
    ASSUME IInv, NEW k, NEW n \in Starts
    PROVE  Kill(k)[n].session = kernel[n].session
<1>1. kernel \in [Starts -> KernelRecord]
  BY DEF IInv, TypeOK, BackendTypeOK
<1>2. CASE k \in Starts
  <2> DEFINE g == [kernel[k] EXCEPT !.st = IF @ = "exited" THEN "exited" ELSE "gone"]
  <2>1. g.session = kernel[k].session
    BY <1>1, <1>2 DEF KernelRecord
  <2>2. Kill(k) = [kernel EXCEPT ![k] = g]
    BY <1>2 DEF Kill
  <2> HIDE DEF g
  <2> QED
    BY <1>1, <2>1, <2>2
<1>3. CASE k \notin Starts
  BY <1>3 DEF Kill
<1> QED
  BY <1>2, <1>3

LEMMA CallServed ==
    ASSUME IInv, IInv', DInv, UNCHANGED <<clientVars, frontendVars>>,
           NEW c \in Clients, NEW i \in 1..Len(calls[c]), NEW z \in Call,
           calls' = [calls EXCEPT ![c] = [calls[c] EXCEPT ![i] = z]],
           Served(calls[c][i], z), Effects(calls[c][i], z), Answered(calls[c][i], z)
    PROVE  DInv'
<1> DEFINE L == Lanes(calls, loop)
           M == Lanes(calls', loop')
           x == calls[c][i]
           s == [calls[c] EXCEPT ![i] = z]
<1>1. /\ Good(buf, Within(L), Now, lastStart) /\ AllApart(L) /\ L \in AllLanes
      /\ Within(L) \subseteq Call /\ LoopGood(loop) /\ loop' = loop
  <2>1. Waiting(calls, loop) \in Waits /\ Waiting(calls, loop).calls = calls
        /\ Waiting(calls, loop).loop = loop
    BY WaitingCallsOK DEF Waiting
  <2>2. Lanes(calls, loop) \in AllLanes /\ Within(Lanes(calls, loop)) \subseteq Call
    BY <2>1, LanesTyped
  <2>3. loop' = loop
    BY DEF clientVars
  <2> QED
    BY <2>2, <2>3 DEF DInv, Now
<1>2. c \in 0..MaxClients /\ c # 0 /\ \A d \in 0..MaxClients : d # 0 => d \in Clients
  BY BoundsAssumption DEF Clients
<1>3. L[c] = calls[c]
  BY <1>2 DEF Lanes
<1>4. calls \in [Clients -> Seq(Call)] /\ calls' = [calls EXCEPT ![c] = s]
  BY DEF IInv, TypeOK, BackendTypeOK
<1> HIDE DEF s
<1>5. M = [L EXCEPT ![c] = s]
  BY <1>1, <1>2, <1>4 DEF Lanes
<1> HIDE DEF L, M
<1>6. M = [L EXCEPT ![c] = [L[c] EXCEPT ![i] = z]] /\ i \in 1..Len(L[c]) /\ L[c][i] = x
  BY <1>3, <1>5 DEF s
<1>7. x \in Within(L)
  BY <1>2, <1>6, InLanes
<1>8. x \in Call /\ CallGood(x, buf, Now, lastStart)
  BY <1>1, <1>7 DEF Good
<1>9. Alike(z, L[c][i])
  BY <1>6 DEF Served
<1>10. AllApart(M) /\ \A y \in Within(M) : y = z \/ (y \in Within(L) /\ Apart(L[c][i], y))
  BY <1>1, <1>2, <1>6, <1>9, LaneChanged
<1>11. AllApart(Lanes(calls', loop')) /\ \A y \in Within(Lanes(calls', loop')) :
          y = z \/ (y \in Within(Lanes(calls, loop)) /\ Apart(x, y))
  BY <1>6, <1>10 DEF L, M
<1>12. LoopGood(loop') /\ UNCHANGED frontendVars
  BY <1>1
<1>13. Served(x, z) /\ Effects(x, z) /\ Answered(x, z)
  OBVIOUS
<1> HIDE DEF x
<1> QED
  BY <1>8, <1>11, <1>12, <1>13, BackendKept

LEMMA StageFields ==
    ASSUME NEW x \in Call, NEW t \in {"begun", "installed", "answered"}
    PROVE  LET z == [x EXCEPT !.stage = t] IN z \in Call /\ Alike(z, x) /\ z.stage = t
<1>1. [x EXCEPT !.stage = t] \in Call
  BY StageTyped
<1> QED
  BY <1>1 DEF Call, Request, Alike

(* The i-th call of client c is answered.                                  *)
LEMMA AnswerKept ==
    ASSUME IInv, IInv', DInv, UNCHANGED <<clientVars, frontendVars>>,
           NEW c \in Clients, NEW i \in 1..Len(calls[c]), NEW e, Answer(c, i, e),
           calls[c][i].stage # "answered",
           \A z : z.stage = "answered" => Effects(calls[c][i], z),
           calls[c][i].kind = "update_cell_source" /\ e = "ok" =>
               calls[c][i].session # 0 /\ source'[calls[c][i].session] = calls[c][i].run
    PROVE  DInv'
<1> DEFINE x == calls[c][i]
           z == [x EXCEPT !.stage = "answered"]
           f == Reply(z, e)
<1>1. x \in Call /\ pipe \in [Clients -> Seq(Frame)]
  BY DEF IInv, TypeOK, BackendTypeOK
<1>2. z \in Call /\ Alike(z, x) /\ z.stage = "answered"
  BY <1>1, StageFields
<1>3. calls' = [calls EXCEPT ![c] = [calls[c] EXCEPT ![i] = z]]
  BY DEF Answer
<1>4. pipe' = [pipe EXCEPT ![c] = Append(pipe[c], f)]
  BY DEF Answer
<1>5. f.call = z /\ f.err = e
  BY DEF Reply
<1>6. Served(x, z)
  <2>1. x.stage \in {"sent", "begun", "installed"}
    BY <1>1, CallFields
  <2> QED
    BY <1>2, <2>1 DEF Served
<1> HIDE DEF f, z
<1>7. Answered(x, z)
  <2>1. ASSUME NEW g \in Frames(pipe'), g \notin Frames(pipe) PROVE g = f
    <3>1. PICK d \in Clients : \E j \in 1..Len(pipe'[d]) : g = pipe'[d][j]
      BY InFrames
    <3>2. PICK j \in 1..Len(pipe'[d]) : g = pipe'[d][j]
      BY <3>1
    <3>3. ~(j \in 1..Len(pipe[d]) /\ g = pipe[d][j])
      BY <2>1, InFrames
    <3>4. d = c /\ pipe'[c] = Append(pipe[c], f) /\ pipe[c] \in Seq(Frame)
      BY <1>1, <1>4, <3>2, <3>3
    <3> QED
      BY <3>2, <3>3, <3>4
  <2>2. Answers(f) => z.kind = "update_cell_source" /\ z.kind = x.kind
    BY <1>2, <1>5 DEF Answers, Alike
  <2> QED
    BY <1>2, <1>5, <2>1, <2>2 DEF Answered
<1>8. Effects(x, z)
  BY <1>2
<1> QED
  BY <1>2, <1>3, <1>6, <1>7, <1>8, CallServed

(* The i-th call of client c is begun.                                     *)
LEMMA BeginKept ==
    ASSUME IInv, IInv', DInv, UNCHANGED <<clientVars, frontendVars>>, UNCHANGED <<serverVars, pipe>>,
           NEW c \in Clients, NEW i \in 1..Len(calls[c]), NEW z \in Call,
           calls' = [calls EXCEPT ![c] = [calls[c] EXCEPT ![i] = z]],
           Served(calls[c][i], z)
    PROVE  DInv'
<1>1. Answered(calls[c][i], z)
  BY DEF Answered
<1>2. SlotsGood(lastStart) /\ slot \in [Starts -> 0..MaxStarts]
  BY DEF DInv, IInv, TypeOK, BackendTypeOK
<1>3. source' = source /\ slot' = slot /\ kernel' = kernel /\ delivered' = delivered
  BY DEF serverVars
<1>4. Effects(calls[c][i], z)
  BY <1>2, <1>3, QuietEffects
<1> QED
  BY <1>1, <1>4, CallServed

LEMMA PendingCall ==
    ASSUME IInv, DInv, NEW c \in Clients, NEW i \in 1..Len(calls[c])
    PROVE  /\ calls[c][i] \in Call
           /\ CallGood(calls[c][i], buf, Now, lastStart)
<1> DEFINE L == Lanes(calls, loop)
<1>1. Good(buf, Within(L), Now, lastStart)
  BY DEF DInv, Now
<1>2. calls[c] \in Seq(Call)
  BY DEF IInv, TypeOK, BackendTypeOK
<1>3. c \in 0..MaxClients /\ L[c] = calls[c]
  BY BoundsAssumption DEF Clients, Lanes
<1>4. L[c][i] \in Within(L)
  BY <1>3, InLanes
<1> QED
  BY <1>1, <1>2, <1>3, <1>4 DEF Good

(* An answer of the backend that at most clears slots and sources.         *)
LEMMA QuietAnswer ==
    ASSUME IInv, IInv', DInv, UNCHANGED <<clientVars, frontendVars>>,
           NEW c \in Clients, NEW i \in 1..Len(calls[c]), NEW e, Answer(c, i, e),
           calls[c][i].stage # "answered",
           calls[c][i].kind = "update_cell_source" => e # "ok",
           \A s \in Starts : source'[s] \in {source[s], 0},
           \A s \in Starts : slot'[s] \in {slot[s], 0},
           \A n \in Starts : kernel'[n].session = kernel[n].session,
           delivered' = delivered
    PROVE  DInv'
<1>1. SlotsGood(lastStart) /\ slot \in [Starts -> 0..MaxStarts]
  BY DEF DInv, IInv, TypeOK, BackendTypeOK
<1>2. \A z : Effects(calls[c][i], z)
  BY <1>1, QuietEffects
<1> QED
  BY <1>2, AnswerKept

LEMMA CloseKept ==
    ASSUME IInv, IInv', DInv, UNCHANGED <<clientVars, frontendVars>>,
           NEW c \in Clients, NEW i \in 1..Len(calls[c]),
           OpenPy(c, i) \/ Close(c, i) \/ StopKernel(c, i) \/ StartKernelFails(c, i)
               \/ StartKernelDone(c, i) \/ ExecuteSilent(c, i)
    PROVE  DInv' /\ UNCHANGED delivered
<1> DEFINE x == calls[c][i]
<1>1. /\ slot \in [Starts -> 0..MaxStarts] /\ source \in [Starts -> 0..MaxRuns]
      /\ kernel \in [Starts -> KernelRecord]
  BY DEF IInv, TypeOK, BackendTypeOK
<1>2. CASE OpenPy(c, i)
  <2>1. /\ Answer(c, i, "ok") /\ x.stage # "answered" /\ x.kind # "update_cell_source"
        /\ UNCHANGED <<slot, source, kernel, delivered>>
    BY <1>2 DEF OpenPy, Pending
  <2> QED
    BY <2>1, QuietAnswer
<1>3. CASE Close(c, i)
  <2>1. /\ Answer(c, i, "ok") /\ x.stage # "answered" /\ x.kind # "update_cell_source"
        /\ UNCHANGED delivered
    BY <1>3 DEF Close, Pending
  <2>2. \/ UNCHANGED <<slot, source, kernel>>
        \/ /\ slot' = [slot EXCEPT ![x.session] = 0]
           /\ source' = [source EXCEPT ![x.session] = 0]
           /\ kernel' = Kill(slot[x.session])
    BY <1>3 DEF Close
  <2>3. /\ \A s \in Starts : source'[s] \in {source[s], 0}
        /\ \A s \in Starts : slot'[s] \in {slot[s], 0}
        /\ \A n \in Starts : kernel'[n].session = kernel[n].session
    BY <1>1, <2>2, KillSessions
  <2> QED
    BY <2>1, <2>3, QuietAnswer
<1>4. CASE StopKernel(c, i)
  <2>1. /\ x.stage # "answered" /\ x.kind # "update_cell_source" /\ UNCHANGED <<source, delivered>>
    BY <1>4 DEF StopKernel, Pending
  <2>2. PICK e \in {"ok", "err"} : Answer(c, i, e)
    BY <1>4 DEF StopKernel
  <2>3. \/ UNCHANGED <<slot, kernel>>
        \/ slot' = [slot EXCEPT ![x.session] = 0] /\ kernel' = Kill(slot[x.session])
    BY <1>4 DEF StopKernel
  <2>4. /\ \A s \in Starts : slot'[s] \in {slot[s], 0}
        /\ \A n \in Starts : kernel'[n].session = kernel[n].session
    BY <1>1, <2>3, KillSessions
  <2> QED
    BY <2>1, <2>2, <2>4, QuietAnswer
<1>5. CASE StartKernelFails(c, i) \/ StartKernelDone(c, i)
  <2>1. /\ Answer(c, i, "err") \/ Answer(c, i, "ok")
        /\ x.stage # "answered" /\ x.kind # "update_cell_source"
        /\ UNCHANGED <<slot, source, kernel, delivered>>
    BY <1>5 DEF StartKernelFails, StartKernelDone, Pending, serverVars
  <2> QED
    BY <2>1, QuietAnswer
<1>6. CASE ExecuteSilent(c, i)
  <2>1. /\ x.stage # "answered" /\ x.kind # "update_cell_source"
        /\ UNCHANGED <<slot, source, kernel, delivered>>
    BY <1>6 DEF ExecuteSilent, Pending, serverVars
  <2>2. PICK e : Answer(c, i, e)
    BY <1>6 DEF ExecuteSilent
  <2> QED
    BY <2>1, <2>2, QuietAnswer
<1> QED
  BY <1>2, <1>3, <1>4, <1>5, <1>6

LEMMA LookupKept ==
    ASSUME IInv, IInv', DInv, UNCHANGED <<clientVars, frontendVars>>,
           NEW c \in Clients, NEW i \in 1..Len(calls[c]),
           StartKernelLookup(c, i) \/ ExecuteLookup(c, i)
    PROVE  DInv' /\ UNCHANGED delivered
<1> DEFINE x == calls[c][i]
<1>1. /\ slot \in [Starts -> 0..MaxStarts] /\ source \in [Starts -> 0..MaxRuns]
      /\ kernel \in [Starts -> KernelRecord] /\ x \in Call
  BY PendingCall DEF IInv, TypeOK, BackendTypeOK
<1>2. UNCHANGED serverVars /\ UNCHANGED <<slot, source, kernel, delivered>>
  BY DEF StartKernelLookup, ExecuteLookup, serverVars
<1>3. x.stage = "sent" /\ x.kind \in {"start_kernel", "execute"}
  BY DEF StartKernelLookup, ExecuteLookup, Pending
<1>4. CASE Answer(c, i, "err")
  BY <1>2, <1>3, <1>4, QuietAnswer
<1>5. CASE StartKernelLookup(c, i) /\ ~Answer(c, i, "err")
  <2> DEFINE z == [x EXCEPT !.stage = "begun"]
  <2>1. z \in Call /\ Alike(z, x)
    BY <1>1, StageFields
  <2>2. /\ calls' = [calls EXCEPT ![c] = [calls[c] EXCEPT ![i] = z]]
        /\ UNCHANGED pipe
    BY <1>5 DEF StartKernelLookup
  <2>3. x.kind = "start_kernel"
    BY <1>5 DEF StartKernelLookup, Pending
  <2>4. Served(x, z)
    BY <1>3, <2>1, <2>3 DEF Served
  <2> HIDE DEF z
  <2> QED
    BY <1>2, <2>1, <2>2, <2>4, BeginKept
<1>6. CASE ExecuteLookup(c, i) /\ ~Answer(c, i, "err")
  <2> DEFINE z == [x EXCEPT !.stage = "begun", !.source = source[x.session]]
  <2>1. x.session \in Starts /\ source[x.session] # 0
    BY <1>6 DEF ExecuteLookup, HasSession
  <2>2. /\ calls' = [calls EXCEPT ![c] = [calls[c] EXCEPT ![i] = z]]
        /\ UNCHANGED pipe
    BY <1>6 DEF ExecuteLookup
  <2>3. source[x.session] \in 0..MaxRuns
    BY <1>1, <2>1
  <2>4. x \in Request /\ x.kind = "execute" /\ x.run # 0
    BY <1>1, <1>6 DEF Call, ExecuteLookup, Pending
  <2>5. z \in Request /\ Alike(z, x) /\ z.stage = "begun" /\ z.source = source[x.session]
    BY <2>3, <2>4 DEF Request, Alike
  <2>6. z \in Call
    BY <2>4, <2>5 DEF Call, Alike
  <2>7. Served(x, z)
    BY <1>3, <2>1, <2>4, <2>5, BoundsAssumption DEF Served, Starts
  <2> HIDE DEF z
  <2> QED
    BY <1>2, <2>2, <2>6, <2>7, BeginKept
<1> QED
  BY <1>2, <1>4, <1>5, <1>6

LEMMA InstallKept ==
    ASSUME IInv, IInv', DInv, UNCHANGED <<clientVars, frontendVars>>,
           NEW c \in Clients, NEW i \in 1..Len(calls[c]), StartKernelInstall(c, i)
    PROVE  DInv' /\ UNCHANGED delivered
<1> DEFINE x == calls[c][i]
           k == [st |-> "running", session |-> x.session, client |-> c]
           g == Kill(slot[x.session])
<1>1. /\ slot \in [Starts -> 0..MaxStarts] /\ kernel \in [Starts -> KernelRecord]
      /\ x \in Call /\ CallGood(x, buf, Now, lastStart) /\ lastStart \in 0..MaxStarts
  BY PendingCall DEF IInv, TypeOK, BackendTypeOK
<1> DEFINE z == [x EXCEPT !.stage = "installed"]
<1>2. /\ x.kind = "start_kernel" /\ x.stage = "begun" /\ UNCHANGED pipe
      /\ calls' = [calls EXCEPT ![c] = [calls[c] EXCEPT ![i] = z]]
      /\ kernel' = [g EXCEPT ![x.start] = k]
      /\ slot' = [slot EXCEPT ![x.session] = x.start]
      /\ UNCHANGED <<source, delivered>>
  BY DEF StartKernelInstall, Pending
<1>3. x.start \in 1..lastStart /\ x.start \in 0..MaxStarts /\ Fresh(x.start)
  <2>1. OfStart(x)
    BY <1>2 DEF OfStart, StartKinds
  <2> QED
    BY <1>1, <1>2, <2>1, CallFields DEF CallGood, StartGood, ServedGood, Unstarted
<1>4. x.start \in Starts /\ x.start # 0
  BY <1>1, <1>3, BoundsAssumption DEF Starts
<1>5. \A n \in Starts : g[n].session = kernel[n].session
  BY KillSessions
<1>6. DOMAIN g = Starts
  BY <1>1 DEF Kill
<1>7. k.session = x.session
  OBVIOUS
<1> HIDE DEF g, k
<1>8. kernel'[x.start] = k
  BY <1>2, <1>4, <1>6
<1>9. \A n \in Starts : n # x.start => kernel'[n].session = kernel[n].session
  BY <1>2, <1>5, <1>6
<1>10. ASSUME NEW s \in Starts, slot'[s] = x.start PROVE s = x.session
  BY <1>1, <1>2, <1>3, <1>10 DEF Fresh
<1>11. \A s \in Starts : slot'[s] \in {slot[s], 0} \/ (s = x.session /\ slot'[s] = x.start)
  BY <1>1, <1>2
<1>14. z \in Call /\ Alike(z, x) /\ z.stage = "installed"
  BY <1>1, StageFields
<1>12. Effects(x, z)
  <2>1. Installs(x, z)
    BY <1>2, <1>14 DEF Installs, Unstarted
  <2> HIDE DEF x, z
  <2> QED
    BY <1>2, <1>7, <1>8, <1>9, <1>10, <1>11, <2>1 DEF Effects
<1>13. Served(x, z) /\ Answered(x, z)
  BY <1>2, <1>14 DEF Served, Answered
<1> HIDE DEF z
<1> QED
  BY <1>2, <1>12, <1>13, <1>14, CallServed

LEMMA UpdateKept ==
    ASSUME IInv, IInv', DInv, UNCHANGED <<clientVars, frontendVars>>,
           NEW c \in Clients, NEW i \in 1..Len(calls[c]), UpdateCellSource(c, i)
    PROVE  DInv' /\ UNCHANGED delivered
<1> DEFINE x == calls[c][i]
<1>1. /\ source \in [Starts -> 0..MaxRuns] /\ slot \in [Starts -> 0..MaxStarts]
      /\ SlotsGood(lastStart)
  BY DEF IInv, TypeOK, BackendTypeOK, DInv
<1>2. /\ x.kind = "update_cell_source" /\ x.stage = "sent"
      /\ UNCHANGED <<slot, kernel, delivered>>
  BY DEF UpdateCellSource, Pending
<1>3. CASE HasSession(c, x)
  <2>1. source' = [source EXCEPT ![x.session] = x.run] /\ Answer(c, i, "ok")
        /\ x.session \in Starts
    BY <1>3 DEF UpdateCellSource, HasSession
  <2>2. \A s \in Starts : source'[s] \in {source[s], 0} \/ (s = x.session /\ source'[s] = x.run)
    BY <1>1, <2>1
  <2>3. source'[x.session] = x.run /\ x.session # 0
    BY <1>1, <2>1, BoundsAssumption DEF Starts
  <2>4. \A n \in Starts : \A s \in Starts : slot'[s] = n => kernel'[n].session = s
    <3> SUFFICES ASSUME NEW n \in Starts, NEW s \in Starts, slot[s] = n
                 PROVE  kernel[n].session = s
      BY <1>2
    <3>1. n # 0
      BY BoundsAssumption DEF Starts
    <3> QED
      BY <1>1, <3>1 DEF SlotsGood
  <2>5. ASSUME NEW z PROVE Effects(x, z)
    <3> HIDE DEF x
    <3> QED
      BY <1>2, <2>2, <2>4 DEF Effects
  <2> QED
    BY <1>2, <2>1, <2>3, <2>5, AnswerKept
<1>4. CASE ~HasSession(c, x)
  <2>1. source' = source /\ Answer(c, i, "err")
    BY <1>4 DEF UpdateCellSource
  <2> QED
    BY <1>2, <2>1, QuietAnswer
<1> QED
  BY <1>3, <1>4

(* The run that reaches a kernel is not delivered before, nor a later one. *)
LEMMA SendKept ==
    ASSUME IInv, IInv', DInv, UNCHANGED <<clientVars, frontendVars>>,
           NEW c \in Clients, NEW i \in 1..Len(calls[c]), ExecuteSend(c, i)
    PROVE  /\ DInv'
           /\ UNCHANGED delivered \/ \E n \in Starts, r \in 1..MaxRuns : Promise!Deliver(n, r)
<1> DEFINE x == calls[c][i]
           n == slot[x.session]
           d == [run |-> x.run, source |-> x.source]
           q == Append(delivered[n], d)
<1>1. /\ slot \in [Starts -> 0..MaxStarts] /\ delivered \in [Starts -> Seq(Delivery)]
      /\ x \in Call /\ CallGood(x, buf, Now, lastStart) /\ SlotsGood(lastStart)
      /\ lastRun \in 0..MaxRuns /\ Now.issued = lastRun /\ Now.dropped = dropped
  BY PendingCall, NowFields DEF IInv, TypeOK, BackendTypeOK, DInv
<1>2. /\ x.kind = "execute" /\ x.stage = "begun" /\ UNCHANGED <<slot, source, kernel>>
  BY DEF ExecuteSend, Pending
<1>3. x.session # 0 /\ x.source = x.run
  BY <1>1, <1>2 DEF CallGood, ServedGood
<1>4. /\ x.session \in Starts /\ x.run \in 1..MaxRuns
  <2>1. x.session \in 0..MaxStarts /\ x.run \in 0..MaxRuns /\ x.run # 0
    BY <1>1, <1>2, CallFields DEF OfRun, Call
  <2> QED
    BY <1>3, <2>1, BoundsAssumption DEF Starts
<1>5. CASE n = 0
  <2>1. Answer(c, i, "err") /\ delivered' = delivered
    BY <1>5 DEF ExecuteSend
  <2> QED
    BY <1>2, <2>1, QuietAnswer
<1>6. CASE n # 0
  <2>1. delivered' = [delivered EXCEPT ![n] = q] /\ Answer(c, i, "ok")
    BY <1>6 DEF ExecuteSend
  <2>2. n \in Starts
    BY <1>1, <1>4, <1>6, BoundsAssumption DEF Starts
  <2>3. d.run = x.run /\ d.source = x.run
    BY <1>3
  <2>4. d \in Delivery
    BY <1>3, <1>4 DEF Delivery, Runs
  <2>5. delivered[n] \in Seq(Delivery)
    BY <1>1, <2>2
  <2>6. \A j \in 1..Len(q) : (j \in 1..Len(delivered[n]) /\ q[j] = delivered[n][j]) \/ q[j].run = x.run
    BY <2>3, <2>4, <2>5
  <2>7. delivered'[n] = q /\ \A m \in Starts : m # n => delivered'[m] = delivered[m]
    BY <1>1, <2>1, <2>2
  <2>8. \A m \in Starts : \A s \in Starts : slot'[s] = m => kernel'[m].session = s
    <3> SUFFICES ASSUME NEW m \in Starts, NEW s \in Starts, slot[s] = m
                 PROVE  kernel[m].session = s
      BY <1>2
    <3>1. m # 0
      BY BoundsAssumption DEF Starts
    <3> QED
      BY <1>1, <3>1 DEF SlotsGood
  <2>9. ASSUME NEW z, z.stage = "answered" PROVE Effects(x, z)
    <3>1. Submits(x, z) /\ ~Installs(x, z)
      BY <1>2, <2>9 DEF Submits, Installs, Unstarted
    <3>2. \A m \in Starts :
            \/ delivered'[m] = delivered[m]
            \/ /\ m = slot[x.session]
               /\ \A j \in 1..Len(delivered'[m]) :
                    \/ j \in 1..Len(delivered[m]) /\ delivered'[m][j] = delivered[m][j]
                    \/ delivered'[m][j].run = x.run
      BY <2>6, <2>7
    <3> HIDE DEF x, q, d, n
    <3> QED
      BY <1>2, <1>4, <2>8, <3>1, <3>2 DEF Effects
  <2>10. DInv'
    BY <1>2, <2>1, <2>9, AnswerKept
  <2>11. /\ x.run <= lastRun /\ x.run \notin dropped
    BY <1>1, <1>2 DEF CallGood, RunGood, DropGood, OfRun, Before
  <2>12. /\ ~Delivered(x.run)
         /\ \A j \in 1..Len(delivered[n]) : delivered[n][j].run < x.run
    <3>1. kernel[n].session = x.session
      BY <1>1, <1>4, <1>6 DEF SlotsGood
    <3>2. Unsent(x)
      BY <1>2 DEF Unsent
    <3> QED
      BY <1>1, <1>3, <2>2, <3>1, <3>2 DEF CallGood, ServedGood
  <2>13. x.run \in 1..lastRun
    BY <1>1, <1>4, <2>11
  <2>14. delivered' = [delivered EXCEPT ![n] = Append(@, [run |-> x.run, source |-> x.run])]
    BY <1>3, <2>1
  <2>15. lastRun' = lastRun /\ dropped' = dropped
    BY DEF frontendVars
  <2> HIDE DEF x, n
  <2>16. Promise!Deliver(n, x.run)
    BY <2>11, <2>12, <2>13, <2>14, <2>15 DEF Promise!Deliver, Promise!Delivered, Delivered
  <2> QED
    BY <1>4, <2>2, <2>10, <2>16
<1> QED
  BY <1>5, <1>6

LEMMA ServeKept ==
    ASSUME IInv, IInv', DInv, UNCHANGED <<clientVars, frontendVars>>,
           NEW c \in Clients, Serve(c)
    PROVE  /\ DInv'
           /\ UNCHANGED delivered \/ \E n \in Starts, r \in 1..MaxRuns : Promise!Deliver(n, r)
<1>1. PICK i \in 1..Len(calls[c]) :
          \/ OpenPy(c, i) \/ Close(c, i) \/ StopKernel(c, i) \/ StartKernelFails(c, i)
          \/ StartKernelDone(c, i) \/ ExecuteSilent(c, i)
          \/ StartKernelLookup(c, i) \/ ExecuteLookup(c, i)
          \/ StartKernelInstall(c, i)
          \/ UpdateCellSource(c, i)
          \/ ExecuteSend(c, i)
  BY DEF Serve
<1>2. CASE \/ OpenPy(c, i) \/ Close(c, i) \/ StopKernel(c, i) \/ StartKernelFails(c, i)
           \/ StartKernelDone(c, i) \/ ExecuteSilent(c, i)
  BY <1>2, CloseKept
<1>3. CASE StartKernelLookup(c, i) \/ ExecuteLookup(c, i)
  BY <1>3, LookupKept
<1>4. CASE StartKernelInstall(c, i)
  BY <1>4, InstallKept
<1>5. CASE UpdateCellSource(c, i)
  BY <1>5, UpdateKept
<1>6. CASE ExecuteSend(c, i)
  BY <1>6, SendKept
<1> QED
  BY <1>1, <1>2, <1>3, <1>4, <1>5, <1>6

(* A step that serves no call, and may schedule callback x.                *)
LEMMA QuietKept ==
    ASSUME IInv, IInv', DInv, UNCHANGED frontendVars,
           AllApart(Lanes(calls', loop')), LoopGood(loop'),
           NEW x \in Call, x.kind = "none",
           \A y \in Within(Lanes(calls', loop')) : y = x \/ y \in Within(Lanes(calls, loop)),
           \A f \in Frames(pipe') : Answers(f) => f \in Frames(pipe),
           \A s \in Starts : source'[s] \in {source[s], 0},
           \A s \in Starts : slot'[s] \in {slot[s], 0},
           \A n \in Starts : kernel'[n].session = kernel[n].session,
           delivered' = delivered
    PROVE  DInv'
<1>1. SlotsGood(lastStart) /\ slot \in [Starts -> 0..MaxStarts]
  BY DEF DInv, IInv, TypeOK, BackendTypeOK
<1>2. Effects(x, x)
  BY <1>1, QuietEffects
<1>3. x.kind \in {"none", "close"}
  OBVIOUS
<1>4. CallGood(x, buf, Now, lastStart) /\ \A y : Apart(x, y)
  BY <1>3, OtherCall
<1>5. Served(x, x)
  BY DEF Served, Alike
<1>6. Answered(x, x)
  BY DEF Answered
<1> QED
  BY <1>2, <1>4, <1>5, <1>6, BackendKept

LEMMA KernelsKept ==
    ASSUME IInv, IInv', DInv, UNCHANGED <<clientVars, frontendVars>>,
           \/ \E k \in Starts : PumpStep(k) \/ KernelDies(k)
           \/ \E c \in Clients : BackendDies(c)
    PROVE  DInv' /\ UNCHANGED delivered
<1>1. /\ slot \in [Starts -> 0..MaxStarts] /\ kernel \in [Starts -> KernelRecord]
      /\ pipe \in [Clients -> Seq(Frame)]
  BY DEF IInv, TypeOK, BackendTypeOK
<1>2. NoCall \in Call /\ NoCall.kind = "none"
  BY NoCallTyped DEF NoCall
<1>3. UNCHANGED <<calls, source, delivered>>
  BY DEF PumpStep, WatchExit, PumpTakesKernel, PumpReportsExit, KernelDies, BackendDies, wireVars
<1>4. loop' = loop /\ UNCHANGED frontendVars
  BY DEF clientVars
<1>5. /\ AllApart(Lanes(calls', loop')) /\ LoopGood(loop')
      /\ \A y \in Within(Lanes(calls', loop')) : y \in Within(Lanes(calls, loop))
  BY <1>3, <1>4 DEF DInv
<1>6. /\ \A s \in Starts : slot'[s] \in {slot[s], 0}
      /\ \A n \in Starts : kernel'[n].session = kernel[n].session
  <2>1. ASSUME NEW k \in Starts, NEW t \in KernelStates, kernel' = [kernel EXCEPT ![k].st = t]
        PROVE  \A n \in Starts : kernel'[n].session = kernel[n].session
    BY <1>1, <2>1 DEF KernelRecord
  <2>2. ASSUME NEW k \in Starts, PumpStep(k) \/ KernelDies(k)
        PROVE  /\ \A s \in Starts : slot'[s] \in {slot[s], 0}
               /\ \E t \in KernelStates : kernel' = [kernel EXCEPT ![k].st = t]
    BY <1>1, <2>2 DEF PumpStep, WatchExit, PumpTakesKernel, PumpReportsExit, KernelDies, KernelStates
  <2>3. ASSUME NEW c \in Clients, BackendDies(c)
        PROVE  /\ \A s \in Starts : slot'[s] \in {slot[s], 0}
               /\ \A n \in Starts : kernel'[n].session = kernel[n].session
    <3>1. \A s \in Starts : slot'[s] \in {slot[s], 0}
      BY <2>3 DEF BackendDies
    <3>2. ASSUME NEW n \in Starts PROVE [kernel[n] EXCEPT !.st = "gone"].session = kernel[n].session
      BY <1>1 DEF KernelRecord
    <3>3. \A n \in Starts : kernel'[n] \in {kernel[n], [kernel[n] EXCEPT !.st = "gone"]}
      BY <2>3 DEF BackendDies
    <3> QED
      BY <3>1, <3>2, <3>3
  <2> QED
    BY <2>1, <2>2, <2>3
<1>7. \A f \in Frames(pipe') : Answers(f) => f \in Frames(pipe)
  <2>1. CASE pipe' = pipe
    BY <2>1
  <2>2. ASSUME NEW k \in Starts, PumpReportsExit(k)
        PROVE  \A f \in Frames(pipe') : Answers(f) => f \in Frames(pipe)
    <3> DEFINE c == kernel[k].client
               e == [type |-> "kernel_exited", err |-> "ok",
                     call |-> [NoCall EXCEPT !.session = kernel[k].session]]
    <3>1. pipe' = [pipe EXCEPT ![c] = Append(pipe[c], e)]
      BY <2>2 DEF PumpReportsExit
    <3>2. ~Answers(e)
      BY DEF Answers
    <3> HIDE DEF e, c
    <3> SUFFICES ASSUME NEW f \in Frames(pipe'), Answers(f), f \notin Frames(pipe) PROVE FALSE
      OBVIOUS
    <3>3. PICK d \in Clients : \E j \in 1..Len(pipe'[d]) : f = pipe'[d][j]
      BY InFrames
    <3>4. PICK j \in 1..Len(pipe'[d]) : f = pipe'[d][j]
      BY <3>3
    <3>5. ~(j \in 1..Len(pipe[d]) /\ f = pipe[d][j])
      BY InFrames
    <3>6. d = c /\ pipe'[c] = Append(pipe[c], e) /\ pipe[c] \in Seq(Frame)
      BY <1>1, <3>1, <3>4, <3>5
    <3> QED
      BY <3>2, <3>4, <3>5, <3>6
  <2>3. pipe' = pipe \/ \E k \in Starts : PumpReportsExit(k)
    BY DEF PumpStep, WatchExit, PumpTakesKernel, KernelDies, BackendDies, wireVars
  <2> QED
    BY <2>1, <2>2, <2>3
<1>8. \A s \in Starts : source'[s] \in {source[s], 0}
  BY <1>3
<1>9. delivered' = delivered
  BY <1>3
<1> QED
  BY <1>2, <1>4, <1>5, <1>6, <1>7, <1>8, <1>9, QuietKept

LEMMA ExitCallbackKept ==
    ASSUME IInv, IInv', DInv, UNCHANGED frontendVars, NEW c \in Clients, ExitCallback(c)
    PROVE  DInv' /\ UNCHANGED delivered
<1> DEFINE L == Lanes(calls, loop)
           M == Lanes(calls', loop')
           x == [NoCall EXCEPT !.client = c]
           f == [type |-> "on_exit", err |-> "ok", call |-> x]
<1>1. L \in AllLanes /\ AllApart(L) /\ LoopGood(loop) /\ loop \in Seq(Frame)
  <2>1. Waiting(calls, loop) \in Waits /\ Waiting(calls, loop).calls = calls
        /\ Waiting(calls, loop).loop = loop
    BY WaitingCallsOK DEF Waiting
  <2>2. Lanes(calls, loop) \in AllLanes
    BY <2>1, LanesTyped
  <2> QED
    BY <2>2 DEF DInv, IInv, TypeOK, ClientTypeOK
<1>2. c \in 0..MaxClients /\ 0 \in 0..MaxClients
  BY BoundsAssumption DEF Clients
<1>3. x \in Call /\ x.kind = "none"
  BY <1>2, NoCallTyped DEF NoCall, Call, Request
<1>4. f \in Frame /\ f.type = "on_exit" /\ f.call = x
  BY <1>3 DEF Frame
<1>5. /\ loop' = Append(loop, f) /\ calls' = calls /\ pipe' = pipe
      /\ source' = source /\ slot' = slot /\ kernel' = kernel /\ delivered' = delivered
  BY DEF ExitCallback, serverVars, wireVars
<1> HIDE DEF f, x
<1>6. Callbacks(loop') = Append(Callbacks(loop), x)
  BY <1>1, <1>4, <1>5, CallbacksAppend
<1>7. L[0] = Callbacks(loop)
  BY <1>2 DEF Lanes
<1> DEFINE s == Append(L[0], x)
<1>8. Callbacks(loop') = s
  BY <1>6, <1>7
<1> HIDE DEF s
<1>9. M = [L EXCEPT ![0] = s]
  BY <1>2, <1>5, <1>8 DEF Lanes
<1> HIDE DEF L, M
<1>10. M = [L EXCEPT ![0] = Append(L[0], x)]
  BY <1>9 DEF s
<1>11. \A z \in Within(L) : Apart(x, z)
  BY <1>3, OtherCall
<1>12. AllApart(M) /\ \A z \in Within(M) : z = x \/ z \in Within(L)
  BY <1>1, <1>2, <1>3, <1>10, <1>11, LaneAppended
<1>13. LoopGood(loop')
  <2>1. Len(loop') = Len(loop) + 1 /\ loop'[Len(loop) + 1] = f /\ Len(loop) \in Nat
        /\ \A i \in 1..Len(loop) : loop'[i] = loop[i]
    BY <1>1, <1>4, <1>5
  <2> QED
    BY <1>1, <1>4, <2>1 DEF LoopGood
<1> QED
  BY <1>3, <1>5, <1>12, <1>13, QuietKept DEF L, M

(* The pending calls of a client that is closed become callbacks.          *)
LEMMA CloseClientMoves ==
    ASSUME IInv, IInv', DInv, NEW c \in Clients, CloseClient(c)
    PROVE  /\ AllApart(Lanes(calls', loop'))
           /\ Within(Lanes(calls', loop')) \subseteq Within(Lanes(calls, loop))
           /\ \A j \in 1..Len(loop') :
                  \/ j \in 1..Len(loop) /\ loop'[j] = loop[j]
                  \/ /\ loop'[j].type = "reply" /\ loop'[j].err = "gone"
                     /\ \E i \in 1..Len(calls[c]) : loop'[j].call = calls[c][i]
           /\ Frames(pipe') \subseteq Frames(pipe)
<1> DEFINE L == Lanes(calls, loop)
           M == Lanes(calls', loop')
           g == [i \in 1..Len(calls[c]) |-> Reply(calls[c][i], "gone")]
           n == Len(loop)
           t == Len(calls[c])
<1>1. L \in AllLanes /\ AllApart(L) /\ loop \in Seq(Frame)
      /\ loop' \in Seq(Frame)
      /\ calls \in [Clients -> Seq(Call)] /\ pipe \in [Clients -> Seq(Frame)]
  <2>1. Waiting(calls, loop) \in Waits /\ Waiting(calls, loop).calls = calls
        /\ Waiting(calls, loop).loop = loop
    BY WaitingCallsOK DEF Waiting
  <2>2. Lanes(calls, loop) \in AllLanes
    BY <2>1, LanesTyped
  <2>3. loop \in Seq(Frame) /\ loop' \in Seq(Frame)
        /\ calls \in [Clients -> Seq(Call)] /\ pipe \in [Clients -> Seq(Frame)]
    BY DEF IInv, TypeOK, ClientTypeOK, BackendTypeOK
  <2> QED
    BY <2>2, <2>3 DEF DInv
<1>2. c \in 0..MaxClients /\ c # 0 /\ 0 \in 0..MaxClients
  BY BoundsAssumption DEF Clients
<1>3. /\ loop' = loop \o g /\ calls' = [calls EXCEPT ![c] = <<>>]
      /\ pipe' = [pipe EXCEPT ![c] = <<>>]
  BY DEF CloseClient
<1>4. calls[c] \in Seq(Call) /\ t \in Nat /\ n \in Nat
  BY <1>1
<1>5. g \in Seq(Frame) /\ Len(g) = t
      /\ \A i \in 1..t : g[i].call = calls[c][i] /\ g[i].type = "reply" /\ g[i].err = "gone"
  <2>1. \A i \in 1..t : Reply(calls[c][i], "gone") \in Frame
    BY <1>4, ReplyTyped
  <2>2. \A i \in 1..t : g[i] = Reply(calls[c][i], "gone")
    OBVIOUS
  <2>3. \A i \in 1..t : /\ Reply(calls[c][i], "gone").call = calls[c][i]
                        /\ Reply(calls[c][i], "gone").type = "reply"
                        /\ Reply(calls[c][i], "gone").err = "gone"
    BY DEF Reply
  <2>4. g \in Seq(Frame) /\ Len(g) = t
    BY <1>4, <2>1
  <2> HIDE DEF g
  <2> QED
    BY <2>2, <2>3, <2>4
<1> HIDE DEF g
<1>6. /\ Len(loop') = n + t
      /\ \A i \in 1..(n + t) : loop'[i] = IF i <= n THEN loop[i] ELSE g[i - n]
  <2>1. /\ Len(loop \o g) = Len(loop) + Len(g)
        /\ \A i \in 1..(Len(loop) + Len(g)) :
              (loop \o g)[i] = IF i <= Len(loop) THEN loop[i] ELSE g[i - Len(loop)]
    <3> HIDE DEF n, t
    <3> QED
      BY <1>1, <1>5, ConcatProperties
  <2>2. Len(g) = t /\ Len(loop) = n
    BY <1>5
  <2> QED
    BY <1>3, <2>1, <2>2
<1>7. /\ L[c] = calls[c] /\ L[0] = Callbacks(loop) /\ Len(L[0]) = n
      /\ \A i \in 1..n : L[0][i] = loop[i].call
  BY <1>1, <1>2, CallbacksTyped DEF Lanes
<1>8. /\ M[c] = <<>> /\ M[0] = Callbacks(loop')
      /\ \A d \in 0..MaxClients : d # 0 /\ d # c => M[d] = L[d]
  BY <1>1, <1>2, <1>3 DEF Lanes, Clients
<1>9. /\ Len(M[0]) = n + t
      /\ \A i \in 1..(n + t) : M[0][i] = IF i <= n THEN L[0][i] ELSE L[c][i - n]
  <2>1. Len(Callbacks(loop')) = n + t /\ \A i \in 1..(n + t) : Callbacks(loop')[i] = loop'[i].call
    BY <1>1, <1>6, CallbacksTyped
  <2>2. ASSUME NEW i \in 1..(n + t)
        PROVE  loop'[i].call = IF i <= n THEN L[0][i] ELSE L[c][i - n]
    <3>1. CASE i <= n
      BY <1>4, <1>6, <1>7, <3>1
    <3>2. CASE ~(i <= n)
      <4>1. i - n \in 1..t
        BY <1>4, <3>2
      <4> QED
        BY <1>5, <1>6, <1>7, <3>2, <4>1
    <3> QED
      BY <3>1, <3>2
  <2> QED
    BY <1>8, <2>1, <2>2
<1> HIDE DEF L, M
(* Every place of the new lanes is one of the old lanes.                   *)
<1>10. ASSUME NEW d \in 0..MaxClients, NEW i \in 1..Len(M[d])
       PROVE  \/ ~(d = 0 /\ i > n) /\ d # c /\ i \in 1..Len(L[d]) /\ M[d][i] = L[d][i]
              \/ d = 0 /\ i > n /\ i - n \in 1..Len(L[c]) /\ M[d][i] = L[c][i - n]
  <2>1. CASE d = 0 /\ i <= n
    BY <1>2, <1>4, <1>7, <1>9, <2>1
  <2>2. CASE d = 0 /\ ~(i <= n)
    BY <1>4, <1>7, <1>9, <2>2
  <2>3. CASE d = c
    BY <1>8, <2>3
  <2>4. CASE d # 0 /\ d # c
    BY <1>8, <2>4
  <2> QED
    BY <2>1, <2>2, <2>3, <2>4
<1>11. AllApart(M)
  <2> SUFFICES ASSUME NEW d \in 0..MaxClients, NEW e \in 0..MaxClients,
                      NEW i \in 1..Len(M[d]), NEW j \in 1..Len(M[e]), d # e \/ i # j
               PROVE  Apart(M[d][i], M[e][j])
    BY DEF AllApart
  <2>1. i \in Nat /\ j \in Nat
    OBVIOUS
  <2>2. CASE d = 0 /\ i > n /\ e = 0 /\ j > n
    <3>1. /\ i - n \in 1..Len(L[c]) /\ M[d][i] = L[c][i - n]
          /\ j - n \in 1..Len(L[c]) /\ M[e][j] = L[c][j - n] /\ i - n # j - n
      BY <1>4, <1>10, <2>1, <2>2
    <3> QED
      BY <1>1, <1>2, <3>1 DEF AllApart
  <2>3. CASE d = 0 /\ i > n /\ ~(e = 0 /\ j > n)
    <3>1. /\ i - n \in 1..Len(L[c]) /\ M[d][i] = L[c][i - n]
          /\ j \in 1..Len(L[e]) /\ M[e][j] = L[e][j] /\ e # c
      BY <1>10, <2>3
    <3> QED
      BY <1>1, <1>2, <3>1 DEF AllApart
  <2>4. CASE ~(d = 0 /\ i > n) /\ e = 0 /\ j > n
    <3>1. /\ i \in 1..Len(L[d]) /\ M[d][i] = L[d][i] /\ d # c
          /\ j - n \in 1..Len(L[c]) /\ M[e][j] = L[c][j - n]
      BY <1>10, <2>4
    <3> QED
      BY <1>1, <1>2, <3>1 DEF AllApart
  <2>5. CASE ~(d = 0 /\ i > n) /\ ~(e = 0 /\ j > n)
    <3>1. /\ i \in 1..Len(L[d]) /\ M[d][i] = L[d][i]
          /\ j \in 1..Len(L[e]) /\ M[e][j] = L[e][j]
      BY <1>10, <2>5
    <3> QED
      BY <1>1, <3>1 DEF AllApart
  <2> QED
    BY <2>2, <2>3, <2>4, <2>5
<1>12. ASSUME NEW y \in Within(M) PROVE y \in Within(L)
  <2>1. PICK d \in 0..MaxClients : \E i \in 1..Len(M[d]) : y = M[d][i]
    BY InLanes
  <2>2. PICK i \in 1..Len(M[d]) : y = M[d][i]
    BY <2>1
  <2>3. \/ i \in 1..Len(L[d]) /\ y = L[d][i]
        \/ i - n \in 1..Len(L[c]) /\ y = L[c][i - n]
    BY <1>10, <2>2
  <2> QED
    BY <1>2, <2>3, InLanes
<1>13. ASSUME NEW j \in 1..Len(loop')
       PROVE  \/ j \in 1..Len(loop) /\ loop'[j] = loop[j]
              \/ /\ loop'[j].type = "reply" /\ loop'[j].err = "gone"
                 /\ \E i \in 1..Len(calls[c]) : loop'[j].call = calls[c][i]
  <2>1. CASE j <= n
    <3>1. j \in 1..Len(loop) /\ loop'[j] = loop[j]
      BY <1>4, <1>6, <2>1
    <3> QED
      BY <3>1
  <2>2. CASE ~(j <= n)
    <3>1. j - n \in 1..t
      BY <1>4, <1>6, <2>2
    <3> QED
      BY <1>5, <1>6, <2>2, <3>1
  <2> QED
    BY <2>1, <2>2
<1>14. \A f \in Frames(pipe') : f \in Frames(pipe)
  <2> SUFFICES ASSUME NEW f \in Frames(pipe') PROVE f \in Frames(pipe)
    OBVIOUS
  <2>1. PICK d \in Clients : \E j \in 1..Len(pipe'[d]) : f = pipe'[d][j]
    BY InFrames
  <2>2. pipe'[d] = pipe[d]
    BY <1>1, <1>3, <2>1
  <2> QED
    BY <2>1, <2>2, InFrames
<1> QED
  BY <1>11, <1>12, <1>13, <1>14 DEF L, M

LEMMA CloseClientKept ==
    ASSUME IInv, IInv', DInv, UNCHANGED frontendVars, NEW c \in Clients, CloseClient(c)
    PROVE  DInv' /\ UNCHANGED delivered
<1>1. source' = source /\ slot' = slot /\ kernel' = kernel /\ delivered' = delivered
  BY DEF CloseClient, serverVars
<1>2. LoopGood(loop')
  BY CloseClientMoves DEF DInv, LoopGood
<1>3. NoCall \in Call /\ NoCall.kind = "none"
  BY NoCallTyped DEF NoCall
<1> QED
  BY <1>1, <1>2, <1>3, CloseClientMoves, QuietKept

-----------------------------------------------------------------------------
(* The theorems.                                                           *)

LEMMA InitGood == Init => DInv
<1> SUFFICES ASSUME Init PROVE DInv
  OBVIOUS
<1>1. /\ calls = [c \in Clients |-> <<>>] /\ pipe = [c \in Clients |-> <<>>] /\ loop = <<>>
      /\ delivered = [n \in Starts |-> <<>>] /\ slot = [s \in Starts |-> 0]
      /\ buf = DefaultBufferState /\ lastRun = 0 /\ lastStart = 0 /\ dropped = {}
  BY DEF Init, BackendInit, ClientInit
<1>2. /\ MaxClients \in Nat /\ \A c \in 0..MaxClients : c # 0 => c \in Clients
      /\ \A n \in Starts : n # 0
  BY BoundsAssumption DEF Clients, Starts
<1>3. /\ buf.queue.runs = <<>> /\ buf.queue.id = 0 /\ buf.inFlight = 0
      /\ buf.session = 0 /\ buf.starting.id = 0 /\ buf.starting.held = FALSE
  BY <1>1, NoQueueFields, NoStartFields DEF DefaultBufferState
<1>4. \A c \in 0..MaxClients : Len(Lanes(calls, loop)[c]) = 0
  <2>1. Len(Callbacks(loop)) = 0
    <3>1. loop \in Seq(Frame) /\ Len(loop) = 0
      BY <1>1
    <3> QED
      BY <3>1, CallbacksTyped
  <2> QED
    BY <1>1, <1>2, <2>1 DEF Lanes
<1>5. AllApart(Lanes(calls, loop)) /\ Within(Lanes(calls, loop)) = {}
  <2>1. AllApart(Lanes(calls, loop))
    BY <1>4 DEF AllApart
  <2>2. \A x \in Within(Lanes(calls, loop)) : FALSE
    BY <1>4, InLanes
  <2> QED
    BY <2>1, <2>2
<1>6. \A f \in Frames(pipe) : FALSE
  BY <1>1, InFrames
<1>7. SlotsGood(lastStart)
  BY <1>1, <1>2 DEF SlotsGood, Fresh
<1>8. \A r : ~Delivered(r)
  BY <1>1 DEF Delivered
<1>9. BufferGood(buf, Fixed(pipe, lastRun, dropped), lastStart)
  <2> DEFINE k == Fixed(pipe, lastRun, dropped)
  <2>1. k.frames = Frames(pipe) /\ k.issued = 0 /\ k.dropped = {}
    BY <1>1 DEF Fixed
  <2> HIDE DEF k
  <2>2. Len(buf.queue.runs) = 0
    BY <1>3
  <2>3. QueueGood(buf, k, lastStart)
    BY <1>1, <1>3, <2>1, <2>2 DEF QueueGood
  <2>4. BufferGood(buf, k, lastStart)
    BY <1>6, <1>8, <2>1, <2>3 DEF BufferGood
  <2> QED
    BY <2>4 DEF k
<1>10. LoopGood(loop)
  BY <1>1 DEF LoopGood
<1> QED
  BY <1>5, <1>7, <1>9, <1>10 DEF DInv, Good

(* Every step keeps the invariant, and is one of the abstract              *)
(* specification or leaves what that one speaks of alone.                  *)
LEMMA StepKept ==
    ASSUME IInv, IInv', DInv, [Next]_vars
    PROVE  DInv' /\ [Promise!Next]_<<lastRun, dropped, delivered>>
<1>1. ASSUME NEW n \in 0..(MaxRuns - lastRun), NEW S \in SUBSET (1..lastRun), Promise!Issue(n, S)
      PROVE  Promise!Next
  BY <1>1 DEF Promise!Next
<1>2. ASSUME NEW n \in Starts, NEW r \in 1..MaxRuns, Promise!Deliver(n, r)
      PROVE  Promise!Next
  BY <1>2 DEF Promise!Next
<1>3. CASE UserCommand
  BY <1>1, <1>3, UserCommandKept
<1>4. CASE EventLoop
  BY <1>1, <1>4, EventLoopKept
<1>5. CASE \E c \in Clients : Serve(c) /\ UNCHANGED <<clientVars, frontendVars>>
  <2>1. DInv' /\ (UNCHANGED delivered \/ Promise!Next)
    BY <1>2, <1>5, ServeKept
  <2>2. UNCHANGED <<lastRun, dropped>>
    BY <1>5 DEF frontendVars
  <2> QED
    BY <2>1, <2>2
<1>6. CASE /\ \/ \E k \in Starts : PumpStep(k) \/ KernelDies(k)
              \/ \E c \in Clients : BackendDies(c)
           /\ UNCHANGED <<clientVars, frontendVars>>
  <2>1. DInv' /\ UNCHANGED delivered
    BY <1>6, KernelsKept
  <2>2. UNCHANGED <<lastRun, dropped>>
    BY <1>6 DEF frontendVars
  <2> QED
    BY <2>1, <2>2
<1>7. CASE Exits
  <2>1. UNCHANGED frontendVars
    BY <1>7 DEF Exits
  <2>2. PICK c \in Clients : ExitCallback(c) \/ CloseClient(c)
    BY <1>7 DEF Exits, Gone
  <2>3. DInv' /\ UNCHANGED delivered
    BY <2>1, <2>2, ExitCallbackKept, CloseClientKept
  <2>4. UNCHANGED <<lastRun, dropped>>
    BY <2>1 DEF frontendVars
  <2> QED
    BY <2>3, <2>4
<1>8. CASE UNCHANGED vars
  <2>1. /\ UNCHANGED frontendVars /\ UNCHANGED <<calls, pipe, loop>>
        /\ UNCHANGED <<source, slot, kernel, delivered>>
    BY <1>8 DEF vars, serverVars, wireVars, clientVars, frontendVars
  <2>2. AllApart(Lanes(calls', loop')) /\ LoopGood(loop')
    BY <2>1 DEF DInv
  <2>3. NoCall \in Call /\ NoCall.kind = "none"
    BY NoCallTyped DEF NoCall
  <2>4. /\ \A y \in Within(Lanes(calls', loop')) : y = NoCall \/ y \in Within(Lanes(calls, loop))
        /\ \A f \in Frames(pipe') : Answers(f) => f \in Frames(pipe)
        /\ \A s \in Starts : source'[s] \in {source[s], 0}
        /\ \A s \in Starts : slot'[s] \in {slot[s], 0}
        /\ \A n \in Starts : kernel'[n].session = kernel[n].session
        /\ delivered' = delivered
    BY <2>1
  <2>5. DInv'
    BY <2>1, <2>2, <2>3, <2>4, QuietKept
  <2> QED
    BY <2>1, <2>5 DEF frontendVars
<1>9. Backends => \/ \E c \in Clients : Serve(c) /\ UNCHANGED <<clientVars, frontendVars>>
                  \/ /\ \E k \in Starts : PumpStep(k) \/ KernelDies(k)
                     /\ UNCHANGED <<clientVars, frontendVars>>
  BY DEF Backends
<1>10. Crashes => /\ \/ \E k \in Starts : PumpStep(k) \/ KernelDies(k)
                     \/ \E c \in Clients : BackendDies(c)
                  /\ UNCHANGED <<clientVars, frontendVars>>
  BY DEF Crashes
<1> QED
  BY <1>3, <1>4, <1>5, <1>6, <1>7, <1>8, <1>9, <1>10 DEF Next

LEMMA DeliveryInductive == Spec => [](IInv /\ DInv)
<1>1. IInv /\ DInv /\ [Next]_vars => IInv' /\ DInv'
  BY NextInductive, StepKept
<1> QED
  BY <1>1, InitInductive, InitGood, PTL DEF Spec

(* Exec implements RunDelivery: whatever the user does and whatever fails, *)
(* every run reaches at most one kernel, with the source it was issued     *)
(* with, in the order of issue, and not once it has been dropped.  It is   *)
(* what the two requests of a run, update_cell_source and execute, the one *)
(* run in flight and the order of starts and stops are for.                *)
THEOREM ImplementsRunDelivery == Spec => RunsDelivered
<1>1. Init => Promise!Init
  BY DEF Init, BackendInit, Promise!Init
<1>2. IInv /\ IInv' /\ DInv /\ [Next]_vars => [Promise!Next]_<<lastRun, dropped, delivered>>
  BY StepKept
<1> QED
  BY <1>1, <1>2, DeliveryInductive, PTL DEF Spec, RunsDelivered, Promise!Spec

(* A run discarded before its execute was sent, by a stop, a shutdown, or  *)
(* the exit of its kernel or backend, never reaches a kernel: a reply that *)
(* comes later finds another queue or another client (discarded()).        *)
THEOREM DroppedRunsStay == Spec => []DroppedNeverRun
<1>1. IInv /\ DInv => DroppedNeverRun
  <2> SUFFICES ASSUME IInv, DInv, NEW n \in Starts, NEW i \in 1..Len(delivered[n]),
                      delivered[n][i].run \in dropped
               PROVE  FALSE
    BY DEF DroppedNeverRun
  <2>1. Now.dropped = dropped /\ BufferGood(buf, Now, lastStart)
    BY NowFields DEF DInv, Now, Good
  <2> QED
    BY <2>1 DEF BufferGood, Delivered
<1> QED
  BY <1>1, DeliveryInductive, PTL

(* A stop does not overtake a run sent before it: after_run_in_flight      *)
(* holds it until the run's reply, and a run is sent only when no stop is  *)
(* in flight.                                                              *)
THEOREM StopsComeAfterRuns == Spec => []StopAfterRuns
<1>1. IInv /\ DInv => StopAfterRuns
  <2> SUFFICES ASSUME DInv, NEW c \in Clients,
                      NEW i \in 1..Len(calls[c]), NEW j \in 1..Len(calls[c]),
                      calls[c][i].kind = "stop_kernel",
                      calls[c][j].kind \in {"update_cell_source", "execute"}
               PROVE  calls[c][i].session # calls[c][j].session
    BY DEF StopAfterRuns
  <2> DEFINE L == Lanes(calls, loop)
  <2>1. c \in 0..MaxClients /\ L[c] = calls[c]
    BY BoundsAssumption DEF Clients, Lanes
  <2>2. i # j
    OBVIOUS
  <2> HIDE DEF L
  <2>3. Apart(L[c][i], L[c][j])
    BY <2>1, <2>2 DEF DInv, AllApart, L
  <2> QED
    BY <2>1, <2>3 DEF Apart, OfRun
<1> QED
  BY <1>1, DeliveryInductive, PTL

=============================================================================
