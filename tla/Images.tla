------------------------------- MODULE Images -------------------------------
(***************************************************************************)
(* The images of outputs: how the plugin (lua/notebook_style/image.lua)    *)
(* has a PNG written to the terminal by the backend (core/src/kitty.rs) or *)
(* writes it itself, and how the images of outputs that are dropped are    *)
(* deleted again (state.lua, exec.lua).                                    *)
(*                                                                         *)
(* The terminal is shared.  The backend writes an image in several writes, *)
(* holding its own lock; the plugin writes through Neovim, under no lock.  *)
(* What a terminal does with transmissions that are mixed is not known:    *)
(* each of the images is shown or is spoiled.                              *)
(*                                                                         *)
(* Client and process are those of module Client, reduced to the calls     *)
(* made for images: a reply is run in the order of the pipe, a call of a   *)
(* client that is gone fails in a scheduled callback.                      *)
(***************************************************************************)
EXTENDS Integers, Sequences, FiniteSets

CONSTANTS
    Outputs,        \* bound: the outputs with a PNG that are displayed
    FileOutputs,    \* those among them that belong to a run of the whole file
    FirstLuaId,     \* next_lua_image_id at start; 1000 in the code
    MaxClients,     \* bound: backend processes spawned
    Scenarios       \* bound: what may go wrong, and how outputs are dropped

AllFaults == {"unsupported", "tty", "decode", "write", "terminal", "exit"}
AllWays == {"delete", "clear", "rerun", "clear_event", "close"}

(* The ids of the backend stay below those of the plugin: fewer than       *)
(* FirstLuaId images are shown.  No output is named like what else a place *)
(* of the terminal holds.                                                  *)
ASSUME ImagesAssumption ==
    /\ IsFiniteSet(Outputs) /\ {"absent", "spoiled"} \intersect Outputs = {}
    /\ FileOutputs \subseteq Outputs
    /\ FirstLuaId \in Nat /\ FirstLuaId > Cardinality(Outputs)
    /\ MaxClients \in Nat
    /\ Scenarios \subseteq [faults : SUBSET AllFaults, ways : SUBSET AllWays,
                            outputs : SUBSET Outputs]

Clients == 1..MaxClients
Ids == 1..(FirstLuaId + Cardinality(Outputs) - 1)

VARIABLES
    scenario,       \* the scenario of this behaviour
    client,         \* exec.lua: the current client, or 0
    running,        \* the backend processes that run
    exited,         \* Client.exited
    closed,         \* Client.closed
    attached,       \* image.lua: a kitty_attach succeeded, of any client
    attach_failed,  \* image.lua: a kitty_attach failed
    next_lua_id,    \* image.lua: next_lua_image_id
    image,          \* output.inline_image of each output
    fate,           \* how each output was dropped, and in which state
    calls,          \* Client.pending, in id order
    pipe,           \* replies written by each backend and not read yet
    loop,           \* scheduled callbacks, oldest first
    tty,            \* Server.kitty: is there a terminal to write to
    next_id,        \* NEXT_IMAGE_ID of each process
    sending,        \* what the holder of the lock on Server.kitty transmits
    screen,         \* the images in the terminal, by id
    loading,        \* the transmission that the terminal has begun
    unwritten       \* history: the ids that a failed write was about

luaVars == <<client, exited, closed, attached, attach_failed, next_lua_id, image, fate>>
wireVars == <<calls, pipe, loop>>
serverVars == <<running, tty, next_id, sending>>
terminalVars == <<screen, loading, unwritten>>
vars == <<scenario, luaVars, wireVars, serverVars, terminalVars>>

-----------------------------------------------------------------------------
Call == [client : Clients, output : Outputs, sent : BOOLEAN,
         method : {"kitty_attach", "kitty_transmit", "kitty_clear"}]
Reply == [call : Call, err : {"none", "error", "gone"}, image_id : Ids \union {0}]
OnExit == [on_exit : Clients]
Nothing == [id |-> 0]
Held == [way |-> "held", status |-> "none"]

Transmission == [id : Ids, call : Call]
Statuses == {"none", "pending", "ready", "failed"}

TypeOK ==
    /\ scenario \in Scenarios
    /\ client \in 0..MaxClients
    /\ running \subseteq Clients /\ exited \subseteq Clients /\ closed \subseteq Clients
    /\ attached \in BOOLEAN /\ attach_failed \in BOOLEAN
    /\ next_lua_id \in FirstLuaId..(FirstLuaId + Cardinality(Outputs))
    /\ image \in [Outputs -> [status : Statuses, image_id : Ids \union {0}]]
    /\ \A o \in Outputs : image[o].status = "ready" <=> image[o].image_id # 0
    /\ fate \in [Outputs -> [way : AllWays \union {"held"}, status : Statuses]]
    /\ calls \in [Clients -> Seq(Call)]
    /\ pipe \in [Clients -> Seq(Reply)]
    /\ loop \in Seq(Reply \union OnExit)
    /\ tty \in [Clients -> BOOLEAN]
    /\ next_id \in [Clients -> 1..FirstLuaId]
    /\ sending \in [Clients -> Transmission \union {Nothing}]
    /\ screen \in [Ids -> Outputs \union {"absent", "spoiled"}]
    /\ loading \in {"none", "open", "mixed"}
    /\ unwritten \subseteq Ids

Init ==
    /\ scenario \in Scenarios
    /\ client = 0
    /\ running = {} /\ exited = {} /\ closed = {}
    /\ attached = FALSE /\ attach_failed = FALSE
    /\ next_lua_id = FirstLuaId
    /\ image = [o \in Outputs |-> [status |-> "none", image_id |-> 0]]
    /\ fate = [o \in Outputs |-> Held]
    /\ calls = [c \in Clients |-> <<>>]
    /\ pipe = [c \in Clients |-> <<>>]
    /\ loop = <<>>
    /\ tty = [c \in Clients |-> FALSE]
    /\ next_id = [c \in Clients |-> 1]
    /\ sending = [c \in Clients |-> Nothing]
    /\ screen = [i \in Ids |-> "absent"]
    /\ loading = "none"
    /\ unwritten = {}

Faulty(f) == f \in scenario.faults

-----------------------------------------------------------------------------
(* The plugin.                                                             *)

(* What a callback finds: the pending calls without the one it answers,    *)
(* and the callbacks scheduled after it.                                   *)
Waiting(cs, l) == [calls |-> cs, loop |-> l]

(* Client:call: a client that is gone answers in a scheduled callback.     *)
Send(x, w) ==
    IF x.client \in exited \union closed
    THEN /\ loop' = Append(w.loop, [call |-> x, err |-> "gone", image_id |-> 0])
         /\ calls' = w.calls
    ELSE /\ loop' = w.loop
         /\ calls' = [w.calls EXCEPT ![x.client] = Append(@, x)]

Silent(w) == calls' = w.calls /\ loop' = w.loop

NewCall(c, o, method) ==
    [client |-> c, output |-> o, sent |-> TRUE, method |-> method]

ReadyWithoutId(o, id) == [image EXCEPT ![o].status = "ready"]   \* mutant

Ready(o, id) == [image EXCEPT ![o] = [status |-> "ready", image_id |-> id]]

(* What the terminal shows of the image of o when another transmission had *)
(* begun, or had not.                                                      *)
Shown(o) == IF loading = "none" THEN {o} ELSE {o, "spoiled"}

Sending == \E c \in Clients : sending[c] # Nothing

(* The local function fallback of ensure_transmitted, transmit_from_lua.   *)
Fallback(o) ==
    \/ /\ ~Faulty("unsupported")
       /\ next_lua_id' = next_lua_id + 1
       /\ image' = Ready(o, next_lua_id)
       /\ \E shown \in Shown(o) : screen' = [screen EXCEPT ![next_lua_id] = shown]
       /\ loading' = IF Sending THEN "mixed" ELSE "none"
       /\ UNCHANGED unwritten
    \/ /\ Faulty("unsupported") \/ Faulty("terminal")
       /\ next_lua_id' = IF Faulty("unsupported") THEN next_lua_id ELSE next_lua_id + 1
       /\ image' = [image EXCEPT ![o].status = "failed"]
       /\ UNCHANGED terminalVars

(* M.ensure_transmitted and M.attach, for an image that arrives from the   *)
(* current client.                                                         *)
Display(o) ==
    /\ client # 0 /\ o \in scenario.outputs
    /\ image[o].status = "none" /\ fate[o] = Held
    /\ IF ~attached /\ (attach_failed \/ Faulty("unsupported"))
       THEN Fallback(o) /\ UNCHANGED <<calls, loop>>
       ELSE /\ image' = [image EXCEPT ![o].status = "pending"]
            /\ Send(NewCall(client, o, IF attached THEN "kitty_transmit" ELSE "kitty_attach"),
                    Waiting(calls, loop))
            /\ UNCHANGED <<next_lua_id, terminalVars>>
    /\ UNCHANGED <<scenario, client, exited, closed, attached, attach_failed, fate,
                   pipe, serverVars>>

(* The callback given to kitty_attach.                                     *)
AttachReply(f, w) ==
    IF f.err = "none"
    THEN /\ attached' = TRUE
         /\ Send(NewCall(f.call.client, f.call.output, "kitty_transmit"), w)
         /\ UNCHANGED <<attach_failed, next_lua_id, image, terminalVars>>
    ELSE /\ attach_failed' = TRUE
         /\ Fallback(f.call.output)
         /\ Silent(w)
         /\ UNCHANGED attached

TransmitReplyGivesUp(f, w) ==   \* mutant
    /\ image' = IF f.err = "none" THEN Ready(f.call.output, f.image_id) ELSE image
    /\ Silent(w)
    /\ UNCHANGED <<attached, attach_failed, next_lua_id, terminalVars>>

(* The callback given to kitty_transmit.                                   *)
TransmitReply(f, w) ==
    /\ IF f.err = "none"
       THEN /\ image' = Ready(f.call.output, f.image_id)
            /\ UNCHANGED <<next_lua_id, terminalVars>>
       ELSE Fallback(f.call.output)
    /\ Silent(w)
    /\ UNCHANGED <<attached, attach_failed>>

(* The callback given to kitty_clear does nothing.                         *)
ClearReply(w) ==
    /\ Silent(w)
    /\ UNCHANGED <<attached, attach_failed, next_lua_id, image, terminalVars>>

HandleReply(f, w) ==
    /\ \/ f.call.method = "kitty_attach" /\ AttachReply(f, w)
       \/ f.call.method = "kitty_transmit" /\ TransmitReply(f, w)
       \/ f.call.method = "kitty_clear" /\ ClearReply(w)
    /\ UNCHANGED <<scenario, client, exited, closed, fate, serverVars>>

Without(s, i) == SubSeq(s, 1, i - 1) \o SubSeq(s, i + 1, Len(s))

(* A reply read from the backend of client c, to one of its calls.         *)
ReadReply(c) ==
    /\ pipe[c] # <<>> /\ c \notin closed
    /\ pipe' = [pipe EXCEPT ![c] = Tail(@)]
    /\ LET f == Head(pipe[c]) IN
        \E i \in 1..Len(calls[c]) :
            /\ calls[c][i] = f.call
            /\ HandleReply(f, Waiting([calls EXCEPT ![c] = Without(@, i)], loop))

ReleasesIfAsked(o, way) ==   \* mutant
    \/ way = "clear"
    \/ way \in {"rerun", "close"} /\ o \in FileOutputs

(* Which ways of dropping an output call image.clear: clear_output_images  *)
(* for cells that are collected (drop_cell) or cleared by a command; for a *)
(* whole-file cell also when it runs again or its buffer is disabled.      *)
Releases(o, way) ==
    \/ way \in {"delete", "clear"}
    \/ way \in {"rerun", "close"} /\ o \in FileOutputs

(* An output leaves its cell.  M.clear asks for the deletion of an image   *)
(* that has an id, of the client there is; it ignores the answer.          *)
Drop(o, way) ==
    /\ way \in scenario.ways
    /\ image[o].status # "none" /\ fate[o] = Held
    /\ fate' = [fate EXCEPT ![o] = [way |-> way, status |-> image[o].status]]
    /\ LET gone == \/ ~Releases(o, way) \/ image[o].image_id = 0 \/ client = 0
                   \/ client \in exited \union closed
       IN calls' = IF gone THEN calls
                   ELSE [calls EXCEPT ![client] =
                            Append(@, NewCall(client, o, "kitty_clear"))]
    /\ UNCHANGED <<scenario, client, exited, closed, attached, attach_failed, next_lua_id,
                   image, pipe, loop, serverVars, terminalVars>>

(* ensure_client: the first client, and one after each exit.               *)
Spawn(c) ==
    /\ client = 0 /\ c \notin running \union exited
    /\ \A d \in 1..(c - 1) : d \in exited
    /\ client' = c
    /\ running' = running \union {c}
    /\ UNCHANGED <<scenario, exited, closed, attached, attach_failed, next_lua_id, image,
                   fate, wireVars, tty, next_id, sending, terminalVars>>

(* The exit callback given to uv.spawn, which schedules on_exit.           *)
ExitCallback(c) ==
    /\ client = c /\ c \notin running \union exited
    /\ exited' = exited \union {c}
    /\ loop' = Append(loop, [on_exit |-> c])
    /\ UNCHANGED <<scenario, client, closed, attached, attach_failed, next_lua_id, image,
                   fate, calls, pipe, serverVars, terminalVars>>

BackendExitAttachesAnew(c) ==   \* mutant
    /\ client' = IF client = c THEN 0 ELSE client
    /\ attached' = FALSE
    /\ attach_failed' = FALSE

(* on_backend_exit: the client is forgotten; what image.lua knows is not.  *)
BackendExit(c) ==
    /\ client' = IF client = c THEN 0 ELSE client
    /\ UNCHANGED <<attached, attach_failed>>

(* The oldest scheduled callback.                                          *)
RunCallback ==
    /\ loop # <<>>
    /\ LET f == Head(loop) IN
        \/ /\ f \in OnExit
           /\ BackendExit(f.on_exit)
           /\ loop' = Tail(loop)
           /\ UNCHANGED <<scenario, exited, closed, next_lua_id, image, fate, calls,
                          serverVars, terminalVars>>
        \/ f \notin OnExit /\ HandleReply(f, Waiting(calls, Tail(loop)))
    /\ UNCHANGED pipe

(* _close, at the end of stdout or one second after the exit: the replies  *)
(* not read are lost and every pending call fails, in id order.            *)
CloseClient(c) ==
    /\ c \notin running \union closed /\ (client = c \/ c \in exited)
    /\ pipe[c] = <<>> \/ c \in exited
    /\ closed' = closed \union {c}
    /\ loop' = loop \o [i \in 1..Len(calls[c]) |->
                            [call |-> calls[c][i], err |-> "gone", image_id |-> 0]]
    /\ calls' = [calls EXCEPT ![c] = <<>>]
    /\ pipe' = [pipe EXCEPT ![c] = <<>>]
    /\ UNCHANGED <<scenario, client, exited, attached, attach_failed, next_lua_id, image,
                   fate, serverVars, terminalVars>>

-----------------------------------------------------------------------------
(* The backend.  Requests are served in any order; those that use the      *)
(* terminal hold the lock on Server.kitty.                                 *)

Unlocked(c) == sending[c] = Nothing

(* A call that the backend has not answered.                               *)
Pending(c, i, method) ==
    /\ c \in running
    /\ calls[c][i].sent /\ calls[c][i].method = method

(* The reply to a call, which stays pending until the reply is read.       *)
Answer(c, i, err, id) ==
    LET answered == [calls[c][i] EXCEPT !.sent = FALSE] IN
    /\ calls' = [calls EXCEPT ![c] = [calls[c] EXCEPT ![i] = answered]]
    /\ pipe' = [pipe EXCEPT ![c] =
                    Append(@, [call |-> answered, err |-> err, image_id |-> id])]

(* kitty_attach: KittyTty::open may fail.                                  *)
Attach(c, i) ==
    /\ Pending(c, i, "kitty_attach")
    /\ \/ Unlocked(c) /\ Answer(c, i, "none", 0) /\ tty' = [tty EXCEPT ![c] = TRUE]
       \/ Faulty("tty") /\ Answer(c, i, "error", 0) /\ UNCHANGED tty
    /\ UNCHANGED <<scenario, luaVars, loop, running, next_id, sending, terminalVars>>

(* kitty_transmit, until its first write: it needs an attached terminal    *)
(* and data that decodes.                                                  *)
BeginTransmit(c, i) ==
    /\ Pending(c, i, "kitty_transmit") /\ Unlocked(c)
    /\ \/ /\ tty[c]
          /\ sending' = [sending EXCEPT ![c] = [id |-> next_id[c], call |-> calls[c][i]]]
          /\ next_id' = [next_id EXCEPT ![c] = @ + 1]
          /\ loading' = IF loading = "none" THEN "open" ELSE "mixed"
          /\ UNCHANGED <<calls, pipe>>
       \/ /\ ~tty[c] \/ Faulty("decode")
          /\ Answer(c, i, "error", 0)
          /\ UNCHANGED <<sending, next_id, loading>>
    /\ UNCHANGED <<scenario, luaVars, loop, running, tty, screen, unwritten>>

(* The terminal has all data of a transmission.                            *)
Complete(s) ==
    /\ \E shown \in IF loading = "open" THEN {s.call.output} ELSE {s.call.output, "spoiled"} :
          screen' = [screen EXCEPT ![s.id] = shown]
    /\ loading' = "none"

(* The other writes of transmit_png_with_id, the last of which places the  *)
(* image.  A write may fail: before the data is complete, or the last one, *)
(* when the terminal has the image although the reply says it has not.     *)
EndTransmit(c) ==
    /\ c \in running /\ ~Unlocked(c)
    /\ LET s == sending[c] IN
        \E i \in 1..Len(calls[c]) :
            /\ calls[c][i] = s.call
            /\ \/ Answer(c, i, "none", s.id) /\ Complete(s) /\ UNCHANGED unwritten
               \/ /\ Faulty("write") /\ Answer(c, i, "error", 0)
                  /\ Complete(s) \/ UNCHANGED <<screen, loading>>
                  /\ unwritten' = unwritten \union {s.id}
    /\ sending' = [sending EXCEPT ![c] = Nothing]
    /\ UNCHANGED <<scenario, luaVars, loop, running, tty, next_id>>

(* kitty_clear: delete_image, whose write may fail; nobody looks at the    *)
(* answer.                                                                 *)
Clear(c, i) ==
    /\ Pending(c, i, "kitty_clear") /\ Unlocked(c)
    /\ LET id == image[calls[c][i].output].image_id IN
        \/ /\ screen' = IF tty[c] THEN [screen EXCEPT ![id] = "absent"] ELSE screen
           /\ UNCHANGED unwritten
        \/ /\ tty[c] /\ Faulty("write")
           /\ unwritten' = unwritten \union {id}
           /\ UNCHANGED screen
    /\ calls' = [calls EXCEPT ![c] = Without(@, i)]
    /\ UNCHANGED <<scenario, luaVars, pipe, loop, serverVars, loading>>

(* The process ends, in the middle of a transmission perhaps.              *)
Exit(c) ==
    /\ Faulty("exit") /\ c \in running
    /\ running' = running \ {c}
    /\ sending' = [sending EXCEPT ![c] = Nothing]
    /\ UNCHANGED <<scenario, luaVars, wireVars, tty, next_id, terminalVars>>

-----------------------------------------------------------------------------
Lua == RunCallback \/ \E c \in Clients : ReadReply(c) \/ ExitCallback(c) \/ CloseClient(c)
Server(c) ==
    \/ \E i \in 1..Len(calls[c]) : Attach(c, i) \/ BeginTransmit(c, i) \/ Clear(c, i)
    \/ EndTransmit(c)
User ==
    \/ \E o \in Outputs : Display(o) \/ \E way \in AllWays : Drop(o, way)
    \/ \E c \in Clients : Spawn(c) \/ Exit(c)
Finished ==
    /\ \/ \A o \in scenario.outputs : image[o].status \in {"ready", "failed"}
       \/ Clients = closed
    /\ UNCHANGED vars

Next == Lua \/ (\E c \in Clients : Server(c)) \/ User \/ Finished

(* Neovim runs its callbacks and the backend its requests.                 *)
Fairness ==
    /\ WF_vars(RunCallback)
    /\ \A c \in Clients :
        /\ WF_vars(ReadReply(c)) /\ WF_vars(ExitCallback(c)) /\ WF_vars(CloseClient(c))
        /\ WF_vars(Server(c))

Spec == Init /\ [][Next]_vars /\ Fairness

-----------------------------------------------------------------------------
(* An output that is shown has an image of its own: its id stands for no   *)
(* other output, whichever process gave it out, and the terminal holds its *)
(* image, whole unless two transmissions were mixed, which takes a request *)
(* that fails or a backend that exits.                                     *)
ImagesOwn ==
    \A o \in Outputs :
        image[o].status = "ready" /\ fate[o] = Held =>
            /\ screen[image[o].image_id] \in {o, "spoiled"}
            /\ scenario.faults \intersect {"tty", "decode", "write", "exit"} = {} =>
                screen[image[o].image_id] = o
            /\ \A p \in Outputs \ {o} : image[p].image_id # image[o].image_id

Quiet == loop = <<>> /\ \A c \in Clients : calls[c] = <<>>

(* While a backend that attached lives on, no image is left behind whose   *)
(* writes to the terminal succeeded: when no request is in flight, an      *)
(* image in the terminal is that of an output, and one that was ready when *)
(* its cell was deleted or cleared, or when the file was run again or      *)
(* closed, is deleted.  (An image whose deletion fails stays, and so does  *)
(* one whose data arrived before its last write failed: nobody tries       *)
(* again.)                                                                 *)
NoneLeftBehind ==
    Quiet /\ scenario.faults \intersect {"unsupported", "tty", "exit"} = {} =>
        \A i \in Ids \ unwritten : screen[i] # "absent" =>
            \E o \in Outputs :
                /\ image[o].image_id = i
                /\ fate[o].status = "ready" =>
                    /\ fate[o].way \notin {"delete", "clear"}
                    /\ o \in FileOutputs => fate[o].way \notin {"rerun", "close"}

(* An image does not stay pending, which its cell would show for ever:     *)
(* every request is answered or fails with its client, and every failure   *)
(* has the plugin write the image itself.                                  *)
PendingEnds ==
    \A o \in Outputs : image[o].status = "pending" ~> image[o].status # "pending"

=============================================================================
