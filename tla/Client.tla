------------------------------- MODULE Client -------------------------------
(***************************************************************************)
(* The msgpack-rpc client (lua/notebook_style/rpc.lua): calls made to a    *)
(* backend, their replies and the notifications read from its stdout, and  *)
(* what happens to the pending calls when the backend is gone.             *)
(*                                                                         *)
(* Neovim runs Lua on one thread, and every callback goes through          *)
(* vim.schedule.  A frame is taken from the pipe in the step that runs its *)
(* callback: as the pipe and the schedule are both first in, first out,    *)
(* time spent in the one or in the other cannot be told apart.  The queue  *)
(* loop holds the callbacks that the client schedules by itself: on_exit   *)
(* and the failures of calls.                                              *)
(***************************************************************************)
EXTENDS Backend

VARIABLES
    exited,   \* Client.exited: the exit callback of the process has run
    closed,   \* Client.closed: responses are no longer read
    loop      \* scheduled callbacks, oldest first

clientVars == <<exited, closed, loop>>

ClientTypeOK ==
    /\ exited \in [Clients -> BOOLEAN]
    /\ closed \in [Clients -> BOOLEAN]
    /\ loop \in Seq(Frame)

ClientInit ==
    /\ exited = [c \in Clients |-> FALSE]
    /\ closed = [c \in Clients |-> FALSE]
    /\ loop = <<>>

(* What a command or a callback finds: the pending calls, and the rest of  *)
(* the callbacks that are scheduled.                                       *)
Waiting(cs, l) == [calls |-> cs, loop |-> l]

(* Client:call of x.  The call of a client that is gone fails at once, in  *)
(* a scheduled callback (NOT_RUNNING).                                     *)
Send(x, w) ==
    IF exited[x.client] \/ closed[x.client]
    THEN /\ loop' = Append(w.loop, Reply(x, "gone"))
         /\ calls' = w.calls
    ELSE /\ loop' = w.loop
         /\ calls' = [w.calls EXCEPT ![x.client] = Append(w.calls[x.client], x)]

Without(s, i) == SubSeq(s, 1, i - 1) \o SubSeq(s, i + 1, Len(s))

(* The pending calls after frame f of client c was read (_dispatch).       *)
Remaining(c, f) ==
    IF f.type = "reply"
    THEN {[calls EXCEPT ![c] = Without(calls[c], i)] :
              i \in {j \in 1..Len(calls[c]) : calls[c][j] = f.call}}
    ELSE {calls}

Readable(c) == pipe[c] # <<>> /\ ~closed[c]

(* The exit callback given to uv.spawn, which schedules on_exit.           *)
ExitCallback(c) ==
    /\ backend[c] = "dead"
    /\ ~exited[c]
    /\ exited' = [exited EXCEPT ![c] = TRUE]
    /\ loop' = Append(loop, [type |-> "on_exit", err |-> "ok",
                             call |-> [NoCall EXCEPT !.client = c]])
    /\ UNCHANGED <<backend, serverVars, wireVars, closed>>

(* _close, at the end of stdout or one second after the exit, whichever is *)
(* first: every pending call fails with EXITED, in id order.               *)
CloseClient(c) ==
    /\ backend[c] = "dead"
    /\ ~closed[c]
    /\ pipe[c] = <<>> \/ exited[c]
    /\ closed' = [closed EXCEPT ![c] = TRUE]
    /\ loop' = loop \o [i \in 1..Len(calls[c]) |-> Reply(calls[c][i], "gone")]
    /\ calls' = [calls EXCEPT ![c] = <<>>]
    /\ pipe' = [pipe EXCEPT ![c] = <<>>]
    /\ UNCHANGED <<backend, serverVars, exited>>

Gone(c) == ExitCallback(c) \/ CloseClient(c)

=============================================================================
