# TLA+ models of notebook_style.nvim

notebook_style.nvim shows Jupyter-style cells in Python buffers of Neovim and
executes them. A Lua front end runs inside Neovim, a Rust backend
(`notebook-style-core`) runs as a child process, and the backend runs one
Jupyter kernel process per buffer. Three kinds of processes, asynchronous
requests in both hops, and a user who gives commands at any moment: the models
here are about what can happen between them.

## The system

| component | state | operations | interacts with |
|---|---|---|---|
| Execution front end, `lua/notebook_style/exec.lua` | the client; per buffer the session, the start or stop in flight, the run queue, the run in flight | run cell / file, start, stop, restart, interrupt, select, shutdown; replies and notifications | calls the client, changes the buffer state |
| msgpack-rpc client, `rpc.lua` | pending calls, exited, closed | call, dispatch, exit callback, close | the backend's stdin and stdout; every callback goes through `vim.schedule` |
| RPC server, `core/src/rpc.rs` | sessions | one handler per request, each on a task of its own; one event pump per kernel | sessions, kernels, the client |
| Kernel, `kernel.rs` | process, connection file, shell and control channels, pending shell requests | launch, execute, interrupt, kill, exit watch | Jupyter kernel process |
| Session and notebook, `session.rs`, `notebook.rs` | cells, their sources and outputs, the kernel's slot, message routing | update, insert, delete, move, replace cells; apply kernel events | server, pump |
| Buffer state, `state.lua` | cell identities (extmarks), outputs, counts, statuses | cell_id, sync_cells, apply_event, reset | exec, render |
| Images, `image.lua`, `kitty.rs` | image ids, attached terminal, pending transmissions | attach, transmit, place, clear | exec, server, terminal |
| Log rotation, `logfile.rs` | file, size, lock | write, rotate | other backends' logs |
| Plugin lifecycle, `init.lua` | enabled buffers, pending updates | enable, disable, render requests | all of the front end |
| Cells, rendering, output view, markdown | none that outlives a redraw | parse, lay out | buffer |
| Configuration, health, installer, kernelspecs, protocol, main | options, files | set up, report, download, discover, sign | - |

What makes it hard:

* *Order.* The backend serves every request on a task of its own
  (`rpc.rs:152`), so requests sent together are served in any order.
* *Stale closures.* Every reply finds a front end that may meanwhile have
  stopped, restarted, shut down or lost its backend. The code compares the
  identity of tables (`starting ~= start`, `run_queue ~= queue`,
  `cl ~= client`) to know.
* *Deaths.* A kernel or the backend may exit at any point; its last words may
  still be in a pipe.
* *Atomicity.* Handlers of the backend await locks and processes between what
  they read and what they do.

* *The user's text.* Identities of cells live on marks that Neovim moves with
  every edit, while runs for them are under way.
* *Shared places.* The log is shared by all backends, the terminal by the
  backend and Neovim, a notebook file by sessions and saves.

What makes the components right: runs reach the kernel once, in order and
with their own source; nothing discarded executes; no queued run is forgotten;
no kernel or session is left behind; the front end knows whether there is a
kernel; everything in flight ends; outputs and images stay with their cell and
go with it; what is drawn is up to date; files stay whole.

## The modules

Each module is one question about the system, with the parts of the code that
decide it in detail and the others as coarse as the question allows.

### Exec, Client, Backend, RunDelivery: running cells

* `Backend` - the server, its sessions and kernels: one action per step of a
  handler (`start_kernel` looks its session up, later installs the kernel and
  then replies, `execute` reads the source and later sends it), the exit watch
  and the pump, and the deaths of kernels and of the backend. The pump runs
  from the install on, so an exit may be reported before the reply of the
  start; in the other requests the last effect and the reply are one step,
  since what a pump does in between could as well come before or after. Session and kernel ids are the
  number of the start that made them.
* `Client` - calls, replies, the exit callback and the closing of the client.
  A frame is read in the step that runs its callback: pipe and schedule are
  both first in, first out. The exit callback and the failures of calls have a
  queue of their own (`loop`), because they overtake unread frames.
* `Exec` - the handlers of `exec.lua` for one buffer. A command or a callback
  is one step. Helpers such as `pump` and `start_kernel` are operators from a
  buffer state to a step (`PumpFrom`, `StartFrom`), so that a handler that
  changes the state and then pumps is one action, as in the code. What a
  closure captured is in its call. Callbacks waiting for a start are reduced to
  whether there are any: each of them only pumps, and a pump follows anyway.
* `RunDelivery` - the abstract promise of running cells: runs are issued, given
  up, or delivered to a kernel once, in order, with their own source. `Exec`
  implements it (`RunsDelivered`, through `INSTANCE`).

`Exec` extends `Client`, which extends `Backend`; `Next` interleaves the user's
commands, the event loop, the backend's tasks, exits and crashes.

`buf` is the kernel part of `state.lua`'s buffer state (`session_id`,
`kernel_started`, `starting`, `run_queue`, `in_flight`); `client` is the module
variable of `exec.lua`; `live`, `slot`, `source` are `Server.sessions`,
`Session.kernel` and a cell's source; `kernel[k].st` goes `running -> dead ->
exited -> reporting -> gone` as the process exits, the watch sends the event,
the pump takes the kernel from the slot and then reports it; `delivered` is
what was put on a kernel's shell channel. `dropped`, `starting.since` and
`overtaken` (the sessions whose kernel's exit was reported before its start was
answered) are history: nothing in a guard reads them.

`scenario`, here and in the other modules, is chosen in `Init` from the constant
`Scenarios` and never changes: which faults happen, which commands the user
gives, and bounds. It lets one run cover several small instances, each with
the faults and commands whose interplay matters.

All runs are runs of one cell with a different source each: cells share
nothing in the backend but their kernel, so this is the case in which runs can
spoil each other. One buffer is modelled; buffers share the client only.

### Kernel: launches, exits and the slot

The life of kernels in the backend, which `Backend` has as single steps.
`stage[k]` follows one value: `reading` (`read_bound_ports`) and `connecting`
(`connect_sockets`) are the `connect` branch of the `select!` in
`launch_with_timeout`, whose other branches are `ExitedDuringStartup` and
`StartupTimeout`; then `ready` (the `Kernel` waits for the slot's lock),
`installing` (`start_kernel` holds the lock and kills the predecessor, which is
`replaced`), `slot`, `taken` (by `stop_kernel` or the pump) and `gone`
(dropped). `queue` is the waiters of `Session.kernel`, a fair lock of tokio;
`request` is a `complete` or `inspect`, which reads the lock until its reply or
its timeout; `pending` is its state `waiting`. `killed`, `watch` and `pump` are
the flag of `Kernel::kill`, the task `watch_exit` and the event pump.

The three ports the backend connects to are one; a file that is missing or
partly written is `blank`; writers hold the lock for one step, but for an
install that has a predecessor; a process that is killed does nothing more;
values of a dropped kernel are reset. The process, other programs that take
ports, and when a kernel answers are outside the repository and free.

### CellEvents: what a cell shows

From what a kernel says to what its cell shows: the two sockets of each kernel
(`iopub`, `shell`), the tasks that read them into its event channel (`chan`),
the pump, the session's cells (`kept`, `Session::apply_event`), the frames to
Neovim (`pipe`) and the buffer's outputs, counts and statuses (`shown`,
`state.apply_event`). `route` is `msg_to_cell`. As in `Backend`, the pump of a
new kernel runs before its start is answered (`ServeLaunch`, `ServeStart`). One request of the execution
path is in flight at a time, as `Exec` has it; clear requests overlap with it,
and two equal ones count as one. An output is its kind and its run. The pump
applies and forwards an event in one step: only a clear request can come in
between, and it comes to the same when it is served later. A kernel emits
nothing while its socket holds `MaxQueue` messages: a bound.

### Notebook: sessions and files

Every request that edits a session's notebook, in `session.rs` and with its
handler in `rpc.rs`, the results of runs, and `.ipynb` files. An edit is one
step under the write lock of `Session.notebook`; a save holds the read lock
over `BeginSave`, `WriteHead` and `WriteTail`, as `fs::write` empties a file and
then writes it, so two saves of one path may be mixed: a file is the parts
written to it, and is read back only if both are of one save. `saved` and
`spoiled` are history: the last notebook saved, and the files that a failed or
cut off save, or the saves of two sessions, have left undefined. Outputs are the
runs they come from, sources two values, metadata is left out.

A file may be there from the start, written by another program (`FilesFound`):
without cells, with cells that have no id, which get fresh ones when it is read
(`CellsRead`), or with one id twice, which `from_json` keeps. A list given to
`replace_cells` may name a cell twice: the first entry takes the cell with its
results, the next gets a new one under the same id (`Replaced`).

Assumed: the eight hexadecimal digits of `new_cell_id` do not repeat; the ids of
a file are neither empty nor begin with `new_` (a list that names such a cell
gets a new one); no other program writes a file after the start. The handler of a save keeps its reference into the session map, so that
`close` waits for it (`Close`).

### Images: the terminal

`image.lua` and `kitty.rs` with the image requests of `rpc.rs`: `Display` is
`ensure_transmitted`, the two replies lead from `kitty_attach` to
`kitty_transmit` to `ready`, and each failure to `Fallback`, which writes the
image through Neovim under an id of its own. The backend transmits in two steps
under the lock of `Server.kitty`; `loading` is what the terminal has been sent
of an image, and a transmission that begins while another is open leaves each
of the two whole or spoiled. A write of the backend to the terminal may
fail: in a transmission before its data is complete or with the placement behind
it, when the terminal has an image although the reply is an error, and in a
deletion, whose answer nobody looks at. What Neovim writes is taken to arrive,
as its code takes it (`image.lua:140`). `Drop` has the ways an output goes and
`Releases` which of them call `image.clear`. The client is that of `Client` and
`CellEvents`, reduced to these calls. `fate` and `unwritten` (the ids that a
failed write was about) are history.

The ids of the backend count from 1 in each process and those of Neovim from
1000 (`FirstLuaId`): they meet when one backend has shown a thousand images,
which `ImagesAssumption` excludes (fewer outputs than `FirstLuaId`).

### Editor: cells, identities and updates in a buffer

`lines` are the texts of a buffer; each delimiter has the edit at which its cell
was born, which no code sees: it is what properties compare with. `marks` are
the identity extmarks of `state.lua` with the text of `mark_delimiters` and the
column, which tells a mark at the end of its line from one that collapsed at the
start when its own line went. `Resolved` is `cell_id`, `Synced` `sync_cells`,
`Update` the callback of `request_update`, which collects the cells and, when it
draws, resolves each of them; `scheduled` counts callbacks, since `disable`
forgets one that is still queued. `drawn` is whether the decorations are those
of the present state. `results` is history.

How marks move is Neovim's and external: an insertion before a mark moves it, a
deletion or replacement of its line collapses it. Undo, which moves marks back,
is left out, and so are the identity of a whole file, buffers without
delimiters and the configuration of insert mode: typing happens on one line, and
outputs are not drawn meanwhile (`hide_border_in_insert`, the default).

### LogRotation: the log of several backends

`RotatingLog::write` with a step for each system call (`pc`): the check whether
the file held is the one at the path, the lock, the check again, the rename,
the new file, the unlock, the append. Each may fail but the last two: the code
ignores an error of the unlock (`logfile.rs:90`), after which the lock would be
kept, and a line that cannot be appended is lost. Files are inodes
with a size; `at` and `old` are the files that the two paths name. `renames`
and `during` are history.

### MC and proof modules

`MCExec`, `MCKernel`, `MCCellEvents`, `MCLogRotation`, `MCNotebook`,
`MCImages` and `MCEditor` hold the sets and scenarios the configurations choose
from. `ExecProofs`, `SessionProofs` (which builds on it), `KernelProofs`,
`CellProofs`, `LogProofs`, `NotebookProofs`, `EditorProofs` and `ImageProofs`
hold the theorems. An operator marked *mutant* is a plausible slip in the one
that follows it; no specification uses it.

## The runs

| run | question | bounds |
|---|---|---|
| `exec_kernel` | Whatever kernels and backends do, with runs, stops and restarts at any moment: is `RunDelivery` implemented, does a stop wait for the run in flight, is a kernel taken for started really there (or its exit on the way, or reported before its start was answered)? | 2 backends; 4 starts and stops and 3 runs with kernels that fail to start or exit, 3 and 2 with a backend that crashes |
| `exec_backend` | With every command, `auto_start_kernel = false`, a backend that crashes and is spawned again or cannot be, and a buffer shut down at any moment: do queued runs always have a wakeup, does a discarded run execute, is a kernel or a session left behind? | 2 backends, 2 starts and stops, 1 run |
| `exec_settles` | When nothing fails: does every run reach a kernel? Whenever the backend or kernels exit, with stops or restarts in flight: does everything in flight end, does every exit reach the front end? | 5 starts and stops and 3 runs when nothing fails, else 3 and at most 2; 2 backends |
| `kernel_life` | With two launches that overlap, processes that exit, hang or lose their port, a stop and a completion: is anything left behind, do sockets reach the right process, are exits reported truly, do launches and stops end? | 2 kernels (one of each kind), 2 ports, 2 attempts, 1 stop, 1 request |
| `cells_shown` | With kernels that exit while cells are cleared or deleted, and kernels that are stopped, with events in sockets, channel and pipe: can a cell stay busy, mix two runs, or be filled after it was deleted; do session and buffer agree when nothing is under way? | 2 runs, 2 kernels, 1 output each; 1 cell with queues of 2 (1 with clears), 2 cells with queues of 1 (stops) |
| `log_shared` | Where locking works and backends crash, and where locking or system calls fail or the log is deleted: is only a full log renamed, is the size bounded, is the lock ever kept, when is a line lost? | lines of size 1, limit 2; 3 backends with 3 files, or 2 with 4 |
| `notebook_edits` | With files of other programs, requests of any kind, results of runs, overlapping saves, failing ones and crashes: does an id go on naming one cell, is what a save leaves a whole notebook, do cells keep their results? | 2 sessions, 1 file (found empty of cells, or with two, one of which may have the other's id or none), 5 requests, 2 cells, 2 fresh ids, 1 run, 2 saves at a time |
| `images_shown` | With backends that fail or cannot write to the terminal, exit and are spawned again, and images that Neovim writes: has every output an image of its own, do dropped images leave the terminal, does an image ever stay pending? | 2 outputs, 3 when nothing fails, one of a whole file; 2 backends |
| `editor_cells` | With cells that are inserted, deleted, replaced and retyped while they run, and bursts of edits among toggling, disabling and leaving: do outputs follow their cell, is what is drawn ever out of date for good? | 2 or 3 lines, 4 at most, 2 or 3 edits, 5 marks, 2 callbacks |
| `exec_restart_loses_runs`, `exec_run_after_exit`, `cells_stopped` | see Disagreements | |

The bounds of `Exec` are `MaxClients` (backend processes), `MaxStarts` (starts
and stops begun), `MaxRuns` and `Scenarios`, which holds the first two down. Two backends are enough
for a late reply of a dead one to meet its successor; two starts for a stop
that races the start before it, and for the start of a new session after a
shutdown; four for a restart with a superseded start before it and one behind;
two runs for a run in flight with one queued behind it, three for a queue with
an inside. Past the bound on backends every spawn fails, past the bound on
starts none begins, and a stop leaves a number for the start that follows it.

Two kernels of `Kernel` are a predecessor and a successor, or two launches that
overlap; one port may be contested by other programs, so an attempt can fail
and the next succeed. Runs and kernels of `CellEvents` come in pairs for the
same reason: an event of the old one meets the new one. In `LogRotation` a
third backend lets two race for the lock while one is about to write to the
file they rename.

In `Notebook` two saves can be on one file with either order of their steps,
five requests are an open, a run, two edits and a save, and a file found has
results in its first cell, so that no run need come before the edits. Sessions
are alike, as saves are: symmetry is over both. Three images are enough
for two that are sent together and one that is dropped, two for what a failure does to another
transmission; each scenario of `Images` has the faults of one place. `Editor` has three cells of which two have
the same text, so that a mark that collapses meets a line it could be taken for;
an insertion and a deletion around a run move its line and others, and a third
edit retypes it.

Behaviours end at the bounds, and a user who gives no more commands stops the
system; therefore deadlock is not checked, except in `images_shown`, whose module
says when it is finished. Each run takes the faults and
commands its question is about; all of them together grow too fast.

### Fairness

* `Exec`: the event loop goes on (Neovim runs scheduled callbacks), the
  backend's tasks and the pump go on (tokio runs what is ready; the waits in
  these handlers are for locks that are released, for a launch with a deadline,
  and for a process that was killed), and the exit of a process and the end of
  its output are noticed (libuv, and the timer of one second in `rpc.lua:96`).
  Users need not give commands and nothing need crash.
* `Kernel`: the backend's tasks go on and its timers run out: the startup
  deadline, the timeout of 2 s of a request, the polling of `watch_exit`. There
  is none for the kernel's process, which may hang, for replies, or for
  connecting: the launch ends by its deadline, the stop by the timeout.
* `CellEvents`: as for `Exec`, and a kernel that runs takes its requests and
  ends them. A cell whose code runs for ever is busy for ever, rightly.
* `Images`: Neovim reads replies and runs callbacks, the backend serves its
  requests, and an exit is noticed, as above. Displaying and dropping outputs
  has none.
* `Notebook` and `Editor` have no fairness: their properties are safety.

## Disagreements between code and documentation

* `exec_restart_loses_runs`: a restart waits for the run in flight. If the old
  kernel then exits by itself, `on_kernel_exit` drops the whole queue, with the
  runs issued for the new kernel (`exec.lua:139`), and the restart goes on to
  start a kernel that gets none of them. `exec.lua:800` and `CHANGELOG.md:14`
  say that runs issued during a restart wait for the new kernel and execute
  once each.
* `exec_run_after_exit`: a kernel that exits while the setup code of its start
  is in flight is marked stopped, but the reply of the setup completes the
  start as a success (`exec.lua:593`). A run issued after the exit was reported
  has joined that start, and is sent to a session without a kernel, where
  `exec.lua:133` and `CHANGELOG.md:20` say the next run starts a new kernel.
* `cells_stopped`: `stop_kernel` kills the kernel, but its pump goes on to
  forward what its channel holds. An event forwarded after the reply of the
  stop is read after `clear_statuses` and marks its cell busy for good, which
  `state.lua:202` says it prevents.

Five more that no run shows:

* The comment at `exec.lua:133` and `CHANGELOG.md:20` say that the next run after
  an exit starts a new kernel. The slot is let go (`rpc.rs:348`) and the pump
  spawned (`rpc.rs:354`) before the start is answered (`rpc.rs:169`), so the exit
  of a kernel that dies at once may be reported first. The front end then marks
  a kernel as stopped that it has not taken for started yet, and the answer
  marks it as started (`exec.lua:580`): runs are sent to an empty slot and fail
  until the user stops or restarts the kernel. `StartedSound` excepts this order
  (`overtaken`) and shows that in every other one the kernel is there or the news of
  its exit is on its way.
* The pump takes the dead kernel out of its slot, waits for the process and
  only then reports (`rpc.rs:372`). If a stop and a start are served in
  between, the report makes the front end treat the new kernel as dead, which
  the comment at `rpc.rs:359` excludes. The process has already exited when the
  pump waits for it, so the window is short.
* The comment at `logfile.rs:11` bounds what a full log may hold over the limit
  by what is written during one rotation. A backend that has checked before the
  log became full adds its line as well; `SizeBounded` states the bound that
  holds: one line for each other backend and what is written while a backend
  rotates.
* An `execute_reply` of an earlier run is applied to its cell whatever runs
  there now (`state.lua:320`), so a rerun cell can be shown as done
  (`doc/notebook_style.txt:330`) while it executes.
* The comment at `state.lua:84` tells the mark of a delimiter, which is at the
  end of its line, from one that collapsed there when its cell was deleted. In a
  burst both have collapsed: when a cell is deleted and the delimiter that takes
  its place is replaced before the scheduled update, and the texts are equal,
  the older mark wins, with the outputs of the deleted cell. `OutputsFollow` is
  therefore about edits that are drawn before the next.

Quirks without a document against them: with `auto_start_kernel = false`, a run
in a buffer without a session is sent to the backend and refused; if the
backend exits at that moment, `on_backend_exit` resets the buffers that have a
session or a start in flight, and not this one, and a second queued run goes to
a newly spawned backend, to be refused there. After a clear, buffer and session
may differ by the events in between, because the buffer is cleared at once and
the session when the request is served; `ReplicasAgree` is therefore about
behaviours without clears. After a stop, late events of the old kernel can mix
its outputs with those of the next run; `OneRunShown`, `BusyUntilExit` and
`BusyEnds` are about behaviours without stops, and `cells_stopped` shows why.

An image that is still pending when its output is dropped, or that was
transmitted by a backend that has exited since, stays in the terminal; so does
one whose cell is rerun or cleared by its own code, unless it is a whole-file
cell (`state.lua:264`). So does one whose deletion could not be written, or of which
only the placement could not (`kitty.rs:84`, `kitty.rs:141`), as nobody tries
again; Neovim then shows a second image for the output. `NoneLeftBehind` says
which ones go. `attached` is never
reset when a backend exits, so that the next one, which has no terminal, refuses
to transmit and Neovim writes the images: this is also what keeps ids that the
new backend would give out again from replacing images on the screen
(`ImagesOwn`). An image that Neovim writes while a backend transmits can spoil
both, and one whose reply is lost is transmitted twice, under two ids.

A save that fails or is cut off by the end of the backend leaves part of a
notebook, and two sessions with one path may mix their saves: files are written
in place. An `after_index` of -1 (`session.rs:132`) is not checked by the backend,
and neither are an id listed twice in `replace_cells` (`session.rs:207`) and a
file with an id twice or with an empty `cells` array (`notebook.rs:91`,
`notebook.rs:183`): the second of two cells with one id is never found, and a
session may be without a cell. `CellsAddressable` says that a session becomes
so in no other way, and `ResultsKept` is about notebooks that are not.

## What is proved

For every value of the constants. The assumptions are those of the modules:
bounds are natural numbers (`BoundsAssumption`, `LogAssumption`,
`KernelAssumption`, `EditorAssumption`, `CellsAssumption`,
`NotebookAssumption`), files found are sequences of cells with ids of clients or
none (`FilesAssumption`), scenarios have the faults and commands there are
(`ScenariosAssumption`), there are finitely many backends beside one log
(`LogAssumption`), there are finitely many outputs with images, fewer than
`FirstLuaId` (`ImagesAssumption`), and values that stand for the absence of
something are none of the things that may be there (`NoBackend`, `NoCells`,
`New`, `Closed`, `Nobody` and `Foreign`; "absent" and "spoiled" of `Images`).

`ExecProofs`:

* `TypeCorrect`: `Spec => []TypeOK`.
* `NoLostWakeup`: `Spec => []NoStuckRuns`. Queued runs always wait for a run, a
  start or a stop in flight.

The inductive invariant is `IInv == TypeOK /\ Sound(buf) /\ Fed(buf)`. `Fed` is
`NoStuckRuns` of a buffer state. It is not inductive alone: the end of a run
lets a held stop go by clearing a flag of `starting`, which must not leave it
empty, so `Sound` says that a start in flight has a number; and `done()` pumps
only if there is a queue, so `Sound` says that no runs are in a queue that is
not there. The proof follows the code's structure: one lemma for each helper
(`PumpOK`, `StartOK`, `FinishStartOK`, `StopHeldOK`, `DoneOK`: from a sound
buffer state each leaves one that is sound and fed), one for each callback and
command, which cite them, and one for each disjunct of `Next`.

`ExecProofs`, second part:

* `ImplementsRunDelivery`: `Spec => RunsDelivered`. `Exec` implements
  `RunDelivery`: each run reaches at most one kernel, with the source it was
  issued with, in the order of issue, and never once it was dropped.
* `DroppedRunsStay`: `Spec => []DroppedNeverRun`.
* `StopsComeAfterRuns`: `Spec => []StopAfterRuns`.

All three follow from one invariant, `DInv`, on top of `IInv`. The cell's source
in a session is shared by all runs and the backend serves calls in any order,
so everything rests on what may be under way together. A call is under way from
the command that sends it to the step that runs its callback, in the pending
calls of its client or in the queue of callbacks, and it moves from the one to
the other; `Lanes` is both. `AllApart` says that no two calls under way are of
one run, of one start, or of runs in one session, and that none is in a session
whose opening or stop is under way. This is not inductive without the rest:

* `BufferGood` - what is queued was issued after the run in flight and after all
  that left the queue, and the frames not read answer none of it. It orders the
  deliveries, and is why a dropped run cannot come back.
* `RunGood`, `StartGood` and `DropGood` - how the calls under way stand to the
  buffer: those from the present queue or in the present session are of the run
  in flight, a stop in the present session is the one in flight, and of a
  dropped run at most the update of the source is left, from a queue that was
  given up, which is what `discarded()` finds.
* `AnswerGood` and `ServedGood` - how they stand to the backend: when the answer
  to an update is read, the source is that run's or was removed with the
  session; an `execute` that has read the source has its own; a kernel about to
  be launched has had no deliveries and is in no slot.
* `SlotsGood` and `LoopGood` - kernels in a slot are of its session, and a call
  fails without an answer only when the backend is gone.

The proof goes through the handlers as the first part does, from what each finds
(`Found`) to what it leaves (`Left`), and then through the backend, where one
lemma (`BackendKept`) has the argument for every step of a handler that serves
a call: its effects are at most those that the stage of the call allows, and
the other calls are apart from it.

`SessionProofs`:

* `KernelsStayReachable`: `Spec => []KernelsReachable`.
* `SessionsStayOwned`: `Spec => []SessionsOwned`.

Both follow from `SInv`, on top of `IInv /\ DInv`, an invariant about what the
calls under way are for:

* `Sessions` - a launch in the buffer's session is of the start that the buffer
  waits for, a session to be closed is not the buffer's, and no two calls under
  way launch in and close one session. So a `close` never meets a launch, which
  is what `KernelsReachable` needs: the backend looks the session up before the
  launch and puts the kernel in its slot afterwards.
* `Kept` - a session that a backend holds is the buffer's or that of a pending
  call that opens it, launches in it or closes it; while the buffer waits for a
  launch in its session, that launch is pending. A callback takes its call from
  the pending ones before it has made the session the buffer's or closed it, so
  `Kept` has the call that is being answered as a parameter: what the callback
  finds may lack an owner for that one's session, and what it leaves may not.
* `Processes`, with `Told` - one backend at a time has not exited for the front
  end, and at most one callback, of that client, is there to tell it. So a new
  session is never opened in a backend whose exit is about to drop it.
* `HeldGood`, `LaunchGood`, `CloseGood`, `FrameGood` and `KernelGood` - how
  sessions, the calls that the backend has begun or answered, the frames and the
  kernels agree. `KernelGood` is `KernelsReachable` with the range of its values.

* `StartedKernelIsThere`: `Spec => []StartedSound`. While the front end takes its
  kernel for started, the kernel is in its slot, or the backend is dead, or the
  news of the exit is on its way, or a stop is with the backend; or the exit was
  reported before the start was answered (see Disagreements).

It needs more than `SInv`, because `started` is set by an answer that may be read
long after the backend wrote it. `KInv` follows the claim from the moment the
kernel takes the slot to the moment the answer is read:

* `Present` of the i-th frame of a pipe - what the property promises, with the
  exit only where it will be read after that frame. `ReplyGood` says it of every
  answer to a launch in the buffer's session whose call is still under way, and
  of a failed stop that the backend is dead; `Shown` says it of the buffer. A
  frame that is read leaves the pipe in order, so what `ReplyGood` says of the
  answer is what `Shown` says after its callback. `Landed` says it of a launch
  between its install and its answer, with the kernel it has put in the slot:
  there, noticed by the pump, or reported, which makes its session `overtaken`.
* `BufferOwns`, `CallOwned` and `OpenGood` - the buffer's session is held by its
  client's backend unless that is dead, the calls of the start in flight are of
  that client, and a session is held from the answer to its opening, not before.
  Without them a stop or an exit in another session could clear the slot.
* `Once` - an answer that is not read belongs to a start whose call of that kind
  has been answered, so no second answer of a launch or stop comes under way
  with the first, and a stop that is held back has not been answered.
* `SlotOwned`, `Unborn` and `GoneGood` - the kernel in a slot is of the backend
  that holds the session, a kernel that has not been launched has not exited,
  and calls fail on their own only if their backend is dead.

`KernelProofs`, each property by an invariant of its own:

* `KernelTypeCorrect`: `Spec => []TypeOK`.
* `KernelLeavesNothing`: `Spec => []NothingLeft`, from `Owned` (a kernel that
  is not yet or no longer there has no process, port or file) and `OneOwner`.
  That one kernel is in the slot is not inductive: an install that waits for
  its predecessor will fill the slot without looking again, so `OneOwner`
  counts it as the slot's owner.
* `KernelKeepsReplies`: `Spec => []ReplyNotDropped`, from `Asked`.
* `KernelReportsTruly`: `Spec => []NoFalseReport`, from `Reported`: whoever has
  seen the exit of a process that nobody killed has it from one that ended by
  itself. It follows the exit along its way, through the watch, the channel, the
  queue for the slot's lock and the pump, and therefore says of queued installs
  that a launch that failed has queued none.
* `KernelConnectsToItself`: `Spec => []OwnProcess`, from `Connections`: a port
  stays bound while its process runs (`Bound`), and where a kernel is connected
  to another process, that one still holds the kernel's port or has ended
  (`Joined`).

`LogProofs`:

* `LogTypeCorrect`: `Spec => []TypeOK`.
* `NoLineLost`: `Spec => []LinesKept`, from `LInv == TypeOK /\ Placed`, which
  says where the file of a backend is by the number of renames since its check.
* `RotatedOnce`: `Spec => []RotatesFull`: where locking works, only a full log
  is renamed. From `RInv == TypeOK /\ Exclusive /\ Checked`: who rotates holds
  the lock, and what it found full while it held the lock is still at the path.
* `LockNeverKept`: `Spec => []LockReleased`.
* `GrowthBounded`: `Spec => []SizeBounded`. The bound on the size of a file
  counts one line for each backend but one, and cannot be proved of the size
  alone: `Fits` says of each file that it has room for the lines of all who are
  going to write to it, because of these one has checked last, and found room
  for its own after the others' had been written or not. `Unmade` and `Fresher`
  say where this begins: with a file that is not there yet, and one that was
  made between a rename and the opening of the new file. Lines are added and
  backends counted with the theorems on cardinality.

`CellProofs`:

* `CellsTypeCorrect`: `Spec => []TypeOK`, from `CInv == CTyped /\
  RequestsGood`: what is under way of a run has a route to a cell, and a kernel
  that is not in the slot gets no runs.
* `DroppedCellsStayEmpty`: `Spec => []DroppedStayEmpty`, from `DroppedBlank`.
* `CellsAgreeWithSession`: `Spec => []ReplicasAgree`. The property is about
  moments without frames in the pipe; `CatchesUp` says for every moment that
  the frames in the pipe, applied in their order to what is shown, make what the
  session has (`Replays`, with the intermediate contents as a function on
  positions instead of a recursion).
* `BusyOnlyUntilExit`: `Spec => []BusyUntilExit`: the report of an exit is
  behind all that a kernel sent, at most one frame in the pipe answers the
  request under way (`RepliesGood`), and a cell that is busy has a kernel that
  works or a frame on its way.
* `CellsShowOneRun`: `Spec => []OneRunShown`, from `RunsInOrder`. The events
  that change what is shown stay in the order of the runs, through both
  sockets, the channel and the pipe (`InLine`), and a run that may show more
  outputs is either one whose cell is still to be emptied for it, or the only
  one shown there (`Settled`).

`NotebookProofs`:

* `NotebookTypeCorrect`: `Spec => []TypeOK` and `SavesStayWhole`:
  `Spec => []SavedWhole`, from one invariant, `NInv == TypeOK /\ SessionsGood
  /\ SavesGood /\ FilesGood`. A save writes whole notebooks because it has the
  session locked, which `SavesGood` says.
* `CellsStayAddressable`: `Spec => CellsAddressable`, the action property: an open
  session has a cell, and an id names one, unless it was opened from a file for
  which that does not hold or a list repeated an id. An edit keeps ids distinct
  only if the next number to give out is above all those that are in sessions
  and files, which `Cellular` and `InFile` say in the invariant. Each edit of a
  list of cells (inserting, deleting, moving, replacing) has a lemma about the
  list it leaves, sound or not.
* `ResultsStayKept`: `Spec => ResultsKept`, the action property: no edit of a
  list whose ids name one cell loses or mixes up the results of its cells.

`EditorProofs`:

* `NoUpdateLost`: `Spec => []DecorationsCurrent`, from `DInv`. The property is
  about moments without a callback in the queue; between them, `pending` must
  mean that a callback is queued, and whatever is not drawn as it should be must
  have been requested. A callback that outlives a `disable` draws nothing, or
  draws early for the buffer enabled since.

`ImageProofs`:

* `ImagesTyped`: `Spec => []TypeOK`.
* `OutputsOwnTheirImages`: `Spec => []ImagesOwn`. Whatever backends exit and
  are spawned again, and whoever writes the images, the id of an output that is
  shown is no other's, and the terminal has that output's image under it.
* `NothingLeftBehind`: `Spec => []NoneLeftBehind`, with the exceptions named
  under Disagreements; a write that fails is excepted for the image it was
  about, not for the others.

All three follow from one invariant, `IInv`:

* `LanesGood` - of the calls under way, pending or in the queue of callbacks, at
  most one for each output waits for its image. `FramesGood` and `SendingGood`
  tie replies not read and transmissions begun to such a call, and `CallsGood`
  ties the calls to the state of their image and to `attached`.
* `ProcessesGood` - at most one backend runs, and it is the current client's.
* `GiverGood` - ids are unique within a process, but each process counts from 1.
  A process that gave out an id had been attached, `attached` holds for good,
  and so no other process has a terminal or an attach under way: only one
  process ever gives out ids. This is the argument that the code leaves
  unsaid: it hangs on `attached` not being reset when a backend exits.
* `CountsGood` - the ids of Neovim must not meet those of the backend. The
  backend has given out at most as many as there are outputs that can get none
  any more (`Spent`), and Neovim as many as there are outputs that are ready or
  failed; each step that gives out an id adds its output to the set, which is
  shown with the theorems on cardinality.
* `IdsGood` - an id is one output's from the start of its transmission, through
  the unread reply, to `state.image`, and the terminal holds the image until it
  is deleted or spoiled.
* `SteadyGood`, `WholeGood` and `LeftGood` - what holds in addition where no
  backend exits, where no transmission fails either, and where the terminal
  shows images: then each image there belongs to an output, or its deletion is
  under way, or a write about it has failed.

Only model-checked:

* The liveness properties (`RunsExecute`, `Settles`, `ExitNoticed` and those of
  the other modules): liveness under fairness is out of the prover's reach.
* `OutputsFollow` of `Editor`: it compares with a reference computed by a fold
  over the marks, and what a recursion computes needs an induction over data
  that the prover cannot be given.

## What is not modelled

* Interrupt, kernel listing and selection, the installer. None of them changes
  the state of `Exec`, except that a selection restarts a started kernel.
* Undo, whole-file identities and the output window in `Editor`; keymaps and
  `setup` called again.
* Reading kernelspecs: sequential, without state.
* In `Exec` a launch is one step that succeeds or fails, and killing a process
  is one step with taking it out of its slot, except in the pump, where the
  interval can be seen. `Kernel` has both in detail.
* A kernel whose exit watch cannot check the process (`kernel.rs:597`): the watch
  ends, and an exit is never reported. `ExitNoticed` and `DeadRemoved` assume
  that it can. `ExitNoticed` is about kernels that exit while the front end takes
  them for started; an answer to a start that is read after the report of the
  exit is outside it, as it is excepted from `StartedSound`.
* `Kernel` has one session and no end of the backend: `kill_on_drop` does not
  run when the backend is killed by a signal, and its files then stay.
* The contents of log lines and the name cache that `logfile.rs` works around
  on macOS.
* Framing, encoding, signing, messages to the user, screen layout, option
  tables, the health report: no behaviour over time.

## Plan

Done: `Exec` with `Client`, `Backend` and `RunDelivery`; `Kernel`;
`CellEvents`; `LogRotation`; `Notebook`; `Images`; `Editor`; their proofs as
listed above. What could follow:

1. `Install`: a download that is interrupted never replaces a backend
   (`install.lua`).
2. Kernel selection in `Exec`: a kernel selected during a start.
