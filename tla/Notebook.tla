------------------------------ MODULE Notebook ------------------------------
(***************************************************************************)
(* The notebooks that the backend holds, one per session: the requests     *)
(* that edit them, the results that kernels write into their cells         *)
(* (core/src/session.rs), and how they are saved to and read from .ipynb   *)
(* files (core/src/notebook.rs), which other programs may have written.    *)
(*                                                                         *)
(* Requests run on tasks of their own (core/src/rpc.rs).  A handler that   *)
(* edits takes the notebook's write lock for one step; a save holds the    *)
(* read lock while it writes the file, in several steps.                   *)
(*                                                                         *)
(* Outputs are abstracted to the runs they come from, metadata is left     *)
(* out.  A kernel's events may come in any order: CellEvents has the order.*)
(***************************************************************************)
EXTENDS Integers, SequencesExt

CONSTANTS
    Sessions,
    Paths,
    Types,       \* the types of cell that clients use in this instance
    Sources,     \* the sources that clients give cells
    EmptySource, \* the source of a new cell
    ListSources, \* bound: the sources in the lists that replace_cells gets
    FilesFound,  \* bound: the notebooks of other programs that files may hold
    Names,       \* the ids that clients give cells, beside the backend's own
    New,         \* the id of a cell, in a list or a file, that is to get one
    Closed,      \* the path of a session that does not exist
    Hole,        \* the part of a file that was skipped
    MaxIds,      \* bound: ids made by the backend
    MaxCells,    \* bound: cells of a notebook
    MaxRequests, \* bound: requests of clients
    MaxRuns,     \* bound: runs executed
    MaxOutputs,  \* bound: outputs of a cell
    SaveTasks    \* the handlers of saves; bound: so many at a time

AllTypes == {"code", "markdown", "raw"}

ASSUME NotebookAssumption ==
    /\ {"code"} \subseteq Types /\ Types \subseteq AllTypes
    /\ EmptySource \in Sources /\ ListSources \subseteq Sources
    /\ Names \cap Int = {} /\ New \notin Names \cup Int /\ Closed \notin Paths
    /\ MaxIds \in Nat /\ MaxCells \in Nat \ {0} /\ MaxRequests \in Nat
    /\ MaxRuns \in Nat /\ MaxOutputs \in Nat

Ids == Names \cup 1..MaxIds
Runs == 1..MaxRuns

(* A cell, and one in a file, which may be without an id.                  *)
CellWith(ids) ==
    [id : ids, type : Types, source : Sources, outs : Seq(Runs), count : 0..MaxRuns]
Cell == CellWith(Ids)
FileCell == CellWith(Ids \cup {New})

ASSUME FilesAssumption == FilesFound \subseteq Seq(CellWith(Names \cup {New}))

VARIABLES
    path,     \* the file of a session, or Closed
    cells,    \* the session's notebook
    nextId,   \* new_cell_id: the ids made so far are the smaller numbers
    requests, \* how many requests have been made
    route,    \* Session.msg_to_cell: the session and cell of each run
    lastRun,  \* how many runs have been executed
    save,     \* the saves under way
    file,     \* what is in each file: the parts written to it
    saved,    \* history: the notebook of the last save of a file to end
    spoiled   \* history: files left by a save that failed or met another's

sessionVars == <<path, cells, nextId, route, lastRun>>
fileVars == <<file, saved, spoiled>>
vars == <<sessionVars, save, fileVars, requests>>

-----------------------------------------------------------------------------
(* Cells                                                                   *)

(* Cell::new_code and new_markdown, and the raw cells made from them       *)
NewCell(id, type, source) ==
    [id |-> id, type |-> type, source |-> source, outs |-> <<>>, count |-> 0]

Cleared(cell) == [cell EXCEPT !.outs = <<>>, !.count = 0]

(* Where the first cell with an id is, or 0.                               *)
Position(nb, id) == SelectInSeq(nb, LAMBDA c : c.id = id)

HasCell(nb, id) == Position(nb, id) # 0

(* How many of the cells before j are to get a fresh id.                   *)
NewBefore(nb, j) == Cardinality({i \in 1..j - 1 : nb[i].id = New})

Update(nb, id, Op(_)) == [nb EXCEPT ![Position(nb, id)] = Op(@)]

(* What a file keeps of a cell: results only of code (Cell::to_json).      *)
Written(nb) == [i \in 1..Len(nb) |-> IF nb[i].type = "code" THEN nb[i] ELSE Cleared(nb[i])]

(* A notebook without cells gets an empty one.                             *)
FreshNotebook(id) == << NewCell(id, "code", EmptySource) >>

NeverEmpty(nb) == IF nb = <<>> THEN FreshNotebook(nextId) ELSE nb

-----------------------------------------------------------------------------
(* A save under way: its handler's step and the notebook it writes.        *)
SaveTask == [step : {"idle", "head", "tail"}, session : Sessions \cup {Closed},
             path : Paths \cup {Closed}, nb : Seq(Cell)]

NoSave == [step |-> "idle", session |-> Closed, path |-> Closed, nb |-> <<>>]

Saving(p) == {i \in SaveTasks : save[i].step # "idle" /\ save[i].path = p}

Init ==
    /\ path = [s \in Sessions |-> Closed]
    /\ cells = [s \in Sessions |-> <<>>]
    /\ nextId = 1
    /\ requests = 0
    /\ route = [n \in Runs |-> <<>>]
    /\ lastRun = 0
    /\ save = [i \in SaveTasks |-> NoSave]
    /\ file \in [Paths -> {<<>>} \cup {<<nb, nb>> : nb \in FilesFound}]
    /\ saved = [p \in Paths |-> IF file[p] = <<>> THEN <<>> ELSE file[p][1]]
    /\ spoiled = {}

-----------------------------------------------------------------------------
(* open_py: a new notebook, whatever is in the file.                       *)
OpenPy(s, p) ==
    /\ path[s] = Closed
    /\ nextId <= MaxIds
    /\ cells' = [cells EXCEPT ![s] = FreshNotebook(nextId)]
    /\ nextId' = nextId + 1
    /\ path' = [path EXCEPT ![s] = p]
    /\ UNCHANGED <<route, lastRun, save, fileVars>>

(* A file is whole, or does not parse.  from_json takes its cells as they  *)
(* are, also none at all or several with one id; a cell without an id gets *)
(* a fresh one.                                                            *)
Parses(p) == Len(file[p]) = 2 /\ file[p][1] = file[p][2]
CellsRead(nb) ==
    [j \in 1..Len(nb) |->
        IF nb[j].id = New THEN [nb[j] EXCEPT !.id = nextId + NewBefore(nb, j)] ELSE nb[j]]

(* open.  A file that is missing or empty is a new notebook.               *)
Open(s, p) ==
    \/ file[p] = <<>> /\ OpenPy(s, p)
    \/ /\ path[s] = Closed
       /\ Parses(p)
       /\ LET nb == file[p][1]
              fresh == NewBefore(nb, Len(nb) + 1)
          IN  /\ nextId + fresh <= MaxIds + 1
              /\ cells' = [cells EXCEPT ![s] = CellsRead(nb)]
              /\ nextId' = nextId + fresh
       /\ path' = [path EXCEPT ![s] = p]
       /\ UNCHANGED <<route, lastRun, save, fileVars>>

(* close.  A save refers to its session, which is not removed meanwhile.   *)
Close(s) ==
    /\ path[s] # Closed
    /\ \A i \in SaveTasks : save[i].session # s
    /\ path' = [path EXCEPT ![s] = Closed]
    /\ cells' = [cells EXCEPT ![s] = <<>>]
    /\ route' = [n \in Runs |-> IF route[n] # <<>> /\ route[n][1] = s THEN <<>> ELSE route[n]]
    /\ UNCHANGED <<nextId, lastRun, save, fileVars>>

(* A save in progress holds the read lock.                                 *)
WritableAlways(s) == path[s] # Closed                                \* mutant
Writable(s) == path[s] # Closed /\ \A i \in SaveTasks : save[i].session # s

(* An edit of session s that makes fresh cells.                            *)
Edit(s, nb, fresh) ==
    /\ Writable(s)
    /\ Len(nb) <= MaxCells /\ nextId + fresh <= MaxIds + 1
    /\ cells' = [cells EXCEPT ![s] = nb]
    /\ nextId' = nextId + fresh
    /\ UNCHANGED <<path, route, lastRun, save, fileVars>>

(* A cell that does not exist is appended.                                 *)
UpdateCellSourceAppends(s, id, source) ==                            \* mutant
    Edit(s, Append(cells[s], NewCell(id, "code", source)), 0)
UpdateCellSource(s, id, source) ==
    Edit(s, IF HasCell(cells[s], id)
            THEN Update(cells[s], id, LAMBDA c : [c EXCEPT !.source = source])
            ELSE Append(cells[s], NewCell(id, "code", source)), 0)

Retyped(c, type) ==
    [(IF type = "code" THEN c ELSE Cleared(c)) EXCEPT !.type = type]

SetCellType(s, id, type) ==
    /\ HasCell(cells[s], id)
    /\ Edit(s, Update(cells[s], id, LAMBDA c : Retyped(c, type)), 0)

(* after: an index from 0, or -1 for none.  The index -1 in a request      *)
(* comes to the same: as an unsigned number plus one it wraps to 0.        *)
InsertCell(s, after, type) ==
    LET at == IF after + 1 <= Len(cells[s]) THEN after + 1 ELSE Len(cells[s])
    IN  Edit(s, InsertAt(cells[s], at + 1, NewCell(nextId, type, EmptySource)), 1)

DeleteCell(s, id) ==
    LET nb == RemoveAt(cells[s], Position(cells[s], id)) IN
    /\ HasCell(cells[s], id)
    /\ Edit(s, NeverEmpty(nb), IF nb = <<>> THEN 1 ELSE 0)

(* The new index is held within the notebook.                              *)
MoveCell(s, id, delta) ==
    LET nb == cells[s]
        at == Position(nb, id)
        to == Max({1, Min({Len(nb), at + delta})})
    IN  /\ HasCell(nb, id) /\ to # at
        /\ Edit(s, InsertAt(RemoveAt(nb, at), to, nb[at]), 0)

(* What replace_cells makes of the incoming entry at j: a new cell, or the *)
(* last cell with its id, which loses its results if its type changes and  *)
(* goes to the first entry that names it.                                  *)
Incoming == [id : Ids \cup {New}, type : Types, source : ListSources]

LastPosition(nb, id) == SelectLastInSeq(nb, LAMBDA c : c.id = id)

ReplacedUnnamed(nb, incoming, j) ==                                  \* mutant
    LET e == incoming[j] IN
    IF HasCell(nb, e.id)
    THEN [nb[LastPosition(nb, e.id)] EXCEPT !.type = e.type, !.source = e.source]
    ELSE NewCell(e.id, e.type, e.source)
ReplacedInPlace(nb, incoming, j) ==                                  \* mutant
    LET e == incoming[j] IN
    IF e.id = New THEN NewCell(nextId + NewBefore(incoming, j), e.type, e.source)
    ELSE IF j <= Len(nb) THEN [nb[j] EXCEPT !.id = e.id, !.source = e.source]
    ELSE NewCell(e.id, e.type, e.source)
Replaced(nb, incoming, j) ==
    LET e == incoming[j]
        old == nb[LastPosition(nb, e.id)]
        taken == \E i \in 1..j - 1 : incoming[i].id = e.id
    IN  IF e.id = New THEN NewCell(nextId + NewBefore(incoming, j), e.type, e.source)
        ELSE IF taken \/ ~HasCell(nb, e.id) THEN NewCell(e.id, e.type, e.source)
        ELSE [(IF old.type = e.type THEN old ELSE Cleared(old))
                 EXCEPT !.type = e.type, !.source = e.source]

ReplaceCells(s, incoming) ==
    LET n == Len(incoming)
        nb == [j \in 1..n |-> Replaced(cells[s], incoming, j)]
    IN  Edit(s, NeverEmpty(nb), IF n = 0 THEN 1 ELSE NewBefore(incoming, n + 1))

ClearOutputs(s) ==
    Edit(s, [i \in 1..Len(cells[s]) |-> Cleared(cells[s][i])], 0)

ClearCellOutput(s, id) ==
    /\ HasCell(cells[s], id)
    /\ Edit(s, Update(cells[s], id, Cleared), 0)

-----------------------------------------------------------------------------
(* The route of a run is its cell's id.                                    *)
Execute(s, id) ==
    /\ lastRun < MaxRuns
    /\ path[s] # Closed /\ HasCell(cells[s], id)
    /\ lastRun' = lastRun + 1
    /\ route' = [route EXCEPT ![lastRun'] = <<s, id>>]
    /\ UNCHANGED <<path, cells, nextId, save, fileVars>>

EventKinds == {"input", "output", "result", "clear"}

Applied(c, n, kind) ==
    CASE kind = "input"  -> [c EXCEPT !.outs = <<>>, !.count = n]
      [] kind = "output" -> [c EXCEPT !.outs = Append(@, n)]
      [] kind = "result" -> [c EXCEPT !.outs = Append(@, n), !.count = n]
      [] kind = "clear"  -> [c EXCEPT !.outs = <<>>]

(* apply_event: nothing happens if the run's cell is gone.                 *)
ApplyEvent(n, kind) ==
    /\ route[n] # <<>>
    /\ LET s == route[n][1]
           id == route[n][2]
           nb == Update(cells[s], id, LAMBDA c : Applied(c, n, kind))
       IN  /\ Writable(s)
           /\ HasCell(cells[s], id)
           /\ \A i \in 1..Len(nb) : Len(nb[i].outs) <= MaxOutputs
           /\ cells' = [cells EXCEPT ![s] = nb]
    /\ UNCHANGED <<path, nextId, route, lastRun, save, fileVars>>

-----------------------------------------------------------------------------
(* save and save_as: the notebook is written as it is when the lock is     *)
(* taken, and the lock is held to the end.  The file is emptied, then      *)
(* written from its beginning.                                             *)
BeginSave(i, s, p) ==
    /\ save[i] = NoSave
    /\ path[s] # Closed
    /\ save' = [save EXCEPT ![i] = [step |-> "head", session |-> s, path |-> p,
                                    nb |-> Written(cells[s])]]
    /\ file' = [file EXCEPT ![p] = <<>>]
    /\ spoiled' = IF \E j \in Saving(p) : save[j].session # s THEN spoiled \cup {p}
                  ELSE IF Saving(p) = {} THEN spoiled \ {p} ELSE spoiled
    /\ UNCHANGED <<sessionVars, saved>>

WriteHead(i) ==
    LET p == save[i].path
    IN  /\ save[i].step = "head"
        /\ file' = [file EXCEPT ![p] = <<save[i].nb>> \o SubSeq(@, 2, Len(@))]
        /\ save' = [save EXCEPT ![i].step = "tail"]
        /\ UNCHANGED <<sessionVars, saved, spoiled>>

WriteTail(i) ==
    LET p == save[i].path
    IN  /\ save[i].step = "tail"
        /\ file' = [file EXCEPT ![p] = << IF @ = <<>> THEN Hole ELSE @[1], save[i].nb>>]
        /\ saved' = [saved EXCEPT ![p] = save[i].nb]
        /\ save' = [save EXCEPT ![i] = NoSave]
        /\ UNCHANGED <<sessionVars, spoiled>>

(* The disk is full.                                                       *)
SaveFails(i) ==
    /\ save[i] # NoSave
    /\ spoiled' = spoiled \cup {save[i].path}
    /\ save' = [save EXCEPT ![i] = NoSave]
    /\ UNCHANGED <<sessionVars, file, saved>>

(* The backend is killed: sessions are gone, saves are cut off.            *)
Crash ==
    /\ path' = [s \in Sessions |-> Closed]
    /\ cells' = [s \in Sessions |-> <<>>]
    /\ route' = [n \in Runs |-> <<>>]
    /\ save' = [i \in SaveTasks |-> NoSave]
    /\ spoiled' = spoiled \cup {p \in Paths : Saving(p) # {}}
    /\ UNCHANGED <<nextId, lastRun, file, saved>>

-----------------------------------------------------------------------------
(* Clients name a cell of theirs or a new one, perhaps twice in a list.    *)
EditRequest(s) ==
    \/ \E id \in Names \cup 1..nextId - 1 :
           \/ \E source \in Sources : UpdateCellSource(s, id, source)
           \/ \E type \in Types : SetCellType(s, id, type)
           \/ \E delta \in {-1, 1} : MoveCell(s, id, delta)
           \/ DeleteCell(s, id)
           \/ ClearCellOutput(s, id)
    \/ \E after \in -1..MaxCells, type \in Types : InsertCell(s, after, type)
    \/ \E n \in 0..MaxCells : \E incoming \in [1..n -> Incoming] :
           /\ \A i \in 1..n : incoming[i].id \notin nextId..MaxIds
           /\ ReplaceCells(s, incoming)
    \/ ClearOutputs(s)

Request ==
    /\ requests < MaxRequests
    /\ requests' = requests + 1
    /\ \/ \E s \in Sessions, p \in Paths :
              Open(s, p) \/ OpenPy(s, p) \/ \E i \in SaveTasks : BeginSave(i, s, p)
       \/ \E s \in Sessions :
              EditRequest(s) \/ Close(s) \/ \E id \in Ids : Execute(s, id)

SaveStep(i) == WriteHead(i) \/ WriteTail(i) \/ SaveFails(i)

Step ==
    \/ \E n \in Runs, kind \in EventKinds : ApplyEvent(n, kind)
    \/ \E i \in SaveTasks : SaveStep(i)
    \/ Crash

Next == Request \/ (Step /\ UNCHANGED requests)

Spec == Init /\ [][Next]_vars

-----------------------------------------------------------------------------
(* Every variable has its type: a cell has an id that the backend made or  *)
(* a client gave, and results come from runs that were executed.           *)
TypeOK ==
    /\ path \in [Sessions -> Paths \cup {Closed}]
    /\ cells \in [Sessions -> Seq(Cell)]
    /\ nextId \in 1..MaxIds + 1
    /\ requests \in 0..MaxRequests
    /\ route \in [Runs -> {<<>>} \cup (Sessions \X Ids)]
    /\ lastRun \in 0..MaxRuns
    /\ save \in [SaveTasks -> SaveTask]
    /\ file \in [Paths -> Seq(Seq(FileCell) \cup {Hole})]
    /\ saved \in [Paths -> Seq(FileCell)]
    /\ spoiled \subseteq Paths

(* There is a cell, and an id names one.                                   *)
RepeatsId(nb) == \E i, j \in 1..Len(nb) : i # j /\ nb[i].id = nb[j].id /\ nb[i].id # New
Addressable(nb) == nb # <<>> /\ ~RepeatsId(nb)

GetsRepeatedId(s) ==
    \E n \in 0..MaxCells : \E incoming \in [1..n -> Incoming] :
        RepeatsId(incoming) /\ ReplaceCells(s, incoming)

(* Every session has a cell and no two with the same id, and keeps it so   *)
(* through requests, kernels' events, saves, crashes and loads, unless the *)
(* file it is opened from has no cell or repeats an id, or a client's list *)
(* repeats one: from_json and replace_cells take those as they are.        *)
CellsAddressable ==
    [][ \A s \in Sessions : path'[s] # Closed =>
            \/ Addressable(cells'[s])
            \/ path[s] # Closed /\ ~Addressable(cells[s])
            \/ path[s] = Closed /\ Parses(path'[s]) /\ ~Addressable(file[path'[s]][1])
            \/ GetsRepeatedId(s) ]_vars

(* A file that no save is writing and that no save has spoiled holds the   *)
(* whole of the notebook last saved, or found, although saves may overlap. *)
SavedWhole ==
    \A p \in Paths : Saving(p) = {} /\ p \notin spoiled =>
        \/ file[p] = <<saved[p], saved[p]>>
        \/ file[p] = <<>> /\ saved[p] = <<>>

(* What a cell shows of its runs.                                          *)
Results(nb, id) == LET c == nb[Position(nb, id)] IN <<c.outs, c.count>>
TypeOf(nb, id) == nb[Position(nb, id)].type

MayChange(s, id) ==
    \/ ClearOutputs(s) \/ ClearCellOutput(s, id)
    \/ TypeOf(cells'[s], id) # TypeOf(cells[s], id)
    \/ \E n \in Runs, kind \in EventKinds : route[n] = <<s, id>> /\ ApplyEvent(n, kind)

(* A cell that its id names keeps its results through edits, also of where *)
(* it is, until they are cleared or its type changes; only its own runs    *)
(* add to them, and a cell that is new has none.                           *)
ResultsKept ==
    [][ \A s \in Sessions :
            /\ path[s] # Closed /\ Addressable(cells[s])
            /\ path'[s] # Closed /\ Addressable(cells'[s])
            => \A id \in Ids : HasCell(cells'[s], id) =>
                IF HasCell(cells[s], id)
                THEN Results(cells'[s], id) = Results(cells[s], id) \/ MayChange(s, id)
                ELSE Results(cells'[s], id) = << <<>>, 0>> ]_vars
=============================================================================
