------------------------------- MODULE Editor -------------------------------
(***************************************************************************)
(* One buffer in Neovim: the lines a user edits, the extmarks that carry   *)
(* the identities of its cells (lua/notebook_style/state.lua), and the     *)
(* scheduled updates that collect and draw them (init.lua, render.lua).    *)
(*                                                                         *)
(* A cell begins at a delimiter line and its outputs belong to the         *)
(* identity mark on that line.  Neovim moves marks with the text: a mark   *)
(* is at the end of its line, or collapsed at the start of a line when its *)
(* own was deleted or replaced.  Lines are numbered from 1.  Buffers       *)
(* without any delimiter have no cells here (whole files are left out), and*)
(* undo, which moves marks back, is not modelled.                          *)
(***************************************************************************)
EXTENDS Integers, Sequences, FiniteSets, SequencesExt

CONSTANTS
    Delimiters,   \* bound: texts of delimiter lines
    MaxLines,     \* bound: lines in the buffer
    MaxEdits,     \* bound: edits of the text
    MaxMarks,     \* bound: identity marks created
    MaxQueued,    \* bound: update callbacks left in the queue when a buffer is enabled
    Scenarios     \* bound: the first text, what the user does, the configuration

AllCommands == {"insert", "delete", "replace", "retype", "run", "toggle",
                "disable", "leave", "burst"}

ASSUME EditorAssumption ==
    /\ MaxLines \in Nat /\ MaxEdits \in Nat /\ MaxMarks \in Nat
    /\ MaxQueued \in Nat
    /\ Scenarios \subseteq [text : Seq(Delimiters \union {"plain"}),
                            commands : SUBSET AllCommands, edits : 0..MaxEdits,
                            manual_render : BOOLEAN]

Marks == 1..MaxMarks

VARIABLES
    scenario,        \* the scenario of this behaviour
    lines,           \* the text of each line, and the edit at which its cell was born
    edits,           \* edits so far
    typing,          \* the line on which insert mode types, 0 in normal mode
    shown,           \* is the buffer in a window
    marks,           \* the identity marks, with mark_delimiters
    outputs,         \* the line whose run each identity shows, or 0
    next_mark,       \* the id of the next mark
    runs,            \* runs in flight: the identity and the line they are for
    enabled,         \* M.enabled_buffers
    visible,         \* M.render_visible
    pending,         \* M.pending_updates
    scheduled,       \* update callbacks in Neovim's queue
    drawn,           \* the decorations: none, those of this state, or old ones
    results          \* the lines that have outputs and are still cells

bufferVars == <<lines, edits, typing, shown>>
stateVars == <<marks, outputs, next_mark, runs, results>>
initVars == <<enabled, visible, pending, scheduled>>
vars == <<scenario, bufferVars, stateVars, initVars, drawn>>

May(command) == command \in scenario.commands

-----------------------------------------------------------------------------
(* Cells, identities and outputs.                                          *)

(* find_delimiters, get_cells: the lines at which cells begin, in order.   *)
IsDelimiter(l) == l.text # "plain"
Anchors == {r \in 1..Len(lines) : IsDelimiter(lines[r])}
AnchorsInOrder == SetToSortSeq(Anchors, <)

(* What the identities are about: the births of the cells.  A line that is *)
(* no cell when marks are collected has none any more.                     *)
Settled(ls) == [r \in 1..Len(ls) |-> IF IsDelimiter(ls[r]) THEN ls[r]
                                     ELSE [ls[r] EXCEPT !.birth = 0]]
Births(ls) == {ls[r].birth : r \in 1..Len(ls)}

Identities == [marks |-> marks, outputs |-> outputs, next |-> next_mark]

(* drop_mark: the marks of ms, with the state they own.                    *)
Dropped(s, ms) ==
    [s EXCEPT !.marks = @ \ ms,
              !.outputs = [m \in Marks |-> IF \E x \in ms : x.id = m THEN 0 ELSE @[m]]]

(* sync_cells: marks that are not on a delimiter line are dropped.         *)
Synced(s) == Dropped(s, {m \in s.marks : m.row \notin Anchors})

Oldest(ms) == CHOOSE m \in ms : \A x \in ms : m.id <= x.id

ChosenByText(on, text) ==   \* mutant
    LET same == {m \in on : m.text = text}
    IN IF same # {} THEN Oldest(same) ELSE Oldest(on)

(* Which of the marks on a delimiter line is that of its cell: one still   *)
(* at the end of the line, else one with the same text, else the first.    *)
Chosen(on, text) ==
    LET atEnd == {m \in on : m.col > 0}
        candidates == IF atEnd = {} THEN on ELSE atEnd
        same == {m \in candidates : m.text = text}
    IN IF same # {} THEN Oldest(same) ELSE Oldest(candidates)

(* cell_id of the cell at line r: its mark, anchored at the end of the     *)
(* line, and the others on the line dropped; a new mark when there is none.*)
Resolved(s, r) ==
    LET on == {m \in s.marks : m.row = r}
        id == IF on = {} THEN s.next ELSE Chosen(on, lines[r].text).id
        d == Dropped(s, {m \in on : m.id # id})
    IN [d EXCEPT !.marks = {m \in @ : m.id # id} \union
                           {[id |-> id, row |-> r, col |-> 1, text |-> lines[r].text]},
                 !.next = IF on = {} THEN @ + 1 ELSE @]

IdentityAt(s, r) == (CHOOSE m \in Resolved(s, r).marks : m.row = r).id

SetIdentities(s) ==
    /\ s.next <= MaxMarks + 1
    /\ marks' = s.marks /\ outputs' = s.outputs /\ next_mark' = s.next

-----------------------------------------------------------------------------
(* Updates.                                                                *)

(* request_update: one callback at a time stands for all requests.         *)
RequestUpdate ==
    IF ~enabled \/ pending THEN UNCHANGED <<pending, scheduled>>
    ELSE pending' = TRUE /\ scheduled' = scheduled + 1

(* The autocommands of a buffer that renders by itself.                    *)
AutoUpdate ==
    IF scenario.manual_render THEN UNCHANGED <<pending, scheduled>> ELSE RequestUpdate

Outdated == drawn' = IF drawn = "none" THEN "none" ELSE "old"

(* update_cells of a buffer in a window, and render_all.  In insert mode no *)
(* mark is dropped, and no outputs are drawn.                              *)
UpdateCells ==
    LET kept == IF typing = 0 THEN Synced(Identities) ELSE Identities
        all == IF visible /\ typing = 0
               THEN FoldLeft(Resolved, kept, AnchorsInOrder) ELSE kept
    IN /\ SetIdentities(all)
       /\ lines' = IF typing = 0 THEN Settled(lines) ELSE lines
       /\ results' = IF typing = 0 THEN results \intersect Births(Settled(lines)) ELSE results
       /\ drawn' = IF visible THEN "current" ELSE "none"

NoCells == UNCHANGED <<lines, marks, outputs, next_mark, results, drawn>>

UpdateKeepsPending ==   \* mutant
    /\ scheduled > 0
    /\ scheduled' = scheduled - 1
    /\ pending' = (pending /\ ~(enabled /\ shown))
    /\ IF enabled /\ shown THEN UpdateCells ELSE NoCells
    /\ UNCHANGED <<scenario, edits, typing, shown, runs, enabled, visible>>

(* The scheduled callback.                                                 *)
Update ==
    /\ scheduled > 0
    /\ scheduled' = scheduled - 1
    /\ pending' = FALSE
    /\ IF enabled /\ shown THEN UpdateCells ELSE NoCells
    /\ UNCHANGED <<scenario, edits, typing, shown, runs, enabled, visible>>

-----------------------------------------------------------------------------
(* Edits.  Neovim moves the marks; a mark of which the line goes collapses *)
(* to the start of the line that takes its place.                          *)

(* An edit when the user waits for the screen, or, in a burst (a macro, a  *)
(* command on many lines), before the last edit has been drawn.            *)
Edit(command) ==
    /\ May(command)
    /\ shown /\ edits < scenario.edits
    /\ scheduled = 0 \/ May("burst")
    /\ edits' = edits + 1
    /\ AutoUpdate
    /\ Outdated
    /\ UNCHANGED <<scenario, typing, shown, outputs, next_mark, runs, enabled, visible>>

(* A line with another text: a cell when the text is a delimiter.          *)
WithText(l, text) ==
    [text |-> text, birth |-> IF l.birth = 0 /\ text # "plain"
                              THEN Len(scenario.text) + edits + 1 ELSE l.birth]

InsertLine(r, text) ==
    /\ Edit("insert") /\ typing = 0 /\ Len(lines) < MaxLines
    /\ lines' = InsertAt(lines, r, WithText([birth |-> 0], text))
    /\ marks' = {IF m.row > r \/ (m.row = r /\ m.col > 0)
                 THEN [m EXCEPT !.row = @ + 1] ELSE m : m \in marks}
    /\ UNCHANGED results

DeleteLines(a, b) ==
    /\ Edit("delete") /\ typing = 0 /\ a <= b
    /\ lines' = SubSeq(lines, 1, a - 1) \o SubSeq(lines, b + 1, Len(lines))
    /\ marks' = {IF m.row \in a..b THEN [m EXCEPT !.row = a, !.col = 0]
                 ELSE IF m.row > b THEN [m EXCEPT !.row = @ - (b - a + 1)] ELSE m : m \in marks}
    /\ results' = results \intersect Births(lines')

(* The whole line is replaced, by a command, or by cc and typing.          *)
ReplaceLine(r, text) ==
    /\ typing \in {0, r}
    /\ Edit(IF typing = 0 THEN "replace" ELSE "retype")
    /\ lines' = [lines EXCEPT ![r] = WithText(@, text)]
    /\ marks' = {IF m.row = r THEN [m EXCEPT !.col = 0] ELSE m : m \in marks}
    /\ UNCHANGED results

(* Text is typed at the end of the line: the mark stays behind it.         *)
AppendText(r, text) ==
    /\ typing = r /\ Edit("retype")
    /\ lines' = [lines EXCEPT ![r] = WithText(@, text)]
    /\ UNCHANGED <<marks, results>>

(* Insert mode is entered on a line, or left (ModeChanged).                *)
ChangeMode(r) ==
    /\ May("retype") /\ shown
    /\ scheduled = 0 \/ May("burst")
    /\ typing' = IF typing = 0 THEN r ELSE 0
    /\ RequestUpdate
    /\ Outdated
    /\ UNCHANGED <<scenario, lines, edits, shown, stateVars, enabled, visible>>

-----------------------------------------------------------------------------
(* Runs, and the buffer's life with the plugin.                            *)

(* run_cell of the cell at line r: marks are collected first.              *)
Run(r) ==
    /\ May("run") /\ enabled /\ shown /\ typing = 0
    /\ LET s == Synced(Identities) IN
        /\ SetIdentities(Resolved(s, r))
        /\ runs' = runs \union {[id |-> IdentityAt(s, r), line |-> lines[r].birth]}
    /\ lines' = Settled(lines)
    /\ results' = results \intersect Births(Settled(lines))
    /\ UNCHANGED <<scenario, edits, typing, shown, initVars, drawn>>

(* The outputs of a run arrive (apply_event): those of an identity that    *)
(* was dropped are ignored.  The buffer is refreshed, which makes it       *)
(* visible when it renders on request.                                     *)
ApplyEvent(x) ==
    /\ runs' = runs \ {x}
    /\ LET alive == \E m \in marks : m.id = x.id IN
        /\ outputs' = IF alive THEN [outputs EXCEPT ![x.id] = x.line] ELSE outputs
        /\ results' = IF x.line \in Births(lines) THEN results \union {x.line} ELSE results
    /\ visible' = (visible \/ scenario.manual_render)
    /\ RequestUpdate
    /\ Outdated
    /\ UNCHANGED <<scenario, bufferVars, marks, next_mark, enabled>>

(* M.enable.                                                               *)
Enable ==
    /\ ~enabled /\ shown /\ scheduled < MaxQueued
    /\ enabled' = TRUE
    /\ visible' = ~scenario.manual_render
    /\ IF scenario.manual_render THEN UNCHANGED <<pending, scheduled>>
       ELSE pending' = TRUE /\ scheduled' = scheduled + 1
    /\ UNCHANGED <<scenario, bufferVars, stateVars, drawn>>

(* M.disable: the session, with its runs, and the state are dropped.       *)
Disable ==
    /\ May("disable") /\ enabled
    /\ enabled' = FALSE /\ visible' = FALSE /\ pending' = FALSE
    /\ runs' = {} /\ marks' = {} /\ results' = {}
    /\ outputs' = [m \in Marks |-> 0]
    /\ drawn' = "none"
    /\ UNCHANGED <<scenario, bufferVars, next_mark, scheduled>>

(* M.toggle_render of an enabled buffer.                                   *)
ToggleRender ==
    /\ May("toggle") /\ enabled /\ shown
    /\ visible' = ~visible
    /\ IF visible THEN drawn' = "none" /\ UNCHANGED <<pending, scheduled>>
       ELSE RequestUpdate /\ UNCHANGED drawn
    /\ UNCHANGED <<scenario, bufferVars, stateVars, enabled>>

(* The buffer leaves its window, or is entered again (BufEnter).           *)
ChangeWindow ==
    /\ May("leave") /\ typing = 0
    /\ shown' = ~shown
    /\ IF shown THEN UNCHANGED <<pending, scheduled>> ELSE AutoUpdate
    /\ UNCHANGED <<scenario, lines, edits, typing, stateVars, enabled, visible, drawn>>

-----------------------------------------------------------------------------
Init ==
    /\ scenario \in Scenarios
    /\ lines = Settled([r \in 1..Len(scenario.text) |->
                            [text |-> scenario.text[r], birth |-> r]])
    /\ edits = 0 /\ typing = 0 /\ shown = TRUE
    /\ marks = {} /\ outputs = [m \in Marks |-> 0] /\ next_mark = 1
    /\ runs = {} /\ results = {}
    /\ enabled = FALSE /\ visible = FALSE /\ pending = FALSE /\ scheduled = 0
    /\ drawn = "none"

Next ==
    \/ \E r \in 1..(Len(lines) + 1), text \in Delimiters \union {"plain"} : InsertLine(r, text)
    \/ \E a, b \in 1..Len(lines) : DeleteLines(a, b)
    \/ \E r \in 1..Len(lines), text \in Delimiters \union {"plain"} :
        ReplaceLine(r, text) \/ (IsDelimiter(lines[r]) /\ AppendText(r, text))
    \/ \E r \in 1..Len(lines) : ChangeMode(r)
    \/ \E r \in Anchors : Run(r)
    \/ \E x \in runs : ApplyEvent(x)
    \/ Update \/ Enable \/ Disable \/ ToggleRender \/ ChangeWindow

Spec == Init /\ [][Next]_vars

-----------------------------------------------------------------------------
(* Outputs follow their cell: when every edit is drawn before the next one *)
(* and rendering is never hidden, each delimiter line shows the outputs of *)
(* the run of that very line, wherever the edits around it have moved it   *)
(* and however it was retyped, and no outputs of a cell that is gone.      *)
OutputsFollow ==
    /\ enabled /\ shown /\ typing = 0 /\ scheduled = 0
    /\ ~scenario.manual_render /\ scenario.commands \intersect {"burst", "toggle"} = {}
    => \A r \in Anchors :
        outputs[IdentityAt(Identities, r)] =
            IF lines[r].birth \in results THEN lines[r].birth ELSE 0

(* No update is lost and none comes too late: when no update is scheduled, *)
(* a buffer in a window that renders by itself shows decorations of its    *)
(* present text, outputs and mode, or none while they are hidden; and a    *)
(* disabled buffer has none, whatever callbacks were left.                 *)
DecorationsCurrent ==
    /\ ~enabled => drawn = "none"
    /\ enabled /\ shown /\ ~scenario.manual_render /\ scheduled = 0 =>
        drawn = IF visible THEN "current" ELSE "none"
=============================================================================
