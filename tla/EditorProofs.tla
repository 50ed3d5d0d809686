---------------------------- MODULE EditorProofs ----------------------------
(***************************************************************************)
(* Proofs about Editor, for every text, scenario and bound.                *)
(***************************************************************************)
EXTENDS Editor, TLAPS

(* What makes DecorationsCurrent inductive: a request that is pending has  *)
(* its callback in the queue, and what is not drawn has been requested.    *)
DInv ==
    /\ scheduled \in Nat
    /\ pending \in BOOLEAN /\ visible \in BOOLEAN /\ enabled \in BOOLEAN
    /\ shown \in BOOLEAN
    /\ pending => scheduled > 0
    /\ ~enabled => drawn = "none"
    /\ enabled /\ shown /\ ~scenario.manual_render /\ ~pending =>
        drawn = IF visible THEN "current" ELSE "none"

(* A request leaves a callback in the queue for an enabled buffer.         *)
LEMMA Requested ==
    ASSUME DInv, RequestUpdate
    PROVE  /\ scheduled' \in Nat /\ pending' \in BOOLEAN
           /\ pending' => scheduled' > 0
           /\ enabled => pending'
<1>1. CASE ~enabled \/ pending
  <2>1. UNCHANGED <<pending, scheduled>>
    BY <1>1 DEF RequestUpdate
  <2> QED
    BY <1>1, <2>1 DEF DInv
<1>2. CASE enabled /\ ~pending
  <2>1. pending' = TRUE /\ scheduled' = scheduled + 1
    BY <1>2 DEF RequestUpdate
  <2>2. scheduled' \in Nat /\ scheduled' > 0
    BY <2>1 DEF DInv
  <2> QED
    BY <2>1, <2>2
<1> QED
  BY <1>1, <1>2

(* So does an autocommand, unless the buffer is rendered on request.       *)
LEMMA AutoRequested ==
    ASSUME DInv, AutoUpdate
    PROVE  /\ scheduled' \in Nat /\ pending' \in BOOLEAN
           /\ pending' => scheduled' > 0
           /\ enabled /\ ~scenario.manual_render => pending'
BY Requested DEF DInv, AutoUpdate

(* An edit, of whichever kind, requests an update of what it outdates.     *)
LEMMA EditKeeps ==
    ASSUME DInv, NEW command, Edit(command)
    PROVE  DInv'
<1>1. /\ scheduled' \in Nat /\ pending' \in BOOLEAN
      /\ pending' => scheduled' > 0
      /\ enabled /\ ~scenario.manual_render => pending'
  BY AutoRequested DEF Edit
<1>2. UNCHANGED <<scenario, shown, enabled, visible>>
  BY DEF Edit
<1>3. drawn = "none" => drawn' = "none"
  BY DEF Edit, Outdated
<1> QED
  BY <1>1, <1>2, <1>3 DEF DInv

(* The callback draws what is in a window, and outside of one nothing has  *)
(* to be drawn.                                                            *)
LEMMA UpdateKeeps ==
    ASSUME DInv, Update
    PROVE  DInv'
<1>1. /\ scheduled' \in Nat /\ pending' = FALSE
  BY DEF DInv, Update
<1>2. UNCHANGED <<scenario, shown, enabled, visible>>
  BY DEF Update
<1>3. CASE enabled /\ shown
  <2>1. drawn' = IF visible THEN "current" ELSE "none"
    BY <1>3 DEF Update, UpdateCells
  <2> QED
    BY <1>1, <1>2, <1>3, <2>1 DEF DInv
<1>4. CASE ~(enabled /\ shown)
  <2>1. drawn' = drawn
    BY <1>4 DEF Update, NoCells
  <2> QED
    BY <1>1, <1>2, <1>4, <2>1 DEF DInv
<1> QED
  BY <1>3, <1>4

LEMMA DInvStep ==
    ASSUME DInv, [Next]_vars
    PROVE  DInv'
<1>1. CASE \E r \in 1..(Len(lines) + 1), text \in Delimiters \union {"plain"} :
               InsertLine(r, text)
  BY <1>1, EditKeeps DEF InsertLine
<1>2. CASE \E a, b \in 1..Len(lines) : DeleteLines(a, b)
  BY <1>2, EditKeeps DEF DeleteLines
<1>3. ASSUME NEW r \in 1..Len(lines), NEW text \in Delimiters \union {"plain"},
             ReplaceLine(r, text) \/ AppendText(r, text)
      PROVE  DInv'
  BY <1>3, EditKeeps DEF ReplaceLine, AppendText
<1>4. ASSUME NEW r \in 1..Len(lines), ChangeMode(r) PROVE DInv'
  <2>1. RequestUpdate /\ UNCHANGED <<scenario, shown, enabled, visible>>
    BY <1>4 DEF ChangeMode
  <2>2. drawn = "none" => drawn' = "none"
    BY <1>4 DEF ChangeMode, Outdated
  <2> QED
    BY <2>1, <2>2, Requested DEF DInv
<1>5. ASSUME NEW r \in Anchors, Run(r) PROVE DInv'
  <2>1. UNCHANGED <<scenario, shown, initVars, drawn>>
    BY <1>5 DEF Run
  <2> QED
    BY <2>1 DEF DInv, initVars
<1>6. ASSUME NEW x \in runs, ApplyEvent(x) PROVE DInv'
  <2>1. RequestUpdate /\ UNCHANGED <<scenario, shown, enabled>>
    BY <1>6 DEF ApplyEvent, bufferVars
  <2>2. visible' = (visible \/ scenario.manual_render)
    BY <1>6 DEF ApplyEvent
  <2>3. drawn = "none" => drawn' = "none"
    BY <1>6 DEF ApplyEvent, Outdated
  <2>4. visible' \in BOOLEAN
    BY <2>2
  <2> QED
    BY <2>1, <2>3, <2>4, Requested DEF DInv
<1>7. CASE Update
  BY <1>7, UpdateKeeps
<1>8. CASE Enable
  <2>1. enabled' = TRUE /\ shown' = shown /\ scenario' = scenario
    BY <1>8 DEF Enable, bufferVars
  <2>2. visible' \in BOOLEAN
    BY <1>8 DEF Enable
  <2>3. CASE scenario.manual_render
    <3>1. UNCHANGED <<pending, scheduled>>
      BY <1>8, <2>3 DEF Enable
    <3> QED
      BY <2>1, <2>2, <2>3, <3>1, Zenon DEF DInv
  <2>4. CASE ~scenario.manual_render
    <3>1. pending' = TRUE /\ scheduled' = scheduled + 1
      BY <1>8, <2>4 DEF Enable
    <3>2. scheduled' \in Nat /\ scheduled' > 0
      BY <3>1 DEF DInv
    <3>3. /\ pending' \in BOOLEAN /\ enabled' \in BOOLEAN /\ shown' \in BOOLEAN
          /\ ~(~enabled') /\ ~(~pending')
      BY <2>1, <3>1 DEF DInv
    <3> QED
      BY <2>2, <3>2, <3>3, Zenon DEF DInv
  <2> QED
    BY <2>3, <2>4
<1>9. CASE Disable
  <2>1. enabled' = FALSE /\ visible' = FALSE /\ pending' = FALSE /\ drawn' = "none"
    BY <1>9 DEF Disable
  <2>2. scheduled' = scheduled /\ shown' = shown
    BY <1>9 DEF Disable, bufferVars
  <2> QED
    BY <2>1, <2>2 DEF DInv
<1>10. CASE ToggleRender
  <2>1. UNCHANGED <<scenario, shown, enabled>> /\ enabled /\ visible' = ~visible
    BY <1>10 DEF ToggleRender, bufferVars
  <2>2. CASE visible
    <3>1. drawn' = "none" /\ UNCHANGED <<pending, scheduled>>
      BY <1>10, <2>2 DEF ToggleRender
    <3> QED
      BY <2>1, <2>2, <3>1 DEF DInv
  <2>3. CASE ~visible
    <3>1. RequestUpdate
      BY <1>10, <2>3 DEF ToggleRender
    <3> QED
      BY <2>1, <3>1, Requested DEF DInv
  <2> QED
    BY <2>2, <2>3
<1>11. CASE ChangeWindow
  <2>1. UNCHANGED <<scenario, enabled, visible, drawn>> /\ shown' = ~shown
    BY <1>11 DEF ChangeWindow
  <2>2. CASE shown
    <3>1. UNCHANGED <<pending, scheduled>>
      BY <1>11, <2>2 DEF ChangeWindow
    <3> QED
      BY <2>1, <2>2, <3>1 DEF DInv
  <2>3. CASE ~shown
    <3>1. AutoUpdate
      BY <1>11, <2>3 DEF ChangeWindow
    <3> QED
      BY <2>1, <3>1, AutoRequested DEF DInv
  <2> QED
    BY <2>2, <2>3
<1>12. CASE UNCHANGED vars
  BY <1>12 DEF DInv, vars, bufferVars, initVars
<1> QED
  BY <1>1, <1>2, <1>3, <1>4, <1>5, <1>6, <1>7, <1>8, <1>9, <1>10, <1>11, <1>12
  DEF Next

(* No update is lost, however requests, disabling and enabling, windows    *)
(* and callbacks interleave: request_update and update_cells of init.lua.  *)
THEOREM NoUpdateLost == Spec => []DecorationsCurrent
<1>1. Init => DInv
  <2> SUFFICES ASSUME Init PROVE DInv
    OBVIOUS
  <2>1. /\ shown = TRUE /\ enabled = FALSE /\ visible = FALSE
        /\ pending = FALSE /\ drawn = "none" /\ scheduled = 0
    BY DEF Init
  <2> QED
    BY <2>1 DEF DInv
<1>2. DInv /\ [Next]_vars => DInv'
  BY DInvStep
<1>3. DInv => DecorationsCurrent
  BY DEF DInv, DecorationsCurrent
<1> QED
  BY <1>1, <1>2, <1>3, PTL DEF Spec
=============================================================================
