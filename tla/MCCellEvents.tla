---------------------------- MODULE MCCellEvents ----------------------------
(***************************************************************************)
(* Instances of CellEvents for TLC: the scenarios that the configurations  *)
(* choose from.  All cells, outputs and commands together grow too fast.   *)
(***************************************************************************)
EXTENDS CellEvents

CONSTANTS c1, c2

Scenario(cells, outputs, commands, queue) ==
    [cells |-> cells, outputs |-> outputs, commands |-> commands, queue |-> queue]

TwoCells == {c1, c2}

CellExits   == Scenario({c1}, {"result", "clear"}, {"exit", "drop", "clear"}, 1)
LateExits   == Scenario({c1}, {"result", "clear"}, {"exit", "drop"}, 2)
CellsStops  == Scenario({c1, c2}, {"stream", "clear"}, {"stop"}, 1)
StopsExits  == Scenario({c1}, {"stream"}, {"exit", "stop"}, 1)

ExitsAndStops == {CellExits, LateExits, CellsStops, StopsExits}
OnlyStops     == {Scenario({c1, c2}, {"stream"}, {"stop"}, 2)}
=============================================================================
