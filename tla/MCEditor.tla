------------------------------ MODULE MCEditor ------------------------------
(* Instances of Editor for TLC. *)
EXTENDS Editor

Behaviour(text, commands, max, manual) ==
    [text |-> text, commands |-> commands, edits |-> max, manual_render |-> manual]

(* Cells with the same delimiter, edited in every way while they run; a    *)
(* cell that is retyped while others are deleted; everything that shows,   *)
(* hides or disables the rendering among bursts of edits; manual_render.   *)
EditorScenarios ==
    {Behaviour(<<"a", "plain", "a">>, {"insert", "delete", "replace", "run"}, 2, FALSE),
     Behaviour(<<"a", "b">>, {"delete", "retype", "run", "leave"}, 3, FALSE),
     Behaviour(<<"a", "a">>, {"delete", "retype", "run", "toggle", "disable", "leave",
                              "burst"}, 2, FALSE),
     Behaviour(<<"a", "a">>, {"delete", "run", "toggle", "disable"}, 2, TRUE)}
=============================================================================
