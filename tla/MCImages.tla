------------------------------ MODULE MCImages ------------------------------
(* Instances of Images for TLC. *)
EXTENDS Images

Behaviour(faults, ways, outputs) ==
    [faults |-> faults, ways |-> ways, outputs |-> outputs]

Two == CHOOSE s \in SUBSET Outputs : Cardinality(s) = 2 /\ s \intersect FileOutputs # {}

(* Outputs dropped in every way while the backend lives; requests that     *)
(* fail; two backends of which the first may exit at any point, and the    *)
(* second; a terminal that shows no images.                                *)
ImageScenarios ==
    {Behaviour({}, {"delete", "rerun"}, Outputs),
     Behaviour({"decode", "write", "terminal"}, {"delete"}, Two),
     Behaviour({"tty"}, {"clear", "close"}, Two),
     Behaviour({"exit"}, {"delete"}, Two),
     Behaviour({"unsupported"}, {"clear_event"}, Outputs)}
=============================================================================
