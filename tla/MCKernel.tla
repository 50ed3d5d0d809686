------------------------------ MODULE MCKernel ------------------------------
(***************************************************************************)
(* Instance of Kernel for TLC: one kernel that binds its own ports and one *)
(* that is given ports picked by the backend.                              *)
(***************************************************************************)
EXTENDS Kernel

CONSTANTS ipykernel, other

MCKernels  == {ipykernel, other}
MCOwnPorts == {ipykernel}

ASSUME InstanceAssumption == Faults \subseteq AllFaults
=============================================================================
