---------------------------- MODULE RunDelivery ----------------------------
(***************************************************************************)
(* What running cells promises, without sessions, requests or processes:   *)
(* every run is delivered to at most one kernel, with the source it was    *)
(* issued with; each kernel gets its runs in the order they were issued;   *)
(* and a run that was discarded is never delivered.  Runs may be discarded *)
(* or forgotten at any time (the kernel or the backend may be gone).       *)
(***************************************************************************)
EXTENDS Integers, Sequences

CONSTANTS MaxRuns, Kernels

VARIABLES issued, discarded, delivered

Delivered(r) == \E k \in Kernels : \E i \in 1..Len(delivered[k]) : delivered[k][i].run = r

Init ==
    /\ issued = 0
    /\ discarded = {}
    /\ delivered = [k \in Kernels |-> <<>>]

(* New runs are issued, others are given up.                               *)
Issue(n, S) ==
    /\ issued' = issued + n
    /\ discarded' = discarded \cup S
    /\ \A r \in S : ~Delivered(r)
    /\ UNCHANGED delivered

Deliver(k, r) ==
    /\ r \in 1..issued
    /\ r \notin discarded
    /\ ~Delivered(r)
    /\ \A i \in 1..Len(delivered[k]) : delivered[k][i].run < r
    /\ delivered' = [delivered EXCEPT ![k] = Append(@, [run |-> r, source |-> r])]
    /\ UNCHANGED <<issued, discarded>>

Next ==
    \/ \E n \in 0..(MaxRuns - issued) :
           \E S \in SUBSET (1..issued) : Issue(n, S)
    \/ \E k \in Kernels, r \in 1..MaxRuns : Deliver(k, r)

Spec == Init /\ [][Next]_<<issued, discarded, delivered>>
=============================================================================
