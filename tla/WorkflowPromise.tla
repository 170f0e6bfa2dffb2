-------------------------- MODULE WorkflowPromise --------------------------
(***************************************************************************)
(* What the workflow manager promises, with its rows, its active map, its  *)
(* requests and its scheduler left out: the workflows of one group take    *)
(* turns, and work that has begun stays begun until it is done or fails.   *)
(***************************************************************************)
CONSTANTS
    Workflows,
    Group        \* the workflows that contend for the disks

VARIABLE phase   \* what there is of each workflow

Phases == {"idle",   \* nothing to continue
           "begun",  \* a run to be continued
           "busy"}   \* a run in progress

Init == phase = [w \in Workflows |-> "idle"]

DisksFree == \A v \in Group : phase[v] # "busy"

Begin(w) ==
    /\ phase[w] # "busy"
    /\ w \in Group => DisksFree
    /\ phase' = [phase EXCEPT ![w] = "busy"]

End(w) ==
    /\ phase[w] = "busy"
    /\ phase' \in {[phase EXCEPT ![w] = p] : p \in {"idle", "begun"}}

(* The process dies: whatever was in progress is to be continued. *)
Crash == phase' = [w \in Workflows |-> IF phase[w] = "busy" THEN "begun" ELSE phase[w]]

Next == Crash \/ \E w \in Workflows : Begin(w) \/ End(w)

Spec == Init /\ [][Next]_phase
=============================================================================
