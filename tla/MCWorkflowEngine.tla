-------------------------- MODULE MCWorkflowEngine --------------------------
(* WorkflowEngine with the definitions of services/container.ts: the three *)
(* that share the disks, and one of those that do not.                     *)
EXTENDS WorkflowEngine, TLC

CONSTANTS scan, hash, perf, prune

MCWorkflows == {scan, hash, perf}
MCOrder == <<scan, perf, hash>>
MCWithPrune == {hash, perf, prune}
MCOrderWithPrune == <<perf, hash, prune>>
StarterSymmetry == Permutations(Starters)
MCOrderScanFirst == <<scan, perf>>
=============================================================================
