---------------------------- MODULE MCAgentScan ----------------------------
(* AgentScan on a root that lists a file, a directory and a file again, in *)
(* batches of one or two, so that the root may be come back to at the      *)
(* place of the directory; and on one whose two files are a level down.    *)
EXTENDS AgentScan, TLC

CONSTANTS top, left, f1, f2, f3

MCTree == top :> {left} @@ left :> {}
MCIn == f1 :> top @@ f2 :> top @@ f3 :> left
MCRank == f1 :> 1 @@ left :> 2 @@ f2 :> 3 @@ f3 :> 4 @@ top :> 0
MCPairIn == f1 :> left @@ f2 :> left
MCPairRank == f1 :> 1 @@ f2 :> 2 @@ left :> 3 @@ top :> 0
AgentSymmetry == Permutations(Agents)
=============================================================================
