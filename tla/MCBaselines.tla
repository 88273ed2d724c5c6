---------------------------- MODULE MCBaselines ----------------------------
(* Two processes on a repository with three branches, of which the index   *)
(* keeps two: recording the third one prunes.  It starts with the metrics  *)
(* an earlier release left for two of them, one checked out.               *)
EXTENDS Baselines, TLC

MCRank == [b \in Branches |-> CASE b = "main" -> 1 [] b = "topic" -> 2 [] OTHER -> 3]
MCInit == Init /\ head = "topic" /\ inline = {"topic", "work"}
MCSpec == MCInit /\ [][Next]_vars
MCSymmetry == Permutations(Processes)
=============================================================================
