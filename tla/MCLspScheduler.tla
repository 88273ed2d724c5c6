--------------------------- MODULE MCLspScheduler ---------------------------
(* Three disjoint workspaces for two scan slots, so that one always waits; *)
(* the files that change are those of the first in path order.             *)
EXTENDS LspScheduler

MCRoots == {"a", "b", "c"}
MCRank == [r \in MCRoots |-> CASE r = "a" -> 1 [] r = "b" -> 2 [] r = "c" -> 3]
MCFiles == {"a1", "a2"}
MCUnder == [r \in MCRoots |-> IF r = "a" THEN MCFiles ELSE {}]
MCOwner == [f \in MCFiles |-> "a"]

(* The files start out as duplicates of each other, with diagnostics on.   *)
MCInit == Init /\ disk = [f \in Files |-> "x"] /\ level = "shown"
MCSpec == MCInit /\ [][Next]_vars /\ Fairness

=============================================================================
