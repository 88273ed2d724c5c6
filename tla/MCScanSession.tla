--------------------------- MODULE MCScanSession ---------------------------
(* Two threads scan two workspaces, one of which fits the session, one     *)
(* with two files and two that are still empty, while one thing is edited  *)
(* or one thing fails.                                                     *)
EXTENDS ScanSession, TLC

MCInit == Init /\ tree = [r \in Roots |-> IF r = "r1" THEN [f \in SourceFiles |-> "old"] ELSE Nothing]
               /\ edits + faults = 1
=============================================================================
