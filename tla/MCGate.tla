------------------------------- MODULE MCGate -------------------------------
(* Two sessions and one finding that can stand in one place, which the     *)
(* sessions fix and bring back often enough to be deferred for good.       *)
EXTENDS Gate

MCInit ==
    /\ Init /\ head = "main" /\ changed = Findings
    /\ place = [b \in Branches |-> [f \in Findings |-> IF b = "main" THEN 1 ELSE 0]]

MCSpec == MCInit /\ [][Next]_vars
=============================================================================
