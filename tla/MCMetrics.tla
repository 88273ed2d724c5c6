----------------------------- MODULE MCMetrics -----------------------------
(* Two processes that share the metrics of a repository: three events, two *)
(* findings, and a log that is compacted at two lines.                     *)
EXTENDS Metrics, TLC

MCInit == Init /\ \/ last = 0 /\ marks = MaxMarks
                  \/ last = MaxEvents - 1 /\ marks = 0
MCSpec == MCInit /\ [][Next]_vars
MCSymmetry == Permutations(Processes)
=============================================================================
