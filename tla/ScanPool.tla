------------------------------ MODULE ScanPool ------------------------------
(***************************************************************************)
(* What the scheduler of the LSP server promises, with everything about    *)
(* files, settings and messages left out: a pool of at most MaxScans       *)
(* workspace scans that never holds a request back while a slot is free,   *)
(* and that folds all the requests made while a scan runs into one rerun.  *)
(*                                                                         *)
(* Which waiting workspace gets a free slot is left open here.             *)
(***************************************************************************)
EXTENDS Naturals, FiniteSets

CONSTANTS
    Roots,      \* the workspace roots
    MaxScans    \* how many scans may run at once

VARIABLES
    job,        \* what the pool owes each root
    open        \* FALSE once the server has left its loop

poolVars == <<job, open>>

JobState == {"idle", "queued", "running", "rerun"}

Busy(j) == {r \in Roots : j[r] \in {"running", "rerun"}}

Queued(j) == {r \in Roots : j[r] = "queued"}

(* No slot is overbooked, and none is free while a root waits.             *)
WellFilled(j) ==
    /\ Cardinality(Busy(j)) <= MaxScans
    /\ Queued(j) # {} => Cardinality(Busy(j)) = MaxScans

PoolInit ==
    /\ job \in [Roots -> JobState \ {"idle"}]
    /\ WellFilled(job)
    /\ open = TRUE

(* A batch of requests: a root that is already scanning is owed one rerun. *)
Request(D) ==
    /\ open
    /\ job' \in [Roots -> JobState]
    /\ \A r \in Roots \ D : job'[r] = job[r]
    /\ \A r \in D :
        \/ job[r] = "idle" /\ job'[r] \in {"queued", "running"}
        \/ job[r] = "queued" /\ job'[r] = "queued"
        \/ job[r] \in {"running", "rerun"} /\ job'[r] = "rerun"
    /\ WellFilled(job')
    /\ open' = open

(* A scan ends; its slot goes to any root that waits, itself included.     *)
Finish(r) ==
    /\ open
    /\ r \in Busy(job)
    /\ job' \in [Roots -> JobState]
    /\ IF job[r] = "running" THEN job'[r] = "idle"
                             ELSE job'[r] \in {"queued", "running"}
    /\ \A q \in Roots \ {r} :
        job'[q] # job[q] => job[q] = "queued" /\ job'[q] = "running"
    /\ WellFilled(job')
    /\ open' = open

Close ==
    /\ open
    /\ open' = FALSE
    /\ job' = job

PoolNext ==
    \/ \E D \in SUBSET Roots : Request(D)
    \/ \E r \in Roots : Finish(r)
    \/ Close

PoolSpec == PoolInit /\ [][PoolNext]_poolVars

=============================================================================
