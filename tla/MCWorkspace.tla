----------------------------- MODULE MCWorkspace -----------------------------
(***************************************************************************)
(* The parts of a workspace share no state: one of them, the focus, is     *)
(* explored while the others rest.                                         *)
(***************************************************************************)
EXTENDS Workspace, MCScanSession, MCSetup, MCSearchIndex

VARIABLE focus

reviewVars == <<project, work, settings, verdicts, seen, steps>>
workspaceVars == <<focus, vars, reviewVars, setupVars, indexVars>>

(* The values of the constants; they depend on none of those they are      *)
(* given here.                                                             *)
ReportsData == INSTANCE MCReview WITH
    Projects <- 0, Options <- 0, Utilities <- 0, Family <- 0, NameOrder <- 0, GlobMatches <- 0

\* What the proofs about the search index assume of its constants.
ASSUME IndexIsAssumed == IndexAssumption

MCProjects == ReportsData!MCProjects
MCOptions == ReportsData!MCOptions
MCUtilities == ReportsData!MCUtilities
MCFamily == ReportsData!MCFamily
MCNameOrder == ReportsData!MCNameOrder
MCGlobMatches == ReportsData!MCGlobMatches
-----------------------------------------------------------------------------
SessionsRest ==
    /\ tree = [r \in Roots |-> Nothing] /\ config = (CHOOSE c \in Cached : TRUE) /\ build = 1
    /\ recent = <<>> /\ states = [n \in Numbers |-> EmptyState] /\ disk = [r \in Roots |-> <<>>]
    /\ scan = [t \in Threads |-> Idle] /\ edits = 0 /\ faults = 0
ReportsRest == Reports!Init /\ project = 1
SetupRests == SetupInit /\ ~git /\ docs = Bare
IndexRests ==
    /\ IndexInit /\ sources = (CHOOSE t \in Trees : TRUE) /\ hub = {}
    /\ \A c \in Caches : caches[c].cache = 0

WorkspaceInit ==
    \/ focus = "sessions" /\ MCInit /\ ReportsRest /\ SetupRests /\ IndexRests
    \/ focus = "reports" /\ SessionsRest /\ Reports!Init /\ SetupRests /\ IndexRests
    \/ focus = "setup" /\ SessionsRest /\ ReportsRest /\ SetupInit /\ IndexRests
    \/ focus = "index" /\ SessionsRest /\ ReportsRest /\ SetupRests /\ IndexInit /\ MCStart

WorkspaceNext ==
    \/ focus = "sessions" /\ Next /\ UNCHANGED <<focus, reviewVars, setupVars, indexVars>>
    \/ focus = "reports" /\ Reports!Next /\ UNCHANGED <<focus, vars, setupVars, indexVars>>
    \/ focus = "setup" /\ SetupNext /\ UNCHANGED <<focus, vars, reviewVars, indexVars>>
    \/ focus = "index" /\ IndexNext /\ UNCHANGED <<focus, vars, reviewVars, setupVars>>

WorkspaceSpec == WorkspaceInit /\ [][WorkspaceNext]_workspaceVars
WorkspaceSymmetry == Permutations(Threads) \cup Permutations(Searchers)
=============================================================================
