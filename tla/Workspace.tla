------------------------------ MODULE Workspace ------------------------------
(***************************************************************************)
(* What sensez keeps in and about a workspace, and what its report follows *)
(* from: the sessions that reuse parse facts (ScanSession), the files init *)
(* writes (Setup), the caches of the search index (SearchIndex) and the    *)
(* settings that rules run on (Review).  They share no state.              *)
(***************************************************************************)
EXTENDS ScanSession, Setup, SearchIndex

CONSTANTS
    Projects, Options, Utilities, Family, NameOrder, GlobMatches, MaxSteps

VARIABLES
    project, work, settings, verdicts, seen, steps

Reports == INSTANCE Review

\* What the proof about the reports assumes of a command line.
ASSUME OptionsAssumption == Reports!OptionsTyped
-----------------------------------------------------------------------------
(* The properties of the reports.                                          *)

(* Review: moving code within its file changes nothing that is reported.   *)
MovedKeepsAll == Reports!MovedKeepsAll

(* Review: stricter settings report no less.                               *)
StricterCoversMore == Reports!StricterCoversMore

(* Review: what was scanned has its types, and what a finding counts is    *)
(* what was to be counted.                                                 *)
FindingsAreExact == (Reports!Scanned => Reports!TypeOK) /\ Reports!FindingsAreExact

(* Review: a run that fails shows why.                                     *)
FailureIsShown == Reports!FailureIsShown
=============================================================================
