---------------------------- MODULE MCMcpServer ----------------------------
(* More requests than permits, and a frame that may be a notification or   *)
(* no message at all; a pipe and a response queue that hold one entry.     *)
EXTENDS McpServer

MCKinds == {[f \in Frames |-> IF f = "odd" THEN k ELSE "request"] :
              k \in {"notification", "malformed"}}

(* Bounds on the client and on the other processes, never on the server:   *)
(* the gate is called first; all events are those of one repository, whose *)
(* lock is taken by another process for one flush at most.                 *)
Narrowed ==
    /\ sent = {} => sent' \subseteq {"gate"}
    /\ \A w \in Flushes :
          batch'[w] = {} => lost' = lost \/ (lost = {} /\ lost' = batch[w])
=============================================================================
