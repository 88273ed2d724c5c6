----------------------------- MODULE McpServer -----------------------------
(***************************************************************************)
(* The MCP stdio server (src/src/mcp/server.rs): one loop that selects     *)
(* between the client's next frame, the flush tick and the shutdown        *)
(* signal; a task per request that hands its work to the blocking pool and *)
(* waits for it no longer than the request timeout; and a writer task that *)
(* takes the answers from a bounded queue.                                 *)
(*                                                                         *)
(* A step of the loop that awaits something is two actions, so that what   *)
(* the loop cannot attend to meanwhile shows.                              *)
(***************************************************************************)
EXTENDS Naturals, Sequences, FiniteSets

CONSTANTS
    Frames,      \* what the client may send
    Kinds,       \* each k: k[f] is "request", "notification" or "malformed"
    MaxRequests, \* MAX_CONCURRENT_REQUESTS
    Flushing,    \* calls of tools that flush the metrics themselves
    Server,      \* whose flush is nobody's call: the tick's, and the last one
    QueueSize,   \* capacity of the response queue
    PipeSize     \* bound: frames the stdin pipe holds

ASSUME ConstantsAssumption ==
    /\ IsFiniteSet(Frames)
    /\ Kinds \subseteq [Frames -> {"request", "notification", "malformed"}]
    /\ Flushing \subseteq Frames /\ Server \notin Frames
    /\ MaxRequests \in Nat \ {0} /\ QueueSize \in Nat \ {0} /\ PipeSize \in Nat \ {0}

VARIABLES
    \* the client
    kind,      \* what its frames are
    inbox,     \* frames sent and not yet read
    sent,      \* all frames sent
    stdin,     \* "open" or "closed"
    client,    \* "reads" stdout, is "stalled" and does not, or is "gone"
    received,  \* answers the client got
    stop,      \* SIGTERM or Ctrl-C was delivered
    \* the loop
    phase,     \* "serving", "draining", "flushing", "saving", "exiting" or "ended"
    arm,       \* the branch that runs: "select" for none, "tick", "flush" or "send"
    reply,     \* the answer the loop waits to enqueue
    reading,   \* a blocking read of stdin outlives the loop
    \* the tasks
    handler,   \* of each frame: "none", "waiting", "sending" or "done"
    answer,    \* what a handler sends
    work,      \* on the blocking pool: "none", "running" or "done"; of a call that
               \* flushes also "recorded" and "flushing"
    queue,     \* the response queue
    writer,    \* "running" or "ended"
    \* the metrics hub
    pending,   \* frames whose events are recorded and not drained
    batch,     \* events that each flush has drained and not written
    flushed,   \* events written
    lost,      \* events drained by a flush that could not have its lock
    cut,       \* history: the drain of the queue was cut off
    broken     \* history: a frame that is not UTF-8 was read

clientVars == <<kind, inbox, sent, stdin, client, received, stop>>
loopVars == <<phase, arm, reply, reading>>
taskVars == <<handler, answer, work>>
hubVars == <<pending, batch, flushed, lost>>
vars == <<clientVars, loopVars, taskVars, queue, writer, hubVars, cut, broken>>

Answers == {"result", "timeout", "busy", "error"}
NoAnswer == "none"
Sent(f, a) == <<f, a>>

Flushes == Flushing \cup {Server}
AtWork == {"running", "recorded", "flushing"}
Holding == {f \in Frames : handler[f] \in {"waiting", "sending"}}   \* permits taken

TypeOK ==
    /\ kind \in Kinds /\ inbox \in Seq(Frames) /\ sent \in SUBSET Frames
    /\ stdin \in {"open", "closed"} /\ client \in {"reads", "stalled", "gone"} /\ stop \in BOOLEAN
    /\ phase \in {"serving", "draining", "flushing", "saving", "exiting", "ended"}
    /\ arm \in {"select", "tick", "flush", "send"} /\ reading \in BOOLEAN
    /\ handler \in [Frames -> {"none", "waiting", "sending", "done"}]
    /\ work \in [Frames -> AtWork \cup {"none", "done"}]
    /\ batch \in [Flushes -> SUBSET Frames]
    /\ answer \in [Frames -> Answers \cup {NoAnswer}]
    /\ Len(queue) <= QueueSize
    /\ Cardinality(Holding) <= MaxRequests
    /\ writer \in {"running", "ended"} /\ cut \in BOOLEAN /\ broken \in BOOLEAN

Init ==
    /\ kind \in Kinds
    /\ inbox = <<>> /\ sent = {} /\ stdin = "open" /\ client = "reads"
    /\ received = {} /\ stop = FALSE
    /\ phase = "serving" /\ arm = "select" /\ reply = <<>> /\ reading = FALSE
    /\ handler = [f \in Frames |-> "none"] /\ work = [f \in Frames |-> "none"]
    /\ answer = [f \in Frames |-> NoAnswer]
    /\ queue = <<>> /\ writer = "running"
    /\ pending = {} /\ batch = [w \in Flushes |-> {}] /\ flushed = {} /\ lost = {}
    /\ cut = FALSE /\ broken = FALSE

-----------------------------------------------------------------------------
(* The client.                                                             *)

ClientSends(f) ==
    /\ stdin = "open" /\ phase # "ended" /\ f \notin sent
    /\ Len(inbox) < PipeSize
    /\ inbox' = Append(inbox, f)
    /\ sent' = sent \cup {f}
    /\ UNCHANGED <<kind, stdin, client, received, stop, loopVars, taskVars, queue, writer, hubVars, cut, broken>>

ClientCloses ==
    /\ stdin = "open" /\ phase # "ended"
    /\ stdin' = "closed"
    /\ UNCHANGED <<kind, inbox, sent, client, received, stop, loopVars, taskVars, queue, writer, hubVars, cut, broken>>

(* It keeps its ends of the pipes open, but reads no more answers (those   *)
(* that the pipe still takes count as read).                               *)
ClientStalls ==
    /\ client = "reads" /\ phase # "ended"
    /\ client' = "stalled"
    /\ UNCHANGED <<kind, inbox, sent, stdin, received, stop, loopVars, taskVars, queue, writer, hubVars, cut, broken>>

(* The client exits, its end of both pipes with it.                        *)
ClientLeaves ==
    /\ client # "gone" /\ phase # "ended"
    /\ client' = "gone" /\ stdin' = "closed"
    /\ UNCHANGED <<kind, inbox, sent, received, stop, loopVars, taskVars, queue, writer, hubVars, cut, broken>>

Signal ==
    /\ ~stop /\ phase # "ended"
    /\ stop' = TRUE
    /\ UNCHANGED <<kind, inbox, sent, stdin, client, received, loopVars, taskVars, queue, writer, hubVars, cut, broken>>

-----------------------------------------------------------------------------
(* A flush, of whoever calls it: it takes everybody's events from the hub, *)
(* then writes those of each repository under its flush.lock; where the    *)
(* lock cannot be had they are dropped.                                    *)

Drains(w) == batch' = [batch EXCEPT ![w] = pending] /\ pending' = {}

Writes(w) ==
    /\ \E kept \in SUBSET batch[w] :
          flushed' = flushed \cup kept /\ lost' = lost \cup (batch[w] \ kept)
    /\ batch' = [batch EXCEPT ![w] = {}]
    /\ UNCHANGED pending

-----------------------------------------------------------------------------
(* The loop.                                                               *)

Selecting == phase = "serving" /\ arm = "select"

Sending(f, a) == arm' = "send" /\ reply' = Sent(f, a) /\ UNCHANGED taskVars

(* Variant: a request above the limit is dropped like a notification.      *)
DispatchQuietly(f) ==
    \/ /\ kind[f] = "malformed"
       /\ Sending(f, "error")
    \/ /\ kind[f] # "malformed"
       /\ Cardinality(Holding) < MaxRequests
       /\ handler' = [handler EXCEPT ![f] = "waiting"]
       /\ work' = [work EXCEPT ![f] = "running"]
       /\ UNCHANGED <<answer, arm, reply>>
    \/ /\ kind[f] # "malformed"
       /\ Cardinality(Holding) >= MaxRequests
       /\ UNCHANGED <<taskVars, arm, reply>>

Dispatch(f) ==
    \/ /\ kind[f] = "malformed"
       /\ Sending(f, "error")
    \/ /\ kind[f] # "malformed"
       /\ Cardinality(Holding) < MaxRequests
       /\ handler' = [handler EXCEPT ![f] = "waiting"]
       /\ work' = [work EXCEPT ![f] = "running"]
       /\ UNCHANGED <<answer, arm, reply>>
    \/ /\ kind[f] = "notification"
       /\ Cardinality(Holding) >= MaxRequests
       /\ UNCHANGED <<taskVars, arm, reply>>
    \/ /\ kind[f] = "request"
       /\ Cardinality(Holding) >= MaxRequests
       /\ Sending(f, "busy")

ReadFrame ==
    /\ Selecting
    /\ inbox # <<>>
    /\ inbox' = Tail(inbox)
    /\ \/ Dispatch(Head(inbox)) /\ UNCHANGED <<phase, broken>>
       \/ /\ kind[Head(inbox)] = "malformed"      \* it is not even UTF-8
          /\ phase' = "draining" /\ broken' = TRUE
          /\ UNCHANGED <<arm, reply, taskVars>>
    /\ UNCHANGED <<kind, sent, stdin, client, received, stop, reading, queue, writer, hubVars, cut>>

(* Variant: the error of a closed queue ends the server at once.           *)
LoopSendsOrQuits ==
    /\ arm = "send"
    /\ \/ /\ writer = "running" /\ Len(queue) < QueueSize
          /\ queue' = Append(queue, reply)
          /\ UNCHANGED phase
       \/ /\ writer = "ended"
          /\ phase' = "ended"
          /\ UNCHANGED queue
    /\ arm' = "select" /\ reply' = <<>>
    /\ UNCHANGED <<clientVars, reading, taskVars, writer, hubVars, cut, broken>>

(* Variant: a send to a closed queue waits for room.                       *)
LoopSendsOpen ==
    /\ arm = "send"
    /\ writer = "running" /\ Len(queue) < QueueSize
    /\ queue' = Append(queue, reply)
    /\ arm' = "select" /\ reply' = <<>>
    /\ UNCHANGED <<clientVars, phase, reading, taskVars, writer, hubVars, cut, broken>>

(* Enqueue the loop's own answer when there is room; a closed queue ends   *)
(* the loop.                                                               *)
LoopSends ==
    /\ arm = "send"
    /\ \/ /\ writer = "running" /\ Len(queue) < QueueSize
          /\ queue' = Append(queue, reply)
          /\ UNCHANGED phase
       \/ /\ writer = "ended"
          /\ phase' = "draining"
          /\ UNCHANGED queue
    /\ arm' = "select" /\ reply' = <<>>
    /\ UNCHANGED <<clientVars, reading, taskVars, writer, hubVars, cut, broken>>

(* The tick recaptures, then flushes, on the blocking pool; it is awaited.  *)
TickBegins ==
    /\ Selecting
    /\ arm' = "tick"
    /\ UNCHANGED <<clientVars, phase, reply, reading, taskVars, queue, writer, hubVars, cut, broken>>

TickDrains ==
    /\ arm = "tick"
    /\ arm' = "flush"
    /\ Drains(Server)
    /\ UNCHANGED <<clientVars, phase, reply, reading, taskVars, queue, writer, flushed, lost, cut, broken>>

TickEnds ==
    /\ arm = "flush"
    /\ arm' = "select"
    /\ Writes(Server)
    /\ UNCHANGED <<clientVars, phase, reply, reading, taskVars, queue, writer, cut, broken>>

(* EOF or the signal: the loop is left and its end of the queue dropped.   *)
(* The thread that reads stdin may be in the middle of a read.             *)
StopServing ==
    /\ Selecting
    /\ stop \/ (stdin = "closed" /\ inbox = <<>>)
    /\ phase' = "draining"
    /\ reading' \in IF stdin = "open" /\ inbox = <<>> THEN BOOLEAN ELSE {FALSE}
    /\ UNCHANGED <<clientVars, arm, reply, taskVars, queue, writer, hubVars, cut, broken>>

Drained ==
    /\ phase = "draining"
    /\ writer = "ended"
    /\ phase' = "flushing"
    /\ UNCHANGED <<clientVars, arm, reply, reading, taskVars, queue, writer, hubVars, cut, broken>>

DrainTimesOut ==
    /\ phase = "draining"
    /\ writer = "running"
    /\ phase' = "flushing"
    /\ cut' = TRUE
    /\ UNCHANGED <<clientVars, arm, reply, reading, taskVars, queue, writer, hubVars, broken>>

FinalFlush ==
    /\ phase = "flushing"
    /\ Drains(Server)
    /\ phase' = "saving"
    /\ UNCHANGED <<clientVars, arm, reply, reading, taskVars, queue, writer, flushed, lost, cut, broken>>

(* serve returns, and with it every task that waits is dropped.            *)
ServeReturns ==
    /\ phase = "saving"
    /\ Writes(Server)
    /\ phase' = "exiting"
    /\ UNCHANGED <<clientVars, arm, reply, reading, taskVars, queue, writer, cut, broken>>

(* The runtime is dropped: it joins its blocking threads first, the one    *)
(* that writes to a client which does not read included.                   *)
Exit ==
    /\ phase = "exiting"
    /\ \A f \in Frames : work[f] \notin AtWork
    /\ writer = "running" /\ queue # <<>> => client # "stalled"
    /\ reading => stdin = "closed" \/ inbox # <<>>
    /\ phase' = "ended"
    /\ UNCHANGED <<clientVars, arm, reply, reading, taskVars, queue, writer, hubVars, cut, broken>>

-----------------------------------------------------------------------------
(* The request tasks and the writer, which live until serve returns; what  *)
(* runs on the blocking pool lives on.                                     *)

Alive == phase \notin {"exiting", "ended"}

WorkStep(f, from, to) ==
    /\ phase # "ended"
    /\ work[f] = from /\ work' = [work EXCEPT ![f] = to]
    /\ UNCHANGED <<clientVars, loopVars, handler, answer, queue, writer, cut, broken>>

WorkEnds(f) ==
    /\ WorkStep(f, "running", "done")
    /\ pending' = IF kind[f] = "request" THEN pending \cup {f} ELSE pending
    /\ UNCHANGED <<batch, flushed, lost>>

(* A gate that blocks, and a usage report, flush before they return.       *)
WorkRecords(f) ==
    /\ f \in Flushing /\ kind[f] = "request"
    /\ WorkStep(f, "running", "recorded")
    /\ pending' = pending \cup {f}
    /\ UNCHANGED <<batch, flushed, lost>>

WorkDrains(f) ==
    /\ WorkStep(f, "recorded", "flushing")
    /\ Drains(f)
    /\ UNCHANGED <<flushed, lost>>

WorkWrites(f) ==
    /\ WorkStep(f, "flushing", "done")
    /\ Writes(f)

(* Nothing is sent for a notification.                                     *)
Respond(f, a) ==
    IF kind[f] = "request"
    THEN handler' = [handler EXCEPT ![f] = "sending"] /\ answer' = [answer EXCEPT ![f] = a]
    ELSE handler' = [handler EXCEPT ![f] = "done"] /\ UNCHANGED answer

WorkAwaited(f) ==
    /\ Alive
    /\ handler[f] = "waiting" /\ work[f] = "done"
    /\ \E a \in {"result", "error"} : Respond(f, a)
    /\ UNCHANGED <<clientVars, loopVars, work, queue, writer, hubVars, cut, broken>>

(* Variant: the work is still awaited after the timeout was answered.      *)
TimesOutTwice(f) ==
    /\ Alive
    /\ handler[f] = "waiting" /\ work[f] \in AtWork
    /\ Len(queue) < QueueSize
    /\ queue' = Append(queue, Sent(f, "timeout"))
    /\ UNCHANGED <<clientVars, loopVars, taskVars, writer, hubVars, cut, broken>>

(* The work goes on; nobody waits for it any more.                         *)
TimesOut(f) ==
    /\ Alive
    /\ handler[f] = "waiting" /\ work[f] \in AtWork
    /\ Respond(f, "timeout")
    /\ UNCHANGED <<clientVars, loopVars, work, queue, writer, hubVars, cut, broken>>

HandlerSends(f) ==
    /\ Alive
    /\ handler[f] = "sending"
    /\ \/ /\ writer = "running" /\ Len(queue) < QueueSize
          /\ queue' = Append(queue, Sent(f, answer[f]))
       \/ /\ writer = "ended"
          /\ UNCHANGED queue
    /\ handler' = [handler EXCEPT ![f] = "done"] /\ answer' = [answer EXCEPT ![f] = NoAnswer]
    /\ UNCHANGED <<clientVars, loopVars, work, writer, hubVars, cut, broken>>

(* The writer stops when the client is gone, or when all senders are; it   *)
(* waits for a client that does not read.                                  *)
WriterWrites ==
    /\ Alive /\ writer = "running"
    /\ queue # <<>>
    /\ \/ /\ client = "reads"
          /\ received' = received \cup {Head(queue)}
          /\ queue' = Tail(queue)
          /\ UNCHANGED writer
       \/ /\ client = "gone"
          /\ writer' = "ended" /\ queue' = <<>>
          /\ UNCHANGED received
    /\ UNCHANGED <<kind, inbox, sent, stdin, client, stop, loopVars, taskVars, hubVars, cut, broken>>

WriterEnds ==
    /\ phase \in {"draining", "flushing", "saving"} /\ writer = "running"
    /\ queue = <<>> /\ Holding = {}
    /\ writer' = "ended"
    /\ UNCHANGED <<clientVars, loopVars, taskVars, queue, hubVars, cut, broken>>

-----------------------------------------------------------------------------
Work(f) == WorkEnds(f) \/ WorkRecords(f) \/ WorkDrains(f) \/ WorkWrites(f)
Handler(f) == WorkAwaited(f) \/ TimesOut(f) \/ HandlerSends(f)
Task(f) == Work(f) \/ Handler(f)
Loop == ReadFrame \/ LoopSends \/ TickBegins \/ TickDrains \/ TickEnds \/ StopServing
Finish == Drained \/ DrainTimesOut \/ FinalFlush \/ ServeReturns \/ Exit
Client == (\E f \in Frames : ClientSends(f)) \/ ClientCloses \/ ClientStalls \/ ClientLeaves \/ Signal

Next ==
    \/ Client \/ Loop \/ Finish
    \/ \E f \in Frames : Task(f)
    \/ WriterWrites \/ WriterEnds

(* The runtime schedules every task; select! picks a ready branch at       *)
(* random, so neither the client's frames nor the tick starve the signal;  *)
(* recapture and flush return; what is written to a client that reads, or  *)
(* is gone, gets there or fails.  A client may stop reading at any time,   *)
(* and work need not end.                                                  *)
Main == LoopSends \/ TickDrains \/ TickEnds \/ Finish

Fairness ==
    /\ SF_vars(ReadFrame) /\ SF_vars(StopServing) /\ WF_vars(Main)
    /\ \A f \in Frames : WF_vars(Handler(f))
    /\ WF_vars(WriterWrites \/ WriterEnds)

Spec == Init /\ [][Next]_vars /\ Fairness

-----------------------------------------------------------------------------
(* Answers on their way or received, the ones about to be sent included.   *)
Underway ==
    {queue[i] : i \in 1 .. Len(queue)} \cup (IF arm = "send" THEN {reply} ELSE {})
      \cup {Sent(f, answer[f]) : f \in {g \in Frames : handler[g] = "sending"}}

(* A frame is answered at most once, and a notification never: a work that *)
(* ends when its request has already timed out adds no second answer.      *)
AnsweredOnce ==
    /\ \A x, y \in received \cup Underway : x[1] = y[1] => x = y
    /\ \A x \in received \cup Underway : kind[x[1]] # "notification"
    /\ \A x \in received : x \notin Underway

(* Every result the client was given has its events in the metrics when    *)
(* the process ends ("a final flush on any exit path"), unless the drain   *)
(* of the answers was cut off after five seconds, or the flush that took   *)
(* them could not have the lock.  When serve returns they are there, or in *)
(* the hands of a call that flushes at this time, for which the process    *)
(* waits: events drained by a gate that timed out, or whose client has     *)
(* left, do not vanish with it.                                            *)
AnsweredIsFlushed ==
    phase \in {"exiting", "ended"} /\ ~cut =>
        \A f \in Frames : Sent(f, "result") \in received =>
            \/ f \in flushed \cup lost
            \/ phase = "exiting" /\ \E g \in Flushing : f \in batch[g]

(* Every request sent is answered, with a timeout if its work does not     *)
(* end, as busy if there is no permit for it, unless the server is told to *)
(* stop, the client leaves or reads no more, another of its frames breaks  *)
(* the stream, or it closes stdin and the drain is cut off.  (There are    *)
(* finitely many frames, and an answer received stays so: each is answered *)
(* in the end if again and again all are.)                                 *)
RequestsAreAnswered ==
    []<>(\/ \A f \in sent : kind[f] = "request" => \E a \in Answers : Sent(f, a) \in received
         \/ stop \/ client # "reads" \/ cut \/ broken)

(* The signal is heeded and the metrics saved, even if work never ends and *)
(* the client stays without reading: ticks, requests, handlers that wait   *)
(* for room in a full queue and the drain of it do not keep the loop from  *)
(* it.  One thing does: an answer of the loop's own (busy, or an error)    *)
(* that waits for room, for as long as the client stays and does not read. *)
(* Once such a client leaves, the signal is heeded after all.              *)
WaitsForReader ==
    client = "stalled" /\ arm = "send" /\ writer = "running" /\ Len(queue) = QueueSize

SignalStopsServing ==
    (stop /\ ~WaitsForReader) ~> (phase \in {"exiting", "ended"} \/ WaitsForReader)

=============================================================================
