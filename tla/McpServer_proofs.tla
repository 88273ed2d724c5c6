-------------------------- MODULE McpServer_proofs --------------------------
(***************************************************************************)
(* What the MCP server promises whatever the number of frames, permits and *)
(* places in its queue: one answer per request, and no answered request    *)
(* without its events in the metrics.                                      *)
(***************************************************************************)
EXTENDS McpServer, FiniteSetTheorems, SequenceTheorems, TLAPS

(* The types TypeOK leaves open: what an answer and an event is.           *)
Replies == Frames \X Answers
TypeInv ==
    /\ TypeOK
    /\ received \in SUBSET Replies /\ queue \in Seq(Replies)
    /\ arm = "send" => reply \in Replies
    /\ \A f \in Frames : handler[f] = "sending" => answer[f] \in Answers
    /\ pending \in SUBSET Frames /\ flushed \in SUBSET Frames /\ lost \in SUBSET Frames
    /\ \A f \in Frames : work[f] \in {"recorded", "flushing"} => f \in Flushing

(* Finitely many requests hold a permit.                                   *)
LEMMA HoldingFinite == IsFiniteSet(Holding) /\ Cardinality(Holding) \in Nat
<1>1. Holding \in SUBSET Frames
  BY DEF Holding
<1> QED
  BY <1>1, FS_Subset, FS_CardinalityType, ConstantsAssumption

(* An answer that finds room in the queue.                                 *)
LEMMA OneMoreQueued ==
    ASSUME TypeInv, NEW x \in Replies, Len(queue) < QueueSize
    PROVE  Append(queue, x) \in Seq(Replies) /\ Len(Append(queue, x)) <= QueueSize
<1>1. queue \in Seq(Replies)
  BY DEF TypeInv
<1>2. Append(queue, x) \in Seq(Replies) /\ Len(Append(queue, x)) = Len(queue) + 1
  BY <1>1, AppendProperties
<1>3. Len(queue) \in Nat
  BY <1>1, LenProperties
<1> QED
  BY <1>2, <1>3, ConstantsAssumption

(* A request that starts takes one permit.                                 *)
LEMMA OneMoreHolding ==
    ASSUME TypeInv, NEW f \in Frames, Cardinality(Holding) < MaxRequests,
           handler' = [handler EXCEPT ![f] = "waiting"]
    PROVE  Cardinality(Holding') <= MaxRequests
<1>1. Holding' = Holding \cup {f}
  BY DEF Holding, TypeInv, TypeOK
<1>2. Cardinality(Holding \cup {f}) <= Cardinality(Holding) + 1
  BY SMTT(20), HoldingFinite, FS_AddElement
<1>3. Cardinality(Holding \cup {f}) \in Nat
  BY HoldingFinite, FS_AddElement, FS_CardinalityType
<1> QED
  BY <1>1, <1>2, <1>3, HoldingFinite, ConstantsAssumption

(* Permits are given back, never taken, by what a handler does later.      *)
LEMMA NoMoreHolding ==
    ASSUME TypeInv, Holding' \in SUBSET Holding
    PROVE  Cardinality(Holding') <= MaxRequests
<1>1. Cardinality(Holding') <= Cardinality(Holding) /\ Cardinality(Holding') \in Nat
  BY HoldingFinite, FS_Subset, FS_CardinalityType
<1> QED
  BY <1>1, HoldingFinite, ConstantsAssumption DEF TypeInv, TypeOK

(* Before the first frame nothing is queued and no permit is taken.         *)
LEMMA TypeInit == Init => TypeInv
<1> SUFFICES ASSUME Init PROVE TypeInv
  OBVIOUS
<1> USE DEF Init
<1>1. Holding = {}
  BY DEF Holding
<1>2. Cardinality(Holding) = 0
  BY <1>1, FS_EmptySet
<1>3. inbox \in Seq(Frames) /\ queue \in Seq(Replies) /\ Len(queue) = 0
  BY EmptySeq
<1>4. answer \in [Frames -> Answers \cup {NoAnswer}]
  OBVIOUS
<1>5. Len(queue) <= QueueSize /\ Cardinality(Holding) <= MaxRequests
  BY <1>2, <1>3, ConstantsAssumption
<1>6. handler \in [Frames -> {"none", "waiting", "sending", "done"}]
        /\ work \in [Frames -> AtWork \cup {"none", "done"}]
        /\ \A f \in Frames : handler[f] = "none"
        /\ batch \in [Flushes -> SUBSET Frames]
  OBVIOUS
<1> QED
  BY <1>3, <1>4, <1>5, <1>6 DEF TypeInv, TypeOK

(* A step that leaves the tasks, the answers and the events alone.         *)
LEMMA TypeOfRest ==
    ASSUME TypeInv, UNCHANGED <<kind, received, taskVars, queue, hubVars>>,
           inbox' \in Seq(Frames), sent' \in SUBSET Frames,
           stdin' \in {"open", "closed"}, client' \in {"reads", "stalled", "gone"}, stop' \in BOOLEAN,
           phase' \in {"serving", "draining", "flushing", "saving", "exiting", "ended"},
           arm' \in {"select", "tick", "flush", "send"}, arm' = "send" => reply' \in Replies,
           reading' \in BOOLEAN, writer' \in {"running", "ended"}, cut' \in BOOLEAN,
           broken' \in BOOLEAN
    PROVE  TypeInv'
<1>1. Holding' = Holding
  BY DEF Holding, taskVars
<1> QED
  BY <1>1 DEF TypeInv, TypeOK, taskVars, hubVars

(* A flush that drains or writes, whoever it is.                           *)
LEMMA TypeOfFlush ==
    ASSUME TypeInv, NEW w \in Flushes,
           \/ Drains(w) /\ UNCHANGED <<flushed, lost>>
           \/ Writes(w)
    PROVE  /\ pending' \in SUBSET Frames /\ flushed' \in SUBSET Frames /\ lost' \in SUBSET Frames
           /\ batch' \in [Flushes -> SUBSET Frames]
<1>1. batch \in [Flushes -> SUBSET Frames]
  BY DEF TypeInv, TypeOK
<1>2. CASE Drains(w) /\ UNCHANGED <<flushed, lost>>
  BY <1>1, <1>2 DEF Drains, TypeInv
<1>3. CASE Writes(w)
  <2>1. PICK kept \in SUBSET batch[w] :
            flushed' = flushed \cup kept /\ lost' = lost \cup (batch[w] \ kept)
    BY <1>3 DEF Writes
  <2>2. batch' \in [Flushes -> SUBSET Frames] /\ pending' = pending
    BY <1>1, <1>3 DEF Writes
  <2>3. kept \in SUBSET Frames /\ batch[w] \in SUBSET Frames
    BY <1>1
  <2> QED
    BY <2>1, <2>2, <2>3 DEF TypeInv
<1> QED
  BY <1>2, <1>3

(* A step that changes the events alone, and whom the loop attends to.     *)
LEMMA TypeOfHub ==
    ASSUME TypeInv, UNCHANGED <<clientVars, taskVars, queue, writer, cut, broken, reply, reading>>,
           pending' \in SUBSET Frames, flushed' \in SUBSET Frames, lost' \in SUBSET Frames,
           batch' \in [Flushes -> SUBSET Frames],
           phase' \in {"serving", "draining", "flushing", "saving", "exiting", "ended"},
           arm' = arm \/ arm' \in {"select", "flush"}
    PROVE  TypeInv'
<1>1. Holding' = Holding
  BY DEF Holding, taskVars
<1> QED
  BY <1>1 DEF TypeInv, TypeOK, clientVars, taskVars

(* The client keeps the types.                                             *)
LEMMA TypeClient == TypeInv /\ Client => TypeInv'
<1> SUFFICES ASSUME TypeInv, Client PROVE TypeInv'
  OBVIOUS
<1> USE DEF TypeInv, TypeOK, clientVars, loopVars, taskVars, hubVars
<1>1. ASSUME NEW f \in Frames, ClientSends(f) PROVE TypeInv'
  <2>1. inbox' \in Seq(Frames)
    BY <1>1, AppendProperties DEF ClientSends
  <2> QED
    BY <1>1, <2>1, TypeOfRest DEF ClientSends
<1>2. CASE ClientCloses
  BY <1>2, TypeOfRest DEF ClientCloses
<1>3. CASE ClientLeaves
  BY <1>3, TypeOfRest DEF ClientLeaves
<1>4. CASE Signal
  BY <1>4, TypeOfRest DEF Signal
<1>5. CASE ClientStalls
  BY <1>5, TypeOfRest DEF ClientStalls
<1> QED
  BY <1>1, <1>2, <1>3, <1>4, <1>5 DEF Client

(* The loop keeps the types.                                               *)
LEMMA TypeLoop == TypeInv /\ Loop => TypeInv'
<1> SUFFICES ASSUME TypeInv, Loop PROVE TypeInv'
  OBVIOUS
<1> USE DEF TypeInv, TypeOK, clientVars, loopVars, taskVars, hubVars
<1>1. CASE ReadFrame
  <2> DEFINE f == Head(inbox)
  <2>1. f \in Frames /\ inbox' \in Seq(Frames)
    BY <1>1, HeadTailProperties DEF ReadFrame
  <2>2. UNCHANGED <<kind, sent, stdin, client, received, stop, reading, queue, writer, hubVars, cut>>
    BY <1>1 DEF ReadFrame
  <2>3. phase' \in {"serving", "draining", "flushing", "saving", "exiting", "ended"} /\ broken' \in BOOLEAN
    BY <1>1 DEF ReadFrame
  <2>4. CASE handler' = [handler EXCEPT ![f] = "waiting"] /\ Cardinality(Holding) < MaxRequests
             /\ work' = [work EXCEPT ![f] = "running"] /\ UNCHANGED <<answer, arm, reply>>
    <3>1. Cardinality(Holding') <= MaxRequests
      BY <2>1, <2>4, OneMoreHolding
    <3> HIDE DEF f
    <3>2. work' \in [Frames -> AtWork \cup {"none", "done"}]
            /\ \A g \in Frames : work'[g] \in {"recorded", "flushing"} => g \in Flushing
      BY <2>1, <2>4 DEF AtWork
    <3> QED
      BY <2>1, <2>2, <2>3, <2>4, <3>1, <3>2
  <2>5. CASE Sending(f, "error") \/ Sending(f, "busy")
    <3>1. arm' = "send" /\ reply' \in Replies /\ UNCHANGED taskVars
      BY <2>1, <2>5 DEF Sending, Sent, Replies, Answers
    <3> HIDE DEF f
    <3> QED
      BY <2>1, <2>2, <2>3, <3>1, TypeOfRest
  <2>6. CASE UNCHANGED <<taskVars, arm, reply>>
    BY <2>1, <2>2, <2>3, <2>6, TypeOfRest
  <2> QED
    BY <1>1, <2>4, <2>5, <2>6 DEF ReadFrame, Dispatch
<1>2. CASE LoopSends
  <2>1. queue' \in Seq(Replies) /\ Len(queue') <= QueueSize
    BY <1>2, OneMoreQueued DEF LoopSends
  <2>2. Holding' = Holding
    BY <1>2 DEF LoopSends, Holding
  <2> QED
    BY <1>2, <2>1, <2>2 DEF LoopSends
<1>3. CASE TickBegins
  BY <1>3, TypeOfRest DEF TickBegins
<1>4. CASE TickDrains
  BY <1>4, TypeOfFlush, TypeOfHub DEF Flushes, TickDrains
<1>5. CASE TickEnds
  BY <1>5, TypeOfFlush, TypeOfHub DEF Flushes, TickEnds
<1>6. CASE StopServing
  BY <1>6, TypeOfRest DEF StopServing
<1> QED
  BY <1>1, <1>2, <1>3, <1>4, <1>5, <1>6 DEF Loop

(* The way out keeps the types.                                            *)
LEMMA TypeFinish == TypeInv /\ Finish => TypeInv'
<1> SUFFICES ASSUME TypeInv, Finish PROVE TypeInv'
  OBVIOUS
<1> USE DEF TypeInv, TypeOK, clientVars, loopVars, taskVars, hubVars
<1>1. CASE Drained
  BY <1>1, TypeOfRest DEF Drained
<1>2. CASE DrainTimesOut
  BY <1>2, TypeOfRest DEF DrainTimesOut
<1>3. CASE FinalFlush
  BY <1>3, TypeOfFlush, TypeOfHub DEF Flushes, FinalFlush
<1>4. CASE ServeReturns
  BY <1>4, TypeOfFlush, TypeOfHub DEF Flushes, ServeReturns
<1>5. CASE Exit
  BY <1>5, TypeOfRest DEF Exit
<1> QED
  BY <1>1, <1>2, <1>3, <1>4, <1>5 DEF Finish

(* What runs on the blocking pool keeps the types.                         *)
LEMMA TypeWork ==
    ASSUME TypeInv, NEW f \in Frames, Work(f)
    PROVE  TypeInv'
<1>1. ASSUME NEW to \in AtWork \cup {"done"}, NEW from, WorkStep(f, from, to),
             to \in {"recorded", "flushing"} => f \in Flushing,
             pending' \in SUBSET Frames, flushed' \in SUBSET Frames, lost' \in SUBSET Frames,
             batch' \in [Flushes -> SUBSET Frames]
      PROVE  TypeInv'
  <2> USE <1>1 DEF WorkStep, clientVars, loopVars
  <2>1. Holding' = Holding
    BY DEF Holding
  <2>2. work' \in [Frames -> AtWork \cup {"none", "done"}]
    BY DEF TypeInv, TypeOK
  <2> QED
    BY <2>1, <2>2 DEF TypeInv, TypeOK
<1>2. batch \in [Flushes -> SUBSET Frames] /\ pending \cup {f} \in SUBSET Frames
  BY DEF TypeInv, TypeOK
<1>3. CASE WorkEnds(f)
  BY <1>1, <1>2, <1>3 DEF WorkEnds, TypeInv
<1>4. CASE WorkRecords(f)
  BY <1>1, <1>2, <1>4 DEF WorkRecords, TypeInv, AtWork
<1>5. CASE WorkDrains(f)
  <2>1. f \in Flushing
    BY <1>5 DEF WorkDrains, WorkStep, TypeInv
  <2> QED
    BY <1>1, <1>5, <2>1, TypeOfFlush DEF WorkDrains, AtWork, Flushes
<1>6. CASE WorkWrites(f)
  <2>1. f \in Flushing
    BY <1>6 DEF WorkWrites, WorkStep, TypeInv
  <2> QED
    BY <1>1, <1>6, <2>1, TypeOfFlush DEF WorkWrites, Flushes
<1> QED
  BY <1>3, <1>4, <1>5, <1>6 DEF Work

(* The tasks keep the types.                                               *)
LEMMA TypeTask ==
    ASSUME TypeInv, NEW f \in Frames, Task(f)
    PROVE  TypeInv'
<1> USE DEF TypeInv, TypeOK, clientVars, loopVars, taskVars, hubVars
<1>1. CASE Work(f)
  BY <1>1, TypeWork
<1>2. ASSUME NEW a \in Answers, Respond(f, a), handler[f] = "waiting",
             UNCHANGED <<clientVars, loopVars, work, queue, writer, hubVars, cut, broken>>
      PROVE  TypeInv'
  <2>1. Holding' \in SUBSET Holding
    BY <1>2 DEF Respond, Holding
  <2>2. Cardinality(Holding') <= MaxRequests
    BY <2>1, NoMoreHolding
  <2> QED
    BY <1>2, <2>2 DEF Respond
<1>3. CASE WorkAwaited(f)
  BY <1>2, <1>3 DEF WorkAwaited, Answers
<1>4. CASE TimesOut(f)
  BY <1>2, <1>4 DEF TimesOut, Answers
<1>5. CASE HandlerSends(f)
  <2>1. Holding' \in SUBSET Holding
    BY <1>5 DEF HandlerSends, Holding
  <2>2. Cardinality(Holding') <= MaxRequests
    BY <2>1, NoMoreHolding
  <2>3. Sent(f, answer[f]) \in Replies
    BY <1>5 DEF HandlerSends, Sent, Replies
  <2>4. queue' \in Seq(Replies) /\ Len(queue') <= QueueSize
    BY <1>5, <2>3, OneMoreQueued DEF HandlerSends
  <2> QED
    BY <1>5, <2>2, <2>4 DEF HandlerSends
<1> QED
  BY <1>1, <1>3, <1>4, <1>5 DEF Task, Handler

(* The writer keeps the types.                                             *)
LEMMA TypeWriter == TypeInv /\ (WriterWrites \/ WriterEnds) => TypeInv'
<1> SUFFICES ASSUME TypeInv, WriterWrites \/ WriterEnds PROVE TypeInv'
  OBVIOUS
<1> USE DEF TypeInv, TypeOK, clientVars, loopVars, taskVars, hubVars
<1>1. Holding' = Holding
  BY DEF WriterWrites, WriterEnds, Holding
<1>2. CASE WriterWrites
  <2>1. Head(queue) \in Replies /\ Tail(queue) \in Seq(Replies) /\ Len(Tail(queue)) = Len(queue) - 1
    BY <1>2, HeadTailProperties DEF WriterWrites
  <2>2. Len(queue) \in Nat /\ <<>> \in Seq(Replies) /\ Len(<<>>) = 0
    BY LenProperties, EmptySeq
  <2>3. queue' \in Seq(Replies) /\ received' \in SUBSET Replies
    BY <1>2, <2>1, <2>2 DEF WriterWrites
  <2>4. Len(queue') <= QueueSize
    BY <1>2, <2>1, <2>2, ConstantsAssumption DEF WriterWrites
  <2> QED
    BY <1>1, <1>2, <2>3, <2>4 DEF WriterWrites
<1>3. CASE WriterEnds
  BY <1>3, TypeOfRest DEF WriterEnds
<1> QED
  BY <1>2, <1>3

(* Every step keeps the types.                                             *)
LEMMA TypeStep == TypeInv /\ [Next]_vars => TypeInv'
<1>1. TypeInv /\ UNCHANGED vars => TypeInv'
  <2> SUFFICES ASSUME TypeInv, UNCHANGED vars PROVE TypeInv'
    OBVIOUS
  <2> USE DEF vars, clientVars, loopVars, taskVars, hubVars
  <2>1. Holding' = Holding
    BY DEF Holding
  <2> QED
    BY <2>1 DEF TypeInv, TypeOK
<1> QED
  BY <1>1, TypeClient, TypeLoop, TypeFinish, TypeTask, TypeWriter DEF Next

(* Type correctness of the server, for any number of frames: the queue     *)
(* never holds more than it has room for, and no more requests run than    *)
(* there are permits (server.rs, the semaphore and the bounded channel).   *)
THEOREM TypeCorrect == Spec => []TypeOK
<1>1. TypeInv => TypeOK
  BY DEF TypeInv
<1> QED
  BY <1>1, TypeInit, TypeStep, PTL DEF Spec

-----------------------------------------------------------------------------
(* One answer per request. A frame is fresh until it is read, then in the  *)
(* hands of a handler or of the loop, and its answer is in one place only: *)
(* with the loop, in the queue, or at the client.                          *)

Queued == {queue[i] : i \in 1 .. Len(queue)}
Claims(s, f) == \E x \in s : x[1] = f
WithLoop(f) == arm = "send" /\ reply[1] = f
Claimed(f) == Claims(received, f) \/ Claims(Queued, f) \/ WithLoop(f)
Fresh(f) == handler[f] = "none" /\ ~Claimed(f)

Unread == {inbox[i] : i \in 1 .. Len(inbox)}
InboxIsFresh ==
    /\ Unread \subseteq sent
    /\ \A f \in Frames : f \notin sent \/ f \in Unread => Fresh(f)
    /\ \A i, j \in 1 .. Len(inbox) : inbox[i] = inbox[j] => i = j
HandlersUnclaimed ==
    \A f \in Frames :
        /\ handler[f] \in {"waiting", "sending"} => ~Claimed(f)
        /\ handler[f] = "sending" => kind[f] = "request"
OneEach == \A i, j \in 1 .. Len(queue) : queue[i][1] = queue[j][1] => i = j
OnePlace ==
    /\ \A x, y \in received : x[1] = y[1] => x = y
    /\ OneEach
    /\ \A f \in Frames : ~(Claims(received, f) /\ Claims(Queued, f))
    /\ \A f \in Frames : WithLoop(f) => ~Claims(received, f) /\ ~Claims(Queued, f)
    /\ \A f \in Frames : Claimed(f) => kind[f] # "notification"
OnceInv == InboxIsFresh /\ HandlersUnclaimed /\ OnePlace

(* A frame in one place at a time is answered once.                        *)
LEMMA OnceImplies == TypeInv /\ OnceInv => AnsweredOnce
<1> SUFFICES ASSUME TypeInv, OnceInv PROVE AnsweredOnce
  OBVIOUS
<1> DEFINE loopSet == IF arm = "send" THEN {reply} ELSE {}
           handlerSet == {Sent(f, answer[f]) : f \in {g \in Frames : handler[g] = "sending"}}
<1>1. Underway = Queued \cup loopSet \cup handlerSet
  BY DEF Underway, Queued
<1>2. received \subseteq Replies /\ Queued \subseteq Replies /\ loopSet \subseteq Replies
  BY DEF TypeInv, Queued
<1>3. \A x \in handlerSet : \E f \in Frames :
         x = Sent(f, answer[f]) /\ x[1] = f /\ handler[f] = "sending"
  BY DEF Sent
<1>4. \A x \in Replies : x[1] \in Frames
  BY DEF Replies
<1>5. \A x \in handlerSet : x[1] \in Frames /\ ~Claimed(x[1]) /\ kind[x[1]] = "request"
  BY <1>3 DEF OnceInv, HandlersUnclaimed
<1>6. \A x \in received \cup Queued \cup loopSet : Claimed(x[1])
  BY DEF Claimed, Claims, WithLoop
<1>7. \A x, y \in Queued : x[1] = y[1] => x = y
  BY DEF OnceInv, OnePlace, OneEach, Queued
<1>8. \A x, y \in handlerSet : x[1] = y[1] => x = y
  BY <1>3
<1> HIDE DEF handlerSet
<1>9. \A x, y \in received \cup Queued \cup loopSet : x[1] = y[1] => x = y
  <2> SUFFICES ASSUME NEW x \in received \cup Queued \cup loopSet,
                      NEW y \in received \cup Queued \cup loopSet, x[1] = y[1]
               PROVE  x = y
    OBVIOUS
  <2>1. x[1] \in Frames
    BY <1>2, <1>4
  <2>2. \A z \in received : Claims(received, z[1])
    BY DEF Claims
  <2>3. \A z \in Queued : Claims(Queued, z[1])
    BY DEF Claims
  <2>4. \A z \in loopSet : z = reply /\ WithLoop(z[1])
    BY DEF WithLoop
  <2> HIDE DEF loopSet
  <2> QED
    BY <1>7, <2>1, <2>2, <2>3, <2>4 DEF OnceInv, OnePlace
<1>10. \A x \in received : x \notin Queued \cup loopSet
  BY <1>2, <1>4 DEF OnceInv, OnePlace, Claims, WithLoop
<1> HIDE DEF loopSet
<1> QED
  BY <1>1, <1>2, <1>4, <1>5, <1>6, <1>8, <1>9, <1>10 DEF AnsweredOnce, OnceInv, OnePlace

(* At the start every frame is still with the client.                      *)
LEMMA OnceInit == Init => OnceInv
<1> SUFFICES ASSUME Init PROVE OnceInv
  OBVIOUS
<1>1. Len(inbox) = 0 /\ Len(queue) = 0 /\ received = {} /\ arm # "send"
  BY EmptySeq DEF Init
<1>2. Queued = {} /\ Unread = {}
  BY <1>1 DEF Queued, Unread
<1>3. \A f : ~Claimed(f)
  BY <1>1, <1>2 DEF Claimed, Claims, WithLoop
<1> QED
  BY <1>1, <1>2, <1>3
  DEF Init, OnceInv, InboxIsFresh, HandlersUnclaimed, OnePlace, OneEach, Fresh, Claims, WithLoop

(* A step that reads no frame, answers none and starts no handler.         *)
LEMMA OnceOfRest ==
    ASSUME OnceInv, UNCHANGED <<kind, inbox, sent, received, handler, queue>>,
           (arm' = "send") = (arm = "send"), UNCHANGED reply
    PROVE  OnceInv'
<1>1. Queued' = Queued /\ Unread' = Unread
  BY DEF Queued, Unread
<1>2. \A f : WithLoop(f)' = WithLoop(f) /\ Claims(received, f)' = Claims(received, f)
             /\ Claims(Queued, f)' = Claims(Queued, f)
  BY <1>1 DEF WithLoop, Claims
<1>3. \A f : Claimed(f)' = Claimed(f)
  BY <1>2 DEF Claimed
<1> QED
  BY <1>1, <1>2, <1>3 DEF OnceInv, InboxIsFresh, HandlersUnclaimed, OnePlace, OneEach, Fresh

(* A frame that is sent is fresh.                                          *)
LEMMA OnceSends ==
    ASSUME TypeInv, OnceInv, NEW f \in Frames, ClientSends(f)
    PROVE  OnceInv'
<1> USE DEF loopVars, taskVars
<1>1. Queued' = Queued /\ UNCHANGED <<kind, received, handler, queue, arm, reply>>
  BY DEF ClientSends, Queued
<1>2. \A g : Claimed(g)' = Claimed(g) /\ WithLoop(g)' = WithLoop(g)
             /\ Claims(received, g)' = Claims(received, g) /\ Claims(Queued, g)' = Claims(Queued, g)
             /\ Fresh(g)' = Fresh(g)
  BY <1>1 DEF Claimed, WithLoop, Claims, Fresh
<1>3. HandlersUnclaimed' /\ OnePlace'
  BY <1>1, <1>2 DEF OnceInv, HandlersUnclaimed, OnePlace, OneEach
<1>4. f \notin sent /\ f \notin Unread /\ Fresh(f)
  BY DEF ClientSends, OnceInv, InboxIsFresh
<1>5. inbox \in Seq(Frames)
  BY DEF TypeInv, TypeOK
<1>6. /\ Len(inbox') = Len(inbox) + 1 /\ Len(inbox) \in Nat
      /\ \A i \in 1 .. Len(inbox) : inbox'[i] = inbox[i]
      /\ inbox'[Len(inbox) + 1] = f
  BY <1>5, AppendProperties, LenProperties DEF ClientSends
<1>7. \A i \in 1 .. Len(inbox') : i \in 1 .. Len(inbox) \/ i = Len(inbox) + 1
  BY <1>6
<1>8. sent' = sent \cup {f}
  BY DEF ClientSends
<1>9. Unread' = Unread \cup {f}
  BY <1>6, <1>7 DEF Unread
<1>10. \A i, j \in 1 .. Len(inbox') : inbox'[i] = inbox'[j] => i = j
  BY <1>4, <1>6, <1>7 DEF OnceInv, InboxIsFresh, Unread
<1>11. InboxIsFresh'
  BY <1>2, <1>4, <1>8, <1>9, <1>10 DEF OnceInv, InboxIsFresh
<1> QED
  BY <1>3, <1>11 DEF OnceInv

(* A frame that is read leaves the inbox for one place.                    *)
LEMMA OnceReads ==
    ASSUME TypeInv, OnceInv, ReadFrame
    PROVE  OnceInv'
<1> USE DEF loopVars, taskVars
<1> DEFINE f == Head(inbox)
<1>1. inbox \in Seq(Frames) /\ inbox # <<>>
  BY DEF TypeInv, TypeOK, ReadFrame
<1>2. /\ f = inbox[1] /\ Len(inbox') = Len(inbox) - 1 /\ Len(inbox) \in Nat \ {0}
      /\ \A i \in 1 .. Len(inbox') : inbox'[i] = inbox[i + 1]
      /\ f \in Frames
  BY <1>1, HeadTailProperties, EmptySeq, LenProperties DEF ReadFrame
<1>3. \A i \in 1 .. Len(inbox') : i + 1 \in 1 .. Len(inbox) /\ i + 1 # 1
  BY <1>2
<1>4. 1 \in 1 .. Len(inbox)
  BY <1>2
<1>5. f \in sent /\ Fresh(f)
  BY <1>2, <1>4 DEF OnceInv, InboxIsFresh, Unread
<1>6. /\ Unread' \subseteq Unread \ {f}
      /\ \A i, j \in 1 .. Len(inbox') : inbox'[i] = inbox'[j] => i = j
  BY <1>2, <1>3, <1>4 DEF OnceInv, InboxIsFresh, Unread
<1>7. Queued' = Queued /\ UNCHANGED <<kind, sent, received, queue>> /\ arm = "select"
  BY DEF ReadFrame, Queued, Selecting
<1>8. \A g : /\ Claims(received, g)' = Claims(received, g)
             /\ Claims(Queued, g)' = Claims(Queued, g)
             /\ ~WithLoop(g)
  BY <1>7 DEF Claims, WithLoop
<1> HIDE DEF f
<1>9. CASE handler' = [handler EXCEPT ![f] = "waiting"] /\ UNCHANGED <<arm, reply>>
  <2>1. \A g : ~WithLoop(g)' /\ Claimed(g)' = Claimed(g)
    BY <1>7, <1>8, <1>9 DEF WithLoop, Claimed
  <2>2. \A g \in Frames : handler'[g] = IF g = f THEN "waiting" ELSE handler[g]
    BY <1>9 DEF TypeInv, TypeOK
  <2>3. \A g \in Frames : g # f /\ Fresh(g) => Fresh(g)'
    BY <2>1, <2>2 DEF Fresh
  <2>4. InboxIsFresh'
    BY <1>5, <1>6, <1>7, <2>3 DEF OnceInv, InboxIsFresh
  <2>5. HandlersUnclaimed'
    BY <1>5, <1>7, <2>1, <2>2 DEF OnceInv, HandlersUnclaimed, Fresh
  <2>6. OnePlace'
    BY <1>7, <1>8, <2>1 DEF OnceInv, OnePlace, OneEach
  <2> QED
    BY <2>4, <2>5, <2>6 DEF OnceInv
<1>10. CASE /\ \E a \in Answers : Sending(f, a)
            /\ kind[f] # "notification"
  <2>1. arm' = "send" /\ reply'[1] = f /\ UNCHANGED handler
    BY <1>10 DEF Sending, Sent
  <2>2. \A g : WithLoop(g)' = (g = f) /\ Claimed(g)' = (Claimed(g) \/ g = f)
    BY <1>8, <2>1 DEF WithLoop, Claimed
  <2>3. \A g : g # f /\ Fresh(g) => Fresh(g)'
    BY <2>1, <2>2 DEF Fresh
  <2>4. InboxIsFresh'
    BY <1>5, <1>6, <1>7, <2>3 DEF OnceInv, InboxIsFresh
  <2>5. HandlersUnclaimed'
    BY <1>5, <1>7, <2>1, <2>2 DEF OnceInv, HandlersUnclaimed, Fresh
  <2>6. OnePlace'
    BY <1>5, <1>7, <1>8, <1>10, <2>2 DEF OnceInv, OnePlace, OneEach, Fresh, Claimed
  <2> QED
    BY <2>4, <2>5, <2>6 DEF OnceInv
<1>11. CASE UNCHANGED <<handler, arm, reply>>
  <2>1. \A g : WithLoop(g)' = WithLoop(g) /\ Claimed(g)' = Claimed(g) /\ Fresh(g)' = Fresh(g)
    BY <1>8, <1>11 DEF WithLoop, Claimed, Fresh
  <2>2. InboxIsFresh'
    BY <1>6, <1>7, <2>1 DEF OnceInv, InboxIsFresh
  <2>3. HandlersUnclaimed' /\ OnePlace'
    BY <1>7, <1>8, <1>11, <2>1 DEF OnceInv, HandlersUnclaimed, OnePlace, OneEach
  <2> QED
    BY <2>2, <2>3 DEF OnceInv
<1>12. \/ handler' = [handler EXCEPT ![f] = "waiting"] /\ UNCHANGED <<arm, reply>>
       \/ (\E a \in Answers : Sending(f, a)) /\ kind[f] # "notification"
       \/ UNCHANGED <<handler, arm, reply>>
  BY DEF ReadFrame, Dispatch, Answers, f
<1> QED
  BY <1>9, <1>10, <1>11, <1>12

(* What the queue gains and loses.                                         *)
LEMMA QueueGains ==
    ASSUME TypeInv, OneEach, NEW x \in Replies, queue' = Append(queue, x),
           ~Claims(Queued, x[1])
    PROVE  Queued' = Queued \cup {x} /\ OneEach'
<1>1. queue \in Seq(Replies)
  BY DEF TypeInv
<1>2. /\ Len(queue') = Len(queue) + 1 /\ Len(queue) \in Nat
      /\ \A i \in 1 .. Len(queue) : queue'[i] = queue[i]
      /\ queue'[Len(queue) + 1] = x
  BY <1>1, AppendProperties, LenProperties
<1>3. \A i \in 1 .. Len(queue') : i \in 1 .. Len(queue) \/ i = Len(queue) + 1
  BY <1>2
<1>4. \A i \in 1 .. Len(queue) : queue[i][1] # x[1]
  BY DEF Claims, Queued
<1>5. Queued' = Queued \cup {x}
  BY <1>2, <1>3 DEF Queued
<1>6. OneEach'
  BY <1>2, <1>3, <1>4 DEF OneEach
<1> QED
  BY <1>5, <1>6

(* What the writer takes is not in the queue any more.                     *)
LEMMA QueueLoses ==
    ASSUME TypeInv, OneEach, queue # <<>>, queue' = Tail(queue)
    PROVE  /\ Queued = Queued' \cup {Head(queue)} /\ OneEach'
           /\ Head(queue) \in Replies /\ ~Claims(Queued', Head(queue)[1])
<1>1. queue \in Seq(Replies)
  BY DEF TypeInv
<1>2. /\ Head(queue) = queue[1] /\ Len(queue') = Len(queue) - 1 /\ Len(queue) \in Nat \ {0}
      /\ \A i \in 1 .. Len(queue') : queue'[i] = queue[i + 1]
      /\ Head(queue) \in Replies
  BY <1>1, HeadTailProperties, EmptySeq, LenProperties
<1>3. \A i \in 1 .. Len(queue') : i + 1 \in 1 .. Len(queue) /\ i + 1 # 1
  BY <1>2
<1>4. \A i \in 1 .. Len(queue) : i = 1 \/ \E j \in 1 .. Len(queue') : i = j + 1
  <2> TAKE i \in 1 .. Len(queue)
  <2> SUFFICES ASSUME i # 1 PROVE \E j \in 1 .. Len(queue') : i = j + 1
    OBVIOUS
  <2> WITNESS i - 1 \in 1 .. Len(queue')
  <2> QED
    OBVIOUS
<1>5. 1 \in 1 .. Len(queue)
  BY <1>2
<1>6. Queued = Queued' \cup {Head(queue)}
  BY <1>2, <1>3, <1>4, <1>5 DEF Queued
<1>7. OneEach'
  BY <1>2, <1>3 DEF OneEach
<1>8. ~Claims(Queued', Head(queue)[1])
  BY <1>2, <1>3, <1>5 DEF Claims, Queued, OneEach
<1> QED
  BY <1>2, <1>6, <1>7, <1>8

(* The writer is gone, and the queue with it, or an answer is dropped.     *)
LEMMA OnceWriter == TypeInv /\ OnceInv /\ WriterWrites => OnceInv'
<1> SUFFICES ASSUME TypeInv, OnceInv, WriterWrites PROVE OnceInv'
  OBVIOUS
<1> USE DEF loopVars, taskVars
<1>1. UNCHANGED <<kind, inbox, sent, handler, arm, reply>> /\ queue # <<>>
  BY DEF WriterWrites
<1>2. Unread' = Unread /\ \A g : WithLoop(g)' = WithLoop(g)
  BY <1>1 DEF Unread, WithLoop
<1>3. CASE client = "reads"
  <2> DEFINE x == Head(queue)
  <2>1. queue' = Tail(queue) /\ received' = received \cup {x}
    BY <1>3 DEF WriterWrites
  <2>2. /\ Queued = Queued' \cup {x} /\ OneEach'
        /\ x \in Replies /\ ~Claims(Queued', x[1])
    BY <1>1, <2>1, QueueLoses DEF OnceInv, OnePlace
  <2> HIDE DEF x
  <2>3. PICK f \in Frames : f = x[1]
    BY <2>2 DEF Replies
  <2>4. Claims(Queued, f)
    BY <2>2, <2>3 DEF Claims
  <2>5. \A g : /\ Claims(received, g)' = (Claims(received, g) \/ g = f)
               /\ Claims(Queued, g) = (Claims(Queued, g)' \/ g = f)
               /\ ~Claims(Queued, f)'
    BY <2>1, <2>2, <2>3 DEF Claims
  <2>6. \A g : Claimed(g)' = Claimed(g) /\ Fresh(g)' = Fresh(g)
    BY <1>1, <1>2, <2>5 DEF Claimed, Fresh
  <2>7. InboxIsFresh' /\ HandlersUnclaimed'
    BY <1>1, <1>2, <2>6 DEF OnceInv, InboxIsFresh, HandlersUnclaimed
  <2>8. \A y \in received : y[1] # x[1]
    BY <2>3, <2>4 DEF OnceInv, OnePlace, Claims
  <2>9. OnePlace'
    BY <1>1, <1>2, <2>1, <2>2, <2>3, <2>4, <2>5, <2>6, <2>8 DEF OnceInv, OnePlace
  <2> QED
    BY <2>7, <2>9 DEF OnceInv
<1>4. CASE client # "reads"
  <2>1. queue' = <<>> /\ UNCHANGED received
    BY <1>4 DEF WriterWrites
  <2>2. Queued' = {} /\ OneEach'
    BY <2>1, EmptySeq DEF Queued, OneEach
  <2>3. \A g : Claims(received, g)' = Claims(received, g) /\ ~Claims(Queued, g)'
    BY <2>1, <2>2 DEF Claims
  <2>4. \A g : (Claimed(g)' => Claimed(g)) /\ (Fresh(g) => Fresh(g)')
    BY <1>1, <1>2, <2>3 DEF Claimed, Fresh
  <2>5. InboxIsFresh' /\ HandlersUnclaimed'
    BY <1>1, <1>2, <2>4 DEF OnceInv, InboxIsFresh, HandlersUnclaimed
  <2>6. OnePlace'
    BY <1>1, <1>2, <2>1, <2>2, <2>3, <2>4 DEF OnceInv, OnePlace
  <2> QED
    BY <2>5, <2>6 DEF OnceInv
<1> QED
  BY <1>3, <1>4

(* A reply of the loop goes to the queue or is lost.                       *)
LEMMA OnceLoopSends == TypeInv /\ OnceInv /\ LoopSends => OnceInv'
<1> SUFFICES ASSUME TypeInv, OnceInv, LoopSends PROVE OnceInv'
  OBVIOUS
<1> USE DEF clientVars, taskVars
<1>1. UNCHANGED <<kind, inbox, sent, received, handler>> /\ arm = "send" /\ arm' = "select"
  BY DEF LoopSends
<1>2. /\ Unread' = Unread
      /\ \A g : ~WithLoop(g)' /\ WithLoop(g) = (g = reply[1])
               /\ Claims(received, g)' = Claims(received, g)
  BY <1>1 DEF Unread, WithLoop, Claims
<1>3. reply \in Replies /\ reply[1] \in Frames
  BY <1>1 DEF TypeInv, Replies
<1>4. OneEach' /\ \A g : Claims(Queued, g)' => Claims(Queued, g) \/ g = reply[1]
  <2>1. CASE queue' = Append(queue, reply)
    <3>1. ~Claims(Queued, reply[1])
      BY <1>2, <1>3 DEF OnceInv, OnePlace
    <3>2. Queued' = Queued \cup {reply} /\ OneEach'
      BY <1>3, <2>1, <3>1, QueueGains DEF OnceInv, OnePlace
    <3> QED
      BY <3>2 DEF Claims
  <2>2. CASE UNCHANGED queue
    BY <2>2 DEF OneEach, Claims, Queued, OnceInv, OnePlace
  <2> QED
    BY <2>1, <2>2 DEF LoopSends
<1>5. \A g : (Claimed(g)' => Claimed(g)) /\ (Fresh(g) => Fresh(g)')
  BY <1>1, <1>2, <1>4 DEF Claimed, Fresh
<1>6. InboxIsFresh' /\ HandlersUnclaimed'
  BY <1>1, <1>2, <1>5 DEF OnceInv, InboxIsFresh, HandlersUnclaimed
<1>7. OnePlace'
  BY <1>1, <1>2, <1>3, <1>4, <1>5 DEF OnceInv, OnePlace
<1> QED
  BY <1>6, <1>7 DEF OnceInv

(* A handler that has an answer keeps it.                                  *)
LEMMA OnceResponds ==
    ASSUME TypeInv, OnceInv, NEW f \in Frames, NEW a, Respond(f, a), handler[f] = "waiting",
           UNCHANGED <<clientVars, loopVars, queue>>
    PROVE  OnceInv'
<1> USE DEF clientVars, loopVars
<1>1. Queued' = Queued /\ Unread' = Unread
  BY DEF Queued, Unread
<1>2. \A g : /\ WithLoop(g)' = WithLoop(g) /\ Claimed(g)' = Claimed(g)
             /\ Claims(received, g)' = Claims(received, g)
             /\ Claims(Queued, g)' = Claims(Queued, g)
  BY <1>1 DEF WithLoop, Claimed, Claims
<1>3. \A g \in Frames : /\ g # f => handler'[g] = handler[g]
                        /\ handler'[f] = (IF kind[f] = "request" THEN "sending" ELSE "done")
  BY DEF Respond, TypeInv, TypeOK
<1>4. \A g \in Frames : Fresh(g) => Fresh(g)'
  BY <1>2, <1>3 DEF Fresh
<1>5. InboxIsFresh'
  BY <1>1, <1>4 DEF OnceInv, InboxIsFresh
<1>6. HandlersUnclaimed'
  BY <1>2, <1>3 DEF OnceInv, HandlersUnclaimed
<1>7. OnePlace'
  BY <1>1, <1>2 DEF OnceInv, OnePlace, OneEach
<1> QED
  BY <1>5, <1>6, <1>7 DEF OnceInv

(* The answer of a handler goes to the queue or is lost.                   *)
LEMMA OnceHandlerSends ==
    ASSUME TypeInv, OnceInv, NEW f \in Frames, HandlerSends(f)
    PROVE  OnceInv'
<1> USE DEF clientVars, loopVars
<1>1. UNCHANGED <<kind, inbox, sent, received, arm, reply>> /\ handler[f] = "sending"
  BY DEF HandlerSends
<1>2. /\ Unread' = Unread
      /\ \A g : WithLoop(g)' = WithLoop(g) /\ Claims(received, g)' = Claims(received, g)
  BY <1>1 DEF Unread, WithLoop, Claims
<1>3. \A g \in Frames : (g # f => handler'[g] = handler[g]) /\ handler'[f] = "done"
  BY DEF HandlerSends, TypeInv, TypeOK
<1>4. ~Claimed(f) /\ kind[f] = "request" /\ ~Fresh(f)
  BY <1>1 DEF OnceInv, HandlersUnclaimed, Fresh
<1>5. OneEach' /\ \A g : /\ Claims(Queued, g)' => Claims(Queued, g) \/ g = f
                         /\ Claims(Queued, g) => Claims(Queued, g)'
  <2> DEFINE x == Sent(f, answer[f])
  <2>1. CASE queue' = Append(queue, x)
    <3>1. x \in Replies /\ x[1] = f
      BY <1>1 DEF TypeInv, Sent, Replies
    <3> HIDE DEF x
    <3>2. ~Claims(Queued, x[1])
      BY <1>4, <3>1 DEF Claimed
    <3>3. Queued' = Queued \cup {x} /\ OneEach'
      BY <2>1, <3>1, <3>2, QueueGains DEF OnceInv, OnePlace
    <3> QED
      BY <3>1, <3>3 DEF Claims
  <2>2. CASE UNCHANGED queue
    BY <2>2 DEF OneEach, Claims, Queued, OnceInv, OnePlace
  <2> QED
    BY <2>1, <2>2 DEF HandlerSends
<1>6. \A g : g # f => Claimed(g)' = Claimed(g)
  BY <1>2, <1>5 DEF Claimed
<1>7. \A g \in Frames : Fresh(g) => Fresh(g)'
  BY <1>3, <1>4, <1>6 DEF Fresh
<1>8. InboxIsFresh'
  BY <1>1, <1>2, <1>7 DEF OnceInv, InboxIsFresh
<1>9. HandlersUnclaimed'
  BY <1>1, <1>3, <1>6 DEF OnceInv, HandlersUnclaimed
<1>10. OnePlace'
  BY <1>1, <1>2, <1>4, <1>5, <1>6 DEF OnceInv, OnePlace, Claimed
<1> QED
  BY <1>8, <1>9, <1>10 DEF OnceInv

(* Every step keeps each frame in one place.                               *)
LEMMA OnceStep == TypeInv /\ OnceInv /\ [Next]_vars => OnceInv'
<1> SUFFICES ASSUME TypeInv, OnceInv, [Next]_vars PROVE OnceInv'
  OBVIOUS
<1> USE DEF clientVars, loopVars, taskVars, hubVars
<1>1. CASE Client
  BY <1>1, OnceSends, OnceOfRest DEF Client, ClientCloses, ClientStalls, ClientLeaves, Signal
<1>2. CASE Loop
  BY <1>2, OnceReads, OnceLoopSends, OnceOfRest
  DEF Loop, TickBegins, TickDrains, TickEnds, StopServing, Selecting
<1>3. CASE Finish
  BY <1>3, OnceOfRest DEF Finish, Drained, DrainTimesOut, FinalFlush, ServeReturns, Exit
<1>4. ASSUME NEW f \in Frames, Task(f) PROVE OnceInv'
  <2>1. CASE Work(f)
    BY <2>1, OnceOfRest DEF Work, WorkEnds, WorkRecords, WorkDrains, WorkWrites, WorkStep
  <2>2. CASE WorkAwaited(f)
    BY <2>2, OnceResponds DEF WorkAwaited
  <2>3. CASE TimesOut(f)
    BY <2>3, OnceResponds DEF TimesOut
  <2> QED
    BY <1>4, <2>1, <2>2, <2>3, OnceHandlerSends DEF Task, Handler
<1>5. CASE WriterEnds
  BY <1>5, OnceOfRest DEF WriterEnds
<1>6. CASE UNCHANGED vars
  BY <1>6, OnceOfRest DEF vars
<1> QED
  BY <1>1, <1>2, <1>3, <1>4, <1>5, <1>6, OnceWriter DEF Next

(* A frame is answered at most once and a notification never, for any      *)
(* number of frames, permits and places in the queue: a work that ends     *)
(* when its request has already timed out adds no second answer            *)
(* (server.rs, the request task and the busy reply of the loop).           *)
THEOREM AnswersOnce == Spec => []AnsweredOnce
<1>1. Spec => [](TypeInv /\ OnceInv)
  BY TypeInit, TypeStep, OnceInit, OnceStep, PTL DEF Spec
<1> QED
  BY <1>1, OnceImplies, PTL

-----------------------------------------------------------------------------
(* No result without its events. A result is answered only for work that   *)
(* recorded its events before it ended; from there a flush takes them, of  *)
(* a call or of the server itself, and writes them or, without the lock,   *)
(* drops them; and once the writer has ended no other result is received.  *)

InCalls == UNION {batch[g] : g \in Flushing}
InFlushes == UNION {batch[w] : w \in Flushes}
Written == flushed \cup lost
Recorded == pending \cup InFlushes \cup Written
Result(f) == <<f, "result">>

ResultsRecorded ==
    \A f \in Frames :
        /\ Result(f) \in received \cup Queued => f \in Recorded
        /\ arm = "send" => reply # Result(f)
        /\ handler[f] = "sending" /\ answer[f] = "result" => f \in Recorded
        /\ work[f] \in {"recorded", "flushing", "done"} /\ kind[f] = "request" => f \in Recorded
PhasesInOrder ==
    /\ phase # "serving" => arm = "select"
    /\ arm # "flush" /\ phase # "saving" => batch[Server] = {}
    /\ phase \in {"flushing", "saving", "exiting", "ended"} /\ ~cut => writer = "ended"
CallsInOrder ==
    /\ \A g \in Flushing : work[g] # "flushing" => batch[g] = {}
    /\ phase = "ended" => \A g \in Frames : work[g] \notin AtWork
    /\ \A g \in Frames : handler[g] = "none" => work[g] = "none"
ReceivedWritten ==
    \A f \in Frames : Result(f) \in received /\ ~cut =>
        /\ phase = "saving" => f \in InFlushes \cup Written
        /\ phase \in {"exiting", "ended"} => f \in InCalls \cup Written
FlushInv == ResultsRecorded /\ PhasesInOrder /\ CallsInOrder /\ ReceivedWritten

(* What is in a batch.                                                     *)
LEMMA Batches ==
    /\ \A f : f \in InCalls <=> \E g \in Flushing : f \in batch[g]
    /\ \A f : f \in InFlushes <=> f \in InCalls \/ f \in batch[Server]
BY DEF InCalls, InFlushes, Flushes

(* A drain loses nothing when the batch before it is written.              *)
LEMMA DrainKeeps ==
    ASSUME TypeInv, NEW w \in Flushes, batch[w] = {}, Drains(w), UNCHANGED <<flushed, lost>>
    PROVE  /\ Recorded' = Recorded /\ Written' = Written
           /\ InFlushes' = InFlushes \cup pending /\ InCalls \subseteq InCalls'
           /\ \A v \in Flushes : v # w => batch'[v] = batch[v]
<1>1. \A v \in Flushes : batch'[v] = IF v = w THEN pending ELSE batch[v]
  BY DEF Drains, TypeInv, TypeOK
<1>2. InFlushes' = InFlushes \cup pending
  BY <1>1 DEF InFlushes
<1>3. InCalls \subseteq InCalls'
  BY <1>1 DEF InCalls, Flushes
<1>4. pending' = {} /\ Written' = Written
  BY DEF Drains, Written
<1> QED
  BY <1>1, <1>2, <1>3, <1>4 DEF Recorded

(* What leaves a batch is written, or dropped for want of the lock.        *)
LEMMA WriteKeeps ==
    ASSUME TypeInv, NEW w \in Flushes, Writes(w)
    PROVE  /\ Recorded' = Recorded /\ Written' = Written \cup batch[w]
           /\ InFlushes \cup Written = (InFlushes \cup Written)'
           /\ InCalls \cup Written \subseteq (InCalls \cup Written)'
           /\ batch'[w] = {} /\ \A v \in Flushes : v # w => batch'[v] = batch[v]
<1>1. /\ \A v \in Flushes : batch'[v] = IF v = w THEN {} ELSE batch[v]
      /\ pending' = pending
  BY DEF Writes, TypeInv, TypeOK
<1>2. Written' = Written \cup batch[w]
  <2>1. PICK kept \in SUBSET batch[w] :
            flushed' = flushed \cup kept /\ lost' = lost \cup (batch[w] \ kept)
    BY DEF Writes
  <2> QED
    BY <2>1 DEF Written
<1>3. InFlushes \cup Written = (InFlushes \cup Written)'
  BY <1>1, <1>2 DEF InFlushes
<1>4. InCalls \cup Written \subseteq (InCalls \cup Written)'
  BY <1>1, <1>2 DEF InCalls, Flushes
<1> QED
  BY <1>1, <1>2, <1>3, <1>4 DEF Recorded

(* When serve has returned, what was answered has been flushed.            *)
LEMMA FlushImplies == FlushInv => AnsweredIsFlushed
<1> SUFFICES ASSUME FlushInv, phase \in {"exiting", "ended"}, ~cut,
                    NEW f \in Frames, Result(f) \in received
             PROVE  \/ f \in flushed \cup lost
                    \/ phase = "exiting" /\ \E g \in Flushing : f \in batch[g]
  BY DEF AnsweredIsFlushed, Result, Sent
<1>1. f \in Written \/ \E g \in Flushing : f \in batch[g]
  BY Batches DEF FlushInv, ReceivedWritten
<1>2. phase = "ended" => \A g \in Flushing : batch[g] = {}
  BY ConstantsAssumption DEF FlushInv, CallsInOrder, AtWork
<1> QED
  BY <1>1, <1>2 DEF Written

(* Nothing has been answered before the first frame.                       *)
LEMMA FlushInit == Init => FlushInv
<1> SUFFICES ASSUME Init PROVE FlushInv
  OBVIOUS
<1>1. Queued = {}
  BY EmptySeq DEF Init, Queued
<1>2. \A w \in Flushes : batch[w] = {}
  BY DEF Init
<1> QED
  BY <1>1, <1>2
  DEF Init, FlushInv, ResultsRecorded, PhasesInOrder, CallsInOrder, ReceivedWritten, Flushes

(* The events stay where they are.                                         *)
LEMMA HubKept ==
    ASSUME UNCHANGED hubVars
    PROVE  /\ Recorded' = Recorded /\ InCalls' = InCalls
           /\ InFlushes' = InFlushes /\ Written' = Written
BY DEF hubVars, Recorded, InCalls, InFlushes, Written

(* A step that records, writes and answers nothing, and stays in its phase. *)
LEMMA FlushOfRest ==
    ASSUME FlushInv, UNCHANGED <<kind, received, taskVars, queue, hubVars, phase, cut>>,
           arm' = arm \/ (arm = "select" /\ arm' # "flush" /\ phase = "serving"),
           arm' = "send" => \A f \in Frames : reply' # Result(f),
           writer = "ended" => writer' = "ended"
    PROVE  FlushInv'
<1>1. /\ Queued' = Queued /\ Recorded' = Recorded /\ InCalls' = InCalls
      /\ InFlushes' = InFlushes /\ Written' = Written
  BY HubKept DEF Queued
<1> QED
  BY <1>1
  DEF FlushInv, ResultsRecorded, PhasesInOrder, CallsInOrder, ReceivedWritten, taskVars, hubVars

(* The way out: the phases after serving, one after another.               *)
LEMMA FlushFinish == TypeInv /\ FlushInv /\ Finish => FlushInv'
<1> SUFFICES ASSUME TypeInv, FlushInv, Finish PROVE FlushInv'
  OBVIOUS
<1> USE DEF clientVars, taskVars
<1>1. /\ UNCHANGED <<kind, received, handler, answer, work, queue, arm, reply, writer>>
      /\ Queued' = Queued
  BY DEF Finish, Drained, DrainTimesOut, FinalFlush, ServeReturns, Exit, Queued
<1>2. Server \in Flushes /\ Server \notin Flushing /\ Flushing \subseteq Flushes
  BY ConstantsAssumption DEF Flushes
<1>3. ASSUME Recorded' = Recorded PROVE ResultsRecorded'
  BY <1>1, <1>3 DEF FlushInv, ResultsRecorded
<1>4. ASSUME UNCHANGED hubVars, phase' # "ended" \/ \A g \in Frames : work[g] \notin AtWork
      PROVE  CallsInOrder'
  BY <1>1, <1>4 DEF FlushInv, CallsInOrder, hubVars
<1>5. CASE Drained \/ DrainTimesOut
  <2>1. UNCHANGED hubVars /\ phase = "draining" /\ phase' = "flushing"
        /\ (writer = "ended" \/ cut')
    BY <1>5 DEF Drained, DrainTimesOut
  <2>2. PhasesInOrder' /\ ReceivedWritten'
    BY <1>1, <2>1 DEF FlushInv, PhasesInOrder, ReceivedWritten, hubVars
  <2> QED
    BY <1>3, <1>4, <2>1, <2>2, HubKept DEF FlushInv
<1>6. CASE FinalFlush
  <2>1. /\ Drains(Server) /\ UNCHANGED <<flushed, lost, cut>>
        /\ phase = "flushing" /\ phase' = "saving"
    BY <1>6 DEF FinalFlush
  <2>2. batch[Server] = {} /\ arm = "select"
    BY <2>1 DEF FlushInv, PhasesInOrder
  <2>3. /\ Recorded' = Recorded /\ Written' = Written /\ InFlushes' = InFlushes \cup pending
        /\ \A v \in Flushes : v # Server => batch'[v] = batch[v]
    BY <1>2, <2>1, <2>2, DrainKeeps
  <2>4. PhasesInOrder'
    BY <1>1, <2>1, <2>2 DEF FlushInv, PhasesInOrder
  <2>5. CallsInOrder'
    BY <1>1, <1>2, <2>1, <2>3 DEF FlushInv, CallsInOrder
  <2>6. ReceivedWritten'
    BY <1>1, <2>1, <2>3 DEF FlushInv, ResultsRecorded, Recorded, ReceivedWritten
  <2> QED
    BY <1>3, <2>3, <2>4, <2>5, <2>6 DEF FlushInv
<1>7. CASE ServeReturns
  <2>1. /\ Writes(Server) /\ UNCHANGED cut
        /\ phase = "saving" /\ phase' = "exiting"
    BY <1>7 DEF ServeReturns
  <2>2. /\ Recorded' = Recorded /\ InFlushes \cup Written = (InFlushes \cup Written)'
        /\ batch'[Server] = {} /\ \A v \in Flushes : v # Server => batch'[v] = batch[v]
    BY <1>2, <2>1, WriteKeeps
  <2>3. PhasesInOrder'
    BY <1>1, <2>1, <2>2 DEF FlushInv, PhasesInOrder
  <2>4. CallsInOrder'
    BY <1>1, <1>2, <2>1, <2>2 DEF FlushInv, CallsInOrder
  <2>5. InFlushes' = InCalls'
    BY <1>2, <2>2 DEF InFlushes, InCalls, Flushes
  <2>6. ReceivedWritten'
    BY <1>1, <2>1, <2>2, <2>5 DEF FlushInv, ReceivedWritten
  <2> QED
    BY <1>3, <2>2, <2>3, <2>4, <2>6 DEF FlushInv
<1>8. CASE Exit
  <2>1. /\ UNCHANGED hubVars /\ UNCHANGED cut /\ phase = "exiting" /\ phase' = "ended"
        /\ \A g \in Frames : work[g] \notin AtWork
    BY <1>8 DEF Exit
  <2>2. PhasesInOrder' /\ ReceivedWritten'
    BY <1>1, <2>1, HubKept DEF FlushInv, PhasesInOrder, ReceivedWritten, hubVars
  <2> QED
    BY <1>3, <1>4, <2>1, <2>2, HubKept DEF FlushInv
<1> QED
  BY <1>5, <1>6, <1>7, <1>8 DEF Finish

(* The loop keeps the order of recording, answering and flushing.          *)
LEMMA FlushLoop == TypeInv /\ OnceInv /\ FlushInv /\ Loop => FlushInv'
<1> SUFFICES ASSUME TypeInv, OnceInv, FlushInv, Loop PROVE FlushInv'
  OBVIOUS
<1> USE DEF clientVars, taskVars, hubVars
<1>1. CASE ReadFrame
  <2> DEFINE head == Head(inbox)
  <2>1. /\ UNCHANGED <<kind, received, queue, writer, hubVars, cut>>
        /\ phase = "serving" /\ arm = "select"
        /\ Queued' = Queued /\ Recorded' = Recorded
    BY <1>1, HubKept DEF ReadFrame, Selecting, Queued
  <2>2. phase' \in {"serving", "draining"} /\ (phase' = "draining" => arm' = "select")
    BY <1>1, <2>1 DEF ReadFrame
  <2>3. PhasesInOrder' /\ ReceivedWritten'
    <3>1. arm' \in {"select", "send"}
      BY <1>1, <2>1 DEF ReadFrame, Dispatch, Sending
    <3> QED
      BY <2>1, <2>2, <3>1 DEF FlushInv, PhasesInOrder, ReceivedWritten
  <2>4. \A g \in Frames :
           \/ handler'[g] = handler[g] /\ work'[g] = work[g]
           \/ g = head /\ handler'[g] = "waiting" /\ work'[g] = "running"
    <3>1. CASE UNCHANGED <<handler, work>>
      BY <3>1
    <3>2. CASE handler' = [handler EXCEPT ![head] = "waiting"] /\ work' = [work EXCEPT ![head] = "running"]
      <4> HIDE DEF head
      <4> QED
        BY <3>2 DEF TypeInv, TypeOK
    <3> QED
      BY <1>1, <3>1, <3>2 DEF ReadFrame, Dispatch, Sending
  <2>5. UNCHANGED answer /\ (arm' = "send" => reply'[2] \in {"error", "busy"})
    BY <1>1, <2>1 DEF ReadFrame, Dispatch, Sending, Sent
  <2>6. arm' = "send" => \A g \in Frames : reply' # Result(g)
    BY <2>5 DEF Result
  <2>7. ResultsRecorded'
    BY <2>1, <2>4, <2>5, <2>6 DEF FlushInv, ResultsRecorded
  <2>8. head \in Frames /\ handler[head] = "none"
    <3>1. inbox \in Seq(Frames) /\ inbox # <<>>
      BY <1>1 DEF TypeInv, TypeOK, ReadFrame
    <3>2. head \in Frames /\ head = inbox[1] /\ 1 \in 1 .. Len(inbox)
      BY <3>1, HeadTailProperties, EmptySeq, LenProperties
    <3> HIDE DEF head
    <3> QED
      BY <3>2 DEF OnceInv, InboxIsFresh, Unread, Fresh
  <2> HIDE DEF head
  <2>9. CallsInOrder'
    <3>1. \A g \in Flushing : work'[g] # "flushing" => work[g] # "flushing"
      BY <2>4, <2>8, ConstantsAssumption DEF FlushInv, CallsInOrder
    <3> QED
      BY <2>1, <2>2, <2>4, <3>1 DEF FlushInv, CallsInOrder
  <2> QED
    BY <2>3, <2>7, <2>9 DEF FlushInv
<1>2. CASE LoopSends
  <2>1. /\ UNCHANGED <<kind, received, handler, answer, work, hubVars, writer, cut>>
        /\ phase = "serving" /\ phase' \in {"serving", "draining"} /\ arm' = "select"
        /\ Recorded' = Recorded
    BY <1>2, HubKept DEF LoopSends, FlushInv, PhasesInOrder
  <2>2. \A f \in Frames : Result(f) \in Queued' => Result(f) \in Queued
    <3>1. CASE queue' = Append(queue, reply)
      <4>1. queue \in Seq(Replies) /\ reply \in Replies
        BY <1>2 DEF LoopSends, TypeInv
      <4>2. /\ Len(queue') = Len(queue) + 1 /\ Len(queue) \in Nat
            /\ \A i \in 1 .. Len(queue) : queue'[i] = queue[i]
            /\ queue'[Len(queue) + 1] = reply
        BY <3>1, <4>1, AppendProperties, LenProperties
      <4>3. \A x \in Queued' : x \in Queued \/ x = reply
        BY <4>2 DEF Queued
      <4> QED
        BY <1>2, <4>3 DEF LoopSends, FlushInv, ResultsRecorded
    <3>2. CASE UNCHANGED queue
      BY <3>2 DEF Queued
    <3> QED
      BY <1>2, <3>1, <3>2 DEF LoopSends
  <2>3. PhasesInOrder' /\ ReceivedWritten'
    BY <1>2, <2>1 DEF LoopSends, FlushInv, PhasesInOrder, ReceivedWritten
  <2>4. ResultsRecorded' /\ CallsInOrder'
    BY <2>1, <2>2 DEF FlushInv, ResultsRecorded, CallsInOrder
  <2> QED
    BY <2>3, <2>4 DEF FlushInv
<1>3. CASE TickBegins
  BY <1>3, FlushOfRest DEF TickBegins, Selecting
<1>4. CASE TickDrains \/ TickEnds
  <2>1. /\ UNCHANGED <<kind, received, handler, answer, work, queue, phase, writer, cut>>
        /\ phase = "serving" /\ arm' \in {"flush", "select"}
        /\ Queued' = Queued
    BY <1>4 DEF TickDrains, TickEnds, FlushInv, PhasesInOrder, Queued
  <2>2. Server \in Flushes /\ Server \notin Flushing /\ Flushing \subseteq Flushes
    BY ConstantsAssumption DEF Flushes
  <2>3. /\ Recorded' = Recorded /\ (arm' # "flush" => batch'[Server] = {})
        /\ \A v \in Flushes : v # Server => batch'[v] = batch[v]
    <3>1. CASE TickDrains
      BY <2>2, <3>1, DrainKeeps DEF TickDrains, FlushInv, PhasesInOrder
    <3>2. CASE TickEnds
      BY <2>2, <3>2, WriteKeeps DEF TickEnds
    <3> QED
      BY <1>4, <3>1, <3>2
  <2>4. PhasesInOrder' /\ ReceivedWritten'
    BY <2>1, <2>3 DEF FlushInv, PhasesInOrder, ReceivedWritten
  <2>5. ResultsRecorded' /\ CallsInOrder'
    BY <2>1, <2>2, <2>3 DEF FlushInv, ResultsRecorded, CallsInOrder
  <2> QED
    BY <2>4, <2>5 DEF FlushInv
<1>5. CASE StopServing
  <2>1. /\ UNCHANGED <<kind, received, taskVars, queue, hubVars, writer, cut, arm, reply>>
        /\ phase = "serving" /\ arm = "select" /\ phase' = "draining"
        /\ Queued' = Queued /\ Recorded' = Recorded
    BY <1>5, HubKept DEF StopServing, Selecting, Queued
  <2> QED
    BY <2>1 DEF FlushInv, ResultsRecorded, PhasesInOrder, CallsInOrder, ReceivedWritten
<1> QED
  BY <1>1, <1>2, <1>3, <1>4, <1>5 DEF Loop

(* The tasks and the writer.                                               *)
LEMMA FlushResponds ==
    ASSUME TypeInv, FlushInv, NEW f \in Frames, NEW a \in Answers, Respond(f, a),
           a = "result" => work[f] = "done",
           handler[f] = "waiting",
           UNCHANGED <<clientVars, loopVars, work, queue, writer, hubVars, cut>>
    PROVE  FlushInv'
<1> USE DEF clientVars, loopVars
<1>1. /\ Queued' = Queued /\ Recorded' = Recorded /\ InCalls' = InCalls
      /\ InFlushes' = InFlushes /\ Written' = Written /\ batch' = batch
  BY HubKept DEF Queued, hubVars
<1>2. \A g \in Frames : handler'[g] = "sending" /\ answer'[g] = "result" =>
          \/ handler[g] = "sending" /\ answer[g] = "result"
          \/ work[g] = "done" /\ kind[g] = "request"
  BY DEF Respond, TypeInv, TypeOK
<1>3. ResultsRecorded'
  BY <1>1, <1>2 DEF FlushInv, ResultsRecorded
<1>4. PhasesInOrder' /\ ReceivedWritten'
  BY <1>1 DEF FlushInv, PhasesInOrder, ReceivedWritten
<1>5. \A g \in Frames : handler'[g] = "none" => handler[g] = "none"
  BY DEF Respond, TypeInv, TypeOK
<1>6. CallsInOrder'
  BY <1>1, <1>5 DEF FlushInv, CallsInOrder
<1> QED
  BY <1>3, <1>4, <1>6 DEF FlushInv

(* What runs on the blocking pool: it records before it ends, and a call   *)
(* that flushes has written what it drained when it ends.                  *)
LEMMA FlushWork ==
    ASSUME TypeInv, FlushInv, NEW f \in Frames, Work(f)
    PROVE  FlushInv'
<1> USE DEF clientVars, loopVars
<1>1. /\ UNCHANGED <<kind, received, handler, answer, queue, phase, arm, reply, writer, cut>>
      /\ Queued' = Queued /\ phase # "ended"
  BY DEF Work, WorkEnds, WorkRecords, WorkDrains, WorkWrites, WorkStep, Queued
<1>2. /\ work[f] \in AtWork /\ handler[f] # "none"
      /\ \A g \in Frames : g # f => work'[g] = work[g]
  BY DEF Work, WorkEnds, WorkRecords, WorkDrains, WorkWrites, WorkStep, AtWork, TypeInv, TypeOK,
         FlushInv, CallsInOrder
<1>3. Server \in Flushes /\ Server \notin Frames /\ Flushing \subseteq Flushes
        /\ Flushing \subseteq Frames
  BY ConstantsAssumption DEF Flushes
<1>4. ASSUME Recorded \subseteq Recorded', kind[f] = "request" => f \in Recorded',
             InFlushes \cup Written \subseteq (InFlushes \cup Written)',
             InCalls \cup Written \subseteq (InCalls \cup Written)',
             \A v \in Flushes : v # f => batch'[v] = batch[v],
             f \in Flushing => batch'[f] = {} \/ work'[f] = "flushing"
      PROVE  FlushInv'
  <2>1. ResultsRecorded'
    BY <1>1, <1>2, <1>4 DEF FlushInv, ResultsRecorded
  <2>2. PhasesInOrder'
    BY <1>1, <1>3, <1>4 DEF FlushInv, PhasesInOrder
  <2>3. CallsInOrder'
    BY <1>1, <1>2, <1>3, <1>4 DEF FlushInv, CallsInOrder
  <2>4. ReceivedWritten'
    BY <1>1, <1>4 DEF FlushInv, ReceivedWritten
  <2> QED
    BY <2>1, <2>2, <2>3, <2>4 DEF FlushInv
<1>5. CASE WorkEnds(f) \/ WorkRecords(f)
  <2>1. /\ UNCHANGED <<batch, flushed, lost>> /\ work[f] = "running"
        /\ pending \subseteq pending' /\ (kind[f] = "request" => f \in pending')
    BY <1>5 DEF WorkEnds, WorkRecords, WorkStep
  <2>2. InFlushes' = InFlushes /\ InCalls' = InCalls /\ Written' = Written
    BY <2>1 DEF InFlushes, InCalls, Written
  <2>3. Recorded \subseteq Recorded' /\ (kind[f] = "request" => f \in Recorded')
    BY <2>1, <2>2 DEF Recorded
  <2>4. f \in Flushing => batch'[f] = {}
    BY <2>1 DEF FlushInv, CallsInOrder
  <2> QED
    BY <1>4, <2>1, <2>2, <2>3, <2>4
<1>6. CASE WorkDrains(f)
  <2>1. /\ Drains(f) /\ UNCHANGED <<flushed, lost>>
        /\ work[f] = "recorded" /\ work'[f] = "flushing"
    BY <1>6 DEF WorkDrains, WorkStep, TypeInv, TypeOK
  <2>2. f \in Flushing /\ batch[f] = {}
    BY <2>1 DEF TypeInv, FlushInv, CallsInOrder
  <2>3. /\ Recorded' = Recorded /\ Written' = Written
        /\ InFlushes' = InFlushes \cup pending /\ InCalls \subseteq InCalls'
        /\ \A v \in Flushes : v # f => batch'[v] = batch[v]
    BY <1>3, <2>1, <2>2, DrainKeeps
  <2>4. kind[f] = "request" => f \in Recorded
    BY <2>1 DEF FlushInv, ResultsRecorded
  <2> QED
    BY <1>4, <2>1, <2>3, <2>4
<1>7. CASE WorkWrites(f)
  <2>1. Writes(f) /\ work[f] = "flushing"
    BY <1>7 DEF WorkWrites, WorkStep
  <2>2. f \in Flushing
    BY <2>1 DEF TypeInv
  <2>3. /\ Recorded' = Recorded
        /\ InFlushes \cup Written = (InFlushes \cup Written)'
        /\ InCalls \cup Written \subseteq (InCalls \cup Written)'
        /\ batch'[f] = {} /\ \A v \in Flushes : v # f => batch'[v] = batch[v]
    BY <1>3, <2>1, <2>2, WriteKeeps
  <2>4. kind[f] = "request" => f \in Recorded
    BY <2>1 DEF FlushInv, ResultsRecorded
  <2> QED
    BY <1>4, <2>3, <2>4
<1> QED
  BY <1>5, <1>6, <1>7 DEF Work

(* So do the tasks.                                                        *)
LEMMA FlushTask ==
    ASSUME TypeInv, FlushInv, NEW f \in Frames, Task(f)
    PROVE  FlushInv'
<1> USE DEF clientVars, loopVars
<1>1. CASE Work(f)
  BY <1>1, FlushWork
<1>2. CASE WorkAwaited(f)
  BY <1>2, FlushResponds DEF WorkAwaited, Answers
<1>3. CASE TimesOut(f)
  BY <1>3, FlushResponds DEF TimesOut, Answers
<1>4. CASE HandlerSends(f)
  <2>1. /\ UNCHANGED <<kind, received, work, hubVars, phase, arm, reply, writer, cut>>
        /\ Recorded' = Recorded /\ InCalls' = InCalls
        /\ InFlushes' = InFlushes /\ Written' = Written
    BY <1>4, HubKept DEF HandlerSends
  <2>2. \A g \in Frames : handler'[g] = "sending" => handler[g] = "sending" /\ answer'[g] = answer[g]
    BY <1>4 DEF HandlerSends, TypeInv, TypeOK
  <2>3. \A g \in Frames : Result(g) \in Queued' => Result(g) \in Queued \/ g \in Recorded
    <3> DEFINE x == Sent(f, answer[f])
    <3>1. CASE queue' = Append(queue, x)
      <4>1. queue \in Seq(Replies) /\ x \in Replies
        BY <1>4 DEF HandlerSends, TypeInv, Sent, Replies
      <4>2. \A g \in Frames : x = Result(g) => g \in Recorded
        BY <1>4 DEF HandlerSends, FlushInv, ResultsRecorded, Result, Sent
      <4> HIDE DEF x
      <4>3. /\ Len(queue') = Len(queue) + 1 /\ Len(queue) \in Nat
            /\ \A i \in 1 .. Len(queue) : queue'[i] = queue[i]
            /\ queue'[Len(queue) + 1] = x
        BY <3>1, <4>1, AppendProperties, LenProperties
      <4>4. \A y \in Queued' : y \in Queued \/ y = x
        BY <4>3 DEF Queued
      <4> QED
        BY <4>2, <4>4
    <3>2. CASE UNCHANGED queue
      BY <3>2 DEF Queued
    <3> QED
      BY <1>4, <3>1, <3>2 DEF HandlerSends
  <2>4. ResultsRecorded'
    BY <2>1, <2>2, <2>3 DEF FlushInv, ResultsRecorded
  <2>5. PhasesInOrder' /\ ReceivedWritten'
    BY <2>1 DEF FlushInv, PhasesInOrder, ReceivedWritten, hubVars
  <2>6. \A g \in Frames : handler'[g] = "none" => handler[g] = "none"
    BY <1>4 DEF HandlerSends, TypeInv, TypeOK
  <2>7. CallsInOrder'
    BY <2>1, <2>6 DEF FlushInv, CallsInOrder, hubVars
  <2> QED
    BY <2>4, <2>5, <2>7 DEF FlushInv
<1> QED
  BY <1>1, <1>2, <1>3, <1>4 DEF Task, Handler

(* So does the writer, which ends before the last drain.                   *)
LEMMA FlushWriter == TypeInv /\ OnceInv /\ FlushInv /\ WriterWrites => FlushInv'
<1> SUFFICES ASSUME TypeInv, OnceInv, FlushInv, WriterWrites PROVE FlushInv'
  OBVIOUS
<1> USE DEF loopVars, taskVars
<1>1. /\ UNCHANGED <<kind, taskVars, loopVars, hubVars, cut>> /\ writer = "running"
      /\ queue # <<>> /\ phase \notin {"exiting", "ended"}
      /\ Recorded' = Recorded /\ InCalls' = InCalls
      /\ InFlushes' = InFlushes /\ Written' = Written
  BY HubKept DEF WriterWrites, Alive
<1>2. received' \cup Queued' \subseteq received \cup Queued
  <2>1. CASE client = "reads"
    <3>1. queue' = Tail(queue) /\ received' = received \cup {Head(queue)}
      BY <2>1 DEF WriterWrites
    <3>2. Queued = Queued' \cup {Head(queue)}
      BY <1>1, <3>1, QueueLoses DEF OnceInv, OnePlace
    <3> QED
      BY <3>1, <3>2
  <2>2. CASE client # "reads"
    <3>1. queue' = <<>> /\ received' = received
      BY <2>2 DEF WriterWrites
    <3>2. Queued' = {}
      BY <3>1, EmptySeq DEF Queued
    <3> QED
      BY <3>1, <3>2
  <2> QED
    BY <2>1, <2>2
<1>3. ResultsRecorded'
  BY <1>1, <1>2 DEF FlushInv, ResultsRecorded
<1>4. PhasesInOrder' /\ ReceivedWritten' /\ CallsInOrder'
  BY <1>1 DEF FlushInv, PhasesInOrder, ReceivedWritten, CallsInOrder, hubVars
<1> QED
  BY <1>3, <1>4 DEF FlushInv

(* Every step keeps that order.                                            *)
LEMMA FlushStep == TypeInv /\ OnceInv /\ FlushInv /\ [Next]_vars => FlushInv'
<1> SUFFICES ASSUME TypeInv, OnceInv, FlushInv, [Next]_vars PROVE FlushInv'
  OBVIOUS
<1> USE DEF clientVars, loopVars, taskVars, hubVars
<1>1. FlushInv => (arm = "send" => \A f \in Frames : reply # Result(f))
  BY DEF FlushInv, ResultsRecorded
<1>2. CASE Client
  BY <1>1, <1>2, FlushOfRest DEF Client, ClientSends, ClientCloses, ClientStalls, ClientLeaves, Signal
<1>3. CASE WriterEnds
  BY <1>1, <1>3, FlushOfRest DEF WriterEnds
<1>4. CASE UNCHANGED vars
  BY <1>1, <1>4, FlushOfRest DEF vars
<1> QED
  BY <1>2, <1>3, <1>4, FlushLoop, FlushFinish, FlushTask, FlushWriter DEF Next

(* Unless the drain of the queue was cut off, every result the client got  *)
(* has its events in the metrics when the process ends, on every way out   *)
(* of the loop, or they were dropped by a flush that could not have its    *)
(* lock; when serve returns, a call that flushes may still hold them, and  *)
(* the process waits for it. The writer has ended before the last batch is *)
(* drained, a result is answered only for work that recorded its events,   *)
(* and no flush takes a batch from another (server.rs, the drain and the   *)
(* final flush; mcp/gate.rs, the flush of a call; brainz/flush.rs).        *)
THEOREM ResultsAreFlushed == Spec => []AnsweredIsFlushed
<1>1. Spec => [](TypeInv /\ OnceInv /\ FlushInv)
  BY TypeInit, TypeStep, OnceInit, OnceStep, FlushInit, FlushStep, PTL DEF Spec
<1> QED
  BY <1>1, FlushImplies, PTL
=============================================================================
