------------------------------ MODULE Telemetry ------------------------------
(***************************************************************************)
(* The desktop telemetry runtime: the event bus, the dispatcher, the two   *)
(* workers behind it and the drain at shutdown.                            *)
(*                                                                         *)
(* All of it runs on one asyncio loop, in a thread of its own.  `ready' is *)
(* the loop's FIFO of callbacks; a callback runs until its coroutine       *)
(* suspends.  Queue.get and Queue.put suspend only on an empty or a full   *)
(* queue, and nothing else in the workers does, so the dispatcher keeps    *)
(* the loop until the bus is empty or a queue behind it is full.  Other    *)
(* threads only append callbacks (call_soon_threadsafe).                   *)
(***************************************************************************)
EXTENDS Naturals, Sequences, FiniteSets

CONSTANTS
  Events,       \* events the collectors may emit
  Kind,         \* "plain", "file" (file_ingestion) or "end" (session_end)
  Critical,     \* events of priority CRITICAL
  BusMax, IngestMax, SummaryMax,   \* maxsize of the three queues
  NoEvent

ASSUME TelemetryAssumption ==
  /\ Kind \in [Events -> {"plain", "file", "end"}]
  /\ Critical \subseteq Events /\ NoEvent \notin Events
  /\ {BusMax, IngestMax, SummaryMax} \subseteq Nat \ {0}

VARIABLES
  joinInTask,  \* asyncio.wait_for runs join() in a task (Python 3.11) or not (3.12)
  emitted,     \* events emitted, in order
  ready,       \* callbacks of the loop, each <<what, argument>>
  queue,       \* the contents of the three asyncio queues
  unfinished,  \* their counts of unfinished tasks
  putters,     \* put() tasks waiting for a slot of the bus
  suspended,   \* where each worker waits: "get", "put", or "no"
  hand,        \* the event the dispatcher stored and could not yet forward
  outcome,     \* what became of each event
  deferred,    \* critical events that found the bus full
  drain,       \* "off", "on", "stopped"
  joining,     \* the queue whose join() the drain awaits, "none" if none
  timedOut     \* the drain, or the thread that waits for it, gave up

vars == <<joinInTask, emitted, ready, queue, unfinished, putters, suspended, hand, outcome,
          deferred, drain, joining, timedOut>>

Queues == {"bus", "ingestion", "summary"}
Workers == {"dispatcher", "ingestion", "summary"}
QueueMax == [bus |-> BusMax, ingestion |-> IngestMax, summary |-> SummaryMax]

\* "stored": an EventRaw row; "ingested" and "summarised": what the worker
\* behind made of it; "failed": an exception ended the handling.
Outcomes == {"none", "accepted", "dropped", "stored", "ingested", "summarised", "failed"}

Callbacks == ({"enqueue", "put"} \X Events) \cup (Workers \X {NoEvent})
               \cup ({"drain"} \X (Queues \cup {"end"}))
               \cup ({"join", "joined", "released"} \X Queues)

TypeOK ==
  /\ joinInTask \in BOOLEAN
  /\ emitted \in Seq(Events) /\ ready \in Seq(Callbacks) /\ putters \in Seq(Events)
  /\ queue \in [Queues -> Seq(Events)] /\ \A q \in Queues : Len(queue[q]) <= QueueMax[q]
  /\ unfinished \in [Queues -> Nat]
  /\ suspended \in [Workers -> {"get", "put", "no"}]
  /\ hand \in Events \cup {NoEvent}
  /\ outcome \in [Events -> Outcomes] /\ deferred \subseteq Critical
  /\ drain \in {"off", "on", "stopped"} /\ joining \in Queues \cup {"none"}
  /\ timedOut \in BOOLEAN

Emitted == {emitted[i] : i \in 1 .. Len(emitted)}

Full(q) == Len(queue[q]) = QueueMax[q]

\* The worker that consumes a queue, and the queue it forwards an event to.
Consumer == [bus |-> "dispatcher", ingestion |-> "ingestion", summary |-> "summary"]
Behind(e) == CASE Kind[e] = "file" -> "ingestion" [] Kind[e] = "end" -> "summary" [] OTHER -> "none"

Running(what) == ready # <<>> /\ drain # "stopped" /\ Head(ready)[1] = what
Argument == Head(ready)[2]

\* An item put into a queue wakes the worker that waits in get().
Woken(q) == IF suspended[Consumer[q]] = "get" THEN <<<<Consumer[q], NoEvent>>>> ELSE <<>>
WakeConsumer(q) ==
  suspended' = [suspended EXCEPT ![Consumer[q]] = IF @ = "get" THEN "no" ELSE @]

\* The queue the drain turns to next.
After == [bus |-> "ingestion", ingestion |-> "summary", summary |-> "end"]

\* The last task_done wakes whoever waits in join(): the task wait_for made,
\* or the drain itself.
JoinerOf(q) == IF joinInTask THEN <<"joined", q>> ELSE <<"drain", After[q]>>
LastDone(q) == unfinished[q] = 1 /\ joining = q
Joined(q) == IF LastDone(q) THEN <<JoinerOf(q)>> ELSE <<>>

\* Mutation: no task_done.
TaskForgotten(q) == UNCHANGED <<unfinished, joining>>

TaskDone(q) ==
  /\ unfinished' = [unfinished EXCEPT ![q] = @ - 1]
  /\ joining' = IF LastDone(q) THEN "none" ELSE joining

-----------------------------------------------------------------------------
\* A collector or the window emits an event: TelemetryRuntime.enqueue.  The
\* thread that emits is the one that shuts down.
Emit(e) ==
  /\ drain = "off"
  /\ e \notin Emitted
  /\ emitted' = Append(emitted, e)
  /\ ready' = Append(ready, <<"enqueue", e>>)
  /\ UNCHANGED <<joinInTask, queue, unfinished, putters, suspended, hand, outcome, deferred, drain,
                 joining, timedOut>>

\* Mutation: the bus is a queue by priority.
PutCriticalFirst(e) ==
  /\ ~Full("bus")
  /\ queue' = [queue EXCEPT !["bus"] = IF e \in Critical THEN <<e>> \o @ ELSE Append(@, e)]
  /\ unfinished' = [unfinished EXCEPT !["bus"] = @ + 1]
  /\ outcome' = [outcome EXCEPT ![e] = "accepted"]
  /\ ready' = Tail(ready) \o Woken("bus")
  /\ WakeConsumer("bus")

PutOnBus(e) ==
  /\ ~Full("bus")
  /\ queue' = [queue EXCEPT !["bus"] = Append(@, e)]
  /\ unfinished' = [unfinished EXCEPT !["bus"] = @ + 1]
  /\ outcome' = [outcome EXCEPT ![e] = "accepted"]
  /\ ready' = Tail(ready) \o Woken("bus")
  /\ WakeConsumer("bus")

\* Mutation: the coroutine of put() is made and never scheduled.
EnqueueUnscheduled ==
  /\ Running("enqueue")
  /\ LET e == Argument IN
     \/ PutOnBus(e) /\ UNCHANGED deferred
     \/ /\ Full("bus")
        /\ ready' = Tail(ready)
        /\ outcome' = [outcome EXCEPT ![e] = IF e \in Critical THEN @ ELSE "dropped"]
        /\ UNCHANGED <<queue, unfinished, suspended, deferred>>
  /\ UNCHANGED <<joinInTask, emitted, putters, hand, drain, joining, timedOut>>

\* EventBus.enqueue: a critical event that finds the bus full gets a task of
\* its own, any other is dropped.
Enqueue ==
  /\ Running("enqueue")
  /\ LET e == Argument IN
     \/ PutOnBus(e) /\ UNCHANGED deferred
     \/ /\ Full("bus")
        /\ IF e \in Critical
           THEN /\ ready' = Append(Tail(ready), <<"put", e>>)
                /\ deferred' = deferred \cup {e}
                /\ UNCHANGED outcome
           ELSE /\ ready' = Tail(ready)
                /\ outcome' = [outcome EXCEPT ![e] = "dropped"]
                /\ UNCHANGED deferred
        /\ UNCHANGED <<queue, unfinished, suspended>>
  /\ UNCHANGED <<joinInTask, emitted, putters, hand, drain, joining, timedOut>>

\* The task of queue.put(event), new or woken by a get().
Put ==
  /\ Running("put")
  /\ \/ PutOnBus(Argument) /\ UNCHANGED putters
     \/ /\ Full("bus")
        /\ putters' = Append(putters, Argument)
        /\ ready' = Tail(ready)
        /\ UNCHANGED <<queue, unfinished, outcome, suspended>>
  /\ UNCHANGED <<joinInTask, emitted, hand, deferred, drain, joining, timedOut>>

-----------------------------------------------------------------------------
\* A worker that finds its queue empty suspends in get().
Idle(w, q) ==
  /\ Running(w) /\ queue[q] = <<>> /\ (w = "dispatcher" => hand = NoEvent)
  /\ ready' = Tail(ready)
  /\ suspended' = [suspended EXCEPT ![w] = "get"]
  /\ UNCHANGED <<joinInTask, emitted, queue, unfinished, putters, hand, outcome, deferred, drain,
                 joining, timedOut>>

DispatcherIdles == Idle("dispatcher", "bus")

\* get() wakes the first put() that waits for a slot of the bus.
WokenPut == IF putters = <<>> THEN <<>> ELSE <<<<"put", Head(putters)>>>>
PuttersLeft == IF putters = <<>> THEN <<>> ELSE Tail(putters)

\* TelemetryDispatcher: the event is stored, or an exception ends its handling;
\* then it is forwarded unless the queue behind is full.  The dispatcher keeps
\* the loop for the next event.
Dispatch ==
  /\ Running("dispatcher") /\ hand = NoEvent /\ queue["bus"] # <<>>
  /\ LET e == Head(queue["bus"])
         q == Behind(e)
         rest == [queue EXCEPT !["bus"] = Tail(@)] IN
     /\ putters' = PuttersLeft
     /\ \/ \* stored, and nothing to forward; or not stored
           /\ \/ q = "none" /\ outcome' = [outcome EXCEPT ![e] = "stored"]
              \/ outcome' = [outcome EXCEPT ![e] = "failed"]
           /\ queue' = rest
           /\ TaskDone("bus")
           /\ ready' = ready \o WokenPut \o Joined("bus")
           /\ UNCHANGED <<hand, suspended>>
        \/ \* stored and forwarded
           /\ q # "none" /\ ~Full(q)
           /\ outcome' = [outcome EXCEPT ![e] = "stored"]
           /\ queue' = [rest EXCEPT ![q] = Append(@, e)]
           /\ unfinished' = [unfinished EXCEPT !["bus"] = @ - 1, ![q] = @ + 1]
           /\ joining' = IF LastDone("bus") THEN "none" ELSE joining
           /\ ready' = ready \o WokenPut \o Woken(q) \o Joined("bus")
           /\ WakeConsumer(q)
           /\ UNCHANGED hand
        \/ \* stored, and the queue behind is full
           /\ q # "none" /\ Full(q)
           /\ outcome' = [outcome EXCEPT ![e] = "stored"]
           /\ queue' = rest /\ hand' = e
           /\ suspended' = [suspended EXCEPT !["dispatcher"] = "put"]
           /\ ready' = Tail(ready) \o WokenPut
           /\ UNCHANGED <<unfinished, joining>>
  /\ UNCHANGED <<joinInTask, emitted, deferred, drain, timedOut>>

\* The dispatcher got a slot of the queue behind.
Forward ==
  /\ Running("dispatcher") /\ hand # NoEvent
  /\ LET q == Behind(hand) IN
     /\ queue' = [queue EXCEPT ![q] = Append(@, hand)]
     /\ unfinished' = [unfinished EXCEPT !["bus"] = @ - 1, ![q] = @ + 1]
     /\ joining' = IF LastDone("bus") THEN "none" ELSE joining
     /\ ready' = ready \o Woken(q) \o Joined("bus")
     /\ WakeConsumer(q)
  /\ hand' = NoEvent
  /\ UNCHANGED <<joinInTask, emitted, putters, outcome, deferred, drain, timedOut>>

\* get() of a worker behind wakes the dispatcher that waits in put().
WaitsFor(q) == suspended["dispatcher"] = "put" /\ Behind(hand) = q
WokenDispatcher(q) == IF WaitsFor(q) THEN <<<<"dispatcher", NoEvent>>>> ELSE <<>>

\* Mutation: an exception ends the task of the worker.
WorkUncaught(w, results) ==
  /\ Running(w) /\ queue[w] # <<>>
  /\ \E result \in results :
       /\ outcome' = [outcome EXCEPT ![Head(queue[w])] = result]
       /\ ready' = (IF result = "failed" THEN Tail(ready) ELSE ready) \o WokenDispatcher(w) \o Joined(w)
  /\ queue' = [queue EXCEPT ![w] = Tail(@)]
  /\ TaskDone(w)
  /\ suspended' = [suspended EXCEPT !["dispatcher"] = IF WaitsFor(w) THEN "no" ELSE @]
  /\ UNCHANGED <<joinInTask, emitted, putters, hand, deferred, drain, timedOut>>

\* A worker behind handles an event with this result; an exception is logged.
Work(w, results) ==
  /\ Running(w) /\ queue[w] # <<>>
  /\ \E result \in results : outcome' = [outcome EXCEPT ![Head(queue[w])] = result]
  /\ queue' = [queue EXCEPT ![w] = Tail(@)]
  /\ TaskDone(w)
  /\ ready' = ready \o WokenDispatcher(w) \o Joined(w)
  /\ suspended' = [suspended EXCEPT !["dispatcher"] = IF WaitsFor(w) THEN "no" ELSE @]
  /\ UNCHANGED <<joinInTask, emitted, putters, hand, deferred, drain, timedOut>>

\* DocumentIngestionWorker.
Ingest == Work("ingestion", {"ingested", "failed"})
IngestionIdles == Idle("ingestion", "ingestion")

\* SessionSummaryWorker: the session has an EventRaw row, so its summary is not
\* empty; the embedding functions it then calls are not defined in the module,
\* and the NameError is logged like any exception.
Summarize == Work("summary", {"failed"})
SummaryIdles == Idle("summary", "summary")

-----------------------------------------------------------------------------
\* TelemetryRuntime.shutdown: _drain_and_stop is scheduled on the loop.
Shutdown ==
  /\ drain = "off"
  /\ drain' = "on"
  /\ ready' = Append(ready, <<"drain", "bus">>)
  /\ UNCHANGED <<joinInTask, emitted, queue, unfinished, putters, suspended, hand, outcome, deferred,
                 joining, timedOut>>

\* Mutation: files still being ingested are not waited for.
RemainingButIngestion(q) ==
  CASE q = "bus" -> {"bus", "summary"} [] q \in {"ingestion", "summary"} -> {"summary"} [] OTHER -> {}

\* The queues the drain has still to wait for when it turns to q.
Remaining(q) ==
  CASE q = "bus" -> Queues
    [] q = "ingestion" -> {"ingestion", "summary"}
    [] q = "summary" -> {"summary"}
    [] OTHER -> {}

\* Without a task of its own, join() of a finished queue does not suspend: the
\* drain passes over the finished ones.
FirstUnfinished(q) ==
  IF \A p \in Remaining(q) : unfinished[p] = 0 THEN "end"
  ELSE CHOOSE p \in Remaining(q) :
         unfinished[p] > 0 /\ \A o \in Remaining(q) \ Remaining(p) : unfinished[o] = 0

\* The three joins are over: the workers are cancelled wherever they wait, and
\* what the queues still hold is given up with the loop.
StopWorkers ==
  /\ drain' = "stopped"
  /\ UNCHANGED <<ready, joining>>

\* _drain_and_stop turns to queue q, or to the workers after the last one.
DrainStep ==
  /\ Running("drain")
  /\ LET q == Argument IN
     \/ q = "end" /\ StopWorkers
     \/ /\ q # "end" /\ joinInTask
        /\ ready' = Append(Tail(ready), <<"join", q>>)
        /\ UNCHANGED <<drain, joining>>
     \/ /\ q # "end" /\ ~joinInTask
        /\ LET first == FirstUnfinished(q) IN
           IF first = "end" THEN StopWorkers
           ELSE /\ ready' = Tail(ready)
                /\ joining' = first
                /\ UNCHANGED drain
  /\ UNCHANGED <<joinInTask, emitted, queue, unfinished, putters, suspended, hand, outcome, deferred,
                 timedOut>>

\* The task of join(): it starts, and waits unless the queue is finished; its
\* end is a callback of its own before the drain goes on.
JoinStep ==
  /\ \/ /\ Running("join")
        /\ IF unfinished[Argument] = 0
           THEN ready' = Append(Tail(ready), <<"released", Argument>>) /\ UNCHANGED joining
           ELSE ready' = Tail(ready) /\ joining' = Argument
     \/ /\ Running("joined")
        /\ ready' = Append(Tail(ready), <<"released", Argument>>)
        /\ UNCHANGED joining
     \/ /\ Running("released")
        /\ ready' = Append(Tail(ready), <<"drain", After[Argument]>>)
        /\ UNCHANGED joining
  /\ UNCHANGED <<joinInTask, emitted, queue, unfinished, putters, suspended, hand, outcome, deferred,
                 drain, timedOut>>

\* The timer of wait_for expires before the queue is finished.
JoinTimesOut ==
  /\ drain = "on" /\ joining # "none"
  /\ ready' = Append(ready, <<"drain", After[joining]>>)
  /\ joining' = "none" /\ timedOut' = TRUE
  /\ UNCHANGED <<joinInTask, emitted, queue, unfinished, putters, suspended, hand, outcome, deferred, drain>>

\* future.result(timeout=10) expires: the loop is stopped under the drain.
LoopStops ==
  /\ drain = "on"
  /\ drain' = "stopped" /\ timedOut' = TRUE
  /\ UNCHANGED <<joinInTask, emitted, ready, queue, unfinished, putters, suspended, hand, outcome,
                 deferred, joining>>

\* The thread has ended.
Ended == drain = "stopped" /\ UNCHANGED vars

-----------------------------------------------------------------------------
\* _run_runtime_loop: queues are empty, the tasks of the workers are created.
Init ==
  /\ joinInTask \in BOOLEAN
  /\ emitted = <<>> /\ putters = <<>> /\ deferred = {}
  /\ ready = <<<<"dispatcher", NoEvent>>, <<"ingestion", NoEvent>>, <<"summary", NoEvent>>>>
  /\ queue = [q \in Queues |-> <<>>]
  /\ unfinished = [q \in Queues |-> 0]
  /\ suspended = [w \in Workers |-> "no"]
  /\ hand = NoEvent
  /\ outcome = [e \in Events |-> "none"]
  /\ drain = "off" /\ joining = "none" /\ timedOut = FALSE

LoopStep ==
  \/ Enqueue \/ Put
  \/ DispatcherIdles \/ Dispatch \/ Forward
  \/ Ingest \/ IngestionIdles \/ Summarize \/ SummaryIdles
  \/ DrainStep \/ JoinStep

Next ==
  \/ \E e \in Events : Emit(e)
  \/ LoopStep
  \/ Shutdown \/ JoinTimesOut \/ LoopStops
  \/ Ended

Spec == Init /\ [][Next]_vars

\* The thread of the loop runs; nothing is assumed of the user or of timers.
FairSpec == Spec /\ WF_vars(LoopStep)

-----------------------------------------------------------------------------
\* join() counts exactly the events a queue holds and the one the dispatcher
\* has taken and not forwarded: a missing task_done would make every shutdown
\* wait for its timeout, one too many would end the drain early.
JoinCountsMatch ==
  drain # "stopped" =>
    \A q \in Queues :
      unfinished[q] = Len(queue[q]) + (IF q = "bus" /\ hand # NoEvent THEN 1 ELSE 0)

\* No wakeup is lost: a worker waits only for a queue in the state it waits
\* for, a worker that does not wait is scheduled once, and events wait for a
\* slot of the bus only while it is full or a woken one is about to run.
NoLostWakeup ==
  drain # "stopped" =>
    /\ \A q \in Queues : suspended[Consumer[q]] = "get" => queue[q] = <<>>
    /\ suspended["dispatcher"] = "put" => Full(Behind(hand))
    /\ \A w \in Workers :
         Cardinality({i \in 1 .. Len(ready) : ready[i][1] = w}) = IF suspended[w] = "no" THEN 1 ELSE 0
    /\ putters # <<>> =>
         Full("bus") \/ \E i \in 1 .. Len(ready) : ready[i][1] = "put"

\* What is left to do with an event.
Unsettled(e) ==
  outcome[e] \in {"none", "accepted"} \/ (outcome[e] = "stored" /\ Behind(e) # "none")

\* docs/architecture/openclaw_parity...: the manager handles "queue drain": a
\* drain that did not time out leaves no event of the bus, nor of the queues
\* behind it, unhandled.
AcceptedDrained ==
  drain = "stopped" /\ ~timedOut => \A e \in Emitted \ deferred : ~Unsettled(e)

\* The same with the critical events that EventBus says it schedules.
CriticalDrained ==
  drain = "stopped" /\ ~timedOut => \A e \in Emitted : ~Unsettled(e)

\* The summary of a session is built from EventRaw rows: when the worker takes
\* a session's last event, every event emitted before it that was not itself
\* deferred has been through the dispatcher.
SummarySeesEarlier ==
  \A i, j \in 1 .. Len(emitted) :
    /\ i < j /\ emitted[i] \notin deferred
    /\ queue["summary"] # <<>> /\ Head(queue["summary"]) = emitted[j]
    => outcome[emitted[i]] \notin {"none", "accepted"}

\* Every event emitted while the loop runs is handled or dropped in the end,
\* also one that waited for a slot of a full bus.
EventsSettled == \A e \in Events : e \in Emitted ~> ~Unsettled(e) \/ drain = "stopped"

\* docs/architecture/openclaw_parity...: "Session summary -> derived memory".
SessionsRemembered ==
  \A e \in Events :
    (Kind[e] = "end" /\ outcome[e] = "stored" /\ drain = "off")
      ~> (outcome[e] = "summarised" \/ drain # "off")
=============================================================================
