----------------------------- MODULE EventProofs ------------------------------
(***************************************************************************)
(* Proofs about what becomes of events: the telemetry runtime takes them   *)
(* through its queues (Telemetry), for any events and any queue lengths,   *)
(* and the intelligence feed makes them cards (Feed), for any users,       *)
(* references, tags and bounds.                                            *)
(***************************************************************************)
EXTENDS Telemetry, Feed, SequenceTheorems, FunctionTheorems, FiniteSetTheorems, WellFoundedInduction, TLAPS

-----------------------------------------------------------------------------
(* The telemetry runtime.                                                  *)

\* How many callbacks of this name the loop has to run.
Scheduled(s, what) == Cardinality({i \in 1..Len(s) : s[i][1] = what})

\* The event at hand goes to a queue that exists, and while the dispatcher waits for
\* a slot nobody else takes it.
HandInv ==
  /\ hand # NoEvent => Behind(hand) \in Queues
  /\ suspended["dispatcher"] = "put" => hand # NoEvent
  /\ hand # NoEvent /\ suspended["dispatcher"] # "put" => Len(queue[Behind(hand)]) < QueueMax[Behind(hand)]
  /\ \A w \in {"ingestion", "summary"} : suspended[w] # "put"

Counts ==
  \A q \in Queues :
    unfinished[q] = Len(queue[q]) + (IF q = "bus" /\ hand # NoEvent THEN 1 ELSE 0)

\* As many puts are about to run as the bus has slots, while puts wait for one.
Wakeups ==
  /\ \A q \in Queues : suspended[Consumer[q]] = "get" => queue[q] = <<>>
  /\ suspended["dispatcher"] = "put" => Full(Behind(hand))
  /\ \A w \in Workers : Scheduled(ready, w) = IF suspended[w] = "no" THEN 1 ELSE 0
  /\ putters # <<>> => BusMax <= Len(queue["bus"]) + Scheduled(ready, "put")

LoopInv == TypeOK /\ HandInv /\ Counts /\ Wakeups

Has(s, x) == \E r \in 1..Len(s) : s[r] = x
Pending(e) == Has(ready, <<"enqueue", e>>)
In(e, q) == Has(queue[q], e)
Behinds == {"ingestion", "summary"}
EmittedBefore(a, b) == \E i, j \in 1..Len(emitted) : i < j /\ emitted[i] = a /\ emitted[j] = b

\* Events are emitted once.
EmittedOnce ==
  /\ \A i, j \in 1..Len(emitted) : emitted[i] = emitted[j] => i = j
  /\ \A e \in Events : outcome[e] # "none" \/ e \in deferred \/ Pending(e) => e \in Emitted

\* Where an event is.
Located ==
  /\ \A e \in Events : outcome[e] = "none" /\ e \in Emitted /\ e \notin deferred => Pending(e)
  /\ \A e \in Events : Pending(e) => outcome[e] = "none" /\ e \notin deferred
  /\ \A e \in Events : outcome[e] = "accepted" => In(e, "bus")
  /\ \A e \in Events : outcome[e] = "stored" /\ Behind(e) # "none" => hand = e \/ In(e, Behind(e))
  /\ \A e \in Events : hand = e \/ (\E q \in Queues : In(e, q)) => outcome[e] # "none"
  /\ \A e \in Events : Has(ready, <<"put", e>>) \/ Has(putters, e) => e \in deferred

\* Events that were not deferred come to the bus and leave it in the order of emission.
CallbacksInOrder ==
  \A p, r \in 1..Len(ready) :
    p < r /\ ready[p][1] = "enqueue" /\ ready[r][1] = "enqueue" => EmittedBefore(ready[p][2], ready[r][2])
PendingFirst ==
  \A x, y \in Events : Pending(x) /\ EmittedBefore(x, y) => outcome[y] = "none" /\ y \notin deferred
BusInOrder ==
  \A p, r \in 1..Len(queue["bus"]) :
    p < r /\ queue["bus"][r] \notin deferred => ~EmittedBefore(queue["bus"][r], queue["bus"][p])
BehindLater ==
  \A x, y \in Events :
    x \notin deferred /\ EmittedBefore(x, y) /\ (hand = y \/ \E q \in Behinds : In(y, q))
      => outcome[x] \notin {"none", "accepted"}

OrderInv == EmittedOnce /\ Located /\ CallbacksInOrder /\ PendingFirst /\ BusInOrder /\ BehindLater

\* No event that was not deferred is on its way to the end of these queues.
Gone(e, q) == IF q = "bus" THEN ~Pending(e) /\ ~In(e, "bus") /\ hand # e ELSE ~In(e, q)
Drained(qs) == \A e \in Emitted \ deferred : \A q \in qs : Gone(e, q)

\* The callbacks of the drain, and the queues that are finished when one runs.
Tokens == {"drain", "join", "joined", "released"}
NoEnqueue(t) == \A r \in 1..Len(t) : t[r][1] # "enqueue"
Passed(q) == Queues \ Remaining(q)
Reached(c) == IF c[1] \in {"drain", "join"} THEN c[2] ELSE After[c[2]]

\* The drain runs behind all that was emitted, and each queue it has passed is drained.
DrainOff == drain = "off" => joining = "none" /\ \A c \in Callbacks : c[1] \in Tokens => ~Has(ready, c)
TokensLast == \A p, r \in 1..Len(ready) : ready[p][1] = "enqueue" /\ ready[r][1] \in Tokens => p < r
JoinsAfter == joining # "none" => NoEnqueue(ready)
PassedDrained ==
  ~timedOut => /\ \A c \in Callbacks : c[1] \in Tokens /\ Has(ready, c) => Drained(Passed(Reached(c)))
               /\ joining # "none" => Drained(Passed(joining))
               /\ drain = "stopped" => Drained(Queues)

DrainInv == DrainOff /\ TokensLast /\ JoinsAfter /\ PassedDrained

-----------------------------------------------------------------------------
(* Counting callbacks.                                                     *)

LEMMA ScheduledFinite ==
  ASSUME NEW s, Len(s) \in Nat, NEW what
  PROVE  IsFiniteSet({i \in 1..Len(s) : s[i][1] = what}) /\ Scheduled(s, what) \in Nat
<1>1. IsFiniteSet(1..Len(s)) BY FS_Interval
<1>2. {i \in 1..Len(s) : s[i][1] = what} \in SUBSET (1..Len(s)) OBVIOUS
<1> QED BY <1>1, <1>2, FS_Subset, FS_CardinalityType DEF Scheduled

LEMMA ScheduledConcat ==
  ASSUME NEW S, NEW s \in Seq(S), NEW t \in Seq(S), NEW what
  PROVE  Scheduled(s \o t, what) = Scheduled(s, what) + Scheduled(t, what)
<1> DEFINE n == Len(s)
           A == {i \in 1..n : s[i][1] = what}
           B == {i \in 1..Len(t) : t[i][1] = what}
           C == {i \in (n + 1)..(n + Len(t)) : t[i - n][1] = what}
           U == {i \in 1..Len(s \o t) : (s \o t)[i][1] = what}
<1>1. n \in Nat /\ Len(t) \in Nat /\ Len(s \o t) = n + Len(t)
      /\ \A i \in 1..(n + Len(t)) : (s \o t)[i] = IF i <= n THEN s[i] ELSE t[i - n]
  BY ConcatProperties, LenProperties
<1>2. U = A \cup C BY <1>1
<1>3. (A \cap C) = {} BY <1>1
<1>4. IsFiniteSet(A) /\ IsFiniteSet(B) BY <1>1, ScheduledFinite
<1>5. ExistsBijection(B, C)
  <2> DEFINE f == [i \in B |-> i + n]
  <2>1. f \in [B -> C] BY <1>1
  <2>2. \A a, b \in B : f[a] = f[b] => a = b BY <1>1
  <2>3. \A c \in C : \E b \in B : f[b] = c
    <3> TAKE c \in C
    <3>1. c - n \in B /\ f[c - n] = c BY <1>1
    <3> QED BY <3>1
  <2> HIDE DEF f, B, C
  <2>4. f \in Bijection(B, C) BY <2>1, <2>2, <2>3, Fun_IsBij
  <2> QED BY <2>4, Fun_ExistsBij
<1>6. Scheduled(s, what) = Cardinality(A) /\ Scheduled(t, what) = Cardinality(B)
       /\ Scheduled(s \o t, what) = Cardinality(U)
  BY DEF Scheduled
<1> HIDE DEF A, B, C, U
<1>7. IsFiniteSet(C) /\ Cardinality(C) = Cardinality(B) BY <1>4, <1>5, FS_Bijection
<1>8. Cardinality(U) = Cardinality(A) + Cardinality(C) - Cardinality({})
  BY <1>2, <1>3, <1>4, <1>7, FS_Union
<1>9. Cardinality({}) = 0 BY FS_EmptySet
<1>10. Cardinality(A) \in Nat /\ Cardinality(B) \in Nat BY <1>4, FS_CardinalityType
<1> QED BY <1>7, <1>8, <1>9, <1>10, <1>6

LEMMA ScheduledOne ==
  ASSUME NEW c, NEW what
  PROVE  Scheduled(<<c>>, what) = IF c[1] = what THEN 1 ELSE 0
<1>1. CASE c[1] = what
  <2>1. {i \in 1..Len(<<c>>) : <<c>>[i][1] = what} = {1} BY <1>1
  <2> QED BY <1>1, <2>1, FS_Singleton DEF Scheduled
<1>2. CASE c[1] # what
  <2>1. {i \in 1..Len(<<c>>) : <<c>>[i][1] = what} = {} BY <1>2
  <2> QED BY <1>2, <2>1, FS_EmptySet DEF Scheduled
<1> QED BY <1>1, <1>2

LEMMA ScheduledNone ==
  ASSUME NEW what
  PROVE  Scheduled(<<>>, what) = 0
<1>1. {i \in 1..Len(<<>>) : <<>>[i][1] = what} = {} OBVIOUS
<1> QED BY <1>1, FS_EmptySet DEF Scheduled

LEMMA HeadAndTail ==
  ASSUME NEW S, NEW s \in Seq(S), s # <<>>
  PROVE  s = <<Head(s)>> \o Tail(s) /\ Tail(s) \in Seq(S) /\ <<Head(s)>> \in Seq(S)
OBVIOUS

LEMMA ScheduledTail ==
  ASSUME NEW S, NEW s \in Seq(S), s # <<>>, NEW what
  PROVE  Scheduled(Tail(s), what) = Scheduled(s, what) - (IF Head(s)[1] = what THEN 1 ELSE 0)
<1>1. Scheduled(<<Head(s)>> \o Tail(s), what) = Scheduled(<<Head(s)>>, what) + Scheduled(Tail(s), what)
  <2>1. <<Head(s)>> \in Seq(S) /\ Tail(s) \in Seq(S) BY HeadAndTail
  <2> QED BY <2>1, ScheduledConcat
<1>2. Scheduled(s, what) = Scheduled(<<Head(s)>>, what) + Scheduled(Tail(s), what) BY <1>1, HeadAndTail
<1>3. Len(Tail(s)) \in Nat BY HeadAndTail, LenProperties
<1>4. Scheduled(Tail(s), what) \in Nat BY <1>3, ScheduledFinite
<1> QED BY <1>2, <1>4, ScheduledOne


-----------------------------------------------------------------------------
(* The loop.                                                               *)

LEMMA Names ==
  /\ Consumer["bus"] = "dispatcher" /\ Consumer["ingestion"] = "ingestion" /\ Consumer["summary"] = "summary"
  /\ QueueMax["bus"] = BusMax /\ QueueMax["ingestion"] = IngestMax /\ QueueMax["summary"] = SummaryMax
  /\ \A q \in Queues : QueueMax[q] \in Nat \ {0} /\ Consumer[q] \in Workers
  /\ After["bus"] = "ingestion" /\ After["ingestion"] = "summary" /\ After["summary"] = "end"
  /\ \A q \in Queues : After[q] \in Queues \cup {"end"}
  /\ \A e \in Events : Behind(e) \in Behinds \cup {"none"}
<1>1. /\ Consumer["bus"] = "dispatcher" /\ Consumer["ingestion"] = "ingestion" /\ Consumer["summary"] = "summary"
      /\ QueueMax["bus"] = BusMax /\ QueueMax["ingestion"] = IngestMax /\ QueueMax["summary"] = SummaryMax
      /\ After["bus"] = "ingestion" /\ After["ingestion"] = "summary" /\ After["summary"] = "end"
  BY DEF Consumer, QueueMax, After
<1>2. {BusMax, IngestMax, SummaryMax} \subseteq Nat \ {0} BY TelemetryAssumption DEF TelemetryAssumption
<1>3. \A e \in Events : Behind(e) \in Behinds \cup {"none"} BY DEF Behind, Behinds
<1> QED BY <1>1, <1>2, <1>3 DEF Queues, Workers

LEMMA CallbackTypes ==
  /\ \A w \in Workers : <<w, NoEvent>> \in Callbacks
  /\ \A e \in Events : <<"put", e>> \in Callbacks /\ <<"enqueue", e>> \in Callbacks
  /\ \A k \in Tokens, q \in Queues : <<k, q>> \in Callbacks
  /\ <<"drain", "end">> \in Callbacks
BY DEF Callbacks, Tokens

LEMMA Appended ==
  \A r, s, t \in Seq(Callbacks) : (r \o s) \o t = r \o (s \o t)
<1> TAKE r, s, t \in Seq(Callbacks)
<1> QED BY ConcatAssociative

\* A worker is woken once, by what it waits for.
LEMMA WokenTyped ==
  ASSUME NEW q \in Queues
  PROVE  /\ Woken(q) \in Seq(Callbacks)
         /\ \A what : Scheduled(Woken(q), what) =
                        IF suspended[Consumer[q]] = "get" /\ what = Consumer[q] THEN 1 ELSE 0
<1>1. Consumer[q] \in Workers BY Names
<1>2. CASE suspended[Consumer[q]] = "get"
  <2>1. Woken(q) = <<<<Consumer[q], NoEvent>>>> BY <1>2 DEF Woken
  <2> QED BY <1>1, <1>2, <2>1, CallbackTypes, ScheduledOne
<1>3. CASE suspended[Consumer[q]] # "get"
  <2>1. Woken(q) = <<>> BY <1>3 DEF Woken
  <2> QED BY <1>3, <2>1, ScheduledNone
<1> QED BY <1>2, <1>3

LEMMA JoinedTyped ==
  ASSUME NEW q \in Queues
  PROVE  /\ Joined(q) \in Seq(Callbacks)
         /\ \A what \in Workers \cup {"put", "enqueue"} : Scheduled(Joined(q), what) = 0
<1>1. JoinerOf(q) \in Callbacks /\ JoinerOf(q)[1] \in Tokens BY Names, CallbackTypes DEF JoinerOf, Tokens
<1>2. \A what \in Workers \cup {"put", "enqueue"} : what \notin Tokens BY DEF Workers, Tokens
<1>3. CASE LastDone(q)
  <2>1. Joined(q) = <<JoinerOf(q)>> BY <1>3 DEF Joined
  <2> QED BY <1>1, <1>2, <2>1, ScheduledOne
<1>4. CASE ~LastDone(q)
  <2>1. Joined(q) = <<>> BY <1>4 DEF Joined
  <2> QED BY <2>1, ScheduledNone
<1> QED BY <1>3, <1>4

LEMMA WokenPutTyped ==
  ASSUME putters \in Seq(Events)
  PROVE  /\ WokenPut \in Seq(Callbacks) /\ PuttersLeft \in Seq(Events)
         /\ \A what : Scheduled(WokenPut, what) = IF putters # <<>> /\ what = "put" THEN 1 ELSE 0
<1>1. CASE putters = <<>>
  <2>1. WokenPut = <<>> /\ PuttersLeft = <<>> BY <1>1 DEF WokenPut, PuttersLeft
  <2> QED BY <1>1, <2>1, ScheduledNone
<1>2. CASE putters # <<>>
  <2>1. WokenPut = <<<<"put", Head(putters)>>>> /\ PuttersLeft = Tail(putters) BY <1>2 DEF WokenPut, PuttersLeft
  <2>2. Head(putters) \in Events /\ Tail(putters) \in Seq(Events) BY <1>2, HeadTailProperties
  <2>3. PICK c \in Callbacks : c = <<"put", Head(putters)>> BY <2>2, CallbackTypes
  <2>4. c[1] = "put" /\ WokenPut = <<c>> BY <2>1, <2>3
  <2> QED BY <1>2, <2>1, <2>2, <2>4, ScheduledOne
<1> QED BY <1>1, <1>2

LEMMA WokenDispatcherTyped ==
  ASSUME NEW q \in Queues
  PROVE  /\ WokenDispatcher(q) \in Seq(Callbacks)
         /\ \A what : Scheduled(WokenDispatcher(q), what) =
                        IF WaitsFor(q) /\ what = "dispatcher" THEN 1 ELSE 0
<1>1. "dispatcher" \in Workers BY DEF Workers
<1>2. CASE WaitsFor(q)
  <2>1. WokenDispatcher(q) = <<<<"dispatcher", NoEvent>>>> BY <1>2 DEF WokenDispatcher
  <2> QED BY <1>1, <1>2, <2>1, CallbackTypes, ScheduledOne
<1>3. CASE ~WaitsFor(q)
  <2>1. WokenDispatcher(q) = <<>> BY <1>3 DEF WokenDispatcher
  <2> QED BY <1>3, <2>1, ScheduledNone
<1> QED BY <1>2, <1>3

LEMMA InitLoopInv == Init => LoopInv
<1> SUFFICES ASSUME Init PROVE LoopInv OBVIOUS
<1>1. <<"dispatcher", NoEvent>> \in Callbacks /\ <<"ingestion", NoEvent>> \in Callbacks
      /\ <<"summary", NoEvent>> \in Callbacks
  BY CallbackTypes DEF Workers
<1>2. ready \in Seq(Callbacks) BY <1>1 DEF Init
<1>3. TypeOK
  <2>1. queue \in [Queues -> Seq(Events)] /\ \A q \in Queues : Len(queue[q]) <= QueueMax[q]
    BY EmptySeq, Names DEF Init
  <2>2. /\ emitted \in Seq(Events) /\ putters \in Seq(Events) /\ deferred \subseteq Critical
        /\ unfinished \in [Queues -> Nat] /\ suspended \in [Workers -> {"get", "put", "no"}]
        /\ outcome \in [Events -> Outcomes]
    BY EmptySeq DEF Init, Outcomes
  <2> QED BY <1>2, <2>1, <2>2 DEF Init, TypeOK
<1>4. HandInv BY DEF Init, HandInv, Workers
<1>5. Counts BY EmptySeq DEF Init, Counts
<1>6. Wakeups
  <2>1. \A w \in Workers : Scheduled(ready, w) = 1
    <3> TAKE w \in Workers
    <3>1. {i \in 1..Len(ready) : ready[i][1] = w} =
            {IF w = "dispatcher" THEN 1 ELSE IF w = "ingestion" THEN 2 ELSE 3}
      BY DEF Init, Workers
    <3> QED BY <3>1, FS_Singleton DEF Scheduled
  <2> QED BY <2>1 DEF Init, Wakeups, Workers, Queues, Consumer
<1> QED BY <1>3, <1>4, <1>5, <1>6 DEF LoopInv


LEMMA LoopTyped ==
  ASSUME LoopInv
  PROVE  /\ ready \in Seq(Callbacks) /\ putters \in Seq(Events) /\ queue \in [Queues -> Seq(Events)]
         /\ \A q \in Queues : Len(queue[q]) \in Nat /\ queue[q] \in Seq(Events)
         /\ unfinished \in [Queues -> Nat] /\ suspended \in [Workers -> {"get", "put", "no"}]
         /\ \A what : Scheduled(ready, what) \in Nat
<1>1. Len(ready) \in Nat BY LenProperties DEF LoopInv, TypeOK
<1> QED BY <1>1, LenProperties, ScheduledFinite DEF LoopInv, TypeOK

\* Only callbacks come and go that are neither a worker nor, unless one comes, a put.
LEMMA LoopGoesOn ==
  ASSUME LoopInv, UNCHANGED <<joinInTask, queue, unfinished, suspended, hand, putters>>,
         ready' \in Seq(Callbacks),
         \A w \in Workers : Scheduled(ready', w) = Scheduled(ready, w),
         Scheduled(ready', "put") >= Scheduled(ready, "put"),
         Scheduled(ready', "put") \in Nat,
         emitted' \in Seq(Events), outcome' \in [Events -> Outcomes], deferred' \subseteq Critical,
         drain' \in {"off", "on", "stopped"}, joining' \in Queues \cup {"none"}, timedOut' \in BOOLEAN
  PROVE  LoopInv'
<1>1. TypeOK' BY DEF LoopInv, TypeOK
<1>2. HandInv' BY DEF LoopInv, HandInv
<1>3. Counts' BY DEF LoopInv, Counts
<1>4. Wakeups'
  <2>1. /\ \A q \in Queues : suspended[Consumer[q]] = "get" => queue[q] = <<>>
        /\ suspended["dispatcher"] = "put" => Full(Behind(hand))'
        /\ \A w \in Workers : Scheduled(ready', w) = IF suspended[w] = "no" THEN 1 ELSE 0
    BY DEF LoopInv, Wakeups, Full
  <2>2. putters # <<>> => BusMax <= Len(queue["bus"]) + Scheduled(ready', "put")
    <3>1. putters # <<>> => BusMax <= Len(queue["bus"]) + Scheduled(ready, "put") BY DEF LoopInv, Wakeups
    <3>2. BusMax \in Nat /\ Len(queue["bus"]) \in Nat /\ Scheduled(ready, "put") \in Nat
      BY Names, LoopTyped DEF Queues
    <3> QED BY <3>1, <3>2
  <2> QED BY <2>1, <2>2 DEF Wakeups
<1> QED BY <1>1, <1>2, <1>3, <1>4 DEF LoopInv

\* A callback runs, and others are appended.
LEMMA RunAndAppend ==
  ASSUME ready \in Seq(Callbacks), ready # <<>>, NEW t \in Seq(Callbacks)
  PROVE  /\ Tail(ready) \o t \in Seq(Callbacks)
         /\ \A what : /\ Scheduled(Tail(ready) \o t, what) \in Nat
                      /\ Scheduled(Tail(ready) \o t, what) =
                           Scheduled(ready, what) - (IF Head(ready)[1] = what THEN 1 ELSE 0) + Scheduled(t, what)
<1>1. Tail(ready) \in Seq(Callbacks) BY HeadTailProperties
<1>2. Tail(ready) \o t \in Seq(Callbacks) /\ Len(Tail(ready) \o t) \in Nat /\ Len(Tail(ready)) \in Nat
      /\ Len(t) \in Nat /\ Len(ready) \in Nat
  BY <1>1, ConcatProperties, LenProperties
<1>3. ASSUME NEW what
      PROVE  /\ Scheduled(Tail(ready) \o t, what) \in Nat
             /\ Scheduled(Tail(ready) \o t, what) =
                  Scheduled(ready, what) - (IF Head(ready)[1] = what THEN 1 ELSE 0) + Scheduled(t, what)
  <2>1. Scheduled(Tail(ready) \o t, what) = Scheduled(Tail(ready), what) + Scheduled(t, what)
    BY <1>1, ScheduledConcat
  <2>2. Scheduled(Tail(ready), what) = Scheduled(ready, what) - (IF Head(ready)[1] = what THEN 1 ELSE 0)
    BY ScheduledTail
  <2>3. Scheduled(Tail(ready) \o t, what) \in Nat BY <1>2, ScheduledFinite
  <2> QED BY <2>1, <2>2, <2>3
<1> QED BY <1>2, <1>3

LEMMA OnlyAppend ==
  ASSUME ready \in Seq(Callbacks), NEW t \in Seq(Callbacks)
  PROVE  /\ ready \o t \in Seq(Callbacks)
         /\ \A what : /\ Scheduled(ready \o t, what) \in Nat
                      /\ Scheduled(ready \o t, what) = Scheduled(ready, what) + Scheduled(t, what)
<1>1. ready \o t \in Seq(Callbacks) /\ Len(ready \o t) \in Nat BY ConcatProperties, LenProperties
<1>2. \A what : Scheduled(ready \o t, what) = Scheduled(ready, what) + Scheduled(t, what) BY ScheduledConcat
<1>3. \A what : Scheduled(ready \o t, what) \in Nat BY <1>1, ScheduledFinite
<1> QED BY <1>1, <1>2, <1>3

LEMMA OneCallback ==
  ASSUME NEW c \in Callbacks
  PROVE  /\ <<c>> \in Seq(Callbacks)
         /\ \A what : Scheduled(<<c>>, what) = IF c[1] = what THEN 1 ELSE 0
         /\ \A s \in Seq(Callbacks) : Append(s, c) = s \o <<c>>
BY ScheduledOne, AppendIsConcat

LEMMA NoCallback ==
  /\ <<>> \in Seq(Callbacks) /\ \A what : Scheduled(<<>>, what) = 0
  /\ \A s \in Seq(Callbacks) : s \o <<>> = s
BY ScheduledNone, EmptySeq, ConcatEmptySeq

\* The callback that runs is counted.
LEMMA HeadScheduled ==
  ASSUME ready \in Seq(Callbacks), ready # <<>>
  PROVE  Scheduled(ready, Head(ready)[1]) # 0
<1>1. Scheduled(Tail(ready), Head(ready)[1]) = Scheduled(ready, Head(ready)[1]) - 1 BY ScheduledTail
<1>2. Len(Tail(ready)) \in Nat BY HeadTailProperties, LenProperties
<1>3. Scheduled(Tail(ready), Head(ready)[1]) \in Nat BY <1>2, ScheduledFinite
<1> QED BY <1>1, <1>3


\* A wakeup of the consumer of a queue.
LEMMA Wakes ==
  ASSUME LoopInv, NEW q \in Queues, WakeConsumer(q)
  PROVE  /\ suspended' \in [Workers -> {"get", "put", "no"}]
         /\ suspended'[Consumer[q]] # "get"
         /\ \A w \in Workers : suspended'[w] = suspended[w] \/ (suspended[w] = "get" /\ suspended'[w] = "no")
         /\ \A w \in Workers : suspended'[w] = "no" <=> suspended[w] = "no" \/ (w = Consumer[q] /\ suspended[w] = "get")
<1>1. Consumer[q] \in Workers /\ suspended \in [Workers -> {"get", "put", "no"}] BY Names, LoopTyped
<1>2. PICK c \in Workers : c = Consumer[q] BY <1>1
<1>3. suspended' = [suspended EXCEPT ![c] = IF suspended[c] = "get" THEN "no" ELSE suspended[c]]
  BY <1>2 DEF WakeConsumer
<1> QED BY <1>1, <1>2, <1>3

\* The consumers of two queues are two workers.
LEMMA OneConsumer == \A p, q \in Queues : Consumer[p] = Consumer[q] => p = q
BY Names DEF Queues

LEMMA PutOnBusKeeps ==
  ASSUME LoopInv, NEW e \in Events, PutOnBus(e), ready # <<>>, Head(ready)[1] \in {"enqueue", "put"},
         UNCHANGED <<joinInTask, emitted, putters, hand, deferred, drain, joining, timedOut>>
  PROVE  LoopInv'
<1> DEFINE b == queue["bus"]
<1>1. /\ b \in Seq(Events) /\ Len(b) \in Nat /\ Len(b) < BusMax /\ BusMax \in Nat
      /\ queue \in [Queues -> Seq(Events)] /\ "bus" \in Queues
  BY LoopTyped, Names DEF PutOnBus, Full, LoopInv, TypeOK, Queues
<1>2. /\ queue' \in [Queues -> Seq(Events)] /\ queue'["bus"] = Append(b, e) /\ Len(queue'["bus"]) = Len(b) + 1
      /\ queue'["bus"] # <<>> /\ \A q \in Queues : q # "bus" => queue'[q] = queue[q]
  <2>1. Append(b, e) \in Seq(Events) /\ Len(Append(b, e)) = Len(b) + 1 /\ Append(b, e) # <<>>
    BY <1>1, AppendProperties
  <2>2. queue' = [queue EXCEPT !["bus"] = Append(b, e)] BY DEF PutOnBus
  <2> HIDE DEF b
  <2> QED BY <1>1, <2>1, <2>2
<1>3. /\ unfinished' \in [Queues -> Nat] /\ unfinished'["bus"] = unfinished["bus"] + 1
      /\ \A q \in Queues : q # "bus" => unfinished'[q] = unfinished[q]
  BY LoopTyped, <1>1 DEF PutOnBus
<1>4. /\ ready' \in Seq(Callbacks)
      /\ \A what : /\ Scheduled(ready', what) \in Nat
                   /\ Scheduled(ready', what) =
                        Scheduled(ready, what) - (IF Head(ready)[1] = what THEN 1 ELSE 0)
                          + Scheduled(Woken("bus"), what)
  <2>1. ready' = Tail(ready) \o Woken("bus") BY DEF PutOnBus
  <2> QED BY <1>1, <2>1, LoopTyped, WokenTyped, RunAndAppend
<1>5. /\ suspended' \in [Workers -> {"get", "put", "no"}]
      /\ suspended'["dispatcher"] # "get"
      /\ \A w \in Workers : suspended'[w] = suspended[w] \/ (suspended[w] = "get" /\ suspended'[w] = "no")
      /\ \A w \in Workers : suspended'[w] = "no" <=> suspended[w] = "no" \/ (w = "dispatcher" /\ suspended[w] = "get")
  BY <1>1, Wakes, Names DEF PutOnBus
<1>6. TypeOK'
  <2>1. \A q \in Queues : Len(queue'[q]) <= QueueMax[q]
    <3> TAKE q \in Queues
    <3>1. CASE q = "bus"
      <4>1. Len(b) + 1 <= BusMax BY <1>1
      <4> QED BY <1>2, <3>1, <4>1, Names
    <3>2. CASE q # "bus" BY <1>2, <3>2 DEF LoopInv, TypeOK
    <3> QED BY <3>1, <3>2
  <2>2. outcome' \in [Events -> Outcomes] BY DEF PutOnBus, LoopInv, TypeOK, Outcomes
  <2> QED BY <1>2, <1>3, <1>4, <1>5, <2>1, <2>2 DEF LoopInv, TypeOK
<1>7. HandInv'
  <2>1. hand # NoEvent => Behind(hand) \in Behinds
    BY Names DEF LoopInv, HandInv, TypeOK, Queues, Behinds
  <2>2. hand # NoEvent => queue'[Behind(hand)] = queue[Behind(hand)]
    BY <1>2, <2>1 DEF Behinds, Queues
  <2>3. \A w \in Workers : suspended'[w] = "put" <=> suspended[w] = "put" BY <1>5
  <2> QED BY <2>1, <2>2, <2>3 DEF LoopInv, HandInv, Workers
<1>8. Counts' BY <1>1, <1>2, <1>3 DEF LoopInv, Counts
<1>9. Wakeups'
  <2>1. \A q \in Queues : suspended'[Consumer[q]] = "get" => queue'[q] = <<>>
    BY <1>2, <1>5, Names DEF LoopInv, Wakeups
  <2>2. suspended'["dispatcher"] = "put" => Full(Behind(hand))'
    <3>1. suspended'["dispatcher"] = "put" => suspended["dispatcher"] = "put" BY <1>5 DEF Workers
    <3>2. suspended["dispatcher"] = "put" => Full(Behind(hand)) /\ Behind(hand) \in Queues /\ Behind(hand) # "bus"
      BY Names DEF LoopInv, Wakeups, HandInv, TypeOK, Behinds
    <3> QED BY <1>2, <3>1, <3>2 DEF Full
  <2>3. \A w \in Workers : Scheduled(ready', w) = IF suspended'[w] = "no" THEN 1 ELSE 0
    <3> TAKE w \in Workers
    <3>1. Head(ready)[1] # w BY DEF Workers
    <3>2. Scheduled(Woken("bus"), w) = IF suspended[w] = "get" /\ w = "dispatcher" THEN 1 ELSE 0
      BY <1>1, WokenTyped, Names
    <3>3. Scheduled(ready, w) = IF suspended[w] = "no" THEN 1 ELSE 0 BY DEF LoopInv, Wakeups
    <3> QED BY <1>4, <1>5, <3>1, <3>2, <3>3
  <2>4. putters # <<>> => BusMax <= Len(queue'["bus"]) + Scheduled(ready', "put")
    <3>1. putters # <<>> => BusMax <= Len(b) + Scheduled(ready, "put") BY DEF LoopInv, Wakeups
    <3>2. Scheduled(Woken("bus"), "put") = 0 BY <1>1, WokenTyped, Names
    <3>3. Scheduled(ready', "put") >= Scheduled(ready, "put") - 1 /\ Scheduled(ready, "put") \in Nat
          /\ Scheduled(ready', "put") \in Nat
      BY <1>4, <3>2, LoopTyped
    <3> QED BY <1>1, <1>2, <3>1, <3>3
  <2> QED BY <2>1, <2>2, <2>3, <2>4 DEF Wakeups, PutOnBus
<1> QED BY <1>6, <1>7, <1>8, <1>9 DEF LoopInv


LEMMA IdleKeeps ==
  ASSUME LoopInv, NEW q \in Queues, Idle(Consumer[q], q)
  PROVE  LoopInv'
<1>0. PICK w \in Workers : w = Consumer[q] BY Names
<1>1. /\ ready # <<>> /\ Head(ready)[1] = w /\ queue[q] = <<>> /\ (w = "dispatcher" => hand = NoEvent)
      /\ ready' = Tail(ready) /\ suspended' = [suspended EXCEPT ![w] = "get"]
      /\ UNCHANGED <<joinInTask, emitted, queue, unfinished, putters, hand, outcome, deferred, drain,
                     joining, timedOut>>
  BY <1>0 DEF Idle, Running
<1>2. /\ ready' \in Seq(Callbacks)
      /\ \A what : Scheduled(ready', what) = Scheduled(ready, what) - (IF w = what THEN 1 ELSE 0)
  BY <1>1, LoopTyped, HeadTailProperties, ScheduledTail
<1>3. /\ suspended' \in [Workers -> {"get", "put", "no"}]
      /\ \A v \in Workers : suspended'[v] = IF v = w THEN "get" ELSE suspended[v]
  BY <1>0, <1>1, LoopTyped
<1>4. TypeOK' BY <1>1, <1>2, <1>3 DEF LoopInv, TypeOK
<1>5. HandInv' BY <1>1, <1>3 DEF LoopInv, HandInv, Workers
<1>6. Counts' BY <1>1 DEF LoopInv, Counts
<1>7. Wakeups'
  <2>1. \A p \in Queues : suspended'[Consumer[p]] = "get" => queue[p] = <<>>
    BY <1>0, <1>1, <1>3, Names, OneConsumer DEF LoopInv, Wakeups
  <2>2. suspended'["dispatcher"] = "put" => Full(Behind(hand))
    BY <1>3 DEF LoopInv, Wakeups, Workers
  <2>3. \A v \in Workers : Scheduled(ready', v) = IF suspended'[v] = "no" THEN 1 ELSE 0
    <3> TAKE v \in Workers
    <3>1. Scheduled(ready, v) = IF suspended[v] = "no" THEN 1 ELSE 0 BY DEF LoopInv, Wakeups
    <3>2. v = w => Scheduled(ready, v) # 0 BY <1>1, <1>2, LoopTyped, HeadScheduled
    <3> QED BY <1>2, <1>3, <3>1, <3>2
  <2>4. Scheduled(ready', "put") = Scheduled(ready, "put")
    <3>1. w # "put" BY DEF Workers
    <3>2. Scheduled(ready', "put") = Scheduled(ready, "put") - 0 BY <1>2, <3>1
    <3>3. Scheduled(ready, "put") \in Nat BY LoopTyped
    <3> QED BY <3>2, <3>3
  <2> QED BY <1>1, <2>1, <2>2, <2>3, <2>4 DEF LoopInv, Wakeups, Full
<1> QED BY <1>4, <1>5, <1>6, <1>7 DEF LoopInv


LEMMA WorkKeeps ==
  ASSUME LoopInv, NEW w \in Behinds, NEW results, results \subseteq Outcomes, Work(w, results)
  PROVE  LoopInv'
<1> DEFINE b == queue[w]
<1>0. w \in Queues /\ w \in Workers /\ w # "bus" /\ w # "dispatcher" /\ "dispatcher" \in Workers
      /\ Consumer[w] = w
  BY Names DEF Behinds, Queues, Workers
<1>1. /\ ready # <<>> /\ Head(ready)[1] = w /\ b # <<>> /\ b \in Seq(Events) /\ Len(b) \in Nat
      /\ queue \in [Queues -> Seq(Events)] /\ suspended \in [Workers -> {"get", "put", "no"}]
      /\ unfinished \in [Queues -> Nat] /\ ready \in Seq(Callbacks)
      /\ UNCHANGED <<joinInTask, emitted, putters, hand, deferred, drain, timedOut>>
  BY <1>0, LoopTyped DEF Work, Running
<1>2. Head(b) \in Events /\ Tail(b) \in Seq(Events) /\ Len(Tail(b)) = Len(b) - 1
  <2> HIDE DEF b
  <2> QED BY <1>1, HeadTailProperties
<1>3. /\ queue' \in [Queues -> Seq(Events)] /\ Len(queue'[w]) = Len(b) - 1
      /\ \A q \in Queues : q # w => queue'[q] = queue[q]
  <2>1. queue' = [queue EXCEPT ![w] = Tail(b)] BY DEF Work
  <2> HIDE DEF b
  <2> QED BY <1>0, <1>1, <1>2, <2>1
<1>4. unfinished[w] = Len(b)
  <2>1. unfinished[w] = Len(b) + 0 BY <1>0 DEF LoopInv, Counts
  <2> QED BY <1>1, <2>1
<1>5. /\ unfinished' \in [Queues -> Nat] /\ unfinished'[w] = unfinished[w] - 1
      /\ \A q \in Queues : q # w => unfinished'[q] = unfinished[q]
  <2>1. Len(b) - 1 \in Nat BY <1>2, LenProperties
  <2>2. unfinished' = [unfinished EXCEPT ![w] = unfinished[w] - 1] BY DEF Work, TaskDone
  <2> HIDE DEF b
  <2> QED BY <1>0, <1>1, <1>4, <2>1, <2>2
<1>6. /\ ready' \in Seq(Callbacks)
      /\ \A what \in Workers \cup {"put"} :
           Scheduled(ready', what) = Scheduled(ready, what) + Scheduled(WokenDispatcher(w), what)
  <2> DEFINE t == WokenDispatcher(w) \o Joined(w)
  <2>1. ready' = (ready \o WokenDispatcher(w)) \o Joined(w) BY DEF Work
  <2>2. WokenDispatcher(w) \in Seq(Callbacks) /\ Joined(w) \in Seq(Callbacks)
        /\ \A what \in Workers \cup {"put"} : Scheduled(Joined(w), what) = 0
    BY <1>0, WokenDispatcherTyped, JoinedTyped
  <2>3. t \in Seq(Callbacks) /\ ready' = ready \o t
    BY <1>1, <2>1, <2>2, ConcatProperties, ConcatAssociative
  <2>4. ASSUME NEW what \in Workers \cup {"put"}
        PROVE  Scheduled(t, what) = Scheduled(WokenDispatcher(w), what)
    <3>1. Scheduled(t, what) = Scheduled(WokenDispatcher(w), what) + Scheduled(Joined(w), what)
      BY <2>2, ScheduledConcat
    <3>2. Scheduled(WokenDispatcher(w), what) \in Nat BY <2>2, LenProperties, ScheduledFinite
    <3> QED BY <2>2, <3>1, <3>2
  <2> HIDE DEF t
  <2> QED BY <1>1, <2>3, <2>4, OnlyAppend
<1>7. /\ suspended' \in [Workers -> {"get", "put", "no"}]
      /\ \A v \in Workers : suspended'[v] = IF v = "dispatcher" /\ WaitsFor(w) THEN "no" ELSE suspended[v]
  <2>1. suspended' = [suspended EXCEPT !["dispatcher"] = IF WaitsFor(w) THEN "no" ELSE suspended["dispatcher"]]
    BY DEF Work
  <2> QED BY <1>0, <1>1, <2>1
<1>8. TypeOK'
  <2>1. \A q \in Queues : Len(queue'[q]) <= QueueMax[q]
    <3> TAKE q \in Queues
    <3>1. CASE q = w
      <4>1. Len(b) <= QueueMax[w] /\ QueueMax[w] \in Nat BY <1>0, Names DEF LoopInv, TypeOK
      <4> QED BY <1>1, <1>3, <3>1, <4>1
    <3>2. CASE q # w BY <1>3, <3>2 DEF LoopInv, TypeOK
    <3> QED BY <3>1, <3>2
  <2>2. outcome' \in [Events -> Outcomes] BY <1>2 DEF Work, LoopInv, TypeOK
  <2>3. joining' \in Queues \cup {"none"} BY DEF Work, TaskDone, LoopInv, TypeOK
  <2> QED BY <1>1, <1>3, <1>5, <1>6, <1>7, <2>1, <2>2, <2>3 DEF LoopInv, TypeOK
<1>9. HandInv'
  <2>1. suspended'["dispatcher"] = "put" => suspended["dispatcher"] = "put" BY <1>0, <1>7
  <2>2. hand # NoEvent /\ suspended'["dispatcher"] # "put"
          => Len(queue'[Behind(hand)]) < QueueMax[Behind(hand)]
    <3> SUFFICES ASSUME hand # NoEvent, suspended'["dispatcher"] # "put"
                 PROVE  Len(queue'[Behind(hand)]) < QueueMax[Behind(hand)]
      OBVIOUS
    <3>0. Behind(hand) \in Queues BY DEF LoopInv, HandInv
    <3>1. Len(b) <= QueueMax[w] /\ QueueMax[w] \in Nat BY <1>0, Names DEF LoopInv, TypeOK
    <3>2. CASE Behind(hand) = w BY <1>1, <1>3, <3>1, <3>2
    <3>3. CASE Behind(hand) # w
      <4>1. ~WaitsFor(w) BY <3>3 DEF WaitsFor
      <4>2. suspended["dispatcher"] # "put" BY <1>0, <1>7, <4>1
      <4> QED BY <1>3, <3>0, <3>3, <4>2 DEF LoopInv, HandInv
    <3> QED BY <3>2, <3>3
  <2>3. \A v \in {"ingestion", "summary"} : suspended'[v] # "put" BY <1>7 DEF LoopInv, HandInv, Workers
  <2> QED BY <1>1, <2>1, <2>2, <2>3 DEF LoopInv, HandInv
<1>10. Counts'
  <2> SUFFICES ASSUME NEW q \in Queues
               PROVE  unfinished'[q] = Len(queue'[q]) + (IF q = "bus" /\ hand # NoEvent THEN 1 ELSE 0)
    BY <1>1 DEF Counts
  <2>1. CASE q = w BY <1>0, <1>1, <1>3, <1>4, <1>5, <2>1
  <2>2. CASE q # w BY <1>3, <1>5, <2>2 DEF LoopInv, Counts
  <2> QED BY <2>1, <2>2
<1>11. Wakeups'
  <2>1. ASSUME NEW q \in Queues, suspended'[Consumer[q]] = "get" PROVE queue'[q] = <<>>
    <3>1. suspended[Consumer[q]] = "get" BY <1>0, <1>7, <2>1, Names
    <3>2. queue[q] = <<>> BY <3>1 DEF LoopInv, Wakeups
    <3>3. q # w BY <1>1, <3>2
    <3> QED BY <1>3, <3>2, <3>3
  <2>2. ASSUME suspended'["dispatcher"] = "put" PROVE Full(Behind(hand))'
    <3>1. suspended["dispatcher"] = "put" /\ ~WaitsFor(w) BY <1>0, <1>7, <2>2
    <3>2. Full(Behind(hand)) /\ Behind(hand) \in Queues /\ Behind(hand) # w
      BY <3>1 DEF LoopInv, Wakeups, HandInv, WaitsFor
    <3> QED BY <1>1, <1>3, <3>2 DEF Full
  <2>3. \A v \in Workers : Scheduled(ready', v) = IF suspended'[v] = "no" THEN 1 ELSE 0
    <3> TAKE v \in Workers
    <3>1. Scheduled(ready, v) = IF suspended[v] = "no" THEN 1 ELSE 0 BY DEF LoopInv, Wakeups
    <3>2. Scheduled(WokenDispatcher(w), v) = IF WaitsFor(w) /\ v = "dispatcher" THEN 1 ELSE 0
      BY <1>0, WokenDispatcherTyped
    <3>3. WaitsFor(w) => suspended["dispatcher"] = "put" BY DEF WaitsFor
    <3> QED BY <1>6, <1>7, <3>1, <3>2, <3>3
  <2>4. Scheduled(ready', "put") = Scheduled(ready, "put")
    <3>1. Scheduled(WokenDispatcher(w), "put") = 0 BY <1>0, WokenDispatcherTyped
    <3>2. Scheduled(ready, "put") \in Nat BY LoopTyped
    <3> QED BY <1>6, <3>1, <3>2
  <2>5. queue'["bus"] = queue["bus"] BY <1>0, <1>3 DEF Queues
  <2> QED BY <1>1, <2>1, <2>2, <2>3, <2>4, <2>5 DEF LoopInv, Wakeups
<1> QED BY <1>8, <1>9, <1>10, <1>11 DEF LoopInv


\* The dispatcher that runs does not wait.
LEMMA DispatcherRuns ==
  ASSUME LoopInv, Running("dispatcher")
  PROVE  /\ suspended["dispatcher"] = "no" /\ ready # <<>> /\ ready \in Seq(Callbacks)
         /\ hand # NoEvent => /\ hand \in Events /\ Behind(hand) \in Behinds
                              /\ Len(queue[Behind(hand)]) < QueueMax[Behind(hand)]
<1>1. ready # <<>> /\ Head(ready)[1] = "dispatcher" /\ ready \in Seq(Callbacks) /\ "dispatcher" \in Workers
  BY LoopTyped DEF Running, Workers
<1>2. Scheduled(ready, "dispatcher") # 0 BY <1>1, HeadScheduled
<1>3. suspended["dispatcher"] = "no" BY <1>1, <1>2 DEF LoopInv, Wakeups
<1> QED BY <1>1, <1>3, Names DEF LoopInv, HandInv, TypeOK, Behinds, Queues

\* What the wakeups of three kinds add to the loop.
LEMMA ThreeWakeups ==
  ASSUME ready \in Seq(Callbacks), NEW s \in Seq(Callbacks), NEW t \in Seq(Callbacks), NEW q \in Queues
  PROVE  /\ (s \o t) \o Joined(q) \in Seq(Callbacks)
         /\ ((ready \o s) \o t) \o Joined(q) = ready \o ((s \o t) \o Joined(q))
         /\ \A what \in Workers \cup {"put"} :
              Scheduled((s \o t) \o Joined(q), what) = Scheduled(s, what) + Scheduled(t, what)
<1>1. s \o t \in Seq(Callbacks) /\ Joined(q) \in Seq(Callbacks) BY ConcatProperties, JoinedTyped
<1>2. (ready \o s) \o t = ready \o (s \o t) BY ConcatAssociative
<1>3. (ready \o (s \o t)) \o Joined(q) = ready \o ((s \o t) \o Joined(q))
  <2>1. PICK u \in Seq(Callbacks), j \in Seq(Callbacks) : u = s \o t /\ j = Joined(q) BY <1>1
  <2>2. (ready \o u) \o j = ready \o (u \o j) BY ConcatAssociative
  <2> QED BY <2>1, <2>2
<1>4. (s \o t) \o Joined(q) \in Seq(Callbacks) BY <1>1, ConcatProperties
<1>5. ASSUME NEW what \in Workers \cup {"put"}
      PROVE  Scheduled((s \o t) \o Joined(q), what) = Scheduled(s, what) + Scheduled(t, what)
  <2>1. Scheduled((s \o t) \o Joined(q), what) = Scheduled(s \o t, what) + Scheduled(Joined(q), what)
    BY <1>1, ScheduledConcat
  <2>2. Scheduled(s \o t, what) = Scheduled(s, what) + Scheduled(t, what) BY ScheduledConcat
  <2>3. Scheduled(Joined(q), what) = 0 BY JoinedTyped
  <2>4. Len(s \o t) \in Nat BY <1>1, LenProperties
  <2>5. Scheduled(s \o t, what) \in Nat BY <2>4, ScheduledFinite
  <2> QED BY <2>1, <2>2, <2>3, <2>5
<1> QED BY <1>2, <1>3, <1>4, <1>5

LEMMA ForwardKeeps ==
  ASSUME LoopInv, Forward
  PROVE  LoopInv'
<1>1. /\ suspended["dispatcher"] = "no" /\ ready \in Seq(Callbacks)
      /\ hand \in Events /\ hand # NoEvent /\ Behind(hand) \in Behinds
      /\ Len(queue[Behind(hand)]) < QueueMax[Behind(hand)]
  BY DispatcherRuns DEF Forward
<1>2. PICK q \in Behinds : q = Behind(hand) BY <1>1
<1> DEFINE b == queue[q]
<1>3. /\ queue \in [Queues -> Seq(Events)] /\ suspended \in [Workers -> {"get", "put", "no"}]
      /\ unfinished \in [Queues -> Nat] /\ "bus" \in Queues /\ q \in Queues /\ q # "bus"
      /\ b \in Seq(Events) /\ Len(b) \in Nat /\ Len(b) < QueueMax[q] /\ QueueMax[q] \in Nat
      /\ "dispatcher" \in Workers /\ Consumer[q] = q /\ q # "dispatcher" /\ Len(queue["bus"]) \in Nat
  BY <1>1, <1>2, LoopTyped, Names DEF Behinds, Queues, Workers
<1>4. /\ queue' \in [Queues -> Seq(Events)] /\ Len(queue'[q]) = Len(b) + 1 /\ queue'[q] # <<>>
      /\ \A p \in Queues : p # q => queue'[p] = queue[p]
  <2>2. queue' = [queue EXCEPT ![q] = Append(b, hand)] BY <1>2 DEF Forward
  <2>3. b \in Seq(Events) BY <1>3
  <2> HIDE DEF b
  <2>1. Append(b, hand) \in Seq(Events) /\ Len(Append(b, hand)) = Len(b) + 1 /\ Append(b, hand) # <<>>
    BY <1>1, <2>3, AppendProperties
  <2> QED BY <1>3, <2>1, <2>2
<1>5. unfinished["bus"] = Len(queue["bus"]) + 1 /\ unfinished[q] = Len(b) + 0 BY <1>1, <1>3 DEF LoopInv, Counts
<1>6. /\ unfinished' \in [Queues -> Nat] /\ unfinished'["bus"] = unfinished["bus"] - 1
      /\ unfinished'[q] = unfinished[q] + 1
      /\ \A p \in Queues : p # q /\ p # "bus" => unfinished'[p] = unfinished[p]
  <2>1. unfinished' = [unfinished EXCEPT !["bus"] = unfinished["bus"] - 1, ![q] = unfinished[q] + 1]
    BY <1>2, <1>3 DEF Forward
  <2>2. unfinished["bus"] - 1 \in Nat /\ unfinished[q] + 1 \in Nat BY <1>3, <1>5
  <2> QED BY <1>3, <2>1, <2>2
<1>7. /\ ready' \in Seq(Callbacks)
      /\ \A what \in Workers \cup {"put"} :
           Scheduled(ready', what) = Scheduled(ready, what) + Scheduled(Woken(q), what)
  <2>1. ready' = (ready \o Woken(q)) \o Joined("bus") BY <1>2 DEF Forward
  <2>2. Woken(q) \in Seq(Callbacks) /\ <<>> \in Seq(Callbacks) BY <1>3, WokenTyped, NoCallback
  <2>3. ready' = ((ready \o <<>>) \o Woken(q)) \o Joined("bus") BY <1>1, <2>1, NoCallback
  <2> DEFINE t == (<<>> \o Woken(q)) \o Joined("bus")
  <2>4. /\ t \in Seq(Callbacks) /\ ready' = ready \o t
        /\ \A what \in Workers \cup {"put"} : Scheduled(t, what) = Scheduled(<<>>, what) + Scheduled(Woken(q), what)
    BY <1>1, <1>3, <2>2, <2>3, ThreeWakeups
  <2> HIDE DEF t
  <2>5. \A what \in Workers \cup {"put"} : Scheduled(t, what) = Scheduled(Woken(q), what)
    <3> TAKE what \in Workers \cup {"put"}
    <3>1. Scheduled(Woken(q), what) \in Nat BY <2>2, LenProperties, ScheduledFinite
    <3> QED BY <2>4, <3>1, NoCallback
  <2> QED BY <1>1, <2>4, <2>5, OnlyAppend
<1>8. /\ suspended' \in [Workers -> {"get", "put", "no"}]
      /\ suspended'[q] # "get"
      /\ \A w \in Workers : suspended'[w] = suspended[w] \/ (suspended[w] = "get" /\ suspended'[w] = "no")
      /\ \A w \in Workers : suspended'[w] = "no" <=> suspended[w] = "no" \/ (w = q /\ suspended[w] = "get")
  BY <1>2, <1>3, Wakes DEF Forward
<1>9. hand' = NoEvent /\ UNCHANGED <<joinInTask, emitted, putters, outcome, deferred, drain, timedOut>>
      /\ suspended'["dispatcher"] = "no"
  BY <1>1, <1>3, <1>8 DEF Forward
<1>10. TypeOK'
  <2>1. \A p \in Queues : Len(queue'[p]) <= QueueMax[p]
    <3> TAKE p \in Queues
    <3>1. CASE p = q BY <1>3, <1>4, <3>1
    <3>2. CASE p # q BY <1>4, <3>2 DEF LoopInv, TypeOK
    <3> QED BY <3>1, <3>2
  <2>2. joining' \in Queues \cup {"none"} BY DEF Forward, LoopInv, TypeOK
  <2> QED BY <1>4, <1>6, <1>7, <1>8, <1>9, <2>1, <2>2 DEF LoopInv, TypeOK
<1>11. HandInv'
  <2>1. \A w \in {"ingestion", "summary"} : suspended'[w] # "put" BY <1>8 DEF LoopInv, HandInv, Workers
  <2> QED BY <1>9, <2>1 DEF HandInv
<1>12. Counts'
  <2> SUFFICES ASSUME NEW p \in Queues PROVE unfinished'[p] = Len(queue'[p]) + 0
    BY <1>9 DEF Counts
  <2>1. CASE p = "bus" BY <1>3, <1>4, <1>5, <1>6, <2>1
  <2>2. CASE p = q BY <1>3, <1>4, <1>5, <1>6, <2>2
  <2>3. CASE p # "bus" /\ p # q
    <3>1. unfinished[p] = Len(queue[p]) + 0 BY <2>3 DEF LoopInv, Counts
    <3> QED BY <1>4, <1>6, <2>3, <3>1
  <2> QED BY <2>1, <2>2, <2>3
<1>13. Wakeups'
  <2>1. ASSUME NEW p \in Queues, suspended'[Consumer[p]] = "get" PROVE queue'[p] = <<>>
    <3>1. suspended[Consumer[p]] = "get" /\ p # q BY <1>3, <1>8, <2>1, Names
    <3> QED BY <1>4, <3>1 DEF LoopInv, Wakeups
  <2>2. \A v \in Workers : Scheduled(ready', v) = IF suspended'[v] = "no" THEN 1 ELSE 0
    <3> TAKE v \in Workers
    <3>1. Scheduled(ready, v) = IF suspended[v] = "no" THEN 1 ELSE 0 BY DEF LoopInv, Wakeups
    <3>2. Scheduled(Woken(q), v) = IF suspended[v] = "get" /\ v = q THEN 1 ELSE 0
      BY <1>3, WokenTyped
    <3> QED BY <1>7, <1>8, <3>1, <3>2
  <2>3. Scheduled(ready', "put") = Scheduled(ready, "put")
    <3>1. Scheduled(Woken(q), "put") = 0 BY <1>3, WokenTyped DEF Behinds
    <3>2. Scheduled(ready, "put") \in Nat BY LoopTyped
    <3> QED BY <1>7, <3>1, <3>2
  <2>4. queue'["bus"] = queue["bus"] BY <1>3, <1>4
  <2> QED BY <1>9, <2>1, <2>2, <2>3, <2>4 DEF LoopInv, Wakeups
<1> QED BY <1>10, <1>11, <1>12, <1>13 DEF LoopInv


\* The dispatcher takes an event from the bus.
LEMMA DispatchTakes ==
  ASSUME LoopInv, Dispatch
  PROVE  /\ suspended["dispatcher"] = "no" /\ hand = NoEvent /\ ready # <<>> /\ ready \in Seq(Callbacks)
         /\ Head(ready)[1] = "dispatcher"
         /\ Head(queue["bus"]) \in Events /\ Tail(queue["bus"]) \in Seq(Events)
         /\ queue["bus"] # <<>> /\ Len(queue["bus"]) \in Nat \ {0}
         /\ Len(queue["bus"]) <= BusMax
         /\ Len(Tail(queue["bus"])) = Len(queue["bus"]) - 1
         /\ unfinished["bus"] = Len(queue["bus"])
         /\ Behind(Head(queue["bus"])) \in Behinds \cup {"none"}
         /\ putters' \in Seq(Events) /\ WokenPut \in Seq(Callbacks) /\ WokenPut \o Joined("bus") \in Seq(Callbacks)
         /\ UNCHANGED <<joinInTask, emitted, deferred, drain, timedOut>>
         /\ \A w \in Workers : Scheduled(WokenPut, w) = 0
         /\ putters' # <<>> => BusMax <= Len(queue["bus"]) - 1 + Scheduled(ready, "put") + Scheduled(WokenPut, "put")
<1>1. /\ suspended["dispatcher"] = "no" /\ hand = NoEvent /\ ready # <<>> /\ ready \in Seq(Callbacks)
      /\ Head(ready)[1] = "dispatcher" /\ queue["bus"] # <<>>
      /\ UNCHANGED <<joinInTask, emitted, deferred, drain, timedOut>> /\ putters' = PuttersLeft
  BY DispatcherRuns DEF Dispatch, Running
<1>2. "bus" \in Queues BY DEF Queues
<1>3. PICK b \in Seq(Events) : b = queue["bus"] BY <1>2, LoopTyped
<1>4. Head(b) \in Events /\ Tail(b) \in Seq(Events) /\ Len(b) \in Nat \ {0} /\ Len(Tail(b)) = Len(b) - 1
  <2>1. b # <<>> BY <1>1, <1>3
  <2> QED BY <2>1, HeadTailProperties, LenProperties, EmptySeq
<1>5. unfinished["bus"] = Len(b)
  <2>1. unfinished["bus"] = Len(queue["bus"]) + (IF hand # NoEvent THEN 1 ELSE 0) BY <1>2 DEF LoopInv, Counts
  <2> QED BY <1>1, <1>3, <1>4, <2>1
<1>6. Len(b) <= BusMax /\ BusMax \in Nat BY <1>2, <1>3, Names DEF LoopInv, TypeOK
<1>7. WokenPut \in Seq(Callbacks) /\ PuttersLeft \in Seq(Events)
      /\ \A what : Scheduled(WokenPut, what) = IF putters # <<>> /\ what = "put" THEN 1 ELSE 0
  BY LoopTyped, WokenPutTyped
<1>8. Joined("bus") \in Seq(Callbacks) BY <1>2, JoinedTyped
<1>9. WokenPut \o Joined("bus") \in Seq(Callbacks) BY <1>7, <1>8, ConcatProperties
<1>10. putters' # <<>> => BusMax <= Len(b) - 1 + Scheduled(ready, "put") + Scheduled(WokenPut, "put")
  <2>1. putters' # <<>> => putters # <<>> BY <1>1 DEF PuttersLeft
  <2>2. putters # <<>> => BusMax <= Len(b) + Scheduled(ready, "put") BY <1>3 DEF LoopInv, Wakeups
  <2>3. Scheduled(ready, "put") \in Nat BY LoopTyped
  <2>4. putters # <<>> => Scheduled(WokenPut, "put") = 1 BY <1>7
  <2> QED BY <1>4, <1>6, <2>1, <2>2, <2>3, <2>4
<1>11. \A w \in Workers : Scheduled(WokenPut, w) = 0 BY <1>7 DEF Workers
<1>12. Behind(Head(b)) \in Behinds \cup {"none"} BY <1>4, Names
<1> QED BY <1>1, <1>3, <1>4, <1>5, <1>6, <1>7, <1>9, <1>10, <1>11, <1>12

\* The three ways a dispatch goes.
DispatchEnds ==
  /\ queue' = [queue EXCEPT !["bus"] = Tail(@)] /\ TaskDone("bus")
  /\ ready' = ready \o WokenPut \o Joined("bus") /\ outcome' \in [Events -> Outcomes]
  /\ UNCHANGED <<hand, suspended>>
DispatchForwards(e, q) ==
  /\ e = Head(queue["bus"]) /\ q = Behind(e) /\ ~Full(q)
  /\ queue' = [[queue EXCEPT !["bus"] = Tail(@)] EXCEPT ![q] = Append(@, e)]
  /\ unfinished' = [unfinished EXCEPT !["bus"] = @ - 1, ![q] = @ + 1]
  /\ joining' = (IF LastDone("bus") THEN "none" ELSE joining)
  /\ ready' = ready \o WokenPut \o Woken(q) \o Joined("bus") /\ WakeConsumer(q)
  /\ outcome' \in [Events -> Outcomes] /\ UNCHANGED hand
DispatchWaits(e, q) ==
  /\ e = Head(queue["bus"]) /\ q = Behind(e) /\ Full(q)
  /\ queue' = [queue EXCEPT !["bus"] = Tail(@)] /\ hand' = e
  /\ suspended' = [suspended EXCEPT !["dispatcher"] = "put"] /\ ready' = Tail(ready) \o WokenPut
  /\ outcome' \in [Events -> Outcomes] /\ UNCHANGED <<unfinished, joining>>

LEMMA DispatchEndsKeeps ==
  ASSUME LoopInv, Dispatch, DispatchEnds
  PROVE  LoopInv'
<1>1. PICK b \in Seq(Events), c \in Seq(Events) : b = queue["bus"] /\ c = Tail(queue["bus"])
  BY DispatchTakes, LoopTyped DEF Queues
<1>2. /\ suspended["dispatcher"] = "no" /\ hand = NoEvent /\ ready \in Seq(Callbacks)
      /\ Len(b) \in Nat \ {0} /\ Len(b) <= BusMax /\ BusMax \in Nat /\ Len(c) = Len(b) - 1 /\ b # <<>>
      /\ unfinished["bus"] = Len(b) /\ putters' \in Seq(Events) /\ WokenPut \in Seq(Callbacks)
      /\ UNCHANGED <<joinInTask, emitted, deferred, drain, timedOut, hand, suspended>>
      /\ \A w \in Workers : Scheduled(WokenPut, w) = 0
      /\ putters' # <<>> => BusMax <= Len(b) - 1 + Scheduled(ready, "put") + Scheduled(WokenPut, "put")
      /\ "bus" \in Queues /\ queue \in [Queues -> Seq(Events)] /\ unfinished \in [Queues -> Nat]
  BY <1>1, DispatchTakes, LoopTyped, Names DEF Queues, DispatchEnds
<1>3. /\ queue' \in [Queues -> Seq(Events)] /\ queue'["bus"] = c
      /\ \A q \in Queues : q # "bus" => queue'[q] = queue[q]
  <2>1. queue' = [queue EXCEPT !["bus"] = c] BY <1>1 DEF DispatchEnds
  <2> QED BY <1>2, <2>1
<1>4. /\ unfinished' \in [Queues -> Nat] /\ unfinished'["bus"] = Len(b) - 1
      /\ \A q \in Queues : q # "bus" => unfinished'[q] = unfinished[q]
  <2>1. unfinished' = [unfinished EXCEPT !["bus"] = Len(b) - 1] BY <1>2 DEF TaskDone, DispatchEnds
  <2>2. Len(b) - 1 \in Nat BY <1>2
  <2> QED BY <1>2, <2>1, <2>2
<1>5. /\ ready' \in Seq(Callbacks)
      /\ \A what \in Workers \cup {"put"} :
           Scheduled(ready', what) = Scheduled(ready, what) + Scheduled(WokenPut, what)
  <2>1. ready' = ((ready \o <<>>) \o WokenPut) \o Joined("bus") BY <1>2, NoCallback DEF DispatchEnds
  <2>2. <<>> \in Seq(Callbacks) BY NoCallback
  <2> DEFINE t == (<<>> \o WokenPut) \o Joined("bus")
  <2>4. /\ t \in Seq(Callbacks) /\ ready' = ready \o t
        /\ \A what \in Workers \cup {"put"} : Scheduled(t, what) = Scheduled(<<>>, what) + Scheduled(WokenPut, what)
    BY <1>2, <2>1, <2>2, ThreeWakeups
  <2> HIDE DEF t
  <2>5. \A what \in Workers \cup {"put"} : Scheduled(t, what) = Scheduled(WokenPut, what)
    <3> TAKE what \in Workers \cup {"put"}
    <3>1. Scheduled(WokenPut, what) \in Nat BY <1>2, LenProperties, ScheduledFinite
    <3> QED BY <2>4, <3>1, NoCallback
  <2> QED BY <1>2, <2>4, <2>5, OnlyAppend
<1>6. TypeOK'
  <2>1. \A q \in Queues : Len(queue'[q]) <= QueueMax[q]
    <3> TAKE q \in Queues
    <3>1. CASE q = "bus" BY <1>2, <1>3, <3>1, Names
    <3>2. CASE q # "bus" BY <1>3, <3>2 DEF LoopInv, TypeOK
    <3> QED BY <3>1, <3>2
  <2>2. joining' \in Queues \cup {"none"} /\ outcome' \in [Events -> Outcomes]
    BY DEF DispatchEnds, TaskDone, LoopInv, TypeOK
  <2> QED BY <1>2, <1>3, <1>4, <1>5, <2>1, <2>2 DEF LoopInv, TypeOK
<1>7. HandInv' BY <1>2 DEF LoopInv, HandInv
<1>8. Counts'
  <2> SUFFICES ASSUME NEW q \in Queues PROVE unfinished'[q] = Len(queue'[q]) + 0 BY <1>2 DEF Counts
  <2>1. CASE q = "bus" BY <1>2, <1>3, <1>4, <2>1
  <2>2. CASE q # "bus"
    <3>1. unfinished[q] = Len(queue[q]) + 0 BY <2>2 DEF LoopInv, Counts
    <3> QED BY <1>3, <1>4, <2>2, <3>1
  <2> QED BY <2>1, <2>2
<1>9. Wakeups'
  <2>1. ASSUME NEW q \in Queues, suspended[Consumer[q]] = "get" PROVE queue'[q] = <<>>
    BY <1>2, <1>3, <2>1, Names DEF LoopInv, Wakeups
  <2>2. \A w \in Workers : Scheduled(ready', w) = IF suspended[w] = "no" THEN 1 ELSE 0
    <3> TAKE w \in Workers
    <3>1. Scheduled(ready, w) \in Nat BY LoopTyped
    <3> QED BY <1>2, <1>5, <3>1 DEF LoopInv, Wakeups
  <2>3. putters' # <<>> => BusMax <= Len(queue'["bus"]) + Scheduled(ready', "put")
    <3>1. Len(WokenPut) \in Nat BY <1>2, LenProperties
    <3>2. Scheduled(WokenPut, "put") \in Nat /\ Scheduled(ready, "put") \in Nat BY <3>1, ScheduledFinite, LoopTyped
    <3>3. Scheduled(ready', "put") = Scheduled(ready, "put") + Scheduled(WokenPut, "put") BY <1>5
    <3>5. Len(queue'["bus"]) = Len(b) - 1 /\ Len(b) \in Nat /\ BusMax \in Nat BY <1>2, <1>3
    <3>6. putters' # <<>> => BusMax <= Len(b) - 1 + Scheduled(ready, "put") + Scheduled(WokenPut, "put") BY <1>2
    <3> QED BY <3>2, <3>3, <3>5, <3>6
  <2> QED BY <1>2, <2>1, <2>2, <2>3 DEF Wakeups
<1> QED BY <1>6, <1>7, <1>8, <1>9 DEF LoopInv

LEMMA DispatchForwardsKeeps ==
  ASSUME LoopInv, Dispatch, NEW e \in Events, NEW q \in Behinds, DispatchForwards(e, q)
  PROVE  LoopInv'
<1>1. PICK b \in Seq(Events), c \in Seq(Events), d \in Seq(Events) :
        b = queue["bus"] /\ c = Tail(queue["bus"]) /\ d = queue[q]
  BY DispatchTakes, LoopTyped DEF Queues, Behinds
<1>2. /\ suspended["dispatcher"] = "no" /\ hand = NoEvent /\ ready \in Seq(Callbacks)
      /\ Len(b) \in Nat \ {0} /\ Len(b) <= BusMax /\ BusMax \in Nat /\ Len(c) = Len(b) - 1 /\ b # <<>>
      /\ unfinished["bus"] = Len(b) /\ putters' \in Seq(Events) /\ WokenPut \in Seq(Callbacks)
      /\ UNCHANGED <<joinInTask, emitted, deferred, drain, timedOut, hand>>
      /\ \A w \in Workers : Scheduled(WokenPut, w) = 0
      /\ putters' # <<>> => BusMax <= Len(b) - 1 + Scheduled(ready, "put") + Scheduled(WokenPut, "put")
      /\ "bus" \in Queues /\ queue \in [Queues -> Seq(Events)] /\ unfinished \in [Queues -> Nat]
  BY <1>1, DispatchTakes, LoopTyped, Names DEF Queues, DispatchForwards
<1>3. /\ q \in Queues /\ q # "bus" /\ Consumer[q] = q /\ "dispatcher" \in Workers /\ q # "dispatcher"
      /\ QueueMax[q] \in Nat /\ Len(d) \in Nat /\ Len(d) < QueueMax[q]
  <2>1. q \in Queues /\ q # "bus" /\ q # "dispatcher" BY DEF Behinds, Queues
  <2>2. Len(d) <= QueueMax[q] /\ Len(d) # QueueMax[q] BY <1>1, <2>1 DEF LoopInv, TypeOK, Full, DispatchForwards
  <2>3. QueueMax[q] \in Nat /\ Len(d) \in Nat BY <2>1, Names, LenProperties
  <2> QED BY <2>1, <2>2, <2>3, Names DEF Behinds, Workers
<1>4. /\ queue' \in [Queues -> Seq(Events)] /\ queue'["bus"] = c
      /\ Len(queue'[q]) = Len(d) + 1 /\ queue'[q] # <<>>
      /\ \A p \in Queues : p # "bus" /\ p # q => queue'[p] = queue[p]
  <2>1. PICK r : r = [queue EXCEPT !["bus"] = c] OBVIOUS
  <2>2. r \in [Queues -> Seq(Events)] /\ r["bus"] = c /\ \A p \in Queues : p # "bus" => r[p] = queue[p]
    BY <1>2, <2>1
  <2>3. queue' = [r EXCEPT ![q] = Append(d, e)] BY <1>1, <1>3, <2>1, <2>2 DEF DispatchForwards
  <2>4. Append(d, e) \in Seq(Events) /\ Len(Append(d, e)) = Len(d) + 1 /\ Append(d, e) # <<>>
    BY AppendProperties
  <2> QED BY <1>2, <1>3, <2>2, <2>3, <2>4
<1>5. unfinished[q] = Len(d)
  <2>1. unfinished[q] = Len(d) + 0 BY <1>1, <1>3 DEF LoopInv, Counts
  <2> QED BY <1>3, <2>1
<1>6. /\ unfinished' \in [Queues -> Nat] /\ unfinished'["bus"] = Len(b) - 1 /\ unfinished'[q] = Len(d) + 1
      /\ \A p \in Queues : p # q /\ p # "bus" => unfinished'[p] = unfinished[p]
  <2>1. unfinished' = [unfinished EXCEPT !["bus"] = Len(b) - 1, ![q] = Len(d) + 1]
    BY <1>2, <1>3, <1>5 DEF DispatchForwards
  <2>3. Len(b) \in Nat \ {0} /\ Len(d) \in Nat BY <1>2, <1>3
  <2>2. Len(b) - 1 \in Nat /\ Len(d) + 1 \in Nat BY <2>3
  <2> QED BY <1>2, <1>3, <2>1, <2>2
<1>7. /\ ready' \in Seq(Callbacks)
      /\ \A what \in Workers \cup {"put"} :
           Scheduled(ready', what) = Scheduled(ready, what) + (Scheduled(WokenPut, what) + Scheduled(Woken(q), what))
  <2>1. ready' = ((ready \o WokenPut) \o Woken(q)) \o Joined("bus") BY DEF DispatchForwards
  <2>2. Woken(q) \in Seq(Callbacks) BY <1>3, WokenTyped
  <2> DEFINE t == (WokenPut \o Woken(q)) \o Joined("bus")
  <2>4. /\ t \in Seq(Callbacks) /\ ready' = ready \o t
        /\ \A what \in Workers \cup {"put"} : Scheduled(t, what) = Scheduled(WokenPut, what) + Scheduled(Woken(q), what)
    BY <1>2, <2>1, <2>2, ThreeWakeups
  <2> HIDE DEF t
  <2> QED BY <1>2, <2>4, OnlyAppend
<1>8. /\ suspended' \in [Workers -> {"get", "put", "no"}]
      /\ suspended'[q] # "get"
      /\ \A w \in Workers : suspended'[w] = suspended[w] \/ (suspended[w] = "get" /\ suspended'[w] = "no")
      /\ \A w \in Workers : suspended'[w] = "no" <=> suspended[w] = "no" \/ (w = q /\ suspended[w] = "get")
  BY <1>3, Wakes DEF DispatchForwards
<1>9. TypeOK'
  <2>1. \A p \in Queues : Len(queue'[p]) <= QueueMax[p]
    <3> TAKE p \in Queues
    <3>1. CASE p = "bus" BY <1>2, <1>4, <3>1, Names
    <3>2. CASE p = q BY <1>3, <1>4, <3>2
    <3>3. CASE p # "bus" /\ p # q BY <1>4, <3>3 DEF LoopInv, TypeOK
    <3> QED BY <3>1, <3>2, <3>3
  <2>2. joining' \in Queues \cup {"none"} /\ outcome' \in [Events -> Outcomes]
    BY DEF DispatchForwards, LoopInv, TypeOK
  <2> QED BY <1>2, <1>4, <1>6, <1>7, <1>8, <2>1, <2>2 DEF LoopInv, TypeOK
<1>10. HandInv'
  <2>1. \A w \in Workers : suspended'[w] = "put" => suspended[w] = "put" BY <1>8
  <2> QED BY <1>2, <1>3, <2>1 DEF LoopInv, HandInv, Workers
<1>11. Counts'
  <2> SUFFICES ASSUME NEW p \in Queues PROVE unfinished'[p] = Len(queue'[p]) + 0 BY <1>2 DEF Counts
  <2>1. CASE p = "bus" BY <1>2, <1>4, <1>6, <2>1
  <2>2. CASE p = q BY <1>3, <1>4, <1>6, <2>2
  <2>3. CASE p # "bus" /\ p # q
    <3>1. unfinished[p] = Len(queue[p]) + 0 BY <2>3 DEF LoopInv, Counts
    <3> QED BY <1>4, <1>6, <2>3, <3>1
  <2> QED BY <2>1, <2>2, <2>3
<1>12. Wakeups'
  <2>1. ASSUME NEW p \in Queues, suspended'[Consumer[p]] = "get" PROVE queue'[p] = <<>>
    <3>1. suspended[Consumer[p]] = "get" /\ p # q BY <1>3, <1>8, <2>1, Names
    <3>2. p # "bus" BY <1>2, <3>1, Names
    <3> QED BY <1>4, <3>1, <3>2 DEF LoopInv, Wakeups
  <2>2. \A w \in Workers : Scheduled(ready', w) = IF suspended'[w] = "no" THEN 1 ELSE 0
    <3> TAKE w \in Workers
    <3>1. Scheduled(ready, w) = IF suspended[w] = "no" THEN 1 ELSE 0 BY DEF LoopInv, Wakeups
    <3>2. Scheduled(Woken(q), w) = IF suspended[w] = "get" /\ w = q THEN 1 ELSE 0 BY <1>3, WokenTyped
    <3>3. Scheduled(WokenPut, w) = 0 BY <1>2
    <3> QED BY <1>7, <1>8, <3>1, <3>2, <3>3
  <2>3. putters' # <<>> => BusMax <= Len(queue'["bus"]) + Scheduled(ready', "put")
    <3>1. Len(WokenPut) \in Nat BY <1>2, LenProperties
    <3>2. Scheduled(WokenPut, "put") \in Nat /\ Scheduled(ready, "put") \in Nat BY <3>1, ScheduledFinite, LoopTyped
    <3>3. Scheduled(Woken(q), "put") = 0 BY <1>3, WokenTyped DEF Behinds
    <3>4. Scheduled(ready', "put") = Scheduled(ready, "put") + Scheduled(WokenPut, "put") BY <1>7, <3>2, <3>3
    <3>5. Len(queue'["bus"]) = Len(b) - 1 /\ Len(b) \in Nat /\ BusMax \in Nat BY <1>2, <1>4
    <3>6. putters' # <<>> => BusMax <= Len(b) - 1 + Scheduled(ready, "put") + Scheduled(WokenPut, "put") BY <1>2
    <3> QED BY <3>2, <3>4, <3>5, <3>6
  <2>4. suspended'["dispatcher"] # "put" BY <1>2, <1>3, <1>8
  <2> QED BY <1>2, <2>1, <2>2, <2>3, <2>4 DEF Wakeups
<1> QED BY <1>9, <1>10, <1>11, <1>12 DEF LoopInv

LEMMA DispatchWaitsKeeps ==
  ASSUME LoopInv, Dispatch, NEW e \in Events, NEW q \in Behinds, DispatchWaits(e, q)
  PROVE  LoopInv'
<1>1. PICK b \in Seq(Events), c \in Seq(Events) : b = queue["bus"] /\ c = Tail(queue["bus"])
  BY DispatchTakes, LoopTyped DEF Queues
<1>2. /\ suspended["dispatcher"] = "no" /\ hand = NoEvent /\ ready \in Seq(Callbacks) /\ ready # <<>>
      /\ Head(ready)[1] = "dispatcher"
      /\ Len(b) \in Nat \ {0} /\ Len(b) <= BusMax /\ BusMax \in Nat /\ Len(c) = Len(b) - 1 /\ b # <<>>
      /\ unfinished["bus"] = Len(b) /\ putters' \in Seq(Events) /\ WokenPut \in Seq(Callbacks)
      /\ UNCHANGED <<joinInTask, emitted, deferred, drain, timedOut, unfinished, joining>>
      /\ \A w \in Workers : Scheduled(WokenPut, w) = 0
      /\ putters' # <<>> => BusMax <= Len(b) - 1 + Scheduled(ready, "put") + Scheduled(WokenPut, "put")
      /\ "bus" \in Queues /\ queue \in [Queues -> Seq(Events)] /\ unfinished \in [Queues -> Nat]
      /\ suspended \in [Workers -> {"get", "put", "no"}] /\ "dispatcher" \in Workers
      /\ q \in Queues /\ q # "bus" /\ hand' = e /\ hand' # NoEvent /\ q = Behind(e) /\ Full(q)
      /\ outcome' \in [Events -> Outcomes] /\ ready' = Tail(ready) \o WokenPut
  BY <1>1, DispatchTakes, LoopTyped, Names, TelemetryAssumption DEF Queues, Behinds, Workers, TelemetryAssumption, DispatchWaits
<1>3. /\ queue' \in [Queues -> Seq(Events)] /\ queue'["bus"] = c
      /\ \A p \in Queues : p # "bus" => queue'[p] = queue[p]
  <2>1. queue' = [queue EXCEPT !["bus"] = c] BY <1>1 DEF DispatchWaits
  <2> QED BY <1>2, <2>1
<1>4. /\ suspended' \in [Workers -> {"get", "put", "no"}] /\ suspended'["dispatcher"] = "put"
      /\ \A w \in Workers : w # "dispatcher" => suspended'[w] = suspended[w]
  BY <1>2 DEF DispatchWaits
<1>5. /\ ready' \in Seq(Callbacks)
      /\ \A what : Scheduled(ready', what) =
           Scheduled(ready, what) - (IF "dispatcher" = what THEN 1 ELSE 0) + Scheduled(WokenPut, what)
  BY <1>2, RunAndAppend
<1>6. TypeOK'
  <2>1. \A p \in Queues : Len(queue'[p]) <= QueueMax[p]
    <3> TAKE p \in Queues
    <3>1. CASE p = "bus" BY <1>2, <1>3, <3>1, Names
    <3>2. CASE p # "bus" BY <1>3, <3>2 DEF LoopInv, TypeOK
    <3> QED BY <3>1, <3>2
  <2> QED BY <1>2, <1>3, <1>4, <1>5, <2>1 DEF LoopInv, TypeOK
<1>7. HandInv' BY <1>2, <1>4 DEF LoopInv, HandInv, Workers
<1>8. Counts'
  <2> SUFFICES ASSUME NEW p \in Queues
               PROVE  unfinished[p] = Len(queue'[p]) + (IF p = "bus" THEN 1 ELSE 0)
    BY <1>2 DEF Counts
  <2>1. CASE p = "bus" BY <1>2, <1>3, <2>1
  <2>2. CASE p # "bus" BY <1>3, <2>2 DEF LoopInv, Counts
  <2> QED BY <2>1, <2>2
<1>9. Wakeups'
  <2>1. ASSUME NEW p \in Queues, suspended'[Consumer[p]] = "get" PROVE queue'[p] = <<>>
    <3>1. p # "bus" /\ suspended[Consumer[p]] = "get" BY <1>4, <2>1, Names
    <3> QED BY <1>3, <3>1 DEF LoopInv, Wakeups
  <2>2. Full(Behind(hand))'
    <3>1. Len(queue'[q]) = QueueMax[q] BY <1>2, <1>3 DEF Full
    <3> QED BY <1>2, <3>1 DEF Full, Behind
  <2>3. \A w \in Workers : Scheduled(ready', w) = IF suspended'[w] = "no" THEN 1 ELSE 0
    <3> TAKE w \in Workers
    <3>1. Scheduled(ready, w) = IF suspended[w] = "no" THEN 1 ELSE 0 BY DEF LoopInv, Wakeups
    <3>2. Scheduled(WokenPut, w) = 0 BY <1>2
    <3> QED BY <1>2, <1>4, <1>5, <3>1, <3>2
  <2>4. putters' # <<>> => BusMax <= Len(queue'["bus"]) + Scheduled(ready', "put")
    <3>1. Len(WokenPut) \in Nat BY <1>2, LenProperties
    <3>2. Scheduled(WokenPut, "put") \in Nat /\ Scheduled(ready, "put") \in Nat BY <3>1, ScheduledFinite, LoopTyped
    <3>3. Scheduled(ready', "put") = Scheduled(ready, "put") - 0 + Scheduled(WokenPut, "put") BY <1>5
    <3>5. Len(queue'["bus"]) = Len(b) - 1 /\ Len(b) \in Nat /\ BusMax \in Nat BY <1>2, <1>3
    <3>6. putters' # <<>> => BusMax <= Len(b) - 1 + Scheduled(ready, "put") + Scheduled(WokenPut, "put") BY <1>2
    <3> QED BY <3>2, <3>3, <3>5, <3>6
  <2> QED BY <2>1, <2>2, <2>3, <2>4 DEF Wakeups
<1> QED BY <1>6, <1>7, <1>8, <1>9 DEF LoopInv

LEMMA DispatchKeeps ==
  ASSUME LoopInv, Dispatch
  PROVE  LoopInv'
<1>1. PICK e \in Events : e = Head(queue["bus"]) BY DispatchTakes
<1>2. PICK q \in Behinds \cup {"none"} : q = Behind(e) BY <1>1, DispatchTakes
<1>3. \A o \in Outcomes : [outcome EXCEPT ![e] = o] \in [Events -> Outcomes] BY DEF LoopInv, TypeOK
<1>4. "stored" \in Outcomes /\ "failed" \in Outcomes BY DEF Outcomes
<1>5. CASE /\ \/ q = "none" /\ outcome' = [outcome EXCEPT ![e] = "stored"]
              \/ outcome' = [outcome EXCEPT ![e] = "failed"]
           /\ queue' = [queue EXCEPT !["bus"] = Tail(@)]
           /\ TaskDone("bus")
           /\ ready' = ready \o WokenPut \o Joined("bus")
           /\ UNCHANGED <<hand, suspended>>
  <2>1. outcome' \in [Events -> Outcomes] BY <1>3, <1>4, <1>5
  <2> QED BY <1>5, <2>1, DispatchEndsKeeps DEF DispatchEnds
<1>6. CASE /\ q # "none" /\ ~Full(q)
           /\ outcome' = [outcome EXCEPT ![e] = "stored"]
           /\ queue' = [[queue EXCEPT !["bus"] = Tail(@)] EXCEPT ![q] = Append(@, e)]
           /\ unfinished' = [unfinished EXCEPT !["bus"] = @ - 1, ![q] = @ + 1]
           /\ joining' = (IF LastDone("bus") THEN "none" ELSE joining)
           /\ ready' = ready \o WokenPut \o Woken(q) \o Joined("bus")
           /\ WakeConsumer(q)
           /\ UNCHANGED hand
  <2>1. outcome' \in [Events -> Outcomes] /\ q \in Behinds BY <1>3, <1>4, <1>6
  <2> QED BY <1>1, <1>2, <1>6, <2>1, DispatchForwardsKeeps DEF DispatchForwards
<1>7. CASE /\ q # "none" /\ Full(q)
           /\ outcome' = [outcome EXCEPT ![e] = "stored"]
           /\ queue' = [queue EXCEPT !["bus"] = Tail(@)] /\ hand' = e
           /\ suspended' = [suspended EXCEPT !["dispatcher"] = "put"]
           /\ ready' = Tail(ready) \o WokenPut
           /\ UNCHANGED <<unfinished, joining>>
  <2>1. outcome' \in [Events -> Outcomes] /\ q \in Behinds BY <1>3, <1>4, <1>7
  <2> QED BY <1>1, <1>2, <1>7, <2>1, DispatchWaitsKeeps DEF DispatchWaits
<1> QED BY <1>1, <1>2, <1>5, <1>6, <1>7 DEF Dispatch


\* The callback that runs makes way for others that are neither a worker nor take a put away.
LEMMA CallbackRuns ==
  ASSUME LoopInv, ready # <<>>, Head(ready)[1] \notin Workers, NEW t \in Seq(Callbacks),
         \A w \in Workers : Scheduled(t, w) = 0,
         Head(ready)[1] # "put", ready' = Tail(ready) \o t
  PROVE  /\ ready' \in Seq(Callbacks) /\ Scheduled(ready', "put") \in Nat
         /\ \A w \in Workers : Scheduled(ready', w) = Scheduled(ready, w)
         /\ Scheduled(ready', "put") >= Scheduled(ready, "put")
<1>1. /\ ready' \in Seq(Callbacks)
      /\ \A what : /\ Scheduled(ready', what) \in Nat
                   /\ Scheduled(ready', what) =
                        Scheduled(ready, what) - (IF Head(ready)[1] = what THEN 1 ELSE 0) + Scheduled(t, what)
  BY LoopTyped, RunAndAppend
<1>2. Len(t) \in Nat BY LenProperties
<1>3. \A what : Scheduled(t, what) \in Nat /\ Scheduled(ready, what) \in Nat BY <1>2, ScheduledFinite, LoopTyped
<1>4. \A w \in Workers : Scheduled(ready', w) = Scheduled(ready, w)
  <2> TAKE w \in Workers
  <2>1. Scheduled(ready', w) = Scheduled(ready, w) - 0 + 0 BY <1>1
  <2> QED BY <1>3, <2>1
<1>5. Scheduled(ready', "put") >= Scheduled(ready, "put")
  <2>1. Scheduled(ready', "put") = Scheduled(ready, "put") - 0 + Scheduled(t, "put") BY <1>1
  <2> QED BY <1>3, <2>1
<1> QED BY <1>1, <1>4, <1>5

\* Only a callback is appended.
LEMMA CallbackComes ==
  ASSUME LoopInv, NEW c \in Callbacks, c[1] \notin Workers, ready' = Append(ready, c)
  PROVE  /\ ready' \in Seq(Callbacks) /\ Scheduled(ready', "put") \in Nat
         /\ \A w \in Workers : Scheduled(ready', w) = Scheduled(ready, w)
         /\ Scheduled(ready', "put") >= Scheduled(ready, "put")
<1>1. <<c>> \in Seq(Callbacks) /\ ready' = ready \o <<c>>
      /\ \A what : Scheduled(<<c>>, what) = IF c[1] = what THEN 1 ELSE 0
  BY OneCallback, LoopTyped
<1>2. /\ ready' \in Seq(Callbacks)
      /\ \A what : /\ Scheduled(ready', what) \in Nat
                   /\ Scheduled(ready', what) = Scheduled(ready, what) + Scheduled(<<c>>, what)
  BY <1>1, LoopTyped, OnlyAppend
<1>3. \A what : Scheduled(ready, what) \in Nat BY LoopTyped
<1>4. \A w \in Workers : Scheduled(ready', w) = Scheduled(ready, w)
  <2> TAKE w \in Workers
  <2>1. Scheduled(ready', w) = Scheduled(ready, w) + 0 BY <1>1, <1>2
  <2> QED BY <1>3, <2>1
<1>5. Scheduled(ready', "put") >= Scheduled(ready, "put") BY <1>1, <1>2, <1>3
<1> QED BY <1>2, <1>4, <1>5

\* The callback that runs leaves one behind, or none.
LEMMA CallbackFollows ==
  ASSUME LoopInv, ready # <<>>, Head(ready)[1] \notin Workers, Head(ready)[1] # "put",
         \/ ready' = Tail(ready)
         \/ \E c \in Callbacks : c[1] \notin Workers /\ ready' = Append(Tail(ready), c)
  PROVE  /\ ready' \in Seq(Callbacks) /\ Scheduled(ready', "put") \in Nat
         /\ \A w \in Workers : Scheduled(ready', w) = Scheduled(ready, w)
         /\ Scheduled(ready', "put") >= Scheduled(ready, "put")
<1>1. Tail(ready) \in Seq(Callbacks) BY LoopTyped, HeadTailProperties
<1>2. CASE ready' = Tail(ready)
  <2>1. ready' = Tail(ready) \o <<>> BY <1>1, <1>2, NoCallback
  <2> QED BY <2>1, NoCallback, CallbackRuns
<1>3. ASSUME NEW c \in Callbacks, c[1] \notin Workers, ready' = Append(Tail(ready), c)
      PROVE  /\ ready' \in Seq(Callbacks) /\ Scheduled(ready', "put") \in Nat
             /\ \A w \in Workers : Scheduled(ready', w) = Scheduled(ready, w)
             /\ Scheduled(ready', "put") >= Scheduled(ready, "put")
  <2>1. <<c>> \in Seq(Callbacks) /\ ready' = Tail(ready) \o <<c>> BY <1>1, <1>3, OneCallback
  <2>2. \A w \in Workers : Scheduled(<<c>>, w) = 0 BY <1>3, OneCallback
  <2> QED BY <2>1, <2>2, CallbackRuns
<1> QED BY <1>2, <1>3

LEMMA EnqueueKeeps ==
  ASSUME LoopInv, Enqueue
  PROVE  LoopInv'
<1>1. /\ ready # <<>> /\ Head(ready)[1] = "enqueue" /\ ready \in Seq(Callbacks)
      /\ UNCHANGED <<joinInTask, emitted, putters, hand, drain, joining, timedOut>>
  BY LoopTyped DEF Enqueue, Running
<1>2. PICK e \in Events : e = Argument /\ (e \in Critical => <<"put", e>> \in Callbacks)
  <2>1. Head(ready) \in Callbacks BY <1>1, HeadTailProperties
  <2>2. Head(ready)[2] \in Events BY <1>1, <2>1 DEF Callbacks, Workers
  <2> QED BY <2>2, CallbackTypes DEF Argument
<1>3. CASE PutOnBus(e) /\ UNCHANGED deferred BY <1>1, <1>3, PutOnBusKeeps
<1>4. CASE /\ IF e \in Critical
              THEN /\ ready' = Append(Tail(ready), <<"put", e>>)
                   /\ deferred' = deferred \cup {e}
                   /\ UNCHANGED outcome
              ELSE /\ ready' = Tail(ready)
                   /\ outcome' = [outcome EXCEPT ![e] = "dropped"]
                   /\ UNCHANGED deferred
           /\ UNCHANGED <<queue, unfinished, suspended>>
  <2>1. Head(ready)[1] \notin Workers /\ Head(ready)[1] # "put" BY <1>1 DEF Workers
  <2>2. \/ ready' = Tail(ready)
        \/ \E c \in Callbacks : c[1] \notin Workers /\ ready' = Append(Tail(ready), c)
    <3>1. <<"put", e>>[1] \notin Workers BY DEF Workers
    <3> QED BY <1>2, <1>4, <3>1
  <2>3. /\ ready' \in Seq(Callbacks) /\ Scheduled(ready', "put") \in Nat
        /\ \A w \in Workers : Scheduled(ready', w) = Scheduled(ready, w)
        /\ Scheduled(ready', "put") >= Scheduled(ready, "put")
    BY <1>1, <2>1, <2>2, CallbackFollows
  <2>4. outcome' \in [Events -> Outcomes] /\ deferred' \subseteq Critical
    BY <1>4 DEF LoopInv, TypeOK, Outcomes
  <2>5. /\ emitted' \in Seq(Events) /\ drain' \in {"off", "on", "stopped"}
        /\ joining' \in Queues \cup {"none"} /\ timedOut' \in BOOLEAN
    BY <1>1 DEF LoopInv, TypeOK
  <2>6. UNCHANGED <<joinInTask, queue, unfinished, suspended, hand, putters>> BY <1>1, <1>4
  <2> QED BY <2>3, <2>4, <2>5, <2>6, LoopGoesOn
<1> QED BY <1>2, <1>3, <1>4 DEF Enqueue

LEMMA PutKeeps ==
  ASSUME LoopInv, Put
  PROVE  LoopInv'
<1>1. /\ ready # <<>> /\ Head(ready)[1] = "put" /\ ready \in Seq(Callbacks)
      /\ UNCHANGED <<joinInTask, emitted, hand, deferred, drain, joining, timedOut>>
  BY LoopTyped DEF Put, Running
<1>2. PICK e \in Events : e = Argument
  <2>1. Head(ready) \in Callbacks BY <1>1, HeadTailProperties
  <2>2. Head(ready)[2] \in Events BY <1>1, <2>1 DEF Callbacks, Workers
  <2> QED BY <2>2 DEF Argument
<1>3. CASE PutOnBus(e) /\ UNCHANGED putters BY <1>1, <1>3, PutOnBusKeeps
<1>4. CASE /\ Full("bus")
           /\ putters' = Append(putters, e)
           /\ ready' = Tail(ready)
           /\ UNCHANGED <<queue, unfinished, outcome, suspended>>
  <2>1. /\ ready' \in Seq(Callbacks)
        /\ \A what : Scheduled(ready', what) = Scheduled(ready, what) - (IF "put" = what THEN 1 ELSE 0)
    BY <1>1, <1>4, HeadTailProperties, ScheduledTail
  <2>2. putters' \in Seq(Events) BY <1>4, LoopTyped, AppendProperties
  <2>3. TypeOK' BY <1>1, <1>4, <2>1, <2>2 DEF LoopInv, TypeOK
  <2>4. HandInv' /\ Counts' BY <1>1, <1>4 DEF LoopInv, HandInv, Counts
  <2>5. Wakeups'
    <3>1. \A w \in Workers : Scheduled(ready', w) = IF suspended[w] = "no" THEN 1 ELSE 0
      <4> TAKE w \in Workers
      <4>1. w # "put" BY DEF Workers
      <4>2. Scheduled(ready, w) \in Nat BY LoopTyped
      <4> QED BY <2>1, <4>1, <4>2 DEF LoopInv, Wakeups
    <3>2. BusMax <= Len(queue["bus"]) + Scheduled(ready', "put")
      <4>1. Len(queue["bus"]) = BusMax /\ BusMax \in Nat BY <1>4, Names DEF Full, Queues
      <4>2. Len(Tail(ready)) \in Nat BY <1>1, HeadTailProperties, LenProperties
      <4>3. Scheduled(ready', "put") \in Nat BY <1>4, <4>2, ScheduledFinite
      <4> QED BY <4>1, <4>3
    <3> QED BY <1>1, <1>4, <3>1, <3>2 DEF LoopInv, Wakeups, Full
  <2> QED BY <2>3, <2>4, <2>5 DEF LoopInv
<1> QED BY <1>2, <1>3, <1>4 DEF Put

LEMMA FirstUnfinishedTyped ==
  ASSUME LoopInv, NEW q \in Queues
  PROVE  FirstUnfinished(q) \in Queues \cup {"end"}
<1>1. unfinished["bus"] \in Nat /\ unfinished["ingestion"] \in Nat /\ unfinished["summary"] \in Nat
  BY LoopTyped DEF Queues
<1>2. Remaining("bus") = Queues /\ Remaining("ingestion") = {"ingestion", "summary"}
      /\ Remaining("summary") = {"summary"}
  BY DEF Remaining
<1> DEFINE First(p) == unfinished[p] > 0 /\ \A o \in Remaining(q) \ Remaining(p) : unfinished[o] = 0
<1>3. ASSUME ~(\A p \in Remaining(q) : unfinished[p] = 0)
      PROVE  \E p \in Remaining(q) : First(p)
  <2>1. CASE q = "bus" BY <1>1, <1>2, <1>3, <2>1 DEF Queues
  <2>2. CASE q = "ingestion" BY <1>1, <1>2, <1>3, <2>2
  <2>3. CASE q = "summary" BY <1>1, <1>2, <1>3, <2>3
  <2> QED BY <2>1, <2>2, <2>3 DEF Queues
<1>4. Remaining(q) \subseteq Queues BY <1>2 DEF Queues
<1>5. FirstUnfinished(q) =
        IF \A p \in Remaining(q) : unfinished[p] = 0 THEN "end" ELSE CHOOSE p \in Remaining(q) : First(p)
  BY DEF FirstUnfinished
<1> HIDE DEF First
<1>6. (\E p \in Remaining(q) : First(p)) => (CHOOSE p \in Remaining(q) : First(p)) \in Remaining(q) OBVIOUS
<1> QED BY <1>3, <1>4, <1>5, <1>6

\* Steps of the drain change the callbacks, but no worker's and no put's.
LEMMA DrainKeeps ==
  ASSUME LoopInv, DrainStep \/ JoinStep
  PROVE  LoopInv'
<1>1. /\ ready # <<>> /\ Head(ready)[1] \in Tokens /\ ready \in Seq(Callbacks)
      /\ UNCHANGED <<joinInTask, emitted, queue, unfinished, putters, suspended, hand, outcome, deferred, timedOut>>
  BY LoopTyped DEF DrainStep, JoinStep, Running, Tokens
<1>2. Argument \in Queues \cup {"end"} /\ (Head(ready)[1] # "drain" => Argument \in Queues)
  <2>1. Head(ready) \in Callbacks BY <1>1, HeadTailProperties
  <2> QED BY <1>1, <2>1 DEF Argument, Callbacks, Tokens, Workers
<1>3. /\ \/ ready' = ready \/ ready' = Tail(ready)
         \/ \E c \in Callbacks : c[1] \notin Workers /\ ready' = Append(Tail(ready), c)
      /\ drain' \in {"off", "on", "stopped"} /\ joining' \in Queues \cup {"none"}
  <2>1. /\ \A k \in Tokens, q \in Queues : <<k, q>> \in Callbacks /\ <<k, q>>[1] \notin Workers
        /\ <<"drain", "end">> \in Callbacks /\ <<"drain", "end">>[1] \notin Workers
    BY CallbackTypes DEF Tokens, Workers
  <2>2. drain \in {"off", "on", "stopped"} /\ joining \in Queues \cup {"none"} BY DEF LoopInv, TypeOK
  <2>3. CASE DrainStep
    <3>1. CASE StopWorkers BY <2>2, <3>1 DEF StopWorkers
    <3>2. CASE Argument # "end" /\ ready' = Append(Tail(ready), <<"join", Argument>>) /\ UNCHANGED <<drain, joining>>
      BY <1>2, <2>1, <2>2, <3>2 DEF Tokens
    <3>3. CASE /\ Argument # "end" /\ FirstUnfinished(Argument) # "end" /\ ready' = Tail(ready)
               /\ joining' = FirstUnfinished(Argument) /\ UNCHANGED drain
      BY <1>2, <2>2, <3>3, FirstUnfinishedTyped
    <3> QED BY <2>3, <3>1, <3>2, <3>3 DEF DrainStep
  <2>4. CASE JoinStep
    <3>1. drain' = drain /\ Argument \in Queues BY <1>2, <2>4 DEF JoinStep, Running
    <3>2. CASE ready' = Append(Tail(ready), <<"released", Argument>>) /\ UNCHANGED joining
      BY <2>1, <2>2, <3>1, <3>2 DEF Tokens
    <3>3. CASE ready' = Tail(ready) /\ joining' = Argument BY <2>2, <3>1, <3>3
    <3>4. CASE ready' = Append(Tail(ready), <<"drain", After[Argument]>>) /\ UNCHANGED joining
      BY <2>1, <2>2, <3>1, <3>4, Names DEF Tokens
    <3> QED BY <2>4, <3>2, <3>3, <3>4 DEF JoinStep
  <2> QED BY <2>3, <2>4
<1>4. /\ ready' \in Seq(Callbacks) /\ Scheduled(ready', "put") \in Nat
      /\ \A w \in Workers : Scheduled(ready', w) = Scheduled(ready, w)
      /\ Scheduled(ready', "put") >= Scheduled(ready, "put")
  <2>1. Head(ready)[1] \notin Workers /\ Head(ready)[1] # "put" BY <1>1 DEF Tokens, Workers
  <2>2. CASE ready' = ready BY <2>2, LoopTyped
  <2> QED BY <1>1, <1>3, <2>1, <2>2, CallbackFollows
<1>5. emitted' \in Seq(Events) /\ outcome' \in [Events -> Outcomes] /\ deferred' \subseteq Critical
      /\ timedOut' \in BOOLEAN
  BY <1>1 DEF LoopInv, TypeOK
<1> QED BY <1>1, <1>3, <1>4, <1>5, LoopGoesOn

LEMMA EmitKeeps ==
  ASSUME LoopInv, NEW e \in Events, Emit(e)
  PROVE  LoopInv'
<1>1. PICK c \in Callbacks : c = <<"enqueue", e>> BY CallbackTypes
<1>2. c[1] \notin Workers /\ ready' = Append(ready, c) BY <1>1 DEF Emit, Workers
<1>3. /\ ready' \in Seq(Callbacks) /\ Scheduled(ready', "put") \in Nat
      /\ \A w \in Workers : Scheduled(ready', w) = Scheduled(ready, w)
      /\ Scheduled(ready', "put") >= Scheduled(ready, "put")
  BY <1>2, CallbackComes
<1>4. emitted' \in Seq(Events) BY AppendProperties DEF Emit, LoopInv, TypeOK
<1>5. /\ UNCHANGED <<joinInTask, queue, unfinished, suspended, hand, putters>>
      /\ outcome' \in [Events -> Outcomes] /\ deferred' \subseteq Critical /\ timedOut' \in BOOLEAN
      /\ drain' \in {"off", "on", "stopped"} /\ joining' \in Queues \cup {"none"}
  BY DEF Emit, LoopInv, TypeOK
<1> QED BY <1>3, <1>4, <1>5, LoopGoesOn

\* Shutdown, and the two timeouts.
LEMMA ShutdownKeeps ==
  ASSUME LoopInv, Shutdown \/ JoinTimesOut \/ LoopStops
  PROVE  LoopInv'
<1>1. /\ UNCHANGED <<joinInTask, emitted, queue, unfinished, suspended, hand, putters, outcome, deferred>>
      /\ timedOut' \in BOOLEAN /\ drain' \in {"off", "on", "stopped"} /\ joining' \in Queues \cup {"none"}
  BY DEF Shutdown, JoinTimesOut, LoopStops, LoopInv, TypeOK
<1>2. outcome' \in [Events -> Outcomes] /\ deferred' \subseteq Critical /\ emitted' \in Seq(Events)
  BY <1>1 DEF LoopInv, TypeOK
<1>3. \/ ready' = ready
      \/ \E c \in Callbacks : c[1] \notin Workers /\ ready' = Append(ready, c)
  <2>1. /\ <<"drain", "bus">> \in Callbacks /\ <<"drain", "bus">>[1] \notin Workers
        /\ \A q \in Queues \cup {"end"} : <<"drain", q>> \in Callbacks /\ <<"drain", q>>[1] \notin Workers
    BY CallbackTypes DEF Tokens, Queues, Workers
  <2>2. CASE JoinTimesOut
    <3>1. joining \in Queues BY <2>2 DEF JoinTimesOut, LoopInv, TypeOK
    <3> QED BY <2>1, <2>2, <3>1, Names DEF JoinTimesOut
  <2> QED BY <2>1, <2>2 DEF Shutdown, LoopStops
<1>4. /\ ready' \in Seq(Callbacks) /\ Scheduled(ready', "put") \in Nat
      /\ \A w \in Workers : Scheduled(ready', w) = Scheduled(ready, w)
      /\ Scheduled(ready', "put") >= Scheduled(ready, "put")
  <2>1. CASE ready' = ready BY <2>1, LoopTyped
  <2> QED BY <1>3, <2>1, CallbackComes
<1> QED BY <1>1, <1>2, <1>4, LoopGoesOn

LEMMA LoopInvKept ==
  ASSUME LoopInv, [Next]_vars
  PROVE  LoopInv'
<1>1. CASE UNCHANGED vars
  BY <1>1 DEF vars, LoopInv, TypeOK, HandInv, Counts, Wakeups, Full, Behind
<1>2. CASE Ended
  BY <1>2 DEF Ended, vars, LoopInv, TypeOK, HandInv, Counts, Wakeups, Full, Behind
<1>3. CASE LoopStep
  <2>1. DispatcherIdles \/ IngestionIdles \/ SummaryIdles => \E q \in Queues : Idle(Consumer[q], q)
    BY Names DEF DispatcherIdles, IngestionIdles, SummaryIdles, Queues
  <2>2. Ingest \/ Summarize => \E w \in Behinds, results \in SUBSET Outcomes : Work(w, results)
    <3>1. {"ingested", "failed"} \in SUBSET Outcomes /\ {"failed"} \in SUBSET Outcomes BY DEF Outcomes
    <3> QED BY <3>1 DEF Ingest, Summarize, Behinds
  <2> QED BY <1>3, <2>1, <2>2, EnqueueKeeps, PutKeeps, IdleKeeps, DispatchKeeps, ForwardKeeps, WorkKeeps, DrainKeeps
      DEF LoopStep
<1> QED BY <1>1, <1>2, <1>3, EmitKeeps, ShutdownKeeps DEF Next

LEMMA LoopInvariant == Spec => []LoopInv
BY InitLoopInv, LoopInvKept, PTL DEF Spec

\* The runtime's state keeps its type: no queue ever holds more events than its
\* maxsize, and no count of unfinished tasks falls below zero.
THEOREM TelemetryTypeCorrect == Spec => []TypeOK
<1>1. LoopInv => TypeOK BY DEF LoopInv
<1> QED BY <1>1, LoopInvariant, PTL

\* Queue.join() counts the events a queue holds and the one the dispatcher stored
\* and could not yet forward, whatever the sizes of the queues and the events.
THEOREM JoinCountsEvents == Spec => []JoinCountsMatch
<1>1. LoopInv => JoinCountsMatch BY DEF LoopInv, Counts, JoinCountsMatch
<1> QED BY <1>1, LoopInvariant, PTL

\* No worker sleeps on a queue that has what it waits for, none is scheduled twice,
\* and no put that waits for a slot of the bus is left behind when there is one.
THEOREM WakeupsArrive == Spec => []NoLostWakeup
<1>1. ASSUME LoopInv PROVE NoLostWakeup
  <2>1. \A w \in Workers :
          Cardinality({i \in 1 .. Len(ready) : ready[i][1] = w}) = IF suspended[w] = "no" THEN 1 ELSE 0
    BY <1>1 DEF LoopInv, Wakeups, Scheduled
  <2>2. putters # <<>> => Full("bus") \/ \E i \in 1 .. Len(ready) : ready[i][1] = "put"
    <3> SUFFICES ASSUME putters # <<>>, \A i \in 1 .. Len(ready) : ready[i][1] # "put" PROVE Full("bus")
      OBVIOUS
    <3>1. {i \in 1 .. Len(ready) : ready[i][1] = "put"} = {} OBVIOUS
    <3>2. Scheduled(ready, "put") = 0 BY <3>1, FS_EmptySet DEF Scheduled
    <3>3. BusMax <= Len(queue["bus"]) + 0 BY <1>1, <3>2 DEF LoopInv, Wakeups
    <3>4. Len(queue["bus"]) <= BusMax /\ Len(queue["bus"]) \in Nat /\ BusMax \in Nat
      BY <1>1, Names, LoopTyped DEF LoopInv, TypeOK, Queues
    <3>5. Len(queue["bus"]) = BusMax BY <3>3, <3>4
    <3> QED BY <3>5, Names DEF Full
  <2> QED BY <1>1, <2>1, <2>2 DEF LoopInv, Wakeups, NoLostWakeup
<1> QED BY <1>1, LoopInvariant, PTL


-----------------------------------------------------------------------------
(* The order in which events go from the collectors to the workers.        *)

LEMMA HasConcat ==
  ASSUME NEW S, NEW s \in Seq(S), NEW t \in Seq(S), NEW x
  PROVE  Has(s \o t, x) <=> Has(s, x) \/ Has(t, x)
<1>1. Len(s) \in Nat /\ Len(t) \in Nat /\ Len(s \o t) = Len(s) + Len(t)
      /\ \A i \in 1..(Len(s) + Len(t)) : (s \o t)[i] = IF i <= Len(s) THEN s[i] ELSE t[i - Len(s)]
  BY ConcatProperties, LenProperties
<1>2. ASSUME Has(s \o t, x) PROVE Has(s, x) \/ Has(t, x)
  <2>1. PICK i \in 1..(Len(s) + Len(t)) : (s \o t)[i] = x BY <1>1, <1>2 DEF Has
  <2>2. CASE i <= Len(s) BY <1>1, <2>1, <2>2 DEF Has
  <2>3. CASE ~(i <= Len(s))
    <3>1. i - Len(s) \in 1..Len(t) BY <1>1, <2>3
    <3> QED BY <1>1, <2>1, <2>3, <3>1 DEF Has
  <2> QED BY <2>2, <2>3
<1>3. ASSUME Has(s, x) PROVE Has(s \o t, x)
  <2>1. PICK i \in 1..Len(s) : s[i] = x BY <1>3 DEF Has
  <2>2. i \in 1..Len(s \o t) /\ (s \o t)[i] = x BY <1>1, <2>1
  <2> QED BY <2>2 DEF Has
<1>4. ASSUME Has(t, x) PROVE Has(s \o t, x)
  <2>1. PICK i \in 1..Len(t) : t[i] = x BY <1>4 DEF Has
  <2>2. i + Len(s) \in 1..Len(s \o t) /\ (s \o t)[i + Len(s)] = x BY <1>1, <2>1
  <2> QED BY <2>2 DEF Has
<1> QED BY <1>2, <1>3, <1>4

LEMMA HasOne ==
  ASSUME NEW c, NEW x
  PROVE  (Has(<<c>>, x) <=> x = c) /\ ~Has(<<>>, x)
BY DEF Has

LEMMA HasTail ==
  ASSUME NEW S, NEW s \in Seq(S), s # <<>>, NEW x
  PROVE  Has(s, x) <=> x = Head(s) \/ Has(Tail(s), x)
<1>1. <<Head(s)>> \in Seq(S) /\ Tail(s) \in Seq(S) /\ s = <<Head(s)>> \o Tail(s) BY HeadAndTail
<1>2. Has(<<Head(s)>> \o Tail(s), x) <=> Has(<<Head(s)>>, x) \/ Has(Tail(s), x) BY <1>1, HasConcat
<1> QED BY <1>1, <1>2, HasOne

LEMMA HasAppend ==
  ASSUME NEW S, NEW s \in Seq(S), NEW c \in S, NEW x
  PROVE  Has(Append(s, c), x) <=> Has(s, x) \/ x = c
<1>1. <<c>> \in Seq(S) /\ Append(s, c) = s \o <<c>> BY AppendIsConcat
<1>2. Has(s \o <<c>>, x) <=> Has(s, x) \/ Has(<<c>>, x) BY <1>1, HasConcat
<1> QED BY <1>1, <1>2, HasOne

\* Emission is a strict order.
LEMMA BeforeOrders ==
  ASSUME LoopInv, EmittedOnce, NEW a, NEW b, EmittedBefore(a, b)
  PROVE  a \in Emitted /\ b \in Emitted /\ a # b /\ ~EmittedBefore(b, a)
<1>1. Len(emitted) \in Nat BY LenProperties DEF LoopInv, TypeOK
<1>2. PICK i, j \in 1..Len(emitted) : i < j /\ emitted[i] = a /\ emitted[j] = b BY DEF EmittedBefore
<1>3. a \in Emitted /\ b \in Emitted BY <1>2 DEF Emitted
<1>4. a # b BY <1>1, <1>2 DEF EmittedOnce
<1>5. ASSUME EmittedBefore(b, a) PROVE FALSE
  <2>1. PICK k, l \in 1..Len(emitted) : k < l /\ emitted[k] = b /\ emitted[l] = a BY <1>5 DEF EmittedBefore
  <2>2. k = j /\ l = i BY <1>2, <2>1 DEF EmittedOnce
  <2> QED BY <1>1, <1>2, <2>1, <2>2
<1> QED BY <1>3, <1>4, <1>5

\* The callbacks after one ran (k = 1) or none (k = 0), and others were appended.
Moved(s, t, u, k) == (k = 0 /\ u = s \o t) \/ (k = 1 /\ s # <<>> /\ u = Tail(s) \o t)

LEMMA Positions ==
  ASSUME NEW S, NEW s \in Seq(S), NEW t \in Seq(S), NEW u, NEW k \in {0, 1}, Moved(s, t, u, k)
  PROVE  /\ Len(u) \in Nat /\ Len(u) = Len(s) - k + Len(t)
         /\ \A r \in 1..Len(u) :
              \/ r + k \in 1..Len(s) /\ u[r] = s[r + k]
              \/ r - Len(s) + k \in 1..Len(t) /\ u[r] = t[r - Len(s) + k]
<1>1. Len(s) \in Nat /\ Len(t) \in Nat BY LenProperties
<1>2. PICK w \in Seq(S) :
        /\ Len(w) = Len(s) - k /\ (\A i \in 1..Len(w) : i + k \in 1..Len(s) /\ w[i] = s[i + k])
        /\ u = w \o t
  <2>1. CASE k = 0
    <3>1. \A i \in 1..Len(s) : i + 0 = i /\ i + 0 \in 1..Len(s) BY <1>1
    <3>2. Len(s) = Len(s) - 0 BY <1>1
    <3>3. u = s \o t BY <2>1 DEF Moved
    <3> QED BY <2>1, <3>1, <3>2, <3>3
  <2>2. CASE k = 1
    <3>1. s # <<>> /\ u = Tail(s) \o t BY <2>2 DEF Moved
    <3>2. PICK w \in Seq(S) : w = Tail(s) BY <3>1, HeadTailProperties
    <3>3. Len(w) = Len(s) - 1 /\ \A i \in 1..Len(w) : w[i] = s[i + 1] BY <3>1, <3>2, HeadTailProperties
    <3>4. \A i \in 1..Len(w) : i + 1 \in 1..Len(s) BY <1>1, <3>3
    <3> QED BY <2>2, <3>1, <3>2, <3>3, <3>4
  <2> QED BY <2>1, <2>2
<1>3. Len(w) \in Nat /\ Len(u) = Len(w) + Len(t)
      /\ \A i \in 1..(Len(w) + Len(t)) : u[i] = IF i <= Len(w) THEN w[i] ELSE t[i - Len(w)]
  BY <1>2, ConcatProperties, LenProperties
<1>4. Len(u) \in Nat /\ Len(u) = Len(s) - k + Len(t) BY <1>1, <1>2, <1>3
<1>5. ASSUME NEW r \in 1..Len(u)
      PROVE  \/ r + k \in 1..Len(s) /\ u[r] = s[r + k]
             \/ r - Len(s) + k \in 1..Len(t) /\ u[r] = t[r - Len(s) + k]
  <2>1. CASE r <= Len(w)
    <3>1. r \in 1..Len(w) /\ u[r] = w[r] BY <1>1, <1>3, <2>1
    <3> QED BY <1>2, <3>1
  <2>2. CASE ~(r <= Len(w))
    <3>1. r - Len(w) \in 1..Len(t) /\ u[r] = t[r - Len(w)] BY <1>1, <1>3, <2>2
    <3>2. r - Len(w) = r - Len(s) + k BY <1>1, <1>2, <1>3
    <3> QED BY <3>1, <3>2
  <2> QED BY <2>1, <2>2
<1> QED BY <1>4, <1>5

LEMMA OrderOfCallbacksKept ==
  ASSUME CallbacksInOrder, ready \in Seq(Callbacks), NEW t \in Seq(Callbacks), NoEnqueue(t),
         ready' = ready \o t \/ (ready # <<>> /\ ready' = Tail(ready) \o t), UNCHANGED emitted
  PROVE  CallbacksInOrder'
<1>u. PICK u : u = ready' OBVIOUS
<1>0. PICK k \in {0, 1} : Moved(ready, t, u, k) BY <1>u DEF Moved
<1>1. \A r \in 1..Len(u) :
        \/ r + k \in 1..Len(ready) /\ u[r] = ready[r + k]
        \/ r - Len(ready) + k \in 1..Len(t) /\ u[r] = t[r - Len(ready) + k]
  <2> TAKE r \in 1..Len(u)
  <2> QED BY <1>0, Positions
<1>2. ASSUME NEW r \in 1..Len(ready'), ready'[r][1] = "enqueue"
      PROVE  r + k \in 1..Len(ready) /\ ready'[r] = ready[r + k]
  BY <1>u, <1>1, <1>2 DEF NoEnqueue
<1>3. ASSUME NEW p \in 1..Len(ready'), NEW r \in 1..Len(ready'), p < r,
             ready'[p][1] = "enqueue", ready'[r][1] = "enqueue"
      PROVE  EmittedBefore(ready'[p][2], ready'[r][2])
  <2>1. p + k \in 1..Len(ready) /\ r + k \in 1..Len(ready) /\ ready'[p] = ready[p + k] /\ ready'[r] = ready[r + k]
    BY <1>2, <1>3
  <2>2. p + k < r + k BY <1>3
  <2> QED BY <1>3, <2>1, <2>2 DEF CallbacksInOrder
<1>4. \A a, b : EmittedBefore(a, b)' <=> EmittedBefore(a, b) BY DEF EmittedBefore
<1> QED BY <1>3, <1>4 DEF CallbacksInOrder

\* Other callbacks come and go.
LEMMA PendingKept ==
  ASSUME ready \in Seq(Callbacks), NEW t \in Seq(Callbacks), NoEnqueue(t),
         \/ ready' = ready \o t
         \/ ready # <<>> /\ Head(ready)[1] # "enqueue" /\ ready' = Tail(ready) \o t
  PROVE  \A e : Pending(e)' <=> Pending(e)
<1> TAKE e
<1>1. PICK c : c = <<"enqueue", e>> OBVIOUS
<1>2. ~Has(t, c) BY <1>1 DEF NoEnqueue, Has
<1>3. Has(ready', c) <=> Has(ready, c)
  <2>1. CASE ready' = ready \o t BY <1>2, <2>1, HasConcat
  <2>2. CASE ready # <<>> /\ Head(ready)[1] # "enqueue" /\ ready' = Tail(ready) \o t
    <3>1. Tail(ready) \in Seq(Callbacks) BY <2>2, HeadTailProperties
    <3>2. Has(ready', c) <=> Has(Tail(ready), c) BY <1>2, <2>2, <3>1, HasConcat
    <3>3. c # Head(ready) BY <1>1, <2>2
    <3> QED BY <2>2, <3>2, <3>3, HasTail
  <2> QED BY <2>1, <2>2
<1> QED BY <1>1, <1>3 DEF Pending

\* An emitted event's callback runs: it was the first emitted of those that still wait.
LEMMA EnqueueRan ==
  ASSUME LoopInv, EmittedOnce, CallbacksInOrder, ready # <<>>, NEW e \in Events,
         Head(ready) = <<"enqueue", e>>, NEW t \in Seq(Callbacks), NoEnqueue(t), ready' = Tail(ready) \o t
  PROVE  /\ Pending(e)
         /\ \A x : Pending(x)' <=> Pending(x) /\ x # e
         /\ \A x : Pending(x)' => EmittedBefore(e, x)
<1>1. ready \in Seq(Callbacks) /\ Tail(ready) \in Seq(Callbacks) /\ Len(ready) \in Nat
      /\ Len(Tail(ready)) = Len(ready) - 1 /\ \A i \in 1..Len(Tail(ready)) : Tail(ready)[i] = ready[i + 1]
      /\ ready[1] = Head(ready) /\ 1 \in 1..Len(ready)
  BY LoopTyped, HeadTailProperties, LenProperties, EmptySeq
<1>2. Pending(e) BY <1>1, HasTail DEF Pending
<1>3. ASSUME NEW x PROVE Pending(x)' <=> Has(Tail(ready), <<"enqueue", x>>)
  <2>1. ~Has(t, <<"enqueue", x>>) BY DEF NoEnqueue, Has
  <2>2. Has(ready', <<"enqueue", x>>) <=> Has(Tail(ready), <<"enqueue", x>>) BY <1>1, <2>1, HasConcat
  <2> QED BY <2>2 DEF Pending
<1>4. ASSUME NEW x, Pending(x)' PROVE EmittedBefore(e, x)
  <2>1. PICK r \in 1..Len(Tail(ready)) : Tail(ready)[r] = <<"enqueue", x>> BY <1>3, <1>4 DEF Has
  <2>2. r + 1 \in 1..Len(ready) /\ 1 < r + 1 /\ ready[r + 1] = <<"enqueue", x>> BY <1>1, <2>1
  <2>3. ready[1][1] = "enqueue" /\ ready[1][2] = e /\ ready[r + 1][1] = "enqueue" /\ ready[r + 1][2] = x
    BY <1>1, <2>2
  <2>4. EmittedBefore(ready[1][2], ready[r + 1][2]) BY <1>1, <2>2, <2>3 DEF CallbacksInOrder
  <2> QED BY <2>3, <2>4
<1>5. ASSUME NEW x PROVE Pending(x)' <=> Pending(x) /\ x # e
  <2>1. Pending(x)' => x # e BY <1>4, BeforeOrders
  <2>2. Pending(x) <=> <<"enqueue", x>> = Head(ready) \/ Has(Tail(ready), <<"enqueue", x>>)
    BY <1>1, HasTail DEF Pending
  <2>3. <<"enqueue", x>> = Head(ready) <=> x = e OBVIOUS
  <2> QED BY <1>3, <2>1, <2>2, <2>3
<1> QED BY <1>2, <1>4, <1>5

\* The bus is appended to, or its first event is taken.
LEMMA BusAppended ==
  ASSUME LoopInv, BusInOrder, NEW e \in Events, queue'["bus"] = Append(queue["bus"], e),
         UNCHANGED <<emitted, deferred>>,
         e \in deferred \/ \A y : In(y, "bus") => ~EmittedBefore(e, y)
  PROVE  BusInOrder'
<1>1. PICK b \in Seq(Events), c \in Seq(Events) : b = queue["bus"] /\ c = queue'["bus"] /\ c = Append(b, e)
  BY LoopTyped, AppendProperties, HeadTailProperties DEF Queues
<1>2. Len(b) \in Nat /\ Len(c) = Len(b) + 1 /\ (\A i \in 1..Len(b) : c[i] = b[i]) /\ c[Len(b) + 1] = e
  BY <1>1, AppendProperties, LenProperties
<1>3. ASSUME NEW p \in 1..Len(c), NEW r \in 1..Len(c), p < r, c[r] \notin deferred
      PROVE  ~EmittedBefore(c[r], c[p])
  <2>1. p \in 1..Len(b) /\ c[p] = b[p] BY <1>2, <1>3
  <2>2. CASE r \in 1..Len(b)
    <3>1. c[r] = b[r] BY <1>2, <2>2
    <3> QED BY <1>1, <1>3, <2>1, <2>2, <3>1 DEF BusInOrder
  <2>3. CASE r = Len(b) + 1
    <3>1. c[r] = e BY <1>2, <2>3
    <3>2. In(b[p], "bus") BY <1>1, <2>1 DEF In, Has
    <3> QED BY <1>3, <2>1, <3>1, <3>2
  <2> QED BY <1>2, <2>2, <2>3
<1>4. \A a, d : EmittedBefore(a, d)' <=> EmittedBefore(a, d) BY DEF EmittedBefore
<1> QED BY <1>1, <1>3, <1>4 DEF BusInOrder

LEMMA BusTaken ==
  ASSUME LoopInv, BusInOrder, queue["bus"] # <<>>, queue'["bus"] = Tail(queue["bus"]),
         UNCHANGED <<emitted, deferred>>
  PROVE  /\ BusInOrder'
         /\ \A x : In(x, "bus") <=> x = Head(queue["bus"]) \/ In(x, "bus")'
         /\ \A x : In(x, "bus")' /\ x \notin deferred => ~EmittedBefore(x, Head(queue["bus"]))
<1>1. PICK b \in Seq(Events), c \in Seq(Events) : b = queue["bus"] /\ c = queue'["bus"] /\ c = Tail(b) /\ b # <<>>
  BY LoopTyped, AppendProperties, HeadTailProperties DEF Queues
<1>2. Len(b) \in Nat /\ Len(c) = Len(b) - 1 /\ (\A i \in 1..Len(c) : c[i] = b[i + 1]) /\ b[1] = Head(b)
      /\ 1 \in 1..Len(b)
  BY <1>1, HeadTailProperties, LenProperties, EmptySeq
<1>3. ASSUME NEW p \in 1..Len(c), NEW r \in 1..Len(c), p < r, c[r] \notin deferred
      PROVE  ~EmittedBefore(c[r], c[p])
  <2>1. p + 1 \in 1..Len(b) /\ r + 1 \in 1..Len(b) /\ p + 1 < r + 1 /\ c[p] = b[p + 1] /\ c[r] = b[r + 1]
    BY <1>2, <1>3
  <2> QED BY <1>1, <1>3, <2>1 DEF BusInOrder
<1>4. \A a, d : EmittedBefore(a, d)' <=> EmittedBefore(a, d) BY DEF EmittedBefore
<1>5. \A x : In(x, "bus") <=> x = Head(queue["bus"]) \/ In(x, "bus")'
  <2> TAKE x
  <2>1. Has(b, x) <=> x = Head(b) \/ Has(c, x) BY <1>1, HasTail
  <2> QED BY <1>1, <2>1 DEF In
<1>6. ASSUME NEW x, In(x, "bus")', x \notin deferred PROVE ~EmittedBefore(x, Head(queue["bus"]))
  <2>1. PICK r \in 1..Len(c) : c[r] = x BY <1>1, <1>6 DEF In, Has
  <2>2. r + 1 \in 1..Len(b) /\ 1 < r + 1 /\ b[r + 1] = x BY <1>2, <2>1
  <2> QED BY <1>1, <1>2, <1>6, <2>2 DEF BusInOrder
<1> QED BY <1>1, <1>3, <1>4, <1>5, <1>6 DEF BusInOrder


LEMMA NoEnqueueConcat ==
  ASSUME NEW s \in Seq(Callbacks), NEW t \in Seq(Callbacks), NoEnqueue(s), NoEnqueue(t)
  PROVE  s \o t \in Seq(Callbacks) /\ NoEnqueue(s \o t)
<1>1. s \o t \in Seq(Callbacks) BY ConcatProperties
<1>2. ASSUME NEW r \in 1..Len(s \o t) PROVE (s \o t)[r][1] # "enqueue"
  <2>1. (s \o t)[r] = IF r <= Len(s) THEN s[r] ELSE t[r - Len(s)] BY ConcatProperties
  <2>2. Len(s \o t) = Len(s) + Len(t) /\ Len(s) \in Nat /\ Len(t) \in Nat BY ConcatProperties, LenProperties
  <2>3. CASE r <= Len(s)
    <3>1. r \in 1..Len(s) BY <2>2, <2>3
    <3> QED BY <2>1, <2>3, <3>1 DEF NoEnqueue
  <2>4. CASE ~(r <= Len(s))
    <3>1. r - Len(s) \in 1..Len(t) BY <2>2, <2>4
    <3> QED BY <2>1, <2>4, <3>1 DEF NoEnqueue
  <2> QED BY <2>3, <2>4
<1> QED BY <1>1, <1>2 DEF NoEnqueue

LEMMA NoEnqueueOne ==
  ASSUME NEW c \in Callbacks, c[1] # "enqueue"
  PROVE  <<c>> \in Seq(Callbacks) /\ NoEnqueue(<<c>>) /\ \A e : Has(<<c>>, <<"put", e>>) => c[1] = "put" /\ c[2] = e
BY DEF NoEnqueue, Has

LEMMA NoEnqueueNone == <<>> \in Seq(Callbacks) /\ NoEnqueue(<<>>) /\ \A e : ~Has(<<>>, e)
BY EmptySeq DEF NoEnqueue, Has

\* What holds of one wakeup or none.
LEMMA OneWakeup ==
  ASSUME NEW c \in Callbacks, c[1] # "enqueue", c[1] # "put", NEW t, t = <<c>> \/ t = <<>>
  PROVE  /\ t \in Seq(Callbacks) /\ NoEnqueue(t) /\ \A e : ~Has(t, <<"put", e>>)
         /\ \A x : Has(t, x) => x = c
<1>1. CASE t = <<c>>
  <2>1. \A x : Has(t, x) => x = c BY <1>1, HasOne
  <2>2. t \in Seq(Callbacks) /\ NoEnqueue(t) /\ \A e : Has(t, <<"put", e>>) => c[1] = "put" BY <1>1, NoEnqueueOne
  <2> QED BY <2>1, <2>2
<1>2. CASE t = <<>> BY <1>2, NoEnqueueNone
<1> QED BY <1>1, <1>2

\* No wakeup emits; the only put that is woken is one that waits.
LEMMA WakeupsInOrder ==
  ASSUME LoopInv, NEW q \in Queues
  PROVE  /\ Woken(q) \in Seq(Callbacks) /\ NoEnqueue(Woken(q)) /\ \A e : ~Has(Woken(q), <<"put", e>>)
         /\ \A c \in Callbacks : c[1] \in Tokens => ~Has(Woken(q), c)
         /\ Joined(q) \in Seq(Callbacks) /\ NoEnqueue(Joined(q)) /\ \A e : ~Has(Joined(q), <<"put", e>>)
         /\ \A c \in Callbacks : Has(Joined(q), c) => LastDone(q) /\ c = JoinerOf(q)
         /\ WokenDispatcher(q) \in Seq(Callbacks) /\ NoEnqueue(WokenDispatcher(q))
         /\ \A e : ~Has(WokenDispatcher(q), <<"put", e>>)
         /\ \A c \in Callbacks : c[1] \in Tokens => ~Has(WokenDispatcher(q), c)
         /\ WokenPut \in Seq(Callbacks) /\ NoEnqueue(WokenPut)
         /\ \A c \in Callbacks : c[1] \in Tokens => ~Has(WokenPut, c)
         /\ \A e : Has(WokenPut, <<"put", e>>) => Has(putters, e)
         /\ \A e : Has(PuttersLeft, e) => Has(putters, e)
<1>1. \A w \in Workers : w # "enqueue" /\ w # "put" /\ w \notin Tokens BY DEF Workers, Tokens
<1>2. /\ Woken(q) \in Seq(Callbacks) /\ NoEnqueue(Woken(q)) /\ \A e : ~Has(Woken(q), <<"put", e>>)
      /\ \A c \in Callbacks : c[1] \in Tokens => ~Has(Woken(q), c)
  <2>1. PICK c \in Callbacks : c = <<Consumer[q], NoEvent>> BY Names, CallbackTypes
  <2>2. c[1] # "enqueue" /\ c[1] # "put" /\ c[1] \notin Tokens BY <1>1, <2>1, Names
  <2>3. Woken(q) = <<c>> \/ Woken(q) = <<>> BY <2>1 DEF Woken
  <2>4. /\ Woken(q) \in Seq(Callbacks) /\ NoEnqueue(Woken(q)) /\ \A e : ~Has(Woken(q), <<"put", e>>)
        /\ \A x : Has(Woken(q), x) => x = c
    BY <2>2, <2>3, OneWakeup
  <2> QED BY <2>2, <2>4
<1>3. /\ Joined(q) \in Seq(Callbacks) /\ NoEnqueue(Joined(q)) /\ \A e : ~Has(Joined(q), <<"put", e>>)
      /\ \A c \in Callbacks : Has(Joined(q), c) => LastDone(q) /\ c = JoinerOf(q)
  <2>1. JoinerOf(q) \in Callbacks /\ JoinerOf(q)[1] \in Tokens
    BY Names, CallbackTypes DEF JoinerOf, Tokens
  <2>2. PICK c \in Callbacks : c = JoinerOf(q) BY <2>1
  <2>3. c[1] # "enqueue" /\ c[1] # "put" BY <2>1, <2>2 DEF Tokens
  <2>4. Joined(q) = <<c>> \/ Joined(q) = <<>> BY <2>2 DEF Joined
  <2>5. /\ Joined(q) \in Seq(Callbacks) /\ NoEnqueue(Joined(q)) /\ \A e : ~Has(Joined(q), <<"put", e>>)
        /\ \A x : Has(Joined(q), x) => x = c
    BY <2>3, <2>4, OneWakeup
  <2>6. ~LastDone(q) => \A x : ~Has(Joined(q), x) BY NoEnqueueNone DEF Joined
  <2> QED BY <2>2, <2>5, <2>6
<1>4. /\ WokenDispatcher(q) \in Seq(Callbacks) /\ NoEnqueue(WokenDispatcher(q))
      /\ \A e : ~Has(WokenDispatcher(q), <<"put", e>>)
      /\ \A c \in Callbacks : c[1] \in Tokens => ~Has(WokenDispatcher(q), c)
  <2>1. PICK c \in Callbacks : c = <<"dispatcher", NoEvent>> BY CallbackTypes DEF Workers
  <2>2. c[1] # "enqueue" /\ c[1] # "put" /\ c[1] \notin Tokens BY <2>1 DEF Tokens
  <2>3. WokenDispatcher(q) = <<c>> \/ WokenDispatcher(q) = <<>> BY <2>1 DEF WokenDispatcher
  <2>4. /\ WokenDispatcher(q) \in Seq(Callbacks) /\ NoEnqueue(WokenDispatcher(q))
        /\ \A e : ~Has(WokenDispatcher(q), <<"put", e>>) /\ \A x : Has(WokenDispatcher(q), x) => x = c
    BY <2>2, <2>3, OneWakeup
  <2> QED BY <2>2, <2>4
<1>5. /\ WokenPut \in Seq(Callbacks) /\ NoEnqueue(WokenPut)
      /\ \A c \in Callbacks : c[1] \in Tokens => ~Has(WokenPut, c)
      /\ \A e : Has(WokenPut, <<"put", e>>) => Has(putters, e)
      /\ \A e : Has(PuttersLeft, e) => Has(putters, e)
  <2>1. CASE putters = <<>>
    <3>1. WokenPut = <<>> /\ PuttersLeft = <<>> BY <2>1 DEF WokenPut, PuttersLeft
    <3> QED BY <3>1, NoEnqueueNone
  <2>2. CASE putters # <<>>
    <3>1. Head(putters) \in Events /\ putters \in Seq(Events) BY <2>2, LoopTyped, HeadTailProperties
    <3>2. PICK c \in Callbacks : c = <<"put", Head(putters)>> BY <3>1, CallbackTypes
    <3>3. WokenPut = <<c>> /\ PuttersLeft = Tail(putters) BY <2>2, <3>2 DEF WokenPut, PuttersLeft
    <3>4. \A e : Has(putters, e) <=> e = Head(putters) \/ Has(Tail(putters), e) BY <2>2, <3>1, HasTail
    <3>5. c[1] = "put" /\ c[2] = Head(putters) /\ c[1] \notin Tokens BY <3>2 DEF Tokens
    <3> QED BY <3>3, <3>4, <3>5, NoEnqueueOne, HasOne
  <2> QED BY <2>1, <2>2
<1> QED BY <1>2, <1>3, <1>4, <1>5

\* A step that emits nothing and takes no emitted event's callback.
LEMMA CallbacksMove ==
  ASSUME LoopInv, OrderInv, NEW t \in Seq(Callbacks), NoEnqueue(t), UNCHANGED emitted,
         \/ ready' = ready \o t
         \/ ready # <<>> /\ Head(ready)[1] # "enqueue" /\ ready' = Tail(ready) \o t
  PROVE  /\ CallbacksInOrder' /\ \A e : Pending(e)' <=> Pending(e)
         /\ \A e : Has(ready', <<"put", e>>) => Has(ready, <<"put", e>>) \/ Has(t, <<"put", e>>)
<1>1. ready \in Seq(Callbacks) /\ CallbacksInOrder BY LoopTyped DEF OrderInv
<1>2. CallbacksInOrder'
  <2>1. ready' = ready \o t \/ (ready # <<>> /\ ready' = Tail(ready) \o t) OBVIOUS
  <2> QED BY <1>1, <2>1, OrderOfCallbacksKept
<1>3. \A e : Pending(e)' <=> Pending(e) BY <1>1, PendingKept
<1>4. ASSUME NEW e, Has(ready', <<"put", e>>) PROVE Has(ready, <<"put", e>>) \/ Has(t, <<"put", e>>)
  <2>0. PICK c : c = <<"put", e>> OBVIOUS
  <2>1. CASE ready' = ready \o t BY <1>1, <1>4, <2>0, <2>1, HasConcat
  <2>2. CASE ready # <<>> /\ ready' = Tail(ready) \o t
    <3>1. Tail(ready) \in Seq(Callbacks) BY <1>1, <2>2, HeadTailProperties
    <3>2. Has(Tail(ready), c) \/ Has(t, c) BY <1>4, <2>0, <2>2, <3>1, HasConcat
    <3> QED BY <1>1, <2>0, <2>2, <3>2, HasTail
  <2> QED BY <2>1, <2>2
<1> QED BY <1>2, <1>3, <1>4

\* Steps that move no event.
LEMMA QuietInOrder ==
  ASSUME LoopInv, OrderInv, UNCHANGED <<emitted, queue, hand, outcome, deferred, putters>>,
         NEW t \in Seq(Callbacks), NoEnqueue(t), \A e : ~Has(t, <<"put", e>>),
         \/ ready' = ready \o t
         \/ ready # <<>> /\ Head(ready)[1] # "enqueue" /\ ready' = Tail(ready) \o t
  PROVE  OrderInv'
<1>1. /\ CallbacksInOrder' /\ \A e : Pending(e)' <=> Pending(e)
      /\ \A e : Has(ready', <<"put", e>>) => Has(ready, <<"put", e>>)
  BY CallbacksMove
<1>2. (\A a, b : EmittedBefore(a, b)' <=> EmittedBefore(a, b)) /\ (\A e, q : In(e, q)' <=> In(e, q))
  BY DEF EmittedBefore, In
<1>3. EmittedOnce' BY <1>1 DEF OrderInv, EmittedOnce, Emitted
<1>4. Located' BY <1>1, <1>2 DEF OrderInv, Located, Emitted, Behind
<1>5. PendingFirst' /\ BusInOrder' /\ BehindLater'
  BY <1>1, <1>2 DEF OrderInv, PendingFirst, BusInOrder, BehindLater
<1> QED BY <1>1, <1>3, <1>4, <1>5 DEF OrderInv

LEMMA PutInBus ==
  ASSUME LoopInv, NEW e \in Events, PutOnBus(e)
  PROVE  /\ queue'["bus"] = Append(queue["bus"], e)
         /\ \A x : In(x, "bus")' <=> In(x, "bus") \/ x = e
         /\ \A q \in Behinds : queue'[q] = queue[q] /\ \A x : In(x, q)' <=> In(x, q)
         /\ outcome' = [outcome EXCEPT ![e] = "accepted"]
         /\ ready' = Tail(ready) \o Woken("bus")
<1>1. PICK b \in Seq(Events) : b = queue["bus"] BY LoopTyped DEF Queues
<1>2. queue' = [queue EXCEPT !["bus"] = Append(b, e)] BY <1>1 DEF PutOnBus
<1>3. queue \in [Queues -> Seq(Events)] /\ "bus" \in Queues BY LoopTyped DEF Queues
<1>4. queue'["bus"] = Append(b, e) BY <1>2, <1>3
<1>5. \A q \in Behinds : queue'[q] = queue[q] BY <1>2, <1>3 DEF Behinds, Queues
<1>6. \A x : In(x, "bus")' <=> In(x, "bus") \/ x = e
  <2> TAKE x
  <2>1. Has(Append(b, e), x) <=> Has(b, x) \/ x = e BY HasAppend
  <2> QED BY <1>1, <1>4, <2>1 DEF In
<1> QED BY <1>1, <1>4, <1>5, <1>6 DEF In, PutOnBus


LEMMA EmitInOrder ==
  ASSUME LoopInv, OrderInv, NEW e \in Events, Emit(e)
  PROVE  OrderInv'
<1>1. /\ e \notin Emitted /\ emitted' = Append(emitted, e) /\ ready' = Append(ready, <<"enqueue", e>>)
      /\ UNCHANGED <<queue, hand, outcome, deferred, putters>>
  BY DEF Emit
<1>2. PICK c \in Callbacks : c = <<"enqueue", e>> BY CallbackTypes
<1>3. emitted \in Seq(Events) /\ Len(emitted) \in Nat /\ ready \in Seq(Callbacks) /\ Len(ready) \in Nat
  BY LoopTyped, LenProperties DEF LoopInv, TypeOK
<1>4. /\ Len(emitted') = Len(emitted) + 1 /\ emitted'[Len(emitted) + 1] = e
      /\ \A i \in 1..Len(emitted) : emitted'[i] = emitted[i]
  BY <1>1, <1>3, AppendProperties
<1>5. /\ Len(ready') = Len(ready) + 1 /\ ready'[Len(ready) + 1] = c
      /\ \A i \in 1..Len(ready) : ready'[i] = ready[i]
  BY <1>1, <1>2, <1>3, AppendProperties
<1>6. \A x : x \in Emitted' <=> x \in Emitted \/ x = e
  <2>1. \A x : x \in Emitted => x \in Emitted' BY <1>3, <1>4 DEF Emitted
  <2>2. e \in Emitted' BY <1>3, <1>4 DEF Emitted
  <2>3. ASSUME NEW i \in 1..Len(emitted') PROVE emitted'[i] \in Emitted \/ emitted'[i] = e
    BY <1>3, <1>4, <2>3 DEF Emitted
  <2> QED BY <2>1, <2>2, <2>3 DEF Emitted
<1>7. \A x : Pending(x)' <=> Pending(x) \/ x = e
  <2> TAKE x
  <2>1. Has(Append(ready, c), <<"enqueue", x>>) <=> Has(ready, <<"enqueue", x>>) \/ <<"enqueue", x>> = c
    BY <1>3, HasAppend
  <2> QED BY <1>1, <1>2, <2>1 DEF Pending
<1>8. \A x : Has(ready', <<"put", x>>) => Has(ready, <<"put", x>>)
  <2> TAKE x
  <2>0. PICK d : d = <<"put", x>> OBVIOUS
  <2>1. Has(Append(ready, c), d) <=> Has(ready, d) \/ d = c BY <1>3, HasAppend
  <2>2. d # c BY <1>2, <2>0
  <2> QED BY <1>1, <1>2, <2>0, <2>1, <2>2
<1>9. \A a, b : EmittedBefore(a, b)' => EmittedBefore(a, b) \/ (b = e /\ a \in Emitted)
  <2> TAKE a, b
  <2> SUFFICES ASSUME EmittedBefore(a, b)' PROVE EmittedBefore(a, b) \/ (b = e /\ a \in Emitted)
    OBVIOUS
  <2>1. PICK i, j \in 1..Len(emitted') : i < j /\ emitted'[i] = a /\ emitted'[j] = b BY DEF EmittedBefore
  <2>2. i \in 1..Len(emitted) /\ emitted[i] = a BY <1>3, <1>4, <2>1
  <2>3. CASE j \in 1..Len(emitted)
    <3>1. emitted[j] = b BY <1>4, <2>1, <2>3
    <3> QED BY <2>1, <2>2, <2>3, <3>1 DEF EmittedBefore
  <2>4. CASE j = Len(emitted) + 1 BY <1>4, <2>1, <2>2, <2>4 DEF Emitted
  <2> QED BY <1>3, <1>4, <2>1, <2>3, <2>4
<1>10. \A a : a \in Emitted => EmittedBefore(a, e)'
  <2> TAKE a
  <2> SUFFICES ASSUME a \in Emitted PROVE EmittedBefore(a, e)' OBVIOUS
  <2>1. PICK i \in 1..Len(emitted) : emitted[i] = a BY DEF Emitted
  <2>2. i \in 1..Len(emitted') /\ Len(emitted) + 1 \in 1..Len(emitted') /\ i < Len(emitted) + 1 /\ emitted'[i] = a
    BY <1>3, <1>4, <2>1
  <2> QED BY <1>4, <2>2 DEF EmittedBefore
<1>11. \A a, b : EmittedBefore(a, b) => EmittedBefore(a, b)'
  <2> TAKE a, b
  <2> SUFFICES ASSUME EmittedBefore(a, b) PROVE EmittedBefore(a, b)' OBVIOUS
  <2>1. PICK i, j \in 1..Len(emitted) : i < j /\ emitted[i] = a /\ emitted[j] = b BY DEF EmittedBefore
  <2>2. i \in 1..Len(emitted') /\ j \in 1..Len(emitted') /\ emitted'[i] = a /\ emitted'[j] = b BY <1>3, <1>4, <2>1
  <2> QED BY <2>1, <2>2 DEF EmittedBefore
<1>12. \A a, b : EmittedBefore(a, b) => a \in Emitted /\ b \in Emitted /\ a # e /\ b # e
  BY <1>1, BeforeOrders DEF OrderInv
<1>13. outcome[e] = "none" /\ e \notin deferred /\ ~Pending(e) BY <1>1 DEF OrderInv, EmittedOnce
<1>14. hand # e /\ \A q \in Queues : ~In(e, q) BY <1>13 DEF OrderInv, Located
<1>15. \A x, q : In(x, q)' <=> In(x, q) BY <1>1 DEF In
<1>16. EmittedOnce'
  <2>1. ASSUME NEW i \in 1..Len(emitted'), NEW j \in 1..Len(emitted'), emitted'[i] = emitted'[j] PROVE i = j
    <3>1. CASE i \in 1..Len(emitted) /\ j \in 1..Len(emitted)
      BY <1>4, <2>1, <3>1 DEF OrderInv, EmittedOnce
    <3>2. CASE i \in 1..Len(emitted) /\ j = Len(emitted) + 1
      <4>1. emitted[i] = e BY <1>4, <2>1, <3>2
      <4> QED BY <1>1, <3>2, <4>1 DEF Emitted
    <3>3. CASE i = Len(emitted) + 1 /\ j \in 1..Len(emitted)
      <4>1. emitted[j] = e BY <1>4, <2>1, <3>3
      <4> QED BY <1>1, <3>3, <4>1 DEF Emitted
    <3> QED BY <1>3, <1>4, <3>1, <3>2, <3>3
  <2>2. \A x \in Events : outcome'[x] # "none" \/ x \in deferred' \/ Pending(x)' => x \in Emitted'
    BY <1>1, <1>6, <1>7 DEF OrderInv, EmittedOnce
  <2> QED BY <2>1, <2>2 DEF EmittedOnce
<1>17. Located' BY <1>1, <1>6, <1>7, <1>8, <1>13, <1>15 DEF OrderInv, Located, Behind
<1>18. CallbacksInOrder'
  <2> SUFFICES ASSUME NEW p \in 1..Len(ready'), NEW r \in 1..Len(ready'), p < r, NEW a, NEW b,
                      ready'[p][1] = "enqueue", ready'[r][1] = "enqueue", a = ready'[p][2], b = ready'[r][2]
               PROVE  EmittedBefore(a, b)'
    BY DEF CallbacksInOrder
  <2>1. p \in 1..Len(ready) /\ ready'[p] = ready[p] BY <1>3, <1>5
  <2>2. CASE r \in 1..Len(ready)
    <3>1. ready'[r] = ready[r] BY <1>5, <2>2
    <3>2. EmittedBefore(a, b) BY <2>1, <2>2, <3>1 DEF OrderInv, CallbacksInOrder
    <3> QED BY <1>11, <3>2
  <2>3. CASE r = Len(ready) + 1
    <3>1. b = e BY <1>2, <1>5, <2>3
    <3>2. PICK x \in Events : ready[p] = <<"enqueue", x>>
      <4>1. ready[p] \in Callbacks BY <1>3, <2>1, ElementOfSeq
      <4> QED BY <2>1, <4>1 DEF Callbacks, Workers
    <3>3. Pending(x) BY <2>1, <3>2 DEF Pending, Has
    <3>4. x \in Emitted BY <3>3 DEF OrderInv, EmittedOnce
    <3>5. a = x BY <2>1, <3>2
    <3> QED BY <1>10, <3>1, <3>4, <3>5
  <2> QED BY <1>3, <1>5, <2>2, <2>3
<1>19. PendingFirst'
  <2> SUFFICES ASSUME NEW x \in Events, NEW y \in Events, Pending(x)', EmittedBefore(x, y)'
               PROVE  outcome[y] = "none" /\ y \notin deferred
    BY <1>1 DEF PendingFirst
  <2>1. CASE y = e BY <1>13, <2>1
  <2>2. CASE y # e
    <3>1. EmittedBefore(x, y) BY <1>9, <2>2
    <3>2. Pending(x) BY <1>7, <1>12, <3>1
    <3> QED BY <3>1, <3>2 DEF OrderInv, PendingFirst
  <2> QED BY <2>1, <2>2
<1>20. BusInOrder'
  <2> SUFFICES ASSUME NEW p \in 1..Len(queue["bus"]), NEW r \in 1..Len(queue["bus"]), p < r, NEW x, NEW y,
                      x = queue["bus"][r], y = queue["bus"][p], x \notin deferred, EmittedBefore(x, y)'
               PROVE  FALSE
    BY <1>1 DEF BusInOrder
  <2>1. y # e BY <1>14 DEF In, Has, Queues
  <2>2. EmittedBefore(x, y) BY <1>9, <2>1
  <2> QED BY <2>2 DEF OrderInv, BusInOrder
<1>21. BehindLater'
  <2> SUFFICES ASSUME NEW x \in Events, NEW y \in Events, x \notin deferred, EmittedBefore(x, y)',
                      hand = y \/ \E q \in Behinds : In(y, q)
               PROVE  outcome[x] \notin {"none", "accepted"}
    BY <1>1, <1>15 DEF BehindLater
  <2>1. y # e BY <1>14 DEF Behinds, Queues
  <2>2. EmittedBefore(x, y) BY <1>9, <2>1
  <2> QED BY <2>2 DEF OrderInv, BehindLater
<1> QED BY <1>16, <1>17, <1>18, <1>19, <1>20, <1>21 DEF OrderInv

LEMMA EnqueueInOrder ==
  ASSUME LoopInv, OrderInv, Enqueue
  PROVE  OrderInv'
<1>1. /\ ready # <<>> /\ Head(ready)[1] = "enqueue" /\ ready \in Seq(Callbacks) /\ outcome \in [Events -> Outcomes]
      /\ UNCHANGED <<joinInTask, emitted, putters, hand, drain, joining, timedOut>>
  BY LoopTyped DEF Enqueue, Running, LoopInv, TypeOK
<1>2. PICK e \in Events : e = Argument /\ Head(ready) = <<"enqueue", e>>
  <2>1. Head(ready) \in Callbacks BY <1>1, HeadTailProperties
  <2> QED BY <1>1, <2>1 DEF Argument, Callbacks, Workers
<1>3. EmittedOnce /\ CallbacksInOrder BY DEF OrderInv
<1>4. PICK t \in Seq(Callbacks) :
        /\ NoEnqueue(t) /\ ready' = Tail(ready) \o t
        /\ \/ PutOnBus(e) /\ UNCHANGED deferred /\ \A x : ~Has(t, <<"put", x>>)
           \/ /\ e \in Critical /\ deferred' = deferred \cup {e} /\ UNCHANGED <<outcome, queue>>
              /\ \A x : Has(t, <<"put", x>>) => x = e
           \/ /\ outcome' = [outcome EXCEPT ![e] = "dropped"] /\ UNCHANGED <<deferred, queue>>
              /\ \A x : ~Has(t, <<"put", x>>)
  <2>1. Tail(ready) \in Seq(Callbacks) BY <1>1, HeadTailProperties
  <2>2. CASE PutOnBus(e) /\ UNCHANGED deferred
    <3>1. ready' = Tail(ready) \o Woken("bus") BY <2>2 DEF PutOnBus
    <3> QED BY <2>2, <3>1, WakeupsInOrder DEF Queues
  <2>3. CASE e \in Critical /\ ready' = Append(Tail(ready), <<"put", e>>) /\ deferred' = deferred \cup {e}
             /\ UNCHANGED <<outcome, queue>>
    <3>1. PICK c \in Callbacks : c = <<"put", e>> BY CallbackTypes
    <3>2. ready' = Tail(ready) \o <<c>> BY <2>1, <2>3, <3>1, OneCallback
    <3>3. c[1] # "enqueue" /\ c[2] = e BY <3>1
    <3> QED BY <2>3, <3>2, <3>3, NoEnqueueOne
  <2>4. CASE ready' = Tail(ready) /\ outcome' = [outcome EXCEPT ![e] = "dropped"] /\ UNCHANGED <<deferred, queue>>
    <3>1. ready' = Tail(ready) \o <<>> BY <2>1, <2>4, NoCallback
    <3> QED BY <2>4, <3>1, NoEnqueueNone
  <2> QED BY <1>2, <2>2, <2>3, <2>4 DEF Enqueue
<1>5. /\ Pending(e) /\ \A x : Pending(x)' <=> Pending(x) /\ x # e
      /\ \A x : Pending(x)' => EmittedBefore(e, x)
  BY <1>1, <1>2, <1>3, <1>4, EnqueueRan
<1>6. CallbacksInOrder' BY <1>1, <1>3, <1>4, OrderOfCallbacksKept
<1>7. \A a, b : EmittedBefore(a, b)' <=> EmittedBefore(a, b) BY <1>1 DEF EmittedBefore
<1>8. e \in Emitted /\ outcome[e] = "none" /\ e \notin deferred BY <1>5 DEF OrderInv, EmittedOnce, Located
<1>9. \A x : Pending(x)' => ~EmittedBefore(x, e) BY <1>3, <1>5, BeforeOrders
<1>10. \A x : Has(ready', <<"put", x>>) => Has(ready, <<"put", x>>) \/ Has(t, <<"put", x>>)
  <2> TAKE x
  <2>0. PICK c : c = <<"put", x>> OBVIOUS
  <2>1. Tail(ready) \in Seq(Callbacks) BY <1>1, HeadTailProperties
  <2>2. Has(ready', c) <=> Has(Tail(ready), c) \/ Has(t, c) BY <1>4, <2>1, HasConcat
  <2>3. Has(Tail(ready), c) => Has(ready, c) BY <1>1, HasTail
  <2> QED BY <2>0, <2>2, <2>3
<1>11. \A y \in Events : In(y, "bus") => ~EmittedBefore(e, y)
  <2>1. \A y \in Events : In(y, "bus") => outcome[y] # "none" BY DEF OrderInv, Located, Queues
  <2> QED BY <1>5, <2>1 DEF OrderInv, PendingFirst
<1>12. CASE PutOnBus(e) /\ UNCHANGED deferred /\ \A x : ~Has(t, <<"put", x>>)
  <2>1. /\ queue'["bus"] = Append(queue["bus"], e)
        /\ \A x : In(x, "bus")' <=> In(x, "bus") \/ x = e
        /\ \A q \in Behinds : \A x : In(x, q)' <=> In(x, q)
        /\ outcome' = [outcome EXCEPT ![e] = "accepted"]
    BY <1>12, PutInBus
  <2>2. outcome'[e] = "accepted" /\ \A x \in Events : x # e => outcome'[x] = outcome[x] BY <1>1, <2>1
  <2>3. EmittedOnce' BY <1>1, <1>5, <1>8, <1>12, <2>2 DEF OrderInv, EmittedOnce, Emitted
  <2>4. Located'
    <3>1. /\ \A x \in Events : outcome'[x] = "none" /\ x \in Emitted /\ x \notin deferred => Pending(x)'
          /\ \A x \in Events : Pending(x)' => outcome'[x] = "none" /\ x \notin deferred
          /\ \A x \in Events : outcome'[x] = "accepted" => In(x, "bus")'
      BY <1>5, <2>1, <2>2 DEF OrderInv, Located
    <3>2. \A x \in Events : outcome'[x] = "stored" /\ Behind(x) # "none" => hand = x \/ In(x, Behind(x))'
      BY <2>1, <2>2, Names DEF OrderInv, Located
    <3>3. \A x \in Events : hand = x \/ (\E q \in Queues : In(x, q)') => outcome'[x] # "none"
      BY <2>1, <2>2 DEF OrderInv, Located, Queues, Behinds
    <3>4. \A x \in Events : Has(ready', <<"put", x>>) \/ Has(putters, x) => x \in deferred
      BY <1>10, <1>12 DEF OrderInv, Located
    <3> QED BY <1>1, <1>12, <3>1, <3>2, <3>3, <3>4 DEF Located, Emitted, Behind
  <2>5. PendingFirst' BY <1>5, <1>7, <1>9, <1>12, <2>2 DEF OrderInv, PendingFirst
  <2>6. BusInOrder'
    <3>1. \A y : In(y, "bus") => y \in Events
      BY LoopTyped, ElementOfSeq DEF In, Has, Queues
    <3>2. UNCHANGED <<emitted, deferred>> BY <1>1, <1>12
    <3>3. BusInOrder BY DEF OrderInv
    <3> QED BY <1>11, <2>1, <3>1, <3>2, <3>3, BusAppended
  <2>7. BehindLater' BY <1>1, <1>7, <1>8, <1>12, <2>1, <2>2 DEF OrderInv, BehindLater
  <2> QED BY <1>6, <2>3, <2>4, <2>5, <2>6, <2>7 DEF OrderInv
<1>13. CASE /\ e \in Critical /\ deferred' = deferred \cup {e} /\ UNCHANGED <<outcome, queue>>
            /\ \A x : Has(t, <<"put", x>>) => x = e
  <2>1. \A x, q : In(x, q)' <=> In(x, q) BY <1>13 DEF In
  <2>2. EmittedOnce' BY <1>1, <1>5, <1>8, <1>13 DEF OrderInv, EmittedOnce, Emitted
  <2>3. Located'
    <3>1. /\ \A x \in Events : outcome[x] = "none" /\ x \in Emitted /\ x \notin deferred' => Pending(x)'
          /\ \A x \in Events : Pending(x)' => outcome[x] = "none" /\ x \notin deferred'
      BY <1>5, <1>13 DEF OrderInv, Located
    <3>2. \A x \in Events : Has(ready', <<"put", x>>) \/ Has(putters, x) => x \in deferred'
      BY <1>10, <1>13 DEF OrderInv, Located
    <3> QED BY <1>1, <1>13, <2>1, <3>1, <3>2 DEF OrderInv, Located, Emitted, Behind
  <2>4. PendingFirst' BY <1>5, <1>7, <1>9, <1>13 DEF OrderInv, PendingFirst
  <2>5. BusInOrder' BY <1>7, <1>13 DEF OrderInv, BusInOrder
  <2>6. BehindLater' BY <1>1, <1>7, <1>13, <2>1 DEF OrderInv, BehindLater
  <2> QED BY <1>6, <2>2, <2>3, <2>4, <2>5, <2>6 DEF OrderInv
<1>14. CASE /\ outcome' = [outcome EXCEPT ![e] = "dropped"] /\ UNCHANGED <<deferred, queue>>
            /\ \A x : ~Has(t, <<"put", x>>)
  <2>1. \A x, q : In(x, q)' <=> In(x, q) BY <1>14 DEF In
  <2>2. outcome'[e] = "dropped" /\ \A x \in Events : x # e => outcome'[x] = outcome[x] BY <1>1, <1>14
  <2>3. EmittedOnce' BY <1>1, <1>5, <1>8, <1>14, <2>2 DEF OrderInv, EmittedOnce, Emitted
  <2>4. Located'
    <3>1. /\ \A x \in Events : outcome'[x] = "none" /\ x \in Emitted /\ x \notin deferred => Pending(x)'
          /\ \A x \in Events : Pending(x)' => outcome'[x] = "none" /\ x \notin deferred
          /\ \A x \in Events : outcome'[x] = "accepted" => In(x, "bus")
          /\ \A x \in Events : outcome'[x] = "stored" /\ Behind(x) # "none" => hand = x \/ In(x, Behind(x))
          /\ \A x \in Events : hand = x \/ (\E q \in Queues : In(x, q)) => outcome'[x] # "none"
      BY <1>5, <2>2 DEF OrderInv, Located
    <3>2. \A x \in Events : Has(ready', <<"put", x>>) \/ Has(putters, x) => x \in deferred
      BY <1>10, <1>14 DEF OrderInv, Located
    <3> QED BY <1>1, <1>14, <2>1, <3>1, <3>2 DEF Located, Emitted, Behind
  <2>5. PendingFirst' BY <1>5, <1>7, <1>9, <1>14, <2>2 DEF OrderInv, PendingFirst
  <2>6. BusInOrder' BY <1>7, <1>14 DEF OrderInv, BusInOrder
  <2>7. BehindLater' BY <1>1, <1>7, <1>14, <2>1, <2>2 DEF OrderInv, BehindLater
  <2> QED BY <1>6, <2>3, <2>4, <2>5, <2>6, <2>7 DEF OrderInv
<1> QED BY <1>4, <1>12, <1>13, <1>14


LEMMA PutInOrder ==
  ASSUME LoopInv, OrderInv, Put
  PROVE  OrderInv'
<1>1. /\ ready # <<>> /\ Head(ready)[1] = "put" /\ ready \in Seq(Callbacks) /\ outcome \in [Events -> Outcomes]
      /\ Tail(ready) \in Seq(Callbacks)
      /\ UNCHANGED <<joinInTask, emitted, hand, deferred, drain, joining, timedOut>>
  BY LoopTyped, HeadTailProperties DEF Put, Running, LoopInv, TypeOK
<1>2. PICK e \in Events : e = Argument /\ Head(ready) = <<"put", e>>
  <2>1. Head(ready) \in Callbacks BY <1>1, HeadTailProperties
  <2> QED BY <1>1, <2>1 DEF Argument, Callbacks, Workers
<1>3. e \in deferred
  <2>1. Has(ready, <<"put", e>>) BY <1>1, <1>2, HasTail
  <2> QED BY <2>1 DEF OrderInv, Located
<1>4. ~Pending(e) BY <1>3 DEF OrderInv, Located
<1>5. \A a, b : EmittedBefore(a, b)' <=> EmittedBefore(a, b) BY <1>1 DEF EmittedBefore
<1>6. CASE PutOnBus(e) /\ UNCHANGED putters
  <2>1. /\ queue'["bus"] = Append(queue["bus"], e)
        /\ \A x : In(x, "bus")' <=> In(x, "bus") \/ x = e
        /\ \A q \in Behinds : \A x : In(x, q)' <=> In(x, q)
        /\ outcome' = [outcome EXCEPT ![e] = "accepted"]
        /\ ready' = Tail(ready) \o Woken("bus")
    BY <1>6, PutInBus
  <2>2. outcome'[e] = "accepted" /\ \A x \in Events : x # e => outcome'[x] = outcome[x] BY <1>1, <2>1
  <2>3. Woken("bus") \in Seq(Callbacks) /\ NoEnqueue(Woken("bus")) /\ \A x : ~Has(Woken("bus"), <<"put", x>>)
    BY WakeupsInOrder DEF Queues
  <2>4. /\ CallbacksInOrder' /\ \A x : Pending(x)' <=> Pending(x)
        /\ \A x : Has(ready', <<"put", x>>) => Has(ready, <<"put", x>>)
    BY <1>1, <2>1, <2>3, CallbacksMove
  <2>5. EmittedOnce' BY <1>1, <1>3, <2>2, <2>4 DEF OrderInv, EmittedOnce, Emitted
  <2>6. Located'
    <3>1. /\ \A x \in Events : outcome'[x] = "none" /\ x \in Emitted /\ x \notin deferred => Pending(x)'
          /\ \A x \in Events : Pending(x)' => outcome'[x] = "none" /\ x \notin deferred
          /\ \A x \in Events : outcome'[x] = "accepted" => In(x, "bus")'
      BY <1>4, <2>1, <2>2, <2>4 DEF OrderInv, Located
    <3>2. \A x \in Events : outcome'[x] = "stored" /\ Behind(x) # "none" => hand = x \/ In(x, Behind(x))'
      BY <2>1, <2>2, Names DEF OrderInv, Located
    <3>3. \A x \in Events : hand = x \/ (\E q \in Queues : In(x, q)') => outcome'[x] # "none"
      BY <2>1, <2>2 DEF OrderInv, Located, Queues, Behinds
    <3>4. \A x \in Events : Has(ready', <<"put", x>>) \/ Has(putters, x) => x \in deferred
      BY <2>4 DEF OrderInv, Located
    <3> QED BY <1>1, <1>6, <3>1, <3>2, <3>3, <3>4 DEF Located, Emitted, Behind
  <2>7. PendingFirst' BY <1>1, <1>3, <1>5, <2>2, <2>4 DEF OrderInv, PendingFirst
  <2>8. BusInOrder' BY <1>1, <1>3, <2>1, BusAppended DEF OrderInv
  <2>9. BehindLater' BY <1>1, <1>3, <1>5, <2>1, <2>2 DEF OrderInv, BehindLater
  <2> QED BY <2>4, <2>5, <2>6, <2>7, <2>8, <2>9 DEF OrderInv
<1>7. CASE putters' = Append(putters, e) /\ ready' = Tail(ready) /\ UNCHANGED <<queue, outcome>>
  <2>1. ready' = Tail(ready) \o <<>> BY <1>1, <1>7, NoCallback
  <2>2. /\ CallbacksInOrder' /\ \A x : Pending(x)' <=> Pending(x)
        /\ \A x : Has(ready', <<"put", x>>) => Has(ready, <<"put", x>>)
    BY <1>1, <2>1, NoEnqueueNone, CallbacksMove
  <2>3. \A x : Has(putters', x) <=> Has(putters, x) \/ x = e BY <1>7, LoopTyped, HasAppend
  <2>4. \A x, q : In(x, q)' <=> In(x, q) BY <1>7 DEF In
  <2>5. EmittedOnce' BY <1>1, <1>7, <2>2 DEF OrderInv, EmittedOnce, Emitted
  <2>6. Located' BY <1>1, <1>3, <1>7, <2>2, <2>3, <2>4 DEF OrderInv, Located, Emitted, Behind
  <2>7. PendingFirst' /\ BusInOrder' /\ BehindLater'
    BY <1>1, <1>5, <1>7, <2>2, <2>4 DEF OrderInv, PendingFirst, BusInOrder, BehindLater
  <2> QED BY <2>2, <2>5, <2>6, <2>7 DEF OrderInv
<1> QED BY <1>2, <1>6, <1>7 DEF Put

\* The wakeups of a step end the join() of a queue if its last task is done.
Finishes(q, t) ==
  /\ \A c \in Callbacks : c[1] \in Tokens /\ Has(t, c) => LastDone(q) /\ c = JoinerOf(q)
  /\ \/ unfinished'[q] = unfinished[q] - 1 /\ joining' = (IF LastDone(q) THEN "none" ELSE joining)
     \/ UNCHANGED joining /\ \A c \in Callbacks : c[1] \in Tokens => ~Has(t, c)

\* What a dispatch does to the callbacks and to the queues.
LEMMA DispatchMoves ==
  ASSUME LoopInv, OrderInv, Dispatch, NEW y \in Events, y = Head(queue["bus"]),
         NEW q \in Behinds \cup {"none"}, q = Behind(y)
  PROVE  /\ \E t \in Seq(Callbacks) :
              NoEnqueue(t) /\ (ready' = ready \o t \/ ready' = Tail(ready) \o t) /\ Finishes("bus", t)
         /\ CallbacksInOrder' /\ BusInOrder' /\ \A x : Pending(x)' <=> Pending(x)
         /\ \A x : Has(ready', <<"put", x>>) => Has(ready, <<"put", x>>) \/ Has(putters, x)
         /\ \A x : Has(putters', x) => Has(putters, x)
         /\ \A x : In(x, "bus") <=> x = y \/ In(x, "bus")'
         /\ \A x : In(x, "bus")' /\ x \notin deferred => ~EmittedBefore(x, y)
         /\ \A p \in Behinds : \A x : (In(x, p) => In(x, p)') /\ (In(x, p)' => x = y \/ In(x, p))
         /\ \A x \in Events : hand' = x => x = y
         /\ outcome'[y] \in {"stored", "failed"} /\ \A x \in Events : x # y => outcome'[x] = outcome[x]
         /\ outcome'[y] = "stored" /\ q # "none" => hand' = y \/ In(y, q)'
<1>1. /\ hand = NoEvent /\ ready # <<>> /\ ready \in Seq(Callbacks) /\ Head(ready)[1] = "dispatcher"
      /\ queue["bus"] # <<>> /\ outcome \in [Events -> Outcomes] /\ queue \in [Queues -> Seq(Events)]
      /\ UNCHANGED <<joinInTask, emitted, deferred, drain, timedOut>> /\ putters' = PuttersLeft
      /\ NoEvent \notin Events
      /\ unfinished \in [Queues -> Nat] /\ "bus" \in Queues
  BY DispatchTakes, LoopTyped, TelemetryAssumption DEF LoopInv, TypeOK, Dispatch, Queues, TelemetryAssumption
<1>5. PICK t \in Seq(Callbacks) :
        /\ NoEnqueue(t) /\ (\A x : Has(t, <<"put", x>>) => Has(putters, x))
        /\ (ready' = ready \o t \/ ready' = Tail(ready) \o t) /\ Finishes("bus", t)
        /\ \/ /\ queue' = [queue EXCEPT !["bus"] = Tail(@)] /\ UNCHANGED hand
              /\ \/ outcome' = [outcome EXCEPT ![y] = "failed"]
                 \/ q = "none" /\ outcome' = [outcome EXCEPT ![y] = "stored"]
           \/ /\ queue' = [[queue EXCEPT !["bus"] = Tail(@)] EXCEPT ![q] = Append(@, y)] /\ UNCHANGED hand
              /\ q # "none" /\ outcome' = [outcome EXCEPT ![y] = "stored"]
           \/ /\ queue' = [queue EXCEPT !["bus"] = Tail(@)] /\ hand' = y
              /\ q # "none" /\ outcome' = [outcome EXCEPT ![y] = "stored"]
  <2>1. /\ WokenPut \in Seq(Callbacks) /\ NoEnqueue(WokenPut) /\ \A x : Has(WokenPut, <<"put", x>>) => Has(putters, x)
        /\ Joined("bus") \in Seq(Callbacks) /\ NoEnqueue(Joined("bus")) /\ \A x : ~Has(Joined("bus"), <<"put", x>>)
        /\ \A p \in Behinds : /\ Woken(p) \in Seq(Callbacks) /\ NoEnqueue(Woken(p))
                              /\ \A x : ~Has(Woken(p), <<"put", x>>)
                              /\ \A c \in Callbacks : c[1] \in Tokens => ~Has(Woken(p), c)
        /\ \A c \in Callbacks : c[1] \in Tokens => ~Has(WokenPut, c)
        /\ \A c \in Callbacks : Has(Joined("bus"), c) => LastDone("bus") /\ c = JoinerOf("bus")
    BY WakeupsInOrder DEF Queues, Behinds
  <2>2. CASE /\ \/ q = "none" /\ outcome' = [outcome EXCEPT ![y] = "stored"]
                \/ outcome' = [outcome EXCEPT ![y] = "failed"]
             /\ queue' = [queue EXCEPT !["bus"] = Tail(@)]
             /\ ready' = ready \o WokenPut \o Joined("bus") /\ UNCHANGED hand /\ TaskDone("bus")
    <3>1. PICK t : t = WokenPut \o Joined("bus") OBVIOUS
    <3>2. t \in Seq(Callbacks) /\ NoEnqueue(t) BY <2>1, <3>1, NoEnqueueConcat
    <3>3. ready' = ready \o t
      <4>1. PICK v \in Seq(Callbacks), j \in Seq(Callbacks) : v = WokenPut /\ j = Joined("bus") BY <2>1
      <4>2. ready \in Seq(Callbacks) BY <1>1
      <4>3. (ready \o v) \o j = ready \o (v \o j) BY <4>2, Appended
      <4> QED BY <2>2, <3>1, <4>1, <4>3
    <3>4. \A x : Has(t, <<"put", x>>) => Has(putters, x) BY <2>1, <3>1, HasConcat
    <3>5. Finishes("bus", t)
      <4>1. unfinished'["bus"] = unfinished["bus"] - 1 BY <1>1, <2>2 DEF TaskDone
      <4>2. \A c \in Callbacks : c[1] \in Tokens /\ Has(t, c) => LastDone("bus") /\ c = JoinerOf("bus")
        BY <2>1, <3>1, HasConcat
      <4> QED BY <2>2, <4>1, <4>2 DEF TaskDone, Finishes
    <3> QED BY <2>2, <3>2, <3>3, <3>4, <3>5
  <2>3. CASE /\ q # "none" /\ outcome' = [outcome EXCEPT ![y] = "stored"]
             /\ queue' = [[queue EXCEPT !["bus"] = Tail(@)] EXCEPT ![q] = Append(@, y)]
             /\ ready' = ready \o WokenPut \o Woken(q) \o Joined("bus") /\ UNCHANGED hand
             /\ unfinished'["bus"] = unfinished["bus"] - 1
             /\ joining' = (IF LastDone("bus") THEN "none" ELSE joining)
    <3>0. q \in Behinds BY <2>3
    <3>1. PICK s : s = WokenPut \o Woken(q) OBVIOUS
    <3>2. s \in Seq(Callbacks) /\ NoEnqueue(s) BY <2>1, <3>0, <3>1, NoEnqueueConcat
    <3>3. PICK t : t = s \o Joined("bus") OBVIOUS
    <3>4. t \in Seq(Callbacks) /\ NoEnqueue(t) BY <2>1, <3>2, <3>3, NoEnqueueConcat
    <3>5. ready' = ready \o t
      <4>1. PICK v \in Seq(Callbacks), w \in Seq(Callbacks), j \in Seq(Callbacks) :
              v = WokenPut /\ w = Woken(q) /\ j = Joined("bus")
        BY <2>1, <3>0
      <4>2. ready \in Seq(Callbacks) BY <1>1
      <4>3. (ready \o v) \o w = ready \o (v \o w) BY <4>2, Appended
      <4>4. (ready \o s) \o j = ready \o (s \o j) BY <3>2, <4>2, Appended
      <4> QED BY <2>3, <3>1, <3>3, <4>1, <4>3, <4>4
    <3>6. \A x : Has(t, <<"put", x>>) => Has(putters, x)
      <4>1. \A x : Has(s, <<"put", x>>) => Has(putters, x) BY <2>1, <3>0, <3>1, HasConcat
      <4> QED BY <2>1, <3>2, <3>3, <4>1, HasConcat
    <3>7. Finishes("bus", t)
      <4>1. \A c \in Callbacks : c[1] \in Tokens => ~Has(s, c) BY <2>1, <3>0, <3>1, HasConcat
      <4>2. \A c \in Callbacks : c[1] \in Tokens /\ Has(t, c) => LastDone("bus") /\ c = JoinerOf("bus")
        BY <2>1, <3>2, <3>3, <4>1, HasConcat
      <4> QED BY <2>3, <4>2 DEF Finishes
    <3> QED BY <2>3, <3>4, <3>5, <3>6, <3>7
  <2>4. CASE /\ q # "none" /\ outcome' = [outcome EXCEPT ![y] = "stored"]
             /\ queue' = [queue EXCEPT !["bus"] = Tail(@)] /\ hand' = y /\ ready' = Tail(ready) \o WokenPut
             /\ UNCHANGED joining
    <3>1. Finishes("bus", WokenPut) BY <2>1, <2>4 DEF Finishes
    <3> QED BY <2>1, <2>4, <3>1
  <2>5. \/ /\ \/ q = "none" /\ outcome' = [outcome EXCEPT ![y] = "stored"]
              \/ outcome' = [outcome EXCEPT ![y] = "failed"]
           /\ queue' = [queue EXCEPT !["bus"] = Tail(@)]
           /\ TaskDone("bus") /\ ready' = ready \o WokenPut \o Joined("bus") /\ UNCHANGED <<hand, suspended>>
        \/ /\ q # "none" /\ ~Full(q) /\ outcome' = [outcome EXCEPT ![y] = "stored"]
           /\ queue' = [[queue EXCEPT !["bus"] = Tail(@)] EXCEPT ![q] = Append(@, y)]
           /\ unfinished' = [unfinished EXCEPT !["bus"] = @ - 1, ![q] = @ + 1]
           /\ joining' = (IF LastDone("bus") THEN "none" ELSE joining)
           /\ ready' = ready \o WokenPut \o Woken(q) \o Joined("bus") /\ UNCHANGED hand
        \/ /\ q # "none" /\ Full(q) /\ outcome' = [outcome EXCEPT ![y] = "stored"]
           /\ queue' = [queue EXCEPT !["bus"] = Tail(@)] /\ hand' = y
           /\ ready' = Tail(ready) \o WokenPut /\ UNCHANGED <<unfinished, joining>>
    BY Zenon DEF Dispatch
  <2>6. ASSUME q # "none", unfinished' = [unfinished EXCEPT !["bus"] = @ - 1, ![q] = @ + 1]
        PROVE  unfinished'["bus"] = unfinished["bus"] - 1
    <3>1. q # "bus" BY DEF Behinds
    <3> QED BY <1>1, <2>6, <3>1
  <2> QED BY <2>2, <2>3, <2>4, <2>5, <2>6, Zenon
<1>6. /\ CallbacksInOrder' /\ \A x : Pending(x)' <=> Pending(x)
      /\ \A x : Has(ready', <<"put", x>>) => Has(ready, <<"put", x>>) \/ Has(putters, x)
  BY <1>1, <1>5, CallbacksMove
<1>7. \A x : Has(putters', x) => Has(putters, x) BY <1>1, WakeupsInOrder DEF Queues
<1>8. queue'["bus"] = Tail(queue["bus"])
  <2>1. q # "bus" /\ "bus" \in Queues BY DEF Behinds, Queues
  <2> QED BY <1>1, <1>5, <2>1
<1>9. /\ BusInOrder'
      /\ \A x : In(x, "bus") <=> x = y \/ In(x, "bus")'
      /\ \A x : In(x, "bus")' /\ x \notin deferred => ~EmittedBefore(x, y)
  BY <1>1, <1>8, BusTaken DEF OrderInv
<1>10. \A p \in Behinds : \A x : In(x, p) => In(x, p)'
  <2> TAKE p \in Behinds
  <2>1. PICK s \in Seq(Events) : s = queue[p] BY <1>1 DEF Behinds, Queues
  <2>2. p \in Queues /\ p # "bus" BY DEF Behinds, Queues
  <2>3. queue'[p] = s \/ queue'[p] = Append(s, y) BY <1>1, <1>5, <2>1, <2>2
  <2>4. \A x : Has(s, x) => Has(Append(s, y), x) BY HasAppend
  <2> QED BY <2>1, <2>3, <2>4 DEF In
<1>11. \A p \in Behinds : \A x : In(x, p)' => x = y \/ In(x, p)
  <2> TAKE p \in Behinds
  <2>1. PICK s \in Seq(Events) : s = queue[p] BY <1>1 DEF Behinds, Queues
  <2>2. p \in Queues /\ p # "bus" BY DEF Behinds, Queues
  <2>3. queue'[p] = s \/ queue'[p] = Append(s, y) BY <1>1, <1>5, <2>1, <2>2
  <2>4. \A x : Has(Append(s, y), x) <=> Has(s, x) \/ x = y BY HasAppend
  <2> QED BY <2>1, <2>3, <2>4 DEF In
<1>12. \A x \in Events : hand' = x => x = y BY <1>1, <1>5
<1>13. outcome'[y] \in {"stored", "failed"} /\ \A x \in Events : x # y => outcome'[x] = outcome[x]
  BY <1>1, <1>5
<1>14. ASSUME outcome'[y] = "stored", q # "none" PROVE hand' = y \/ In(y, q)'
  <2>1. CASE queue' = [[queue EXCEPT !["bus"] = Tail(@)] EXCEPT ![q] = Append(@, y)]
    <3>1. PICK s \in Seq(Events) : s = queue[q] BY <1>1, <1>14 DEF Behinds, Queues
    <3>2. queue'[q] = Append(s, y) BY <1>1, <1>14, <2>1, <3>1 DEF Behinds, Queues
    <3>3. Has(Append(s, y), y) BY HasAppend
    <3> QED BY <3>2, <3>3 DEF In
  <2>2. hand' = y \/ outcome'[y] = "failed" \/ queue' = [[queue EXCEPT !["bus"] = Tail(@)] EXCEPT ![q] = Append(@, y)]
    BY <1>1, <1>5, <1>14
  <2> QED BY <1>14, <2>1, <2>2
<1> QED BY <1>5, <1>6, <1>7, <1>9, <1>10, <1>11, <1>12, <1>13, <1>14

LEMMA DispatchInOrder ==
  ASSUME LoopInv, OrderInv, Dispatch
  PROVE  OrderInv'
<1>1. /\ hand = NoEvent /\ NoEvent \notin Events /\ UNCHANGED <<emitted, deferred>>
  BY DispatchTakes, TelemetryAssumption DEF TelemetryAssumption
<1>2. PICK y \in Events : y = Head(queue["bus"]) BY DispatchTakes
<1>4. PICK q \in Behinds \cup {"none"} : q = Behind(y) BY Names
<1>6. /\ CallbacksInOrder' /\ BusInOrder' /\ \A x : Pending(x)' <=> Pending(x)
      /\ \A x : Has(ready', <<"put", x>>) => Has(ready, <<"put", x>>) \/ Has(putters, x)
      /\ \A x : Has(putters', x) => Has(putters, x)
      /\ \A x : In(x, "bus") <=> x = y \/ In(x, "bus")'
      /\ \A x : In(x, "bus")' /\ x \notin deferred => ~EmittedBefore(x, y)
      /\ \A p \in Behinds : \A x : (In(x, p) => In(x, p)') /\ (In(x, p)' => x = y \/ In(x, p))
      /\ \A x \in Events : hand' = x => x = y
      /\ outcome'[y] \in {"stored", "failed"} /\ \A x \in Events : x # y => outcome'[x] = outcome[x]
      /\ outcome'[y] = "stored" /\ q # "none" => hand' = y \/ In(y, q)'
  BY <1>2, <1>4, DispatchMoves
<1>12. \A a, b : EmittedBefore(a, b)' <=> EmittedBefore(a, b) BY <1>1 DEF EmittedBefore
<1>14. outcome[y] # "none" BY <1>6 DEF OrderInv, Located, Queues
<1>15. \A x \in Events : x \notin deferred /\ EmittedBefore(x, y) => x # y /\ outcome[x] \notin {"none", "accepted"}
  <2> TAKE x \in Events
  <2> SUFFICES ASSUME x \notin deferred, EmittedBefore(x, y) PROVE x # y /\ outcome[x] \notin {"none", "accepted"}
    OBVIOUS
  <2>1. x # y /\ x \in Emitted BY BeforeOrders DEF OrderInv
  <2>2. outcome[x] # "none"
    <3>1. Pending(x) => outcome[y] = "none" BY DEF OrderInv, PendingFirst
    <3> QED BY <1>14, <2>1, <3>1 DEF OrderInv, Located
  <2>3. outcome[x] # "accepted"
    <3>1. outcome[x] = "accepted" => In(x, "bus") BY DEF OrderInv, Located
    <3> QED BY <1>6, <2>1, <3>1
  <2> QED BY <2>1, <2>2, <2>3
<1>16. EmittedOnce' BY <1>1, <1>6, <1>14 DEF OrderInv, EmittedOnce, Emitted
<1>17. Located'
  <2>1. /\ \A x \in Events : outcome'[x] = "none" /\ x \in Emitted /\ x \notin deferred => Pending(x)'
        /\ \A x \in Events : Pending(x)' => outcome'[x] = "none" /\ x \notin deferred
        /\ \A x \in Events : outcome'[x] = "accepted" => In(x, "bus")'
    BY <1>6, <1>14 DEF OrderInv, Located
  <2>2. ASSUME NEW x \in Events, outcome'[x] = "stored", Behind(x) # "none"
        PROVE  hand' = x \/ In(x, Behind(x))'
    <3>1. CASE x # y
      <4>1. In(x, Behind(x)) BY <1>1, <1>6, <2>2, <3>1 DEF OrderInv, Located
      <4> QED BY <1>6, <2>2, <4>1, Names
    <3>2. CASE x = y BY <1>4, <1>6, <2>2, <3>2
    <3> QED BY <3>1, <3>2
  <2>3. \A x \in Events : hand' = x \/ (\E p \in Queues : In(x, p)') => outcome'[x] # "none"
    BY <1>6 DEF OrderInv, Located, Queues, Behinds
  <2>4. \A x \in Events : Has(ready', <<"put", x>>) \/ Has(putters', x) => x \in deferred
    BY <1>6 DEF OrderInv, Located
  <2> QED BY <1>1, <2>1, <2>2, <2>3, <2>4 DEF Located, Emitted, Behind
<1>18. PendingFirst' BY <1>1, <1>6, <1>12, <1>14 DEF OrderInv, PendingFirst
<1>19. BehindLater'
  <2> SUFFICES ASSUME NEW x \in Events, NEW z \in Events, x \notin deferred, EmittedBefore(x, z),
                      hand' = z \/ \E p \in Behinds : In(z, p)'
               PROVE  outcome'[x] \notin {"none", "accepted"}
    BY <1>1, <1>12 DEF BehindLater
  <2>1. CASE z = y BY <1>6, <1>15, <2>1
  <2>2. CASE \E p \in Behinds : In(z, p)
    <3>1. outcome[x] \notin {"none", "accepted"} BY <2>2 DEF OrderInv, BehindLater
    <3> QED BY <1>6, <3>1
  <2> QED BY <1>6, <2>1, <2>2
<1> QED BY <1>6, <1>16, <1>17, <1>18, <1>19 DEF OrderInv


\* What a forward does to the callbacks and to the queues.
LEMMA ForwardMoves ==
  ASSUME LoopInv, Forward, NEW y \in Events, y = hand, NEW q \in Behinds, q = Behind(y)
  PROVE  /\ \E t \in Seq(Callbacks) :
              NoEnqueue(t) /\ (\A x : ~Has(t, <<"put", x>>)) /\ ready' = ready \o t /\ Finishes("bus", t)
         /\ \A p \in Queues : \A x : In(x, p)' <=> In(x, p) \/ (p = q /\ x = y)
         /\ queue'["bus"] = queue["bus"]
<1>1. ready \in Seq(Callbacks) /\ queue \in [Queues -> Seq(Events)] /\ unfinished \in [Queues -> Nat]
  BY LoopTyped
<1>4. q \in Queues /\ q # "bus" /\ "bus" \in Queues BY DEF Behinds, Queues
<1>5. PICK s \in Seq(Events) : s = queue[q] BY <1>1, <1>4
<1>6. queue' = [queue EXCEPT ![q] = Append(s, y)] BY <1>5 DEF Forward
<1>7. queue'[q] = Append(s, y) /\ \A p \in Queues : p # q => queue'[p] = queue[p] BY <1>1, <1>4, <1>6
<1>8. \A p \in Queues : \A x : In(x, p)' <=> In(x, p) \/ (p = q /\ x = y)
  <2> TAKE p \in Queues
  <2> TAKE x
  <2>1. Has(Append(s, y), x) <=> Has(s, x) \/ x = y BY HasAppend
  <2> QED BY <1>5, <1>7, <2>1 DEF In
<1>9. PICK u \in Seq(Callbacks), j \in Seq(Callbacks) :
        /\ u = Woken(q) /\ NoEnqueue(u) /\ (\A x : ~Has(u, <<"put", x>>))
        /\ \A c \in Callbacks : c[1] \in Tokens => ~Has(u, c)
        /\ j = Joined("bus") /\ NoEnqueue(j) /\ (\A x : ~Has(j, <<"put", x>>))
        /\ \A c \in Callbacks : Has(j, c) => LastDone("bus") /\ c = JoinerOf("bus")
  BY <1>4, WakeupsInOrder
<1>10. PICK t : t = u \o j OBVIOUS
<1>11. t \in Seq(Callbacks) /\ NoEnqueue(t) BY <1>9, <1>10, NoEnqueueConcat
<1>12. \A x : Has(t, x) <=> Has(u, x) \/ Has(j, x) BY <1>10, HasConcat
<1>13. (ready \o u) \o j = ready \o t
  <2>1. ready \in Seq(Callbacks) BY <1>1
  <2> QED BY <1>10, <2>1, Appended
<1>14. ready' = ready \o t BY <1>9, <1>13 DEF Forward
<1>15. Finishes("bus", t)
  <2>1. unfinished' = [unfinished EXCEPT !["bus"] = @ - 1, ![q] = @ + 1] BY DEF Forward
  <2>2. unfinished'["bus"] = unfinished["bus"] - 1 BY <1>1, <1>4, <2>1
  <2>3. joining' = (IF LastDone("bus") THEN "none" ELSE joining) BY DEF Forward
  <2>4. \A c \in Callbacks : c[1] \in Tokens /\ Has(t, c) => LastDone("bus") /\ c = JoinerOf("bus")
    BY <1>9, <1>12
  <2> QED BY <2>2, <2>3, <2>4 DEF Finishes
<1>16. \A x : ~Has(t, <<"put", x>>) BY <1>9, <1>12
<1> QED BY <1>4, <1>7, <1>8, <1>11, <1>14, <1>15, <1>16

LEMMA ForwardInOrder ==
  ASSUME LoopInv, OrderInv, Forward
  PROVE  OrderInv'
<1>1. /\ ready \in Seq(Callbacks) /\ hand \in Events /\ hand # NoEvent /\ Behind(hand) \in Behinds
      /\ UNCHANGED <<joinInTask, emitted, putters, outcome, deferred, drain, timedOut>> /\ hand' = NoEvent
      /\ NoEvent \notin Events
  BY DispatcherRuns, LoopTyped, TelemetryAssumption DEF Forward, TelemetryAssumption
<1>2. PICK y \in Events : y = hand BY <1>1
<1>3. PICK q \in Behinds : q = Behind(y) BY <1>1, <1>2
<1>4. q \in Queues /\ q # "bus" /\ "bus" \in Queues BY DEF Behinds, Queues
<1>7. queue'["bus"] = queue["bus"] BY <1>2, <1>3, ForwardMoves
<1>8. \A p \in Queues : \A x : In(x, p)' <=> In(x, p) \/ (p = q /\ x = y) BY <1>2, <1>3, ForwardMoves
<1>9. /\ CallbacksInOrder' /\ \A x : Pending(x)' <=> Pending(x)
      /\ \A x : Has(ready', <<"put", x>>) => Has(ready, <<"put", x>>)
  <2>1. PICK t \in Seq(Callbacks) : NoEnqueue(t) /\ (\A x : ~Has(t, <<"put", x>>)) /\ ready' = ready \o t
    BY <1>2, <1>3, ForwardMoves
  <2> QED BY <1>1, <2>1, CallbacksMove
<1>10. \A a, b : EmittedBefore(a, b)' <=> EmittedBefore(a, b) BY <1>1 DEF EmittedBefore
<1>11. \A p \in Behinds : p \in Queues BY DEF Behinds, Queues
<1>12. EmittedOnce' BY <1>1, <1>9 DEF OrderInv, EmittedOnce, Emitted
<1>13. Located'
  <2>1. /\ \A x \in Events : outcome[x] = "none" /\ x \in Emitted /\ x \notin deferred => Pending(x)'
        /\ \A x \in Events : Pending(x)' => outcome[x] = "none" /\ x \notin deferred
        /\ \A x \in Events : outcome[x] = "accepted" => In(x, "bus")'
        /\ \A x \in Events : Has(ready', <<"put", x>>) \/ Has(putters, x) => x \in deferred
    BY <1>4, <1>8, <1>9 DEF OrderInv, Located
  <2>2. ASSUME NEW x \in Events, outcome[x] = "stored", Behind(x) # "none" PROVE In(x, Behind(x))'
    <3>1. Behind(x) \in Queues BY <1>11, <2>2, Names
    <3>2. hand = x \/ In(x, Behind(x)) BY <2>2 DEF OrderInv, Located
    <3> QED BY <1>2, <1>3, <1>8, <3>1, <3>2
  <2>3. \A x \in Events : hand' = x \/ (\E p \in Queues : In(x, p)') => outcome[x] # "none"
    BY <1>1, <1>2, <1>8 DEF OrderInv, Located
  <2> QED BY <1>1, <2>1, <2>2, <2>3 DEF Located, Emitted, Behind
<1>14. PendingFirst' /\ BusInOrder'
  BY <1>1, <1>4, <1>7, <1>9, <1>10 DEF OrderInv, PendingFirst, BusInOrder
<1>15. BehindLater'
  <2>1. \A x \in Events : hand' = x \/ (\E p \in Behinds : In(x, p)') => hand = x \/ (\E p \in Behinds : In(x, p))
    BY <1>1, <1>2, <1>8, <1>11
  <2> QED BY <1>1, <1>10, <2>1 DEF OrderInv, BehindLater
<1> QED BY <1>9, <1>12, <1>13, <1>14, <1>15 DEF OrderInv

\* What a worker behind does to the callbacks and to the queues.
LEMMA WorkMoves ==
  ASSUME LoopInv, NEW w \in Behinds, NEW results, Work(w, results), NEW y \in Events, y = Head(queue[w])
  PROVE  /\ \E t \in Seq(Callbacks) :
              NoEnqueue(t) /\ (\A x : ~Has(t, <<"put", x>>)) /\ ready' = ready \o t /\ Finishes(w, t)
         /\ \A p \in Queues : \A x : In(x, p) <=> In(x, p)' \/ (p = w /\ x = y)
         /\ queue'["bus"] = queue["bus"]
<1>1. /\ ready \in Seq(Callbacks) /\ queue \in [Queues -> Seq(Events)] /\ unfinished \in [Queues -> Nat]
      /\ w \in Queues /\ w # "bus" /\ "bus" \in Queues /\ queue[w] # <<>>
  BY LoopTyped DEF Work, Behinds, Queues
<1>2. PICK s \in Seq(Events) : s = queue[w] BY <1>1
<1>5. queue' = [queue EXCEPT ![w] = Tail(s)] BY <1>2 DEF Work
<1>6. queue'[w] = Tail(s) /\ \A p \in Queues : p # w => queue'[p] = queue[p] BY <1>1, <1>5
<1>7. \A p \in Queues : \A x : In(x, p) <=> In(x, p)' \/ (p = w /\ x = y)
  <2> TAKE p \in Queues
  <2> TAKE x
  <2>1. Has(s, x) <=> x = y \/ Has(Tail(s), x) BY <1>1, <1>2, HasTail
  <2> QED BY <1>2, <1>6, <2>1 DEF In
<1>9. PICK u \in Seq(Callbacks), j \in Seq(Callbacks) :
        /\ u = WokenDispatcher(w) /\ NoEnqueue(u) /\ (\A x : ~Has(u, <<"put", x>>))
        /\ \A c \in Callbacks : c[1] \in Tokens => ~Has(u, c)
        /\ j = Joined(w) /\ NoEnqueue(j) /\ (\A x : ~Has(j, <<"put", x>>))
        /\ \A c \in Callbacks : Has(j, c) => LastDone(w) /\ c = JoinerOf(w)
  BY <1>1, WakeupsInOrder
<1>10. PICK t : t = u \o j OBVIOUS
<1>11. t \in Seq(Callbacks) /\ NoEnqueue(t) BY <1>9, <1>10, NoEnqueueConcat
<1>12. \A x : Has(t, x) <=> Has(u, x) \/ Has(j, x) BY <1>10, HasConcat
<1>13. (ready \o u) \o j = ready \o t
  <2>1. ready \in Seq(Callbacks) BY <1>1
  <2> QED BY <1>10, <2>1, Appended
<1>14. ready' = ready \o t BY <1>9, <1>13 DEF Work
<1>15. Finishes(w, t)
  <2>1. TaskDone(w) BY DEF Work
  <2>2. unfinished'[w] = unfinished[w] - 1 BY <1>1, <2>1 DEF TaskDone
  <2>3. joining' = (IF LastDone(w) THEN "none" ELSE joining) BY <2>1 DEF TaskDone
  <2>4. \A c \in Callbacks : c[1] \in Tokens /\ Has(t, c) => LastDone(w) /\ c = JoinerOf(w)
    BY <1>9, <1>12
  <2> QED BY <2>2, <2>3, <2>4 DEF Finishes
<1>16. \A x : ~Has(t, <<"put", x>>) BY <1>9, <1>12
<1> QED BY <1>1, <1>6, <1>7, <1>11, <1>14, <1>15, <1>16

LEMMA WorkInOrder ==
  ASSUME LoopInv, OrderInv, NEW w \in Behinds, NEW results, results \subseteq {"ingested", "failed"},
         Work(w, results)
  PROVE  OrderInv'
<1>1. /\ ready \in Seq(Callbacks) /\ queue \in [Queues -> Seq(Events)] /\ outcome \in [Events -> Outcomes]
      /\ UNCHANGED <<joinInTask, emitted, putters, hand, deferred, drain, timedOut>>
      /\ w \in Queues /\ w # "bus" /\ "bus" \in Queues /\ queue[w] # <<>>
  BY LoopTyped DEF Work, LoopInv, TypeOK, Behinds, Queues
<1>3. PICK y \in Events : y = Head(queue[w]) BY <1>1, HeadTailProperties
<1>5. \E r \in results : outcome' = [outcome EXCEPT ![y] = r] BY <1>3 DEF Work
<1>6. queue'["bus"] = queue["bus"] BY <1>3, WorkMoves
<1>7. \A p \in Queues : \A x : In(x, p) <=> In(x, p)' \/ (p = w /\ x = y) BY <1>3, WorkMoves
<1>8. outcome'[y] \in {"ingested", "failed"} /\ \A x \in Events : x # y => outcome'[x] = outcome[x] BY <1>1, <1>5
<1>9. outcome[y] # "none" BY <1>1, <1>7 DEF OrderInv, Located
<1>10. /\ CallbacksInOrder' /\ \A x : Pending(x)' <=> Pending(x)
       /\ \A x : Has(ready', <<"put", x>>) => Has(ready, <<"put", x>>)
  <2>1. PICK t \in Seq(Callbacks) : NoEnqueue(t) /\ (\A x : ~Has(t, <<"put", x>>)) /\ ready' = ready \o t
    BY <1>3, WorkMoves
  <2> QED BY <1>1, <2>1, CallbacksMove
<1>11. \A a, b : EmittedBefore(a, b)' <=> EmittedBefore(a, b) BY <1>1 DEF EmittedBefore
<1>12. \A p \in Behinds : p \in Queues BY DEF Behinds, Queues
<1>13. EmittedOnce' BY <1>1, <1>8, <1>9, <1>10 DEF OrderInv, EmittedOnce, Emitted
<1>14. Located'
  <2>1. /\ \A x \in Events : outcome'[x] = "none" /\ x \in Emitted /\ x \notin deferred => Pending(x)'
        /\ \A x \in Events : Pending(x)' => outcome'[x] = "none" /\ x \notin deferred
        /\ \A x \in Events : Has(ready', <<"put", x>>) \/ Has(putters, x) => x \in deferred
    BY <1>8, <1>9, <1>10 DEF OrderInv, Located
  <2>2. \A x \in Events : outcome'[x] = "accepted" => In(x, "bus")'
    BY <1>1, <1>7, <1>8 DEF OrderInv, Located
  <2>3. ASSUME NEW x \in Events, outcome'[x] = "stored", Behind(x) # "none"
        PROVE  hand = x \/ In(x, Behind(x))'
    <3>1. x # y /\ outcome[x] = "stored" BY <1>8, <2>3
    <3>2. Behind(x) \in Queues BY <1>12, <2>3, Names
    <3>3. hand = x \/ In(x, Behind(x)) BY <2>3, <3>1 DEF OrderInv, Located
    <3> QED BY <1>7, <3>1, <3>2, <3>3
  <2>4. \A x \in Events : hand = x \/ (\E p \in Queues : In(x, p)') => outcome'[x] # "none"
    BY <1>7, <1>8 DEF OrderInv, Located
  <2> QED BY <1>1, <2>1, <2>2, <2>3, <2>4 DEF Located, Emitted, Behind
<1>15. PendingFirst' BY <1>1, <1>8, <1>9, <1>10, <1>11 DEF OrderInv, PendingFirst
<1>16. BusInOrder' BY <1>1, <1>6, <1>11 DEF OrderInv, BusInOrder
<1>17. BehindLater'
  <2>1. \A x \in Events : (\E p \in Behinds : In(x, p)') => \E p \in Behinds : In(x, p) BY <1>7, <1>12
  <2> QED BY <1>1, <1>8, <1>11, <2>1 DEF OrderInv, BehindLater
<1> QED BY <1>10, <1>13, <1>14, <1>15, <1>16, <1>17 DEF OrderInv

\* Idle workers and the drain.
LEMMA OthersInOrder ==
  ASSUME LoopInv, OrderInv,
         \/ \E q \in Queues : Idle(Consumer[q], q)
         \/ DrainStep \/ JoinStep \/ Shutdown \/ JoinTimesOut \/ LoopStops
  PROVE  OrderInv'
<1>1. UNCHANGED <<emitted, queue, hand, outcome, deferred, putters>>
  BY DEF Idle, DrainStep, JoinStep, Shutdown, JoinTimesOut, LoopStops
<1>2. ready \in Seq(Callbacks) BY LoopTyped
<1>3. /\ \A k \in Tokens, q \in Queues : <<k, q>> \in Callbacks
      /\ <<"drain", "end">> \in Callbacks
  BY CallbackTypes
<1>4. \/ ready' = ready
      \/ \E c \in Callbacks : c[1] \in Tokens /\ ready' = Append(ready, c)
      \/ /\ ready # <<>> /\ Head(ready)[1] # "enqueue"
         /\ ready' = Tail(ready) \/ \E c \in Callbacks : c[1] \in Tokens /\ ready' = Append(Tail(ready), c)
  <2>1. CASE \E q \in Queues : Idle(Consumer[q], q)
    <3>1. PICK q \in Queues : Idle(Consumer[q], q) BY <2>1
    <3>2. Consumer[q] # "enqueue" BY Names DEF Workers
    <3> QED BY <3>1, <3>2 DEF Idle, Running
  <2>2. CASE DrainStep \/ JoinStep
    <3>1. ready # <<>> /\ Head(ready)[1] \in Tokens BY <2>2 DEF DrainStep, JoinStep, Running, Tokens
    <3>2. Head(ready)[1] # "enqueue" BY <3>1 DEF Tokens
    <3>3. Argument \in Queues \cup {"end"} /\ (Head(ready)[1] # "drain" => Argument \in Queues)
      <4>1. Head(ready) \in Callbacks BY <1>2, <3>1, HeadTailProperties
      <4> QED BY <3>1, <4>1 DEF Argument, Callbacks, Tokens, Workers
    <3>4. \/ ready' = ready \/ ready' = Tail(ready)
          \/ Argument \in Queues /\ \E k \in {"join", "released"} : ready' = Append(Tail(ready), <<k, Argument>>)
          \/ Argument \in Queues /\ ready' = Append(Tail(ready), <<"drain", After[Argument]>>)
      <4>1. CASE DrainStep BY <3>3, <4>1 DEF DrainStep, StopWorkers
      <4>2. CASE JoinStep
        <5>1. Argument \in Queues BY <3>3, <4>2 DEF JoinStep, Running
        <5> QED BY <4>2, <5>1 DEF JoinStep
      <4> QED BY <2>2, <4>1, <4>2
    <3>5. \A k \in Tokens, q \in Queues : <<k, q>>[1] \in Tokens /\ <<"drain", After[q]>> \in Callbacks
                                         /\ <<"drain", After[q]>>[1] \in Tokens
      BY <1>3, Names DEF Tokens
    <3> QED BY <1>3, <3>1, <3>2, <3>4, <3>5 DEF Tokens
  <2>3. CASE Shutdown
    <3>1. <<"drain", "bus">> \in Callbacks /\ <<"drain", "bus">>[1] \in Tokens BY <1>3 DEF Tokens, Queues
    <3> QED BY <2>3, <3>1 DEF Shutdown
  <2>4. CASE JoinTimesOut
    <3>1. joining \in Queues BY <2>4 DEF JoinTimesOut, LoopInv, TypeOK
    <3>2. <<"drain", After[joining]>> \in Callbacks /\ <<"drain", After[joining]>>[1] \in Tokens
      BY <1>3, <3>1, Names DEF Tokens
    <3> QED BY <2>4, <3>2 DEF JoinTimesOut
  <2>5. CASE LoopStops BY <2>5 DEF LoopStops
  <2> QED BY <2>1, <2>2, <2>3, <2>4, <2>5
<1>5. PICK t \in Seq(Callbacks) :
        /\ NoEnqueue(t) /\ \A e : ~Has(t, <<"put", e>>)
        /\ \/ ready' = ready \o t
           \/ ready # <<>> /\ Head(ready)[1] # "enqueue" /\ ready' = Tail(ready) \o t
  <2>1. ready # <<>> => Tail(ready) \in Seq(Callbacks) BY <1>2, HeadTailProperties
  <2>2. CASE \/ ready' = ready
             \/ ready # <<>> /\ Head(ready)[1] # "enqueue" /\ ready' = Tail(ready)
    BY <1>2, <2>1, <2>2, NoEnqueueNone, NoCallback
  <2>3. ASSUME NEW c \in Callbacks, c[1] \in Tokens,
               \/ ready' = Append(ready, c)
               \/ ready # <<>> /\ Head(ready)[1] # "enqueue" /\ ready' = Append(Tail(ready), c)
        PROVE  /\ <<c>> \in Seq(Callbacks) /\ NoEnqueue(<<c>>) /\ \A e : ~Has(<<c>>, <<"put", e>>)
               /\ \/ ready' = ready \o <<c>>
                  \/ ready # <<>> /\ Head(ready)[1] # "enqueue" /\ ready' = Tail(ready) \o <<c>>
    <3>1. c[1] # "enqueue" /\ c[1] # "put" BY <2>3 DEF Tokens
    <3>2. <<c>> \in Seq(Callbacks) /\ NoEnqueue(<<c>>) /\ \A e : ~Has(<<c>>, <<"put", e>>) BY <3>1, NoEnqueueOne
    <3> QED BY <1>2, <2>1, <2>3, <3>2, OneCallback
  <2> QED BY <1>4, <2>2, <2>3
<1> QED BY <1>1, <1>5, QuietInOrder

LEMMA OrderInvKept ==
  ASSUME LoopInv, OrderInv, [Next]_vars
  PROVE  OrderInv'
<1>1. ASSUME UNCHANGED vars PROVE OrderInv'
  <2>1. (\A a, b : EmittedBefore(a, b)' <=> EmittedBefore(a, b)) /\ (\A e, q : In(e, q)' <=> In(e, q))
        /\ (\A e : Pending(e)' <=> Pending(e))
    BY <1>1 DEF vars, EmittedBefore, In, Pending
  <2>2. EmittedOnce' /\ Located' BY <1>1, <2>1 DEF vars, OrderInv, EmittedOnce, Located, Emitted, Behind
  <2>3. CallbacksInOrder' /\ PendingFirst' /\ BusInOrder' /\ BehindLater'
    BY <1>1, <2>1 DEF vars, OrderInv, CallbacksInOrder, PendingFirst, BusInOrder, BehindLater
  <2> QED BY <2>2, <2>3 DEF OrderInv
<1>2. CASE LoopStep
  <2>1. DispatcherIdles \/ IngestionIdles \/ SummaryIdles => \E q \in Queues : Idle(Consumer[q], q)
    BY Names DEF DispatcherIdles, IngestionIdles, SummaryIdles, Queues
  <2>2. Ingest \/ Summarize =>
          \E w \in Behinds, results \in SUBSET {"ingested", "failed"} : Work(w, results)
    BY DEF Ingest, Summarize, Behinds
  <2> QED BY <1>2, <2>1, <2>2, EnqueueInOrder, PutInOrder, DispatchInOrder, ForwardInOrder, WorkInOrder, OthersInOrder
      DEF LoopStep
<1> QED BY <1>1, <1>2, EmitInOrder, OthersInOrder DEF Next, Ended

LEMMA InitOrderInv == Init => OrderInv
<1> SUFFICES ASSUME Init PROVE OrderInv OBVIOUS
<1>1. /\ Len(emitted) = 0 /\ Emitted = {} /\ (\A q \in Queues : Len(queue[q]) = 0) /\ Len(putters) = 0
      /\ deferred = {} /\ hand = NoEvent /\ Len(ready) = 3 /\ \A r \in 1..3 : ready[r][1] \in Workers
      /\ \A e \in Events : outcome[e] = "none"
  BY EmptySeq DEF Init, Emitted, Workers
<1>2. \A r \in 1..3 : ready[r][1] # "enqueue" /\ ready[r][1] # "put" BY <1>1 DEF Workers
<1>3. \A e : ~Pending(e) /\ ~Has(ready, <<"put", e>>) /\ ~Has(putters, e) BY <1>1, <1>2 DEF Pending, Has
<1>4. \A q \in Queues : \A e : ~In(e, q) BY <1>1 DEF In, Has
<1>5. NoEvent \notin Events BY TelemetryAssumption DEF TelemetryAssumption
<1>6. EmittedOnce
  <2>1. \A i, j \in 1..Len(emitted) : emitted[i] = emitted[j] => i = j BY <1>1
  <2> QED BY <1>1, <1>3, <2>1 DEF EmittedOnce
<1>7. Located BY <1>1, <1>3, <1>4, <1>5 DEF Located
<1>8. CallbacksInOrder /\ PendingFirst /\ BusInOrder BY <1>1, <1>2, <1>3 DEF CallbacksInOrder, PendingFirst, BusInOrder, Queues
<1>9. BehindLater BY <1>1 DEF BehindLater, EmittedBefore
<1> QED BY <1>6, <1>7, <1>8, <1>9 DEF OrderInv

LEMMA OrderInvariant == Spec => [](LoopInv /\ OrderInv)
BY InitLoopInv, LoopInvKept, InitOrderInv, OrderInvKept, PTL DEF Spec

\* The summary of a session is built from the rows of all that was emitted before its
\* last event, but for critical events that found the bus full.
THEOREM SummaryComplete == Spec => []SummarySeesEarlier
<1>1. ASSUME LoopInv, OrderInv PROVE SummarySeesEarlier
  <2> SUFFICES ASSUME NEW i \in 1..Len(emitted), NEW j \in 1..Len(emitted), i < j, emitted[i] \notin deferred,
                      queue["summary"] # <<>>, Head(queue["summary"]) = emitted[j]
               PROVE  outcome[emitted[i]] \notin {"none", "accepted"}
    BY DEF SummarySeesEarlier
  <2>1. emitted \in Seq(Events) /\ queue["summary"] \in Seq(Events)
    BY <1>1, LoopTyped DEF LoopInv, TypeOK, Queues
  <2>2. emitted[i] \in Events /\ emitted[j] \in Events BY <2>1, ElementOfSeq
  <2>3. EmittedBefore(emitted[i], emitted[j]) BY DEF EmittedBefore
  <2>4. In(emitted[j], "summary") BY <2>1, HasTail DEF In
  <2> QED BY <1>1, <2>2, <2>3, <2>4 DEF OrderInv, BehindLater, Behinds
<1> QED BY <1>1, OrderInvariant, PTL

-----------------------------------------------------------------------------
(* The drain.                                                              *)

\* What no step may do: bring an event back to a queue that it has passed.
StaysDrained ==
  \A x \in Emitted \ deferred' :
    /\ Gone(x, "bus") => Gone(x, "bus")'
    /\ Gone(x, "bus") => \A p \in Behinds : Gone(x, p) => Gone(x, p)'

\* The queues the drain has passed begin with the bus.
LEMMA PassedQueues ==
  /\ Passed("bus") = {} /\ Passed("end") = Queues
  /\ \A q \in Queues \cup {"end"} : Passed(q) \subseteq Queues /\ (Passed(q) = {} \/ "bus" \in Passed(q))
  /\ \A q \in Queues : Passed(After[q]) = Passed(q) \cup {q} /\ After[q] \in Queues \cup {"end"}
<1>1. /\ Remaining("bus") = Queues /\ Remaining("ingestion") = {"ingestion", "summary"}
      /\ Remaining("summary") = {"summary"} /\ Remaining("end") = {}
  BY DEF Remaining
<1>2. /\ Passed("bus") = {} /\ Passed("ingestion") = {"bus"} /\ Passed("summary") = {"bus", "ingestion"}
      /\ Passed("end") = Queues
  BY <1>1 DEF Passed, Queues
<1> QED BY <1>2, Names DEF Queues

LEMMA DrainedStays ==
  ASSUME StaysDrained, UNCHANGED emitted, deferred \subseteq deferred', NEW q \in Queues \cup {"end"},
         Drained(Passed(q))
  PROVE  Drained(Passed(q))'
<1>1. Passed(q) \subseteq Queues /\ (Passed(q) = {} \/ "bus" \in Passed(q)) BY PassedQueues
<1>2. ASSUME NEW x \in Emitted \ deferred', NEW p \in Passed(q) PROVE Gone(x, p)'
  <2>1. Gone(x, p) /\ Gone(x, "bus") BY <1>1, <1>2 DEF Drained
  <2>2. CASE p = "bus" BY <2>1, <2>2 DEF StaysDrained
  <2>3. CASE p \in Behinds BY <2>1, <2>3 DEF StaysDrained
  <2> QED BY <1>1, <2>2, <2>3 DEF Queues, Behinds
<1>3. Emitted' = Emitted BY DEF Emitted
<1> QED BY <1>2, <1>3 DEF Drained, Passed, Remaining

\* No event is on its way to the end of a queue whose count is zero.
LEMMA FinishedDrained ==
  ASSUME LoopInv', NEW q \in Queues, unfinished'[q] = 0, q = "bus" => NoEnqueue(ready'), NEW x \in Events
  PROVE  Gone(x, q)'
<1>1. Len(queue'[q]) \in Nat /\ unfinished'[q] = Len(queue'[q]) + (IF q = "bus" /\ hand' # NoEvent THEN 1 ELSE 0)
  BY LenProperties DEF LoopInv, TypeOK, Counts
<1>2. Len(queue'[q]) = 0 /\ (q = "bus" => hand' = NoEvent)
  <2>1. PICK n \in Nat : n = Len(queue'[q]) BY <1>1
  <2>2. CASE q = "bus" /\ hand' # NoEvent
    <3>1. 0 = n + 1 BY <1>1, <2>1, <2>2
    <3> QED BY <3>1
  <2>3. CASE ~(q = "bus" /\ hand' # NoEvent)
    <3>1. 0 = n + 0 BY <1>1, <2>1, <2>3
    <3> QED BY <2>1, <2>3, <3>1
  <2> QED BY <2>2, <2>3
<1>3. ~In(x, q)' BY <1>2 DEF In, Has
<1>4. q = "bus" => hand' # x BY <1>2, TelemetryAssumption DEF TelemetryAssumption
<1>5. q = "bus" => ~Pending(x)' BY DEF Pending, Has, NoEnqueue
<1> QED BY <1>3, <1>4, <1>5 DEF Gone

\* The drain passes a queue.
LEMMA QueuePassed ==
  ASSUME LoopInv', StaysDrained, UNCHANGED emitted, deferred \subseteq deferred', NEW q \in Queues,
         Drained(Passed(q)), unfinished'[q] = 0, q = "bus" => NoEnqueue(ready')
  PROVE  Drained(Passed(After[q]))'
<1>1. Drained(Passed(q))' BY DrainedStays
<1>2. \A x \in Emitted' : x \in Events BY ElementOfSeq DEF LoopInv, TypeOK, Emitted
<1>3. \A x \in Emitted' : Gone(x, q)' BY <1>2, FinishedDrained
<1>4. Passed(After[q]) = Passed(q) \cup {q} BY PassedQueues
<1> QED BY <1>1, <1>3, <1>4 DEF Drained

\* Callbacks that ran or were appended leave the drain's behind all that emit.
LEMMA TokensStayLast ==
  ASSUME TokensLast, ready \in Seq(Callbacks), NEW t \in Seq(Callbacks), NoEnqueue(t),
         ready' = ready \o t \/ (ready # <<>> /\ ready' = Tail(ready) \o t)
  PROVE  /\ TokensLast' /\ (NoEnqueue(ready) => NoEnqueue(ready'))
         /\ \A c : Has(ready', c) => Has(ready, c) \/ Has(t, c)
<1>1. PICK u : u = ready' OBVIOUS
<1>2. PICK k \in {0, 1} : Moved(ready, t, u, k) BY <1>1 DEF Moved
<1>3. Len(u) \in Nat /\ Len(u) = Len(ready) - k + Len(t) /\ Len(ready) \in Nat /\ Len(t) \in Nat
  <2>1. Len(u) \in Nat /\ Len(u) = Len(ready) - k + Len(t) BY <1>2, Positions
  <2>2. Len(ready) \in Nat /\ Len(t) \in Nat BY LenProperties
  <2> QED BY <2>1, <2>2
<1>4. \A r \in 1..Len(u) :
        \/ r + k \in 1..Len(ready) /\ u[r] = ready[r + k]
        \/ r - Len(ready) + k \in 1..Len(t) /\ u[r] = t[r - Len(ready) + k]
  <2> TAKE r \in 1..Len(u)
  <2> QED BY <1>2, Positions
<1>5. ASSUME NEW r \in 1..Len(u), u[r][1] = "enqueue"
      PROVE  r + k \in 1..Len(ready) /\ u[r] = ready[r + k]
  BY <1>4, <1>5 DEF NoEnqueue
<1>6. ASSUME NEW p \in 1..Len(u), NEW r \in 1..Len(u), u[p][1] = "enqueue", u[r][1] \in Tokens
      PROVE  p < r
  <2>1. p + k \in 1..Len(ready) /\ ready[p + k][1] = "enqueue" BY <1>5, <1>6
  <2>2. CASE r + k \in 1..Len(ready) /\ u[r] = ready[r + k]
    <3>1. p + k < r + k BY <1>6, <2>1, <2>2 DEF TokensLast
    <3> QED BY <3>1
  <2>3. CASE r - Len(ready) + k \in 1..Len(t) BY <1>3, <2>1, <2>3
  <2> QED BY <1>4, <2>2, <2>3
<1>7. TokensLast' BY <1>1, <1>6 DEF TokensLast
<1>8. NoEnqueue(ready) => NoEnqueue(ready') BY <1>1, <1>5 DEF NoEnqueue
<1>9. ASSUME NEW c, Has(ready', c) PROVE Has(ready, c) \/ Has(t, c)
  BY <1>1, <1>4, <1>9 DEF Has
<1> QED BY <1>7, <1>8, <1>9

\* Nothing is to be emitted when a callback of the drain runs.
LEMMA TokenRuns ==
  ASSUME TokensLast, ready \in Seq(Callbacks), ready # <<>>, Head(ready)[1] \in Tokens
  PROVE  NoEnqueue(ready) /\ Has(ready, Head(ready))
<1>1. Len(ready) \in Nat /\ 1 \in 1..Len(ready) /\ ready[1] = Head(ready)
  BY HeadTailProperties, LenProperties, EmptySeq
<1>2. ASSUME NEW r \in 1..Len(ready), ready[r][1] = "enqueue" PROVE FALSE
  <2>1. r < 1 BY <1>1, <1>2 DEF TokensLast
  <2> QED BY <2>1
<1> QED BY <1>1, <1>2 DEF NoEnqueue, Has

\* A step keeps the invariant of the drain if what it appends and awaits does.
LEMMA DrainGoesOn ==
  ASSUME DrainInv, ready \in Seq(Callbacks), UNCHANGED emitted, deferred \subseteq deferred', StaysDrained,
         timedOut => timedOut', NEW t \in Seq(Callbacks), NoEnqueue(t),
         ready' = ready \o t \/ (ready # <<>> /\ ready' = Tail(ready) \o t),
         drain' = "off" => drain = "off" /\ joining' = "none" /\ \A c \in Callbacks : c[1] \in Tokens => ~Has(t, c),
         joining' # "none" => NoEnqueue(ready),
         ~timedOut' => \A c \in Callbacks : c[1] \in Tokens /\ Has(t, c) => Drained(Passed(Reached(c)))',
         ~timedOut' => (joining' # "none" => Drained(Passed(joining))'),
         ~timedOut' => (drain' = "stopped" => Drained(Queues)')
  PROVE  DrainInv'
<1>1. /\ TokensLast' /\ (NoEnqueue(ready) => NoEnqueue(ready'))
      /\ \A c : Has(ready', c) => Has(ready, c) \/ Has(t, c)
  BY TokensStayLast DEF DrainInv
<1>2. JoinsAfter' BY <1>1 DEF JoinsAfter, NoEnqueue
<1>3. DrainOff'
  <2> SUFFICES ASSUME drain' = "off"
               PROVE  joining' = "none" /\ \A c \in Callbacks : c[1] \in Tokens => ~Has(ready', c)
    BY DEF DrainOff
  <2>1. \A c \in Callbacks : c[1] \in Tokens => ~Has(ready, c) /\ ~Has(t, c) BY DEF DrainInv, DrainOff
  <2> QED BY <1>1, <2>1
<1>4. PassedDrained'
  <2> SUFFICES ASSUME ~timedOut'
               PROVE  /\ \A c \in Callbacks : c[1] \in Tokens /\ Has(ready', c) => Drained(Passed(Reached(c)))'
                      /\ joining' # "none" => Drained(Passed(joining))'
                      /\ drain' = "stopped" => Drained(Queues)'
    BY DEF PassedDrained
  <2>1. ASSUME NEW c \in Callbacks, c[1] \in Tokens, Has(ready', c) PROVE Drained(Passed(Reached(c)))'
    <3>1. CASE Has(ready, c)
      <4>1. Drained(Passed(Reached(c))) BY <2>1, <3>1 DEF DrainInv, PassedDrained
      <4>2. Reached(c) \in Queues \cup {"end"}
        BY <2>1, Names DEF Reached, Callbacks, Tokens, Workers
      <4> QED BY <4>1, <4>2, DrainedStays
    <3>2. CASE Has(t, c) BY <2>1, <3>2
    <3> QED BY <1>1, <2>1, <3>1, <3>2
  <2> QED BY <2>1
<1> QED BY <1>1, <1>2, <1>3, <1>4 DEF DrainInv

\* A step of a worker: it may end the join() of the queue it takes from.
LEMMA ConsumeDrains ==
  ASSUME LoopInv, LoopInv', DrainInv, UNCHANGED <<joinInTask, emitted, drain, timedOut>>,
         deferred \subseteq deferred', StaysDrained,
         NEW q \in Queues, NEW t \in Seq(Callbacks), NoEnqueue(t), Finishes(q, t),
         ready' = ready \o t \/ (ready # <<>> /\ ready' = Tail(ready) \o t)
  PROVE  DrainInv'
<1>1. ready \in Seq(Callbacks) BY LoopTyped
<1>2. joining \in Queues \cup {"none"} /\ unfinished \in [Queues -> Nat] BY DEF LoopInv, TypeOK
<1>3. joining' = joining \/ joining' = "none" BY DEF Finishes
<1>4. \A c \in Callbacks : c[1] \in Tokens /\ Has(t, c) => LastDone(q) /\ c = JoinerOf(q) BY DEF Finishes
<1>5. q # "none" BY DEF Queues
<1>6. drain' = "off" => drain = "off" /\ joining' = "none" /\ \A c \in Callbacks : c[1] \in Tokens => ~Has(t, c)
  <2> SUFFICES ASSUME drain = "off"
               PROVE  joining' = "none" /\ \A c \in Callbacks : c[1] \in Tokens => ~Has(t, c)
    OBVIOUS
  <2>1. joining = "none" BY DEF DrainInv, DrainOff
  <2> QED BY <1>3, <1>4, <1>5, <2>1 DEF LastDone
<1>7. joining' # "none" => NoEnqueue(ready) BY <1>3 DEF DrainInv, JoinsAfter
<1>8. ~timedOut' => (joining' # "none" => Drained(Passed(joining))')
  <2> SUFFICES ASSUME ~timedOut, joining' # "none" PROVE Drained(Passed(joining))' OBVIOUS
  <2>1. PICK p \in Queues : p = joining /\ p = joining' BY <1>2, <1>3
  <2>2. Drained(Passed(p)) BY <2>1 DEF DrainInv, PassedDrained, Queues
  <2>3. Drained(Passed(p))' BY <2>2, DrainedStays
  <2> QED BY <2>1, <2>3
<1>9. ~timedOut' => (drain' = "stopped" => Drained(Queues)')
  <2> SUFFICES ASSUME ~timedOut, drain = "stopped" PROVE Drained(Queues)' OBVIOUS
  <2>1. Drained(Passed("end")) BY PassedQueues DEF DrainInv, PassedDrained
  <2>2. Drained(Passed("end"))' BY <2>1, DrainedStays
  <2> QED BY <2>2, PassedQueues
<1>10. ~timedOut' => \A c \in Callbacks : c[1] \in Tokens /\ Has(t, c) => Drained(Passed(Reached(c)))'
  <2> SUFFICES ASSUME ~timedOut, NEW c \in Callbacks, c[1] \in Tokens, Has(t, c)
               PROVE  Drained(Passed(Reached(c)))'
    OBVIOUS
  <2>1. LastDone(q) /\ c = JoinerOf(q) BY <1>4
  <2>2. joining = q /\ unfinished[q] = 1 BY <2>1 DEF LastDone
  <2>3. unfinished'[q] = 0
    <3>1. unfinished'[q] = unfinished[q] - 1 BY DEF Finishes
    <3> QED BY <2>2, <3>1
  <2>4. NoEnqueue(ready) BY <1>5, <2>2 DEF DrainInv, JoinsAfter
  <2>5. NoEnqueue(ready') BY <1>1, <2>4, TokensStayLast DEF DrainInv
  <2>6. Drained(Passed(q)) BY <1>5, <2>2 DEF DrainInv, PassedDrained
  <2>7. Drained(Passed(After[q]))' BY <2>3, <2>5, <2>6, QueuePassed
  <2>8. Reached(c) = After[q] BY <2>1 DEF Reached, JoinerOf
  <2> QED BY <2>7, <2>8
<1> QED BY <1>1, <1>6, <1>7, <1>8, <1>9, <1>10, DrainGoesOn

LEMMA EmitDrains ==
  ASSUME LoopInv, DrainInv, NEW e \in Events, Emit(e)
  PROVE  DrainInv'
<1>1. drain = "off" /\ drain' = "off" /\ joining' = joining /\ ready' = Append(ready, <<"enqueue", e>>) BY DEF Emit
<1>2. ready \in Seq(Callbacks) BY LoopTyped
<1>3. PICK c \in Callbacks : c = <<"enqueue", e>> BY CallbackTypes
<1>4. joining = "none" /\ \A d \in Callbacks : d[1] \in Tokens => ~Has(ready, d) BY <1>1 DEF DrainInv, DrainOff
<1>5. \A d \in Callbacks : d[1] \in Tokens => ~Has(ready', d)
  <2>1. c[1] \notin Tokens BY <1>3 DEF Tokens
  <2> QED BY <1>1, <1>2, <1>3, <1>4, <2>1, HasAppend
<1>6. \A r \in 1..Len(ready') : ready'[r][1] \notin Tokens
  <2> TAKE r \in 1..Len(ready')
  <2>1. ready' \in Seq(Callbacks) BY <1>1, <1>2, <1>3, AppendProperties
  <2>2. ready'[r] \in Callbacks BY <2>1, ElementOfSeq
  <2>3. Has(ready', ready'[r]) BY DEF Has
  <2> QED BY <1>5, <2>2, <2>3
<1>7. DrainOff' /\ TokensLast' /\ JoinsAfter'
  BY <1>1, <1>4, <1>5, <1>6 DEF DrainOff, TokensLast, JoinsAfter
<1>8. PassedDrained' BY <1>1, <1>4, <1>5 DEF PassedDrained
<1> QED BY <1>7, <1>8 DEF DrainInv

\* An event that is to be emitted, or was deferred, comes to the bus.
LEMMA BusDrains ==
  ASSUME LoopInv, LoopInv', OrderInv, DrainInv, Enqueue \/ Put
  PROVE  DrainInv'
<1>1. /\ ready # <<>> /\ ready \in Seq(Callbacks) /\ Tail(ready) \in Seq(Callbacks)
      /\ UNCHANGED <<joinInTask, emitted, hand, drain, joining, timedOut>>
  BY LoopTyped, HeadTailProperties DEF Enqueue, Put, Running
<1>2. PICK e \in Events : e = Argument /\ Has(ready, Head(ready))
                          /\ Head(ready) = <<(IF Enqueue THEN "enqueue" ELSE "put"), e>>
  <2>1. Head(ready) \in Callbacks BY <1>1, HeadTailProperties
  <2>2. Head(ready)[1] = IF Enqueue THEN "enqueue" ELSE "put" BY DEF Enqueue, Put, Running
  <2>3. Has(ready, Head(ready)) BY <1>1, HasTail
  <2> QED BY <2>1, <2>2, <2>3 DEF Argument, Callbacks, Workers
<1>3. e \in deferred \/ ~Gone(e, "bus")
  <2>1. CASE Enqueue BY <1>2, <2>1 DEF Gone, Pending
  <2>2. CASE ~Enqueue BY <1>2, <2>2 DEF OrderInv, Located
  <2> QED BY <2>1, <2>2
<1>4. PICK t \in Seq(Callbacks) :
        /\ NoEnqueue(t) /\ ready' = Tail(ready) \o t /\ \A c \in Callbacks : c[1] \in Tokens => ~Has(t, c)
        /\ PutOnBus(e) \/ UNCHANGED queue
  <2>1. CASE PutOnBus(e)
    <3>1. ready' = Tail(ready) \o Woken("bus") BY <2>1 DEF PutOnBus
    <3> QED BY <2>1, <3>1, WakeupsInOrder DEF Queues
  <2>2. CASE ready' = Append(Tail(ready), <<"put", e>>) /\ UNCHANGED queue
    <3>1. PICK c \in Callbacks : c = <<"put", e>> BY CallbackTypes
    <3>2. ready' = Tail(ready) \o <<c>> BY <1>1, <2>2, <3>1, OneCallback
    <3>3. c[1] # "enqueue" /\ c[1] \notin Tokens BY <3>1 DEF Tokens
    <3>4. \A x : Has(<<c>>, x) => x = c BY HasOne
    <3> QED BY <2>2, <3>2, <3>3, <3>4, NoEnqueueOne
  <2>3. CASE ready' = Tail(ready) /\ UNCHANGED queue
    <3>1. ready' = Tail(ready) \o <<>> BY <1>1, <2>3, NoCallback
    <3> QED BY <2>3, <3>1, NoEnqueueNone
  <2>4. \/ PutOnBus(e)
        \/ ready' = Append(Tail(ready), <<"put", e>>) /\ UNCHANGED queue
        \/ ready' = Tail(ready) /\ UNCHANGED queue
    BY <1>2 DEF Enqueue, Put
  <2> QED BY <2>1, <2>2, <2>3, <2>4
<1>5. deferred \subseteq deferred' BY DEF Enqueue, Put
<1>6. \A x : Pending(x)' => Pending(x)
  <2> TAKE x
  <2>0. PICK c : c = <<"enqueue", x>> OBVIOUS
  <2>1. Has(ready', c) => Has(Tail(ready), c) \/ Has(t, c) BY <1>1, <1>4, HasConcat
  <2>2. ~Has(t, c) BY <1>4, <2>0 DEF Has, NoEnqueue
  <2>3. Has(Tail(ready), c) => Has(ready, c) BY <1>1, HasTail
  <2> QED BY <2>0, <2>1, <2>2, <2>3 DEF Pending
<1>7. /\ \A x : In(x, "bus")' => In(x, "bus") \/ x = e
      /\ \A q \in Behinds : \A x : In(x, q)' => In(x, q)
  <2>1. CASE PutOnBus(e) BY <2>1, PutInBus
  <2>2. CASE UNCHANGED queue BY <2>2 DEF In
  <2> QED BY <1>4, <2>1, <2>2
<1>8. StaysDrained BY <1>1, <1>3, <1>5, <1>6, <1>7 DEF StaysDrained, Gone, Behinds
<1>9. Finishes("bus", t) BY <1>1, <1>4 DEF Finishes
<1> QED BY <1>1, <1>4, <1>5, <1>8, <1>9, ConsumeDrains DEF Queues

LEMMA DispatchDrains ==
  ASSUME LoopInv, LoopInv', OrderInv, DrainInv, Dispatch
  PROVE  DrainInv'
<1>1. /\ hand = NoEvent /\ NoEvent \notin Events /\ ready # <<>>
      /\ UNCHANGED <<joinInTask, emitted, deferred, drain, timedOut>>
  BY DispatchTakes, TelemetryAssumption DEF TelemetryAssumption, Dispatch, Running
<1>2. PICK y \in Events : y = Head(queue["bus"]) BY DispatchTakes
<1>3. PICK q \in Behinds \cup {"none"} : q = Behind(y) BY Names
<1>4. PICK t \in Seq(Callbacks) :
        NoEnqueue(t) /\ (ready' = ready \o t \/ ready' = Tail(ready) \o t) /\ Finishes("bus", t)
  BY <1>2, <1>3, DispatchMoves
<1>5. /\ \A x : Pending(x)' <=> Pending(x)
      /\ \A x : In(x, "bus") <=> x = y \/ In(x, "bus")'
      /\ \A p \in Behinds : \A x : In(x, p)' => x = y \/ In(x, p)
      /\ \A x \in Events : hand' = x => x = y
  BY <1>2, <1>3, DispatchMoves
<1>6. StaysDrained
  <2> SUFFICES ASSUME NEW x \in Emitted \ deferred', Gone(x, "bus")
               PROVE  Gone(x, "bus")' /\ \A p \in Behinds : Gone(x, p) => Gone(x, p)'
    BY DEF StaysDrained
  <2>1. x # y BY <1>5 DEF Gone
  <2>2. x \in Events BY ElementOfSeq DEF Emitted, LoopInv, TypeOK
  <2> QED BY <1>5, <2>1, <2>2 DEF Gone, Behinds
<1> QED BY <1>1, <1>4, <1>6, ConsumeDrains DEF Queues

LEMMA ForwardDrains ==
  ASSUME LoopInv, LoopInv', OrderInv, DrainInv, Forward
  PROVE  DrainInv'
<1>1. /\ ready \in Seq(Callbacks) /\ hand \in Events /\ hand # NoEvent /\ Behind(hand) \in Behinds
      /\ UNCHANGED <<joinInTask, emitted, putters, outcome, deferred, drain, timedOut>> /\ hand' = NoEvent
      /\ NoEvent \notin Events
  BY DispatcherRuns, LoopTyped, TelemetryAssumption DEF Forward, TelemetryAssumption
<1>2. PICK y \in Events : y = hand BY <1>1
<1>3. PICK q \in Behinds : q = Behind(y) BY <1>1, <1>2
<1>4. PICK t \in Seq(Callbacks) :
        NoEnqueue(t) /\ (\A x : ~Has(t, <<"put", x>>)) /\ ready' = ready \o t /\ Finishes("bus", t)
  BY <1>2, <1>3, ForwardMoves
<1>5. /\ \A p \in Queues : \A x : In(x, p)' <=> In(x, p) \/ (p = q /\ x = y)
      /\ \A p \in Behinds : p \in Queues /\ p # "bus"
      /\ "bus" \in Queues
  BY <1>2, <1>3, ForwardMoves DEF Behinds, Queues
<1>6. \A x : Pending(x)' <=> Pending(x) BY <1>1, <1>4, PendingKept
<1>7. StaysDrained
  <2> SUFFICES ASSUME NEW x \in Emitted \ deferred', Gone(x, "bus")
               PROVE  Gone(x, "bus")' /\ \A p \in Behinds : Gone(x, p) => Gone(x, p)'
    BY DEF StaysDrained
  <2>1. x # y BY <1>2 DEF Gone
  <2>2. x \in Events BY ElementOfSeq DEF Emitted, LoopInv, TypeOK
  <2> QED BY <1>1, <1>5, <1>6, <2>1, <2>2 DEF Gone
<1> QED BY <1>1, <1>4, <1>5, <1>7, ConsumeDrains

LEMMA WorkDrains ==
  ASSUME LoopInv, LoopInv', OrderInv, DrainInv, NEW w \in Behinds, NEW results, Work(w, results)
  PROVE  DrainInv'
<1>1. /\ UNCHANGED <<joinInTask, emitted, putters, hand, deferred, drain, timedOut>>
      /\ queue[w] \in Seq(Events) /\ w \in Queues /\ queue[w] # <<>> /\ ready \in Seq(Callbacks)
  BY LoopTyped DEF Work, Behinds, Queues
<1>2. PICK y \in Events : y = Head(queue[w]) BY <1>1, HeadTailProperties
<1>3. PICK t \in Seq(Callbacks) :
        NoEnqueue(t) /\ (\A x : ~Has(t, <<"put", x>>)) /\ ready' = ready \o t /\ Finishes(w, t)
  BY <1>2, WorkMoves
<1>4. \A p \in Queues : \A x : In(x, p)' => In(x, p) BY <1>2, WorkMoves
<1>5. \A x : Pending(x)' <=> Pending(x) BY <1>1, <1>3, PendingKept
<1>6. StaysDrained BY <1>1, <1>4, <1>5 DEF StaysDrained, Gone, Behinds, Queues
<1> QED BY <1>1, <1>3, <1>6, ConsumeDrains

LEMMA IdleDrains ==
  ASSUME LoopInv, LoopInv', OrderInv, DrainInv, NEW q \in Queues, Idle(Consumer[q], q)
  PROVE  DrainInv'
<1>1. /\ ready # <<>> /\ ready \in Seq(Callbacks) /\ ready' = Tail(ready) /\ Tail(ready) \in Seq(Callbacks)
      /\ Head(ready)[1] = Consumer[q]
      /\ UNCHANGED <<joinInTask, emitted, queue, hand, deferred, drain, joining, timedOut>>
  BY LoopTyped, HeadTailProperties DEF Idle, Running
<1>2. ready' = Tail(ready) \o <<>> BY <1>1, NoCallback
<1>3. Head(ready)[1] # "enqueue" BY <1>1, Names DEF Workers
<1>4. \A x : Pending(x)' <=> Pending(x) BY <1>1, <1>2, <1>3, NoEnqueueNone, PendingKept
<1>5. StaysDrained BY <1>1, <1>4 DEF StaysDrained, Gone, In
<1>6. Finishes(q, <<>>) BY <1>1, NoEnqueueNone DEF Finishes
<1> QED BY <1>1, <1>2, <1>5, <1>6, NoEnqueueNone, ConsumeDrains

\* A step of the drain itself: no event moves.
LEMMA UnmovedDrains ==
  ASSUME LoopInv, NEW t \in Seq(Callbacks), NoEnqueue(t),
         ready' = ready \o t \/ (ready # <<>> /\ Head(ready)[1] # "enqueue" /\ ready' = Tail(ready) \o t),
         UNCHANGED <<emitted, queue, hand, deferred>>
  PROVE  StaysDrained
<1>1. \A x : Pending(x)' <=> Pending(x) BY LoopTyped, PendingKept
<1> QED BY <1>1 DEF StaysDrained, Gone, In

\* One callback of the drain follows another.
LEMMA TokenFollows ==
  ASSUME LoopInv, DrainInv, UNCHANGED <<emitted, queue, hand, deferred, drain, joining>>, timedOut => timedOut',
         NEW c \in Callbacks, c[1] \in Tokens, drain = "on",
         \/ ready' = Append(ready, c)
         \/ ready # <<>> /\ Head(ready)[1] \in Tokens /\ ready' = Append(Tail(ready), c),
         ~timedOut' => Drained(Passed(Reached(c)))'
  PROVE  DrainInv'
<1>1. ready \in Seq(Callbacks) /\ (ready # <<>> => Tail(ready) \in Seq(Callbacks)) BY LoopTyped, HeadTailProperties
<1>2. PICK t \in Seq(Callbacks) : t = <<c>> BY OneCallback
<1>3. NoEnqueue(t) /\ (\A x : Has(t, x) <=> x = c)
  <2>1. c[1] # "enqueue" BY DEF Tokens
  <2> QED BY <1>2, <2>1, NoEnqueueOne, HasOne
<1>4. ready' = ready \o t \/ (ready # <<>> /\ Head(ready)[1] # "enqueue" /\ ready' = Tail(ready) \o t)
  BY <1>1, <1>2, OneCallback DEF Tokens
<1>5. StaysDrained BY <1>3, <1>4, UnmovedDrains
<1>6. joining' # "none" => NoEnqueue(ready) BY DEF DrainInv, JoinsAfter
<1>7. ~timedOut' => (joining' # "none" => Drained(Passed(joining))')
  <2> SUFFICES ASSUME ~timedOut, joining # "none" PROVE Drained(Passed(joining))' OBVIOUS
  <2>1. PICK p \in Queues : p = joining /\ p = joining' BY DEF LoopInv, TypeOK
  <2>2. Drained(Passed(p))' BY <1>5, <2>1, DrainedStays DEF DrainInv, PassedDrained
  <2> QED BY <2>1, <2>2
<1>8. \A d \in Callbacks : d[1] \in Tokens /\ Has(t, d) => d = c BY <1>3
<1>9. ~timedOut' => \A d \in Callbacks : d[1] \in Tokens /\ Has(t, d) => Drained(Passed(Reached(d)))'
  BY <1>8
<1> QED BY <1>1, <1>3, <1>4, <1>5, <1>6, <1>7, <1>9, DrainGoesOn

\* The drain stops the workers, or waits for a queue.
LEMMA TokenEnds ==
  ASSUME LoopInv, DrainInv, UNCHANGED <<emitted, queue, hand, deferred, timedOut>>, drain = "on",
         ready # <<>>, Head(ready)[1] \in Tokens,
         \/ drain' = "stopped" /\ UNCHANGED <<ready, joining>> /\ (~timedOut => Drained(Queues)')
         \/ /\ ready' = Tail(ready) /\ UNCHANGED drain /\ joining' \in Queues
            /\ ~timedOut => Drained(Passed(joining))'
  PROVE  DrainInv'
<1>1. ready \in Seq(Callbacks) /\ Tail(ready) \in Seq(Callbacks) BY LoopTyped, HeadTailProperties
<1>2. NoEnqueue(ready) BY <1>1, TokenRuns DEF DrainInv
<1>3. PICK t \in Seq(Callbacks) : t = <<>> BY EmptySeq
<1>4. NoEnqueue(t) /\ \A x : ~Has(t, x) BY <1>3, NoEnqueueNone
<1>5. ready' = ready \o t \/ (ready # <<>> /\ Head(ready)[1] # "enqueue" /\ ready' = Tail(ready) \o t)
  BY <1>1, <1>3, NoCallback DEF Tokens
<1>6. StaysDrained BY <1>4, <1>5, UnmovedDrains
<1>7. ~timedOut' => (joining' # "none" => Drained(Passed(joining))')
  <2> SUFFICES ASSUME ~timedOut, joining' = joining, joining # "none" PROVE Drained(Passed(joining))' OBVIOUS
  <2>1. PICK p \in Queues : p = joining /\ p = joining' BY DEF LoopInv, TypeOK
  <2>2. Drained(Passed(p))' BY <1>6, <2>1, DrainedStays DEF DrainInv, PassedDrained
  <2> QED BY <2>1, <2>2
<1>8. ~timedOut' => (drain' = "stopped" => Drained(Queues)') OBVIOUS
<1> QED BY <1>1, <1>2, <1>4, <1>5, <1>6, <1>7, <1>8, DrainGoesOn

\* The first unfinished queue lies ahead, and those before it are finished.
LEMMA FirstUnfinishedAhead ==
  ASSUME unfinished \in [Queues -> Nat], NEW q \in Queues
  PROVE  /\ FirstUnfinished(q) \in Queues \cup {"end"}
         /\ \A p \in Passed(FirstUnfinished(q)) : p \in Passed(q) \/ unfinished[p] = 0
<1>1. /\ Remaining("bus") = Queues /\ Remaining("ingestion") = {"ingestion", "summary"}
      /\ Remaining("summary") = {"summary"} /\ Remaining("end") = {}
  BY DEF Remaining
<1>2. Remaining(q) \subseteq Queues BY <1>1 DEF Queues
<1>3. CASE \A p \in Remaining(q) : unfinished[p] = 0
  <2>1. FirstUnfinished(q) = "end" BY <1>3 DEF FirstUnfinished
  <2> QED BY <1>3, <2>1 DEF Passed
<1>4. CASE ~\A p \in Remaining(q) : unfinished[p] = 0
  <2>1. \E p \in Remaining(q) : unfinished[p] > 0 /\ \A o \in Remaining(q) \ Remaining(p) : unfinished[o] = 0
    <3>1. \A p \in Queues : unfinished[p] = 0 \/ unfinished[p] > 0 OBVIOUS
    <3>2. CASE q = "bus" BY <1>1, <1>4, <3>1, <3>2 DEF Queues
    <3>3. CASE q = "ingestion" BY <1>1, <1>4, <3>1, <3>3 DEF Queues
    <3>4. CASE q = "summary" BY <1>1, <1>4, <3>1, <3>4 DEF Queues
    <3> QED BY <3>2, <3>3, <3>4 DEF Queues
  <2>2. FirstUnfinished(q) =
          CHOOSE p \in Remaining(q) : unfinished[p] > 0 /\ \A o \in Remaining(q) \ Remaining(p) : unfinished[o] = 0
    BY <1>4 DEF FirstUnfinished
  <2>3. /\ FirstUnfinished(q) \in Remaining(q)
        /\ \A o \in Remaining(q) \ Remaining(FirstUnfinished(q)) : unfinished[o] = 0
    BY <2>1, <2>2, Zenon
  <2> QED BY <1>2, <2>3 DEF Passed
<1> QED BY <1>3, <1>4

LEMMA DrainStepDrains ==
  ASSUME LoopInv, LoopInv', OrderInv, DrainInv, DrainStep
  PROVE  DrainInv'
<1>1. /\ ready # <<>> /\ ready \in Seq(Callbacks) /\ Head(ready)[1] = "drain" /\ drain # "stopped"
      /\ UNCHANGED <<joinInTask, emitted, queue, unfinished, hand, deferred, timedOut>>
      /\ unfinished \in [Queues -> Nat]
  BY LoopTyped DEF DrainStep, Running
<1>2. PICK c \in Callbacks, q \in Queues \cup {"end"} : c = Head(ready) /\ c = <<"drain", q>> /\ q = Argument
  <2>1. Head(ready) \in Callbacks BY <1>1, HeadTailProperties
  <2> QED BY <1>1, <2>1 DEF Argument, Callbacks, Workers
<1>3. NoEnqueue(ready) /\ Has(ready, c) /\ Head(ready)[1] \in Tokens BY <1>1, <1>2, TokenRuns DEF DrainInv, Tokens
<1>4. drain = "on" BY <1>1, <1>2, <1>3 DEF DrainInv, DrainOff, LoopInv, TypeOK
<1>5. ~timedOut => Drained(Passed(q))
  BY <1>2, <1>3 DEF DrainInv, PassedDrained, Reached
<1>6. \A x : ~Pending(x) BY <1>3 DEF NoEnqueue, Pending, Has
<1>7. CASE q = "end" /\ StopWorkers
  <2>1. ready' = ready /\ drain' = "stopped" /\ joining' = joining BY <1>7 DEF StopWorkers
  <2>2. PICK t \in Seq(Callbacks) : t = <<>> BY EmptySeq
  <2>3. NoEnqueue(t) /\ ready' = ready \o t BY <1>1, <2>1, <2>2, NoEnqueueNone, NoCallback
  <2>4. StaysDrained BY <1>1, <2>3, UnmovedDrains
  <2>5. ~timedOut => Drained(Passed(q))' BY <1>1, <1>5, <2>4, DrainedStays
  <2>6. ~timedOut => Drained(Queues)' BY <1>7, <2>5, PassedQueues
  <2> QED BY <1>1, <1>3, <1>4, <2>1, <2>6, TokenEnds
<1>8. CASE q # "end" /\ ready' = Append(Tail(ready), <<"join", q>>) /\ UNCHANGED <<drain, joining>>
  <2>1. PICK d \in Callbacks : d = <<"join", q>> BY <1>8, CallbackTypes DEF Tokens
  <2>2. d[1] \in Tokens /\ Reached(d) = q BY <2>1 DEF Tokens, Reached
  <2>3. PICK t \in Seq(Callbacks) : t = <<d>> BY OneCallback
  <2>4. Tail(ready) \in Seq(Callbacks) /\ d[1] # "enqueue" /\ Head(ready)[1] # "enqueue"
    BY <1>1, <2>1, HeadTailProperties
  <2>5. NoEnqueue(t) /\ ready' = Tail(ready) \o t BY <1>8, <2>1, <2>3, <2>4, NoEnqueueOne, OneCallback
  <2>6. StaysDrained BY <1>1, <2>4, <2>5, UnmovedDrains
  <2>7. ~timedOut => Drained(Passed(q))' BY <1>1, <1>5, <2>6, DrainedStays
  <2> QED BY <1>1, <1>3, <1>4, <1>8, <2>1, <2>2, <2>7, TokenFollows
<1>9. CASE /\ q # "end"
           /\ IF FirstUnfinished(q) = "end" THEN StopWorkers
              ELSE ready' = Tail(ready) /\ joining' = FirstUnfinished(q) /\ UNCHANGED drain
  <2>1. PICK f \in Queues \cup {"end"} : f = FirstUnfinished(q) BY <1>1, <1>9, FirstUnfinishedAhead
  <2>2. \A p \in Passed(f) : p \in Queues /\ (p \in Passed(q) \/ unfinished[p] = 0)
    BY <1>1, <1>9, <2>1, FirstUnfinishedAhead, PassedQueues
  <2>3. PICK t \in Seq(Callbacks) : t = <<>> BY EmptySeq
  <2>4. Tail(ready) \in Seq(Callbacks) /\ Head(ready)[1] # "enqueue" BY <1>1, HeadTailProperties
  <2>5. ready' = ready \o t \/ ready' = Tail(ready) \o t
    BY <1>1, <1>9, <2>3, <2>4, NoCallback DEF StopWorkers
  <2>6. NoEnqueue(t) BY <2>3, NoEnqueueNone
  <2>7. StaysDrained BY <1>1, <2>4, <2>5, <2>6, UnmovedDrains
  <2>8. NoEnqueue(ready') BY <1>1, <1>3, <2>5, <2>6, TokensStayLast DEF DrainInv
  <2>9. ~timedOut => Drained(Passed(f))'
    <3> SUFFICES ASSUME ~timedOut PROVE Drained(Passed(f))' OBVIOUS
    <3>1. Drained(Passed(q))' BY <1>1, <1>5, <2>7, DrainedStays
    <3>2. \A x \in Emitted' : x \in Events BY ElementOfSeq DEF LoopInv, TypeOK, Emitted
    <3>3. \A p \in Queues : unfinished[p] = 0 => \A x \in Events : Gone(x, p)'
      BY <1>1, <2>8, FinishedDrained
    <3> QED BY <2>2, <3>1, <3>2, <3>3 DEF Drained
  <2>10. CASE f = "end" BY <1>1, <1>3, <1>4, <1>9, <2>1, <2>9, <2>10, PassedQueues, TokenEnds DEF StopWorkers
  <2>11. CASE f # "end" BY <1>1, <1>3, <1>4, <1>9, <2>1, <2>9, <2>11, TokenEnds
  <2> QED BY <2>10, <2>11
<1> QED BY <1>2, <1>7, <1>8, <1>9 DEF DrainStep

LEMMA JoinStepDrains ==
  ASSUME LoopInv, LoopInv', OrderInv, DrainInv, JoinStep
  PROVE  DrainInv'
<1>1. /\ ready # <<>> /\ ready \in Seq(Callbacks) /\ Head(ready)[1] \in {"join", "joined", "released"}
      /\ drain # "stopped" /\ UNCHANGED <<joinInTask, emitted, queue, unfinished, hand, deferred, drain, timedOut>>
      /\ Tail(ready) \in Seq(Callbacks)
  BY LoopTyped, HeadTailProperties DEF JoinStep, Running
<1>2. PICK c \in Callbacks, q \in Queues : c = Head(ready) /\ q = Argument /\ c[2] = q
  <2>1. Head(ready) \in Callbacks BY <1>1, HeadTailProperties
  <2> QED BY <1>1, <2>1 DEF Argument, Callbacks, Workers
<1>3. Head(ready)[1] \in Tokens /\ Head(ready)[1] # "enqueue" BY <1>1 DEF Tokens
<1>4. NoEnqueue(ready) /\ Has(ready, c) BY <1>1, <1>2, <1>3, TokenRuns DEF DrainInv
<1>5. drain = "on" BY <1>1, <1>2, <1>3, <1>4 DEF DrainInv, DrainOff, LoopInv, TypeOK
<1>6. ~timedOut => Drained(Passed(Reached(c))) BY <1>2, <1>3, <1>4 DEF DrainInv, PassedDrained
<1>7. After[q] \in Queues \cup {"end"} BY Names
<1>8. ASSUME NEW d \in Callbacks, d[1] \in Tokens, ready' = Append(Tail(ready), d)
      PROVE  StaysDrained /\ NoEnqueue(ready')
  <2>1. PICK t \in Seq(Callbacks) : t = <<d>> BY OneCallback
  <2>2. d[1] # "enqueue" BY <1>8 DEF Tokens
  <2>3. NoEnqueue(t) /\ ready' = Tail(ready) \o t BY <1>1, <1>8, <2>1, <2>2, NoEnqueueOne, OneCallback
  <2>4. StaysDrained BY <1>1, <1>3, <2>3, UnmovedDrains
  <2>5. NoEnqueue(ready') BY <1>1, <1>4, <2>3, TokensStayLast DEF DrainInv
  <2> QED BY <2>4, <2>5
<1>9. CASE /\ c[1] = "join" /\ unfinished[q] = 0
           /\ ready' = Append(Tail(ready), <<"released", q>>) /\ UNCHANGED joining
  <2>1. PICK d \in Callbacks : d = <<"released", q>> BY CallbackTypes DEF Tokens
  <2>2. d[1] \in Tokens /\ Reached(d) = After[q] /\ Reached(c) = q BY <1>2, <1>9, <2>1 DEF Tokens, Reached
  <2>3. StaysDrained /\ NoEnqueue(ready') BY <1>8, <1>9, <2>1, <2>2
  <2>4. ~timedOut => Drained(Passed(After[q]))' BY <1>1, <1>6, <1>9, <2>2, <2>3, QueuePassed
  <2> QED BY <1>1, <1>3, <1>5, <1>9, <2>1, <2>2, <2>4, TokenFollows
<1>10. CASE c[1] = "join" /\ ready' = Tail(ready) /\ joining' = q
  <2>1. PICK t \in Seq(Callbacks) : t = <<>> BY EmptySeq
  <2>2. NoEnqueue(t) /\ ready' = Tail(ready) \o t BY <1>1, <1>10, <2>1, NoEnqueueNone, NoCallback
  <2>3. StaysDrained BY <1>1, <1>3, <2>2, UnmovedDrains
  <2>4. Reached(c) = q BY <1>2, <1>10 DEF Reached
  <2>5. ~timedOut => Drained(Passed(q))' BY <1>1, <1>6, <2>3, <2>4, DrainedStays
  <2> QED BY <1>1, <1>3, <1>5, <1>10, <2>5, TokenEnds
<1>11. CASE c[1] = "joined" /\ ready' = Append(Tail(ready), <<"released", q>>) /\ UNCHANGED joining
  <2>1. PICK d \in Callbacks : d = <<"released", q>> BY CallbackTypes DEF Tokens
  <2>2. d[1] \in Tokens /\ Reached(d) = After[q] /\ Reached(c) = After[q] BY <1>2, <1>11, <2>1 DEF Tokens, Reached
  <2>3. StaysDrained BY <1>8, <1>11, <2>1, <2>2
  <2>4. ~timedOut => Drained(Passed(After[q]))' BY <1>1, <1>6, <1>7, <2>2, <2>3, DrainedStays
  <2> QED BY <1>1, <1>3, <1>5, <1>11, <2>1, <2>2, <2>4, TokenFollows
<1>12. CASE c[1] = "released" /\ ready' = Append(Tail(ready), <<"drain", After[q]>>) /\ UNCHANGED joining
  <2>1. PICK d \in Callbacks : d = <<"drain", After[q]>> BY <1>7, CallbackTypes DEF Tokens
  <2>2. d[1] \in Tokens /\ Reached(d) = After[q] /\ Reached(c) = After[q] BY <1>2, <1>12, <2>1 DEF Tokens, Reached
  <2>3. StaysDrained BY <1>8, <1>12, <2>1, <2>2
  <2>4. ~timedOut => Drained(Passed(After[q]))' BY <1>1, <1>6, <1>7, <2>2, <2>3, DrainedStays
  <2> QED BY <1>1, <1>3, <1>5, <1>12, <2>1, <2>2, <2>4, TokenFollows
<1> QED BY <1>2, <1>9, <1>10, <1>11, <1>12 DEF JoinStep, Running

LEMMA StopDrains ==
  ASSUME LoopInv, LoopInv', OrderInv, DrainInv, Shutdown \/ JoinTimesOut \/ LoopStops
  PROVE  DrainInv'
<1>1. ready \in Seq(Callbacks) BY LoopTyped
<1>2. CASE Shutdown
  <2>1. drain = "off" /\ drain' = "on" /\ ready' = Append(ready, <<"drain", "bus">>)
        /\ UNCHANGED <<emitted, queue, hand, deferred, joining, timedOut>>
    BY <1>2 DEF Shutdown
  <2>2. PICK d \in Callbacks : d = <<"drain", "bus">> BY CallbackTypes DEF Tokens, Queues
  <2>3. PICK t \in Seq(Callbacks) : t = <<d>> BY OneCallback
  <2>4. d[1] # "enqueue" /\ Reached(d) = "bus" BY <2>2 DEF Reached
  <2>5. NoEnqueue(t) /\ (\A x : Has(t, x) <=> x = d) BY <2>3, <2>4, NoEnqueueOne, HasOne
  <2>6. ready' = ready \o t BY <1>1, <2>1, <2>2, <2>3, OneCallback
  <2>7. StaysDrained BY <2>1, <2>5, <2>6, UnmovedDrains
  <2>8. joining' = "none" BY <2>1 DEF DrainInv, DrainOff
  <2>9. Drained(Passed("bus"))' BY PassedQueues DEF Drained
  <2>10. \A c \in Callbacks : c[1] \in Tokens /\ Has(t, c) => Drained(Passed(Reached(c)))'
    <3> SUFFICES ASSUME NEW c \in Callbacks, Has(t, c) PROVE Drained(Passed(Reached(c)))' OBVIOUS
    <3>1. c = d BY <2>5
    <3> QED BY <2>4, <2>9, <3>1
  <2> QED BY <1>1, <2>1, <2>5, <2>6, <2>7, <2>8, <2>10, DrainGoesOn
<1>3. CASE JoinTimesOut
  <2>1. /\ drain = "on" /\ drain' = "on" /\ ready' = Append(ready, <<"drain", After[joining]>>)
        /\ joining \in Queues /\ joining' = "none" /\ timedOut' = TRUE
        /\ UNCHANGED <<emitted, queue, hand, deferred>>
    BY <1>3 DEF JoinTimesOut, LoopInv, TypeOK
  <2>2. PICK d \in Callbacks : d = <<"drain", After[joining]>> BY <2>1, Names, CallbackTypes DEF Tokens
  <2>3. PICK t \in Seq(Callbacks) : t = <<d>> BY OneCallback
  <2>4. d[1] # "enqueue" BY <2>2
  <2>5. NoEnqueue(t) BY <2>3, <2>4, NoEnqueueOne
  <2>6. ready' = ready \o t BY <1>1, <2>1, <2>2, <2>3, OneCallback
  <2>7. StaysDrained BY <2>1, <2>5, <2>6, UnmovedDrains
  <2> QED BY <1>1, <2>1, <2>5, <2>6, <2>7, DrainGoesOn
<1>4. CASE LoopStops
  <2>1. /\ drain' = "stopped" /\ timedOut' = TRUE /\ UNCHANGED <<emitted, ready, queue, hand, deferred, joining>>
    BY <1>4 DEF LoopStops
  <2>2. PICK t \in Seq(Callbacks) : t = <<>> BY EmptySeq
  <2>3. NoEnqueue(t) /\ ready' = ready \o t BY <1>1, <2>1, <2>2, NoEnqueueNone, NoCallback
  <2>4. StaysDrained BY <2>1, <2>3, UnmovedDrains
  <2>5. joining' # "none" => NoEnqueue(ready) BY <2>1 DEF DrainInv, JoinsAfter
  <2> QED BY <1>1, <2>1, <2>3, <2>4, <2>5, DrainGoesOn
<1> QED BY <1>2, <1>3, <1>4

LEMMA DrainInvKept ==
  ASSUME LoopInv, LoopInv', OrderInv, DrainInv, [Next]_vars
  PROVE  DrainInv'
<1>1. ASSUME UNCHANGED vars PROVE DrainInv'
  <2>1. UNCHANGED <<emitted, ready, queue, hand, deferred, drain, joining, timedOut>> BY <1>1 DEF vars
  <2>2. DrainOff' /\ TokensLast' /\ JoinsAfter'
    BY <2>1 DEF DrainInv, DrainOff, TokensLast, JoinsAfter, NoEnqueue
  <2>3. PassedDrained'
    <3>1. \A x, q : Gone(x, q)' <=> Gone(x, q) BY <2>1 DEF Gone, In, Pending
    <3>2. Emitted' = Emitted BY <2>1 DEF Emitted
    <3> QED BY <2>1, <3>1, <3>2 DEF DrainInv, PassedDrained, Drained
  <2> QED BY <2>2, <2>3 DEF DrainInv
<1>2. CASE LoopStep
  <2>1. DispatcherIdles \/ IngestionIdles \/ SummaryIdles => \E q \in Queues : Idle(Consumer[q], q)
    BY Names DEF DispatcherIdles, IngestionIdles, SummaryIdles, Queues
  <2>2. Ingest \/ Summarize => \E w \in Behinds, results \in SUBSET Outcomes : Work(w, results)
    BY DEF Ingest, Summarize, Behinds, Outcomes
  <2> QED BY <1>2, <2>1, <2>2, BusDrains, DispatchDrains, ForwardDrains, WorkDrains, IdleDrains, DrainStepDrains,
             JoinStepDrains
      DEF LoopStep
<1> QED BY <1>1, <1>2, EmitDrains, StopDrains DEF Next, Ended

LEMMA InitDrainInv == Init => DrainInv
<1> SUFFICES ASSUME Init PROVE DrainInv OBVIOUS
<1>1. Len(ready) = 3 /\ (\A r \in 1..3 : ready[r][1] \in Workers) /\ joining = "none" /\ drain = "off"
  BY DEF Init, Workers
<1>2. \A r \in 1..3 : ready[r][1] \notin Tokens BY <1>1 DEF Workers, Tokens
<1>3. \A c \in Callbacks : c[1] \in Tokens => ~Has(ready, c) BY <1>1, <1>2 DEF Has
<1> QED BY <1>1, <1>2, <1>3 DEF DrainInv, DrainOff, TokensLast, JoinsAfter, PassedDrained

LEMMA DrainInvariant == Spec => [](LoopInv /\ OrderInv /\ DrainInv)
BY InitLoopInv, LoopInvKept, InitOrderInv, OrderInvKept, InitDrainInv, DrainInvKept, PTL DEF Spec

\* A drain that does not time out leaves no event of the bus, nor of the queues behind
\* it, unhandled, but for critical events that found the bus full.
THEOREM NothingLeftBehind == Spec => []AcceptedDrained
<1>1. ASSUME LoopInv, OrderInv, DrainInv PROVE AcceptedDrained
  <2> SUFFICES ASSUME drain = "stopped", ~timedOut, NEW e \in Emitted \ deferred PROVE ~Unsettled(e)
    BY DEF AcceptedDrained
  <2>1. e \in Events BY <1>1, ElementOfSeq DEF LoopInv, TypeOK, Emitted
  <2>2. \A q \in Queues : Gone(e, q) BY <1>1 DEF DrainInv, PassedDrained, Drained
  <2>3. ~Pending(e) /\ ~In(e, "bus") /\ hand # e /\ ~In(e, "ingestion") /\ ~In(e, "summary")
    BY <2>2 DEF Gone, Queues
  <2>4. outcome[e] \notin {"none", "accepted"} BY <1>1, <2>1, <2>3 DEF OrderInv, Located
  <2>5. Behind(e) \in Behinds \cup {"none"} BY <2>1, Names
  <2>6. ~(outcome[e] = "stored" /\ Behind(e) # "none")
    BY <1>1, <2>1, <2>3, <2>5 DEF OrderInv, Located, Behinds
  <2> QED BY <2>4, <2>6 DEF Unsettled
<1> QED BY <1>1, DrainInvariant, PTL

-----------------------------------------------------------------------------
(* The feed.                                                               *)

\* A row that a row names exists.
RowsExist ==
  /\ \A i \in DOMAIN cards : cards[i].event \in DOMAIN events /\ cards[i].digest \in 0..Len(digests)
  /\ \A j \in Polls : poll[j].batch \in Seq(DOMAIN events)

\* A run that goes on has a user and an event at hand.
RunsShape ==
  \A j \in Polls : ~IdlePoll(j) => poll[j].user \in Users /\ poll[j].batch # <<>>

\* A deep dive explores a card of its user, and links a digest once the user has one.
DivesOwnCard ==
  \A d \in Dives :
    ~IdleDive(d) => /\ dive[d].user \in Users
                    /\ dive[d].card \in CardsOf(dive[d].user)
                    /\ dive[d].step = "link" => \E n \in DOMAIN digests : digests[n] = dive[d].user

FeedInv == FeedTypeOK /\ RowsExist /\ RunsShape /\ DivesOwnCard /\ DigestOfUser

\* No two runs that go on have one user.
RunsApart ==
  \A j, k \in Polls : ~IdlePoll(j) /\ ~IdlePoll(k) /\ poll[j].user = poll[k].user => j = k

\* What a run is about to write was not shown when it looked, nor since.
CreatesUnseen ==
  \A j \in Polls : poll[j].step = "create" => ~SourceShown(poll[j].user, Head(poll[j].batch))

\* A set of natural numbers with a bound has a greatest element.
LEMMA Greatest ==
  ASSUME NEW S, NEW b \in Nat, S \subseteq 1..b, S # {}
  PROVE  \E n \in S : \A m \in S : m <= n
<1> DEFINE T == {k \in Nat : b - k \in S}
<1>1. PICK n \in S : TRUE OBVIOUS
<1>2. b - n \in T OBVIOUS
<1>3. PICK x \in T : \A y \in T : ~ (<<y, x>> \in OpToRel(<, Nat))
  BY <1>2, NatLessThanWellFounded, WFMin, Zenon
<1>4. \A y \in T : ~(y < x) BY <1>3 DEF OpToRel
<1>5. b - x \in S OBVIOUS
<1>6. ASSUME NEW m \in S PROVE m <= b - x
  <2>1. b - m \in T OBVIOUS
  <2>2. ~(b - m < x) BY <2>1, <1>4
  <2>3. x \in Nat /\ m \in Nat OBVIOUS
  <2> QED BY <2>2, <2>3
<1> QED BY <1>5, <1>6

\* The newest digest of a user who has one is one of theirs.
LEMMA LatestDigestOwned ==
  ASSUME digests \in Seq(Users), NEW u, \E n \in DOMAIN digests : digests[n] = u
  PROVE  LatestDigest(u) \in DOMAIN digests /\ digests[LatestDigest(u)] = u
<1> DEFINE S == {n \in DOMAIN digests : digests[n] = u}
<1>1. S \subseteq 1..Len(digests) /\ Len(digests) \in Nat /\ S # {} BY LenProperties
<1>2. \E n \in S : \A m \in S : m <= n
  <2> HIDE DEF S
  <2> QED BY <1>1, Greatest
<1>3. \E n \in DOMAIN digests : digests[n] = u /\ \A m \in DOMAIN digests : digests[m] = u => m <= n
  BY <1>2
<1> HIDE DEF S
<1> QED BY <1>3 DEF LatestDigest

\* A batch lists events that exist, and has one when there is something to process.
LEMMA BatchListed ==
  ASSUME events \in Seq(Event), NEW u, NEW w, NEW b \in NewestFirst(Unprocessed(u, w)),
         Unprocessed(u, w) # {}
  PROVE  b \in Seq(DOMAIN events) /\ b # <<>>
<1> DEFINE S == Unprocessed(u, w)
<1>1. S \subseteq DOMAIN events BY DEF Unprocessed, Newest, Visible
<1>2. DOMAIN events = 1..Len(events) /\ Len(events) \in Nat BY LenProperties
<1>3. IsFiniteSet(S)
  <2> HIDE DEF S
  <2>1. IsFiniteSet(1..Len(events)) BY <1>2, FS_Interval
  <2> QED BY <1>1, <1>2, <2>1, FS_Subset
<1>4. Cardinality(S) \in Nat /\ Cardinality(S) # 0 BY <1>3, FS_CardinalityType, FS_EmptySet
<1>5. b \in [1..Cardinality(S) -> S] BY DEF NewestFirst
<1> HIDE DEF S
<1>6. b \in Seq(S) /\ b # <<>> BY <1>4, <1>5
<1> QED BY <1>1, <1>6, SeqMonotonic

LEMMA InitFeedInv == FeedInit => FeedInv
<1> SUFFICES ASSUME FeedInit PROVE FeedInv OBVIOUS
<1>1. <<>> \in Seq(Event) /\ <<>> \in Seq(Card) /\ <<>> \in Seq(Users) /\ <<>> \in Seq(EventIds)
      /\ <<>> \in Seq(DOMAIN <<>>) /\ Len(<<>>) = 0 /\ DOMAIN <<>> = {}
  BY EmptySeq
<1>2. NoPoll \in Run /\ NoDive \in DeepDive BY <1>1 DEF NoPoll, NoDive, Run, DeepDive, Statuses
<1>3. FeedTypeOK BY <1>1, <1>2, FeedAssumption DEF FeedInit, FeedTypeOK, FeedAssumption
<1>4. \A j \in Polls : IdlePoll(j) /\ poll[j].batch = <<>> BY DEF FeedInit, NoPoll, IdlePoll
<1>5. \A d \in Dives : IdleDive(d) BY DEF FeedInit, NoDive, IdleDive
<1> QED BY <1>1, <1>3, <1>4, <1>5
        DEF FeedInit, FeedInv, RowsExist, RunsShape, DivesOwnCard, DigestOfUser

\* One run changes and nothing else.
LEMMA RunChanged ==
  ASSUME FeedInv, NEW j \in Polls, NEW r,
         poll' = [poll EXCEPT ![j] = r],
         r \in Run, r.batch \in Seq(DOMAIN events),
         r.step # "idle" => r.user \in Users /\ r.batch # <<>>,
         UNCHANGED <<events, cards, digests, dive>>, UNCHANGED tagVars
  PROVE  FeedInv'
<1>1. FeedTypeOK' BY DEF FeedInv, FeedTypeOK, tagVars
<1>2. RowsExist' BY DEF FeedInv, FeedTypeOK, RowsExist
<1>3. RunsShape' BY DEF FeedInv, FeedTypeOK, RunsShape, IdlePoll
<1>4. DivesOwnCard' BY DEF FeedInv, DivesOwnCard, IdleDive, CardsOf
<1>5. DigestOfUser' BY DEF FeedInv, DigestOfUser
<1> QED BY <1>1, <1>2, <1>3, <1>4, <1>5 DEF FeedInv

\* What a run becomes when it goes on to the next event of its batch.
Advanced(j) ==
  IF Tail(poll[j].batch) = <<>> THEN NoPoll
  ELSE [step |-> "check", user |-> poll[j].user, space |-> poll[j].space, batch |-> Tail(poll[j].batch)]

LEMMA AdvancedTyped ==
  ASSUME FeedInv, NEW j \in Polls, ~IdlePoll(j)
  PROVE  /\ Advance(j) => poll' = [poll EXCEPT ![j] = Advanced(j)]
         /\ Advanced(j) \in Run /\ Advanced(j).batch \in Seq(DOMAIN events)
         /\ Advanced(j).step # "idle" =>
              /\ Advanced(j).step = "check" /\ Advanced(j).user = poll[j].user
              /\ Advanced(j).user \in Users /\ Advanced(j).batch # <<>>
         /\ Head(poll[j].batch) \in DOMAIN events
<1> DEFINE b == poll[j].batch
<1>1. /\ poll[j] \in Run /\ b \in Seq(DOMAIN events) /\ b \in Seq(EventIds)
      /\ b # <<>> /\ poll[j].user \in Users
  BY DEF FeedInv, FeedTypeOK, RowsExist, RunsShape, Run
<1>2. Head(b) \in DOMAIN events /\ Tail(b) \in Seq(DOMAIN events) /\ Tail(b) \in Seq(EventIds)
  <2> HIDE DEF b
  <2> QED BY <1>1, HeadTailProperties
<1>3. Advance(j) => poll' = [poll EXCEPT ![j] = Advanced(j)]
  BY <1>1 DEF Advance, Advanced, Run
<1>4. NoPoll \in Run /\ NoPoll.batch \in Seq(DOMAIN events) /\ NoPoll.step = "idle"
  BY EmptySeq DEF NoPoll, Run
<1>5. poll[j].space \in Workspaces \cup {NoSpace} BY <1>1 DEF Run
<1> HIDE DEF b
<1>6. CASE Tail(b) = <<>>
  BY <1>2, <1>3, <1>4, <1>6 DEF Advanced, b
<1>7. CASE Tail(b) # <<>>
  BY <1>1, <1>2, <1>3, <1>5, <1>7 DEF Advanced, b, Run
<1> QED BY <1>6, <1>7

\* The steps of a run.
LEMMA LoadKeeps ==
  ASSUME FeedInv, NEW j \in Polls, NEW u \in Users, NEW w \in Workspaces \cup {NoSpace}, Load(j, u, w)
  PROVE  FeedInv'
<1>1. PICK b \in NewestFirst(Unprocessed(u, w)) :
        poll' = [poll EXCEPT ![j] = [step |-> "check", user |-> u, space |-> w, batch |-> b]]
  BY DEF Load
<1>2. b \in Seq(DOMAIN events) /\ b # <<>> BY BatchListed DEF Load, FeedInv, FeedTypeOK
<1>3. b \in Seq(EventIds)
  <2>1. DOMAIN events = 1..Len(events) /\ Len(events) \in Nat /\ Len(events) <= MaxEvents
    BY LenProperties DEF FeedInv, FeedTypeOK
  <2>2. DOMAIN events \subseteq EventIds BY <2>1, FeedAssumption DEF FeedAssumption, EventIds
  <2> QED BY <1>2, <2>2, SeqMonotonic
<1> DEFINE r == [step |-> "check", user |-> u, space |-> w, batch |-> b]
<1>4. r \in Run /\ r.batch \in Seq(DOMAIN events) /\ r.user \in Users /\ r.batch # <<>>
  BY <1>2, <1>3 DEF Run
<1>5. poll' = [poll EXCEPT ![j] = r] BY <1>1
<1>6. UNCHANGED <<events, cards, digests, dive>> /\ UNCHANGED tagVars BY DEF Load
<1> HIDE DEF r
<1> QED BY <1>4, <1>5, <1>6, RunChanged

LEMMA CheckKeeps ==
  ASSUME FeedInv, NEW j \in Polls, Check(j)
  PROVE  FeedInv'
<1>1. poll[j].step = "check" /\ ~IdlePoll(j) BY DEF Check, IdlePoll
<1>2. UNCHANGED <<events, cards, digests, dive>> /\ UNCHANGED tagVars BY DEF Check
<1>3. CASE Advance(j) BY <1>1, <1>2, <1>3, AdvancedTyped, RunChanged
<1>4. CASE poll' = [poll EXCEPT ![j].step = "create"]
  <2> DEFINE r == [poll[j] EXCEPT !.step = "create"]
  <2>1. poll[j] \in Run /\ poll[j].batch \in Seq(DOMAIN events)
        /\ poll[j].user \in Users /\ poll[j].batch # <<>>
    BY <1>1 DEF FeedInv, FeedTypeOK, RowsExist, RunsShape
  <2>2. r \in Run /\ r.batch = poll[j].batch /\ r.user = poll[j].user BY <2>1 DEF Run
  <2>3. poll' = [poll EXCEPT ![j] = r] BY <1>4
  <2> HIDE DEF r
  <2> QED BY <1>2, <2>1, <2>2, <2>3, RunChanged
<1> QED BY <1>3, <1>4 DEF Check

LEMMA CreateFailsKeeps ==
  ASSUME FeedInv, NEW j \in Polls, CreateFails(j)
  PROVE  FeedInv'
<1>1. NoPoll \in Run /\ NoPoll.batch \in Seq(DOMAIN events) /\ NoPoll.step = "idle"
  BY EmptySeq DEF NoPoll, Run
<1> QED BY <1>1, RunChanged DEF CreateFails

\* Cards are added or changed, each keeping its user and event.
LEMMA CardsChanged ==
  ASSUME FeedInv, cards' \in Seq(Card), Len(cards) <= Len(cards'),
         \A i \in DOMAIN cards : cards'[i].user = cards[i].user,
         \A i \in DOMAIN cards' :
           /\ cards'[i].event \in DOMAIN events /\ cards'[i].digest \in 0..Len(digests)
           /\ cards'[i].digest # 0 => digests[cards'[i].digest] = cards'[i].user,
         \A d \in Dives : dive'[d] = dive[d] \/ IdleDive(d)',
         dive' \in [Dives -> DeepDive],
         poll' = poll \/ \E j \in Polls : ~IdlePoll(j) /\ poll' = [poll EXCEPT ![j] = Advanced(j)],
         UNCHANGED <<events, digests>>, UNCHANGED tagVars
  PROVE  FeedInv'
<1>1. /\ poll' \in [Polls -> Run] /\ \A j \in Polls : poll'[j].batch \in Seq(DOMAIN events)
      /\ RunsShape'
  <2>1. CASE poll' = poll BY <2>1 DEF FeedInv, FeedTypeOK, RowsExist, RunsShape, IdlePoll
  <2>2. ASSUME NEW j \in Polls, ~IdlePoll(j), poll' = [poll EXCEPT ![j] = Advanced(j)]
        PROVE  /\ poll' \in [Polls -> Run] /\ \A i \in Polls : poll'[i].batch \in Seq(DOMAIN events)
               /\ RunsShape'
    <3>1. /\ Advanced(j) \in Run /\ Advanced(j).batch \in Seq(DOMAIN events)
          /\ Advanced(j).step # "idle" => Advanced(j).user \in Users /\ Advanced(j).batch # <<>>
      BY <2>2, AdvancedTyped
    <3> QED BY <2>2, <3>1 DEF FeedInv, FeedTypeOK, RowsExist, RunsShape, IdlePoll
  <2> QED BY <2>1, <2>2
<1>2. FeedTypeOK' BY <1>1 DEF FeedInv, FeedTypeOK, tagVars
<1>3. RowsExist' BY <1>1 DEF FeedInv, RowsExist
<1>4. DivesOwnCard'
  <2> SUFFICES ASSUME NEW d \in Dives, ~IdleDive(d)'
               PROVE  /\ dive'[d].user \in Users
                      /\ dive'[d].card \in CardsOf(dive[d].user)'
                      /\ dive'[d].step = "link" => \E n \in DOMAIN digests : digests[n] = dive'[d].user
    BY DEF DivesOwnCard, CardsOf
  <2>1. dive'[d] = dive[d] /\ ~IdleDive(d) BY DEF IdleDive
  <2>2. /\ dive[d].user \in Users
        /\ dive[d].card \in CardsOf(dive[d].user)
        /\ dive[d].step = "link" => \E n \in DOMAIN digests : digests[n] = dive[d].user
    BY <2>1 DEF FeedInv, DivesOwnCard
  <2>3. DOMAIN cards \subseteq DOMAIN cards' BY LenProperties DEF FeedInv, FeedTypeOK
  <2> QED BY <2>1, <2>2, <2>3 DEF CardsOf
<1>5. DigestOfUser' BY DEF DigestOfUser
<1> QED BY <1>1, <1>2, <1>3, <1>4, <1>5 DEF FeedInv

LEMMA CreateCardKeeps ==
  ASSUME FeedInv, NEW j \in Polls, CreateCard(j)
  PROVE  FeedInv'
<1> DEFINE c == [user |-> poll[j].user, event |-> Head(poll[j].batch),
                 status |-> "new", digest |-> 0, recent |-> TRUE]
<1>1. ~IdlePoll(j) /\ poll[j].user \in Users BY DEF CreateCard, IdlePoll, FeedInv, RunsShape
<1>2. Head(poll[j].batch) \in DOMAIN events /\ poll' = [poll EXCEPT ![j] = Advanced(j)]
  BY <1>1, AdvancedTyped DEF CreateCard
<1>3. cards \in Seq(Card) /\ Len(cards) \in Nat /\ DOMAIN cards = 1..Len(cards)
      /\ DOMAIN events \subseteq Nat /\ Len(digests) \in Nat
  BY LenProperties DEF FeedInv, FeedTypeOK
<1>4. c \in Card BY <1>1, <1>2, <1>3 DEF Card, Statuses
<1>5. cards' = Append(cards, c) BY DEF CreateCard
<1>6. c.event \in DOMAIN events /\ c.digest = 0 BY <1>2
<1> HIDE DEF c
<1>7. /\ cards' \in Seq(Card) /\ Len(cards') = Len(cards) + 1 /\ DOMAIN cards' = 1..Len(cards')
      /\ \A i \in 1..Len(cards) : cards'[i] = cards[i]
      /\ cards'[Len(cards) + 1] = c
  BY <1>3, <1>4, <1>5, AppendProperties, LenProperties
<1>8. \A i \in DOMAIN cards' : (i \in DOMAIN cards /\ cards'[i] = cards[i]) \/ cards'[i] = c
  BY <1>3, <1>7
<1>9. \A i \in DOMAIN cards' :
        /\ cards'[i].event \in DOMAIN events /\ cards'[i].digest \in 0..Len(digests)
        /\ cards'[i].digest # 0 => digests[cards'[i].digest] = cards'[i].user
  BY <1>3, <1>6, <1>8 DEF FeedInv, RowsExist, DigestOfUser
<1>10. dive' \in [Dives -> DeepDive] /\ dive' = dive /\ UNCHANGED <<events, digests>> /\ UNCHANGED tagVars
  BY DEF CreateCard, FeedInv, FeedTypeOK
<1>11. Len(cards) <= Len(cards') /\ \A i \in DOMAIN cards : cards'[i].user = cards[i].user
  BY <1>3, <1>7
<1> QED BY <1>1, <1>2, <1>7, <1>9, <1>10, <1>11, CardsChanged

LEMMA DismissKeeps ==
  ASSUME FeedInv, NEW i \in DOMAIN cards, Dismiss(i)
  PROVE  FeedInv'
<1>1. cards \in Seq(Card) /\ Len(cards) \in Nat /\ DOMAIN cards = 1..Len(cards)
  BY LenProperties DEF FeedInv, FeedTypeOK
<1>2. cards' = [cards EXCEPT ![i].status = "dismissed"] BY DEF Dismiss
<1>3. cards' \in Seq(Card) /\ Len(cards') = Len(cards) /\ DOMAIN cards' = DOMAIN cards
  <2> DEFINE r == [cards[i] EXCEPT !.status = "dismissed"]
  <2>0. cards[i] \in Card BY <1>1, ElementOfSeq
  <2>1. r \in Card BY <2>0 DEF Card, Statuses
  <2>2. cards' = [cards EXCEPT ![i] = r] BY <1>2
  <2> HIDE DEF r
  <2>3. cards' \in Seq(Card) /\ Len(cards') = Len(cards) BY <1>1, <2>1, <2>2, ExceptSeq
  <2> QED BY <1>1, <2>3, LenProperties
<1>4. \A k \in DOMAIN cards : /\ cards'[k].user = cards[k].user /\ cards'[k].event = cards[k].event
                              /\ cards'[k].digest = cards[k].digest
  BY <1>1, <1>2 DEF Card
<1>5. \A k \in DOMAIN cards' :
        /\ cards'[k].event \in DOMAIN events /\ cards'[k].digest \in 0..Len(digests)
        /\ cards'[k].digest # 0 => digests[cards'[k].digest] = cards'[k].user
  BY <1>3, <1>4 DEF FeedInv, RowsExist, DigestOfUser
<1>6. /\ dive' \in [Dives -> DeepDive] /\ dive' = dive /\ poll' = poll
      /\ UNCHANGED <<events, digests>> /\ UNCHANGED tagVars
  BY DEF Dismiss, FeedInv, FeedTypeOK
<1> QED BY <1>1, <1>3, <1>4, <1>5, <1>6, CardsChanged

LEMMA SixHoursKeep ==
  ASSUME FeedInv, SixHoursPass
  PROVE  FeedInv'
<1>1. cards \in Seq(Card) /\ Len(cards) \in Nat /\ DOMAIN cards = 1..Len(cards)
      /\ \A k \in DOMAIN cards : cards[k] \in Card
  BY LenProperties DEF FeedInv, FeedTypeOK
<1>2. cards' = [k \in DOMAIN cards |-> [cards[k] EXCEPT !.recent = FALSE]] BY DEF SixHoursPass
<1>3. \A k \in DOMAIN cards : /\ cards'[k] \in Card
                              /\ cards'[k].user = cards[k].user /\ cards'[k].event = cards[k].event
                              /\ cards'[k].digest = cards[k].digest
  BY <1>1, <1>2 DEF Card
<1>4. cards' \in Seq(Card) /\ Len(cards') = Len(cards) /\ DOMAIN cards' = DOMAIN cards
  <2>1. DOMAIN cards' = 1..Len(cards) BY <1>1, <1>2
  <2>2. cards' \in [1..Len(cards) -> Card] BY <1>1, <1>2, <1>3
  <2>3. cards' \in Seq(Card) BY <1>1, <2>2
  <2>4. Len(cards') \in Nat /\ DOMAIN cards' = 1..Len(cards') BY <2>3, LenProperties
  <2> QED BY <1>1, <2>1, <2>3, <2>4
<1>5. \A k \in DOMAIN cards' :
        /\ cards'[k].event \in DOMAIN events /\ cards'[k].digest \in 0..Len(digests)
        /\ cards'[k].digest # 0 => digests[cards'[k].digest] = cards'[k].user
  BY <1>3, <1>4 DEF FeedInv, RowsExist, DigestOfUser
<1>6. /\ dive' \in [Dives -> DeepDive] /\ dive' = dive /\ poll' = poll
      /\ UNCHANGED <<events, digests>> /\ UNCHANGED tagVars
  BY DEF SixHoursPass, FeedInv, FeedTypeOK
<1> QED BY <1>1, <1>3, <1>4, <1>5, <1>6, CardsChanged

LEMMA LinkKeeps ==
  ASSUME FeedInv, NEW d \in Dives, Link(d)
  PROVE  FeedInv'
<1> DEFINE i == dive[d].card
           n == LatestDigest(dive[d].user)
<1>1. cards \in Seq(Card) /\ Len(cards) \in Nat /\ DOMAIN cards = 1..Len(cards)
      /\ Len(digests) \in Nat /\ DOMAIN digests = 1..Len(digests) /\ digests \in Seq(Users)
  BY LenProperties DEF FeedInv, FeedTypeOK
<1>2. /\ dive[d].step = "link" /\ i \in DOMAIN cards /\ cards[i].user = dive[d].user /\ i \in 1..Len(cards)
      /\ \E m \in DOMAIN digests : digests[m] = dive[d].user
  BY <1>1 DEF Link, IdleDive, FeedInv, DivesOwnCard, CardsOf
<1>3. n \in DOMAIN digests /\ digests[n] = dive[d].user BY <1>1, <1>2, LatestDigestOwned
<1>4. PICK s \in Statuses : cards' = [cards EXCEPT ![i].digest = n, ![i].status = s]
  <2>1. cards[i] \in Card BY <1>1, <1>2, ElementOfSeq
  <2>2. CASE (IF Expires THEN cards[i].status ELSE dive[d].read) = "deep_dive_ready"
    <3>1. cards' = [cards EXCEPT ![i].digest = n, ![i].status = cards[i].status] BY <2>1, <2>2, <1>1, <1>2 DEF Link, Card
    <3> QED BY <2>1, <3>1 DEF Card
  <2>3. CASE (IF Expires THEN cards[i].status ELSE dive[d].read) # "deep_dive_ready"
    <3>1. cards' = [cards EXCEPT ![i].digest = n, ![i].status = "deep_dive_ready"] BY <2>3 DEF Link
    <3> QED BY <3>1 DEF Statuses
  <2> QED BY <2>2, <2>3
<1> HIDE DEF i, n
<1>5. cards' \in Seq(Card) /\ Len(cards') = Len(cards) /\ DOMAIN cards' = DOMAIN cards
  <2> DEFINE r == [cards[i] EXCEPT !.digest = n, !.status = s]
  <2>1. cards[i] \in Card /\ n \in Nat BY <1>1, <1>2, <1>3, ElementOfSeq
  <2>2. r \in Card BY <2>1 DEF Card
  <2>3. cards' = [cards EXCEPT ![i] = r] BY <1>1, <1>2, <1>4
  <2> HIDE DEF r
  <2>4. cards' \in Seq(Card) /\ Len(cards') = Len(cards) BY <1>1, <1>2, <2>2, <2>3, ExceptSeq
  <2> QED BY <1>1, <2>4, LenProperties
<1>6. \A k \in DOMAIN cards : /\ cards'[k].user = cards[k].user /\ cards'[k].event = cards[k].event
                              /\ cards'[k].digest = IF k = i THEN n ELSE cards[k].digest
  BY <1>1, <1>2, <1>4 DEF Card
<1>7. \A k \in DOMAIN cards' :
        /\ cards'[k].event \in DOMAIN events /\ cards'[k].digest \in 0..Len(digests)
        /\ cards'[k].digest # 0 => digests[cards'[k].digest] = cards'[k].user
  <2>1. n \in 0..Len(digests) BY <1>1, <1>3
  <2> QED BY <1>2, <1>3, <1>5, <1>6, <2>1 DEF FeedInv, RowsExist, DigestOfUser
<1>8. /\ dive' = [dive EXCEPT ![d] = NoDive] /\ poll' = poll
      /\ UNCHANGED <<events, digests>> /\ UNCHANGED tagVars
  BY DEF Link
<1>9. /\ dive' \in [Dives -> DeepDive]
      /\ \A o \in Dives : dive'[o] = dive[o] \/ IdleDive(o)'
  BY <1>8 DEF FeedInv, FeedTypeOK, NoDive, DeepDive, IdleDive, Statuses
<1> QED BY <1>1, <1>5, <1>6, <1>7, <1>8, <1>9, CardsChanged

\* Events are only added.
LEMMA ArriveKeeps ==
  ASSUME FeedInv, NEW e \in Event, Arrive(e)
  PROVE  FeedInv'
<1>1. /\ events \in Seq(Event) /\ Len(events) \in Nat /\ DOMAIN events = 1..Len(events)
      /\ Len(events) < MaxEvents /\ events' = Append(events, e)
      /\ UNCHANGED <<cards, digests, poll, dive>> /\ UNCHANGED tagVars
  BY LenProperties DEF FeedInv, FeedTypeOK, Arrive
<1>2. /\ events' \in Seq(Event) /\ Len(events') = Len(events) + 1 /\ DOMAIN events' = 1..Len(events')
  BY <1>1, AppendProperties, LenProperties
<1>3. DOMAIN events \subseteq DOMAIN events' /\ MaxEvents \in Nat BY <1>1, <1>2, FeedAssumption DEF FeedAssumption
<1>4. FeedTypeOK' BY <1>1, <1>2, <1>3 DEF FeedInv, FeedTypeOK, tagVars
<1>5. RowsExist'
  <2>1. \A j \in Polls : poll[j].batch \in Seq(DOMAIN events') BY <1>3, SeqMonotonic DEF FeedInv, RowsExist
  <2> QED BY <1>1, <1>3, <2>1 DEF FeedInv, RowsExist
<1>6. RunsShape' /\ DivesOwnCard' /\ DigestOfUser'
  BY <1>1 DEF FeedInv, RunsShape, IdlePoll, DivesOwnCard, IdleDive, CardsOf, DigestOfUser
<1> QED BY <1>4, <1>5, <1>6 DEF FeedInv

\* Digests are only added, and a deep dive begins, goes on or ends.
LEMMA DiveChanged ==
  ASSUME FeedInv, dive' \in [Dives -> DeepDive],
         digests' = digests \/ \E u \in Users : digests' = Append(digests, u),
         \A d \in Dives :
           \/ dive'[d] = dive[d]
           \/ ~IdleDive(d)' => /\ dive'[d].user \in Users
                               /\ dive'[d].card \in CardsOf(dive'[d].user)
                               /\ dive'[d].step = "link" => \E n \in DOMAIN digests' : digests'[n] = dive'[d].user,
         UNCHANGED <<events, cards, poll>>, UNCHANGED tagVars
  PROVE  FeedInv'
<1>1. digests \in Seq(Users) /\ Len(digests) \in Nat /\ DOMAIN digests = 1..Len(digests)
  BY LenProperties DEF FeedInv, FeedTypeOK
<1> DEFINE m == Len(digests)
           k == Len(digests')
<1>2. /\ digests' \in Seq(Users) /\ Len(digests') \in Nat /\ Len(digests) <= Len(digests')
      /\ DOMAIN digests' = 1..Len(digests')
      /\ \A n \in DOMAIN digests : digests'[n] = digests[n]
  BY <1>1, AppendProperties, LenProperties
<1>3. DOMAIN digests \subseteq DOMAIN digests' /\ 0..Len(digests) \subseteq 0..Len(digests')
  <2>1. m \in Nat /\ k \in Nat /\ m <= k BY <1>1, <1>2
  <2>2. DOMAIN digests = 1..m /\ DOMAIN digests' = 1..k BY <1>1, <1>2
  <2> HIDE DEF m, k
  <2>3. 1..m \subseteq 1..k /\ 0..m \subseteq 0..k BY <2>1
  <2> QED BY <2>2, <2>3 DEF m, k
<1> HIDE DEF m, k
<1>4. DOMAIN digests \subseteq DOMAIN digests' BY <1>3
<1>5. FeedTypeOK' BY <1>2 DEF FeedInv, FeedTypeOK, tagVars
<1>6. RowsExist' BY <1>3 DEF FeedInv, RowsExist
<1>7. RunsShape' BY DEF FeedInv, RunsShape, IdlePoll
<1>8. DivesOwnCard'
  <2> SUFFICES ASSUME NEW d \in Dives, ~IdleDive(d)'
               PROVE  /\ dive'[d].user \in Users
                      /\ dive'[d].card \in CardsOf(dive'[d].user)
                      /\ dive'[d].step = "link" => \E n \in DOMAIN digests' : digests'[n] = dive'[d].user
    BY DEF DivesOwnCard, CardsOf
  <2>1. CASE dive'[d] = dive[d]
    <3>1. ~IdleDive(d) BY <2>1 DEF IdleDive
    <3>2. /\ dive[d].user \in Users
          /\ dive[d].card \in CardsOf(dive[d].user)
          /\ dive[d].step = "link" => \E n \in DOMAIN digests : digests[n] = dive[d].user
      BY <3>1 DEF FeedInv, DivesOwnCard
    <3> QED BY <1>2, <1>4, <2>1, <3>2
  <2>2. CASE dive'[d] # dive[d] BY <2>2
  <2> QED BY <2>1, <2>2
<1>9. DigestOfUser'
  <2> SUFFICES ASSUME NEW i \in DOMAIN cards, cards[i].digest # 0
               PROVE  digests'[cards[i].digest] = cards[i].user
    BY DEF DigestOfUser
  <2>1. cards[i].digest \in 0..Len(digests) /\ digests[cards[i].digest] = cards[i].user
    BY DEF FeedInv, DigestOfUser, RowsExist
  <2>2. cards[i].digest \in DOMAIN digests BY <1>1, <2>1
  <2> QED BY <1>2, <2>1, <2>2
<1> QED BY <1>5, <1>6, <1>7, <1>8, <1>9 DEF FeedInv

LEMMA DiveSteps ==
  ASSUME FeedInv, NEW d \in Dives,
         \/ \E u \in Users, i \in DOMAIN cards : Begin(d, u, i)
         \/ Generate(d) \/ GenerateFails(d)
  PROVE  FeedInv'
<1>0. /\ dive \in [Dives -> DeepDive] /\ cards \in Seq(Card) /\ digests \in Seq(Users)
      /\ DOMAIN cards \subseteq Nat /\ \A i \in DOMAIN cards : cards[i] \in Card
  BY LenProperties DEF FeedInv, FeedTypeOK
<1>1. ASSUME NEW u \in Users, NEW i \in DOMAIN cards, Begin(d, u, i)
      PROVE  FeedInv'
  <2>1. cards[i].status \in Statuses /\ i \in Nat /\ i \in CardsOf(u) BY <1>0, <1>1 DEF Card, Begin
  <2>2. dive' = [dive EXCEPT ![d] = [step |-> "generate", user |-> u, card |-> i, read |-> cards[i].status]]
        /\ UNCHANGED <<events, cards, digests, poll>> /\ UNCHANGED tagVars
    BY <1>1 DEF Begin
  <2>3. dive' \in [Dives -> DeepDive] BY <1>0, <2>1, <2>2 DEF DeepDive
  <2>4. \A o \in Dives : dive'[o] = dive[o] \/ (o = d /\ dive'[o].user = u /\ dive'[o].card = i
                                              /\ dive'[o].step = "generate")
    BY <1>0, <2>2
  <2> QED BY <2>1, <2>2, <2>3, <2>4, DiveChanged
<1>2. CASE Generate(d)
  <2>1. /\ digests' = Append(digests, dive[d].user) /\ dive' = [dive EXCEPT ![d].step = "link"]
        /\ UNCHANGED <<events, cards, poll>> /\ UNCHANGED tagVars /\ ~IdleDive(d)
    BY <1>2 DEF Generate, IdleDive
  <2>2. dive[d].user \in Users /\ dive[d].card \in CardsOf(dive[d].user) BY <2>1 DEF FeedInv, DivesOwnCard
  <2>3. dive' \in [Dives -> DeepDive] BY <1>0, <2>1 DEF DeepDive
  <2>4. \A o \in Dives : dive'[o] = dive[o] \/ (o = d /\ dive'[o].user = dive[d].user
                                              /\ dive'[o].card = dive[d].card)
    BY <1>0, <2>1 DEF DeepDive
  <2>5. \E n \in DOMAIN digests' : digests'[n] = dive[d].user
    <3>1. /\ Len(digests) + 1 \in DOMAIN digests' /\ digests'[Len(digests) + 1] = dive[d].user
      BY <1>0, <2>1, <2>2, AppendProperties, LenProperties
    <3> QED BY <3>1
  <2> QED BY <2>1, <2>2, <2>3, <2>4, <2>5, DiveChanged
<1>3. CASE GenerateFails(d)
  <2>1. /\ dive' = [dive EXCEPT ![d] = NoDive]
        /\ UNCHANGED <<events, cards, digests, poll>> /\ UNCHANGED tagVars
    BY <1>3 DEF GenerateFails
  <2>2. dive' \in [Dives -> DeepDive] /\ \A o \in Dives : dive'[o] = dive[o] \/ IdleDive(o)'
    BY <1>0, <2>1 DEF NoDive, DeepDive, IdleDive, Statuses
  <2> QED BY <2>1, <2>2, DiveChanged
<1> QED BY <1>1, <1>2, <1>3

LEMMA OtherDigestKeeps ==
  ASSUME FeedInv, NEW u \in Users, OtherDigest(u)
  PROVE  FeedInv'
BY DiveChanged DEF OtherDigest, FeedInv, FeedTypeOK

\* Tags change nothing of cards, runs and deep dives.
LEMMA TagStepKeeps ==
  ASSUME FeedInv, NEW u \in Users, NEW g \in Tags, TagStep(u, g)
  PROVE  FeedInv'
<1>1. UNCHANGED <<events, cards, digests, poll, dive>>
  BY DEF TagStep, CreateTag, SetPreference, SetPolicy
<1>2. tags' \subseteq Tags /\ muted' \subseteq Users \X tags' /\ blocked' \subseteq Workspaces \X tags'
  <2>0. tags \subseteq Tags /\ muted \subseteq Users \X tags /\ blocked \subseteq Workspaces \X tags
    BY DEF FeedInv, FeedTypeOK
  <2>1. CASE CreateTag(u, g) BY <2>0, <2>1 DEF CreateTag
  <2>2. ASSUME NEW on \in BOOLEAN, SetPreference(u, g, on)
        PROVE  tags' = tags /\ blocked' = blocked /\ muted' \subseteq Users \X tags
    BY <2>0, <2>2 DEF SetPreference
  <2>3. ASSUME NEW on \in BOOLEAN, NEW w \in Workspaces, SetPolicy(u, w, g, on)
        PROVE  tags' = tags /\ muted' = muted /\ blocked' \subseteq Workspaces \X tags
    BY <2>0, <2>3 DEF SetPolicy
  <2> QED BY <2>0, <2>1, <2>2, <2>3 DEF TagStep
<1>3. FeedTypeOK' BY <1>1, <1>2 DEF FeedInv, FeedTypeOK
<1> QED BY <1>1, <1>3
        DEF FeedInv, RowsExist, RunsShape, IdlePoll, DivesOwnCard, IdleDive, CardsOf, DigestOfUser

LEMMA FeedInvKept == FeedInv /\ [FeedNext]_feedVars => FeedInv'
<1> SUFFICES ASSUME FeedInv, [FeedNext]_feedVars PROVE FeedInv' OBVIOUS
<1>1. CASE UNCHANGED feedVars
  BY <1>1 DEF feedVars, FeedInv, FeedTypeOK, RowsExist, RunsShape, IdlePoll, DivesOwnCard, IdleDive, CardsOf,
              DigestOfUser
<1>2. CASE \E e \in Event : Arrive(e) BY <1>2, ArriveKeeps
<1>3. CASE \E j \in Polls : \/ \E u \in Users, w \in Workspaces \cup {NoSpace} : Load(j, u, w)
                            \/ Check(j) \/ CreateCard(j) \/ CreateFails(j)
  BY <1>3, LoadKeeps, CheckKeeps, CreateCardKeeps, CreateFailsKeeps
<1>4. CASE \E i \in DOMAIN cards : Dismiss(i) BY <1>4, DismissKeeps
<1>5. CASE SixHoursPass BY <1>5, SixHoursKeep
<1>6. CASE \E u \in Users : OtherDigest(u) BY <1>6, OtherDigestKeeps
<1>7. CASE \E d \in Dives : \/ \E u \in Users, i \in DOMAIN cards : Begin(d, u, i)
                            \/ Generate(d) \/ GenerateFails(d) \/ Link(d)
  BY <1>7, DiveSteps, LinkKeeps
<1>8. CASE \E u \in Users, g \in Tags : TagStep(u, g) BY <1>8, TagStepKeeps
<1> QED BY <1>1, <1>2, <1>3, <1>4, <1>5, <1>6, <1>7, <1>8 DEF FeedNext

LEMMA FeedAlwaysInv == FeedSpec => []FeedInv
<1> QED BY InitFeedInv, FeedInvKept, PTL DEF FeedSpec

\* The feed's rows have their types in every reachable state, for any users,
\* references, tags and bounds (intelligence_feed/repository.py).
THEOREM FeedTypeCorrect == FeedSpec => []FeedTypeOK
<1>1. FeedInv => FeedTypeOK BY DEF FeedInv
<1> QED BY <1>1, FeedAlwaysInv, PTL

\* The digest that a card leads to is one of the card's user, although it is looked
\* up as the newest one after the generation has ended (feed_deep_dive.py).
THEOREM CardsLeadToOwnDigests == FeedSpec => []DigestOfUser
<1>1. FeedInv => DigestOfUser BY DEF FeedInv
<1> QED BY <1>1, FeedAlwaysInv, PTL

\* The steps that write cards and add none leave their users and events.
CardsSame ==
  /\ DOMAIN cards' = DOMAIN cards
  /\ \A k \in DOMAIN cards : cards'[k].user = cards[k].user /\ cards'[k].event = cards[k].event

LEMMA CardsRewritten ==
  ASSUME FeedInv,
         (\E i \in DOMAIN cards : Dismiss(i)) \/ SixHoursPass \/ \E d \in Dives : Link(d)
  PROVE  CardsSame
<1>1. DOMAIN cards = 1..Len(cards) /\ \A k \in DOMAIN cards : cards[k] \in Card
  BY LenProperties DEF FeedInv, FeedTypeOK
<1>2. CASE \E i \in DOMAIN cards : Dismiss(i) BY <1>1, <1>2 DEF Dismiss, Card, CardsSame
<1>3. CASE SixHoursPass BY <1>1, <1>3 DEF SixHoursPass, Card, CardsSame
<1>4. ASSUME NEW d \in Dives, Link(d) PROVE CardsSame
  <2> DEFINE i == dive[d].card
  <2>1. PICK n, s : cards' = [cards EXCEPT ![i].digest = n, ![i].status = s]
    <3>1. CASE (IF Expires THEN cards[i].status ELSE dive[d].read) = "deep_dive_ready"
      BY <1>4, <3>1 DEF Link
    <3>2. CASE (IF Expires THEN cards[i].status ELSE dive[d].read) # "deep_dive_ready"
      BY <1>4, <3>2 DEF Link
    <3> QED BY <3>1, <3>2
  <2> HIDE DEF i
  <2> QED BY <1>1, <2>1 DEF Card, CardsSame
<1> QED BY <1>2, <1>3, <1>4

\* With one run of a user at a time, what one run checked stays true until it writes.
AloneInv == RunsApart /\ CreatesUnseen /\ OneCardPerSource

\* A run that changes keeps its user, if it goes on.
LEMMA RunsStayApart ==
  ASSUME FeedInv, RunsApart, NEW j \in Polls, NEW r, poll' = [poll EXCEPT ![j] = r],
         r.step # "idle" => ~IdlePoll(j) /\ r.user = poll[j].user
  PROVE  RunsApart'
<1>1. poll \in [Polls -> Run] BY DEF FeedInv, FeedTypeOK
<1>2. \A k \in Polls : ~IdlePoll(k)' => ~IdlePoll(k) /\ poll'[k].user = poll[k].user
  BY <1>1 DEF IdlePoll
<1> QED BY <1>2, Zenon DEF RunsApart, IdlePoll

\* A source stays unseen while nobody adds a card for the user.
LEMMA UnseenKept ==
  ASSUME FeedInv, CreatesUnseen,
         \A k \in Polls : poll'[k].step = "create" =>
           /\ poll[k].step = "create" /\ poll'[k] = poll[k]
           /\ \A i \in DOMAIN cards' : cards'[i].user = poll[k].user =>
                /\ i \in DOMAIN cards /\ cards[i].user = cards'[i].user
                /\ cards[i].event = cards'[i].event,
         \A e \in DOMAIN events : events'[e] = events[e]
  PROVE  CreatesUnseen'
<1> SUFFICES ASSUME NEW k \in Polls, poll'[k].step = "create"
             PROVE  ~SourceShown(poll[k].user, Head(poll[k].batch))'
  BY DEF CreatesUnseen
<1>0. PICK u, e : u = poll[k].user /\ e = Head(poll[k].batch) OBVIOUS
<1>1. poll[k].step = "create" /\ poll'[k] = poll[k] OBVIOUS
<1>2. e \in DOMAIN events BY <1>0, <1>1, AdvancedTyped DEF IdlePoll
<1>3. ~SourceShown(u, e) BY <1>0, <1>1 DEF CreatesUnseen
<1>4. \A i \in DOMAIN cards' : cards'[i].user = u =>
        /\ i \in DOMAIN cards /\ cards[i].user = u /\ cards[i].event = cards'[i].event
        /\ cards[i].event \in DOMAIN events
  BY <1>0 DEF FeedInv, RowsExist
<1>5. \A x \in DOMAIN events : events'[x] = events[x] OBVIOUS
<1>6. ~SourceShown(u, e)' BY <1>2, <1>3, <1>4, <1>5 DEF SourceShown, CardsOf
<1>7. u = poll'[k].user /\ e = Head(poll'[k].batch) BY <1>0, <1>1
<1> QED BY <1>6, <1>7

LEMMA OneCardKept ==
  ASSUME FeedInv, OneCardPerSource, CardsSame,
         \A e \in DOMAIN events : events'[e] = events[e]
  PROVE  OneCardPerSource'
<1>1. \A i \in DOMAIN cards : cards[i].event \in DOMAIN events BY DEF FeedInv, RowsExist
<1> QED BY <1>1 DEF OneCardPerSource, CardsSame, CardsOf

LEMMA CheckKeepsAlone ==
  ASSUME FeedInv, AloneInv, NEW j \in Polls, Check(j)
  PROVE  AloneInv'
<1>1. /\ poll[j].step = "check" /\ ~IdlePoll(j) /\ UNCHANGED <<events, cards, digests, dive>>
      /\ poll \in [Polls -> Run]
  BY DEF Check, IdlePoll, FeedInv, FeedTypeOK
<1>2. OneCardPerSource' BY <1>1 DEF AloneInv, OneCardPerSource, CardsOf
<1>3. CASE Advance(j)
  <2>1. poll' = [poll EXCEPT ![j] = Advanced(j)]
        /\ (Advanced(j).step # "idle" => Advanced(j).step = "check" /\ Advanced(j).user = poll[j].user)
    BY <1>1, <1>3, AdvancedTyped
  <2>2. RunsApart' BY <1>1, <2>1, RunsStayApart DEF AloneInv
  <2>3. \A k \in Polls : poll'[k].step = "create" => poll[k].step = "create" /\ poll'[k] = poll[k]
    BY <1>1, <2>1
  <2>4. CreatesUnseen' BY <1>1, <2>3, UnseenKept DEF AloneInv
  <2> QED BY <1>2, <2>2, <2>4 DEF AloneInv
<1>4. CASE poll' = [poll EXCEPT ![j].step = "create"] /\ ~IsDuplicate(poll[j].user, Head(poll[j].batch))
  <2>1. \A k \in Polls : /\ poll'[k].user = poll[k].user /\ poll'[k].batch = poll[k].batch
                         /\ k # j => poll'[k] = poll[k]
    BY <1>1, <1>4 DEF Run
  <2>2. \A k \in Polls : ~IdlePoll(k)' => ~IdlePoll(k) BY <1>1, <2>1 DEF IdlePoll
  <2>3. RunsApart' BY <2>1, <2>2 DEF AloneInv, RunsApart, IdlePoll
  <2>4. \A k \in Polls : poll'[k].step = "create" => ~SourceShown(poll[k].user, Head(poll[k].batch))
    BY <1>4, <2>1 DEF AloneInv, CreatesUnseen, IsDuplicate
  <2>5. CreatesUnseen' BY <1>1, <2>1, <2>4 DEF CreatesUnseen, SourceShown, CardsOf
  <2> QED BY <1>2, <2>3, <2>5 DEF AloneInv
<1> QED BY <1>3, <1>4 DEF Check

LEMMA CreateCardKeepsAlone ==
  ASSUME FeedInv, AloneInv, NEW j \in Polls, CreateCard(j)
  PROVE  AloneInv'
<1>0. PICK u, e : u = poll[j].user /\ e = Head(poll[j].batch) OBVIOUS
<1> DEFINE c == [user |-> u, event |-> e, status |-> "new", digest |-> 0, recent |-> TRUE]
           n == Len(cards) + 1
<1>1. /\ poll[j].step = "create" /\ ~IdlePoll(j) /\ u \in Users /\ e \in DOMAIN events
      /\ poll \in [Polls -> Run] /\ UNCHANGED <<events, digests, dive>>
  BY <1>0, AdvancedTyped DEF CreateCard, IdlePoll, FeedInv, FeedTypeOK, RunsShape
<1>2. /\ poll' = [poll EXCEPT ![j] = Advanced(j)]
      /\ Advanced(j).step # "idle" => Advanced(j).step = "check" /\ Advanced(j).user = u
  BY <1>0, <1>1, AdvancedTyped DEF CreateCard
<1>3. cards \in Seq(Card) /\ Len(cards) \in Nat /\ DOMAIN cards = 1..Len(cards) /\ DOMAIN events \subseteq Nat
  BY LenProperties DEF FeedInv, FeedTypeOK
<1>4. c \in Card /\ c.user = u /\ c.event = e BY <1>1, <1>3 DEF Card, Statuses
<1>5. cards' = Append(cards, c) BY <1>0 DEF CreateCard
<1> HIDE DEF c
<1>6. /\ DOMAIN cards' = DOMAIN cards \cup {n} /\ n \notin DOMAIN cards /\ cards'[n] = c
      /\ \A i \in DOMAIN cards : cards'[i] = cards[i]
  <2>1. /\ cards' \in Seq(Card) /\ Len(cards') = n /\ DOMAIN cards' = 1..n /\ cards'[n] = c
        /\ \A i \in 1..Len(cards) : cards'[i] = cards[i]
    BY <1>3, <1>4, <1>5, AppendProperties, LenProperties
  <2> QED BY <1>3, <2>1
<1>7. RunsApart' BY <1>0, <1>1, <1>2, RunsStayApart DEF AloneInv
<1>8. CreatesUnseen'
  <2>1. ASSUME NEW k \in Polls, poll'[k].step = "create"
        PROVE  /\ poll[k].step = "create" /\ poll'[k] = poll[k]
               /\ \A i \in DOMAIN cards' : cards'[i].user = poll[k].user =>
                    /\ i \in DOMAIN cards /\ cards[i].user = cards'[i].user
                    /\ cards[i].event = cards'[i].event
    <3>1. k # j /\ poll'[k] = poll[k] BY <1>1, <1>2, <2>1
    <3>2. poll[k].user # u BY <1>0, <1>1, <2>1, <3>1 DEF AloneInv, RunsApart, IdlePoll
    <3> QED BY <1>4, <1>6, <2>1, <3>1, <3>2
  <2>2. \A x \in DOMAIN events : events'[x] = events[x] BY <1>1
  <2> QED BY <2>1, <2>2, UnseenKept DEF AloneInv
<1>9. OneCardPerSource'
  <2> SUFFICES ASSUME NEW v \in Users, NEW i \in CardsOf(v)', NEW k \in CardsOf(v)',
                      events[cards'[i].event].ref = events[cards'[k].event].ref,
                      Stored[events[cards'[i].event].ref] = events[cards'[i].event].ref
               PROVE  i = k
    BY <1>1 DEF OneCardPerSource
  <2>1. \A x \in CardsOf(v)' : x = n \/ x \in CardsOf(v) BY <1>6 DEF CardsOf
  <2>2. CASE i # n /\ k # n
    <3>1. i \in CardsOf(v) /\ k \in CardsOf(v) /\ cards'[i] = cards[i] /\ cards'[k] = cards[k]
      BY <1>6, <2>1, <2>2 DEF CardsOf
    <3> QED BY <3>1 DEF AloneInv, OneCardPerSource
  <2>3. ASSUME NEW x \in CardsOf(u), events[cards[x].event].ref = events[e].ref,
               Stored[events[e].ref] = events[e].ref
        PROVE  FALSE
    <3>1. SourceShown(u, e) BY <2>3 DEF SourceShown
    <3> QED BY <1>0, <1>1, <3>1 DEF AloneInv, CreatesUnseen
  <2>4. CASE i = n /\ k # n
    <3>1. v = u /\ k \in CardsOf(u) /\ cards'[k] = cards[k] BY <1>4, <1>6, <2>1, <2>4 DEF CardsOf
    <3> QED BY <1>4, <1>6, <2>3, <2>4, <3>1
  <2>5. CASE k = n /\ i # n
    <3>1. v = u /\ i \in CardsOf(u) /\ cards'[i] = cards[i] BY <1>4, <1>6, <2>1, <2>5 DEF CardsOf
    <3> QED BY <1>4, <1>6, <2>3, <2>5, <3>1
  <2> QED BY <2>2, <2>4, <2>5
<1> QED BY <1>7, <1>8, <1>9 DEF AloneInv

LEMMA LoadKeepsAlone ==
  ASSUME Alone, FeedInv, AloneInv, NEW j \in Polls, NEW u \in Users, NEW w, Load(j, u, w)
  PROVE  AloneInv'
<1>1. /\ poll \in [Polls -> Run] /\ UNCHANGED <<events, cards>>
      /\ \A k \in Polls : poll[k].user = u => IdlePoll(k)
  BY DEF Load, FeedInv, FeedTypeOK
<1>2. PICK b : poll' = [poll EXCEPT ![j] = [step |-> "check", user |-> u, space |-> w, batch |-> b]]
  BY DEF Load
<1>3. /\ poll'[j].step = "check" /\ poll'[j].user = u
      /\ \A k \in Polls : k # j => poll'[k] = poll[k]
  BY <1>1, <1>2
<1>4. RunsApart' BY <1>1, <1>3 DEF AloneInv, RunsApart, IdlePoll
<1>5. \A k \in Polls : poll'[k].step = "create" => poll[k].step = "create" /\ poll'[k] = poll[k]
  BY <1>3
<1>6. CreatesUnseen' BY <1>1, <1>5, UnseenKept DEF AloneInv
<1>7. OneCardPerSource' BY <1>1 DEF AloneInv, OneCardPerSource, CardsOf
<1> QED BY <1>4, <1>6, <1>7 DEF AloneInv

LEMMA CreateFailsKeepsAlone ==
  ASSUME FeedInv, AloneInv, NEW j \in Polls, CreateFails(j)
  PROVE  AloneInv'
<1>1. /\ poll \in [Polls -> Run] /\ UNCHANGED <<events, cards>> /\ poll' = [poll EXCEPT ![j] = NoPoll]
      /\ NoPoll.step = "idle"
  BY DEF CreateFails, NoPoll, FeedInv, FeedTypeOK
<1>2. RunsApart' BY <1>1, RunsStayApart DEF AloneInv
<1>3. \A k \in Polls : poll'[k].step = "create" => poll[k].step = "create" /\ poll'[k] = poll[k]
  BY <1>1
<1>4. CreatesUnseen' BY <1>1, <1>3, UnseenKept DEF AloneInv
<1>5. OneCardPerSource' BY <1>1 DEF AloneInv, OneCardPerSource, CardsOf
<1> QED BY <1>2, <1>4, <1>5 DEF AloneInv

\* The other steps leave the runs.
LEMMA OthersKeepAlone ==
  ASSUME FeedInv, AloneInv, poll' = poll, CardsSame, \A e \in DOMAIN events : events'[e] = events[e]
  PROVE  AloneInv'
<1>1. RunsApart' BY DEF AloneInv, RunsApart, IdlePoll
<1>2. CreatesUnseen' BY UnseenKept DEF AloneInv, CardsSame
<1>3. OneCardPerSource' BY OneCardKept DEF AloneInv
<1> QED BY <1>1, <1>2, <1>3 DEF AloneInv

LEMMA AloneInvKept == Alone /\ FeedInv /\ AloneInv /\ [FeedNext]_feedVars => AloneInv'
<1> SUFFICES ASSUME Alone, FeedInv, AloneInv, [FeedNext]_feedVars PROVE AloneInv' OBVIOUS
<1>0. UNCHANGED cards => CardsSame BY DEF CardsSame
<1>1. CASE UNCHANGED feedVars BY <1>0, <1>1, OthersKeepAlone DEF feedVars
<1>2. CASE \E e \in Event : Arrive(e)
  <2>1. UNCHANGED <<cards, poll>> BY <1>2 DEF Arrive
  <2>2. \A x \in DOMAIN events : events'[x] = events[x]
    BY <1>2, AppendProperties, LenProperties DEF Arrive, FeedInv, FeedTypeOK
  <2> QED BY <1>0, <2>1, <2>2, OthersKeepAlone
<1>3. CASE \E j \in Polls : \/ \E u \in Users, w \in Workspaces \cup {NoSpace} : Load(j, u, w)
                            \/ Check(j) \/ CreateCard(j) \/ CreateFails(j)
  BY <1>3, LoadKeepsAlone, CheckKeepsAlone, CreateCardKeepsAlone, CreateFailsKeepsAlone
<1>4. CASE (\E i \in DOMAIN cards : Dismiss(i)) \/ SixHoursPass \/ \E d \in Dives : Link(d)
  <2>1. UNCHANGED <<events, poll>> BY <1>4 DEF Dismiss, SixHoursPass, Link
  <2> QED BY <1>4, <2>1, CardsRewritten, OthersKeepAlone
<1>5. CASE \E u \in Users : OtherDigest(u) BY <1>0, <1>5, OthersKeepAlone DEF OtherDigest
<1>6. CASE \E d \in Dives : \/ \E u \in Users, i \in DOMAIN cards : Begin(d, u, i)
                            \/ Generate(d) \/ GenerateFails(d)
  BY <1>0, <1>6, OthersKeepAlone DEF Begin, Generate, GenerateFails
<1>7. CASE \E u \in Users, g \in Tags : TagStep(u, g)
  BY <1>0, <1>7, OthersKeepAlone DEF TagStep, CreateTag, SetPreference, SetPolicy
<1> QED BY <1>1, <1>2, <1>3, <1>4, <1>5, <1>6, <1>7 DEF FeedNext

\* While no user has two runs at once, which the window makes sure of, a source whose
\* reference is stored whole gives a user one card, whatever else is dismissed,
\* explored, tagged or fails meanwhile (feed_deduper.py).
THEOREM OneCard == Alone /\ FeedSpec => []OneCardPerSource
<1> SUFFICES ASSUME Alone PROVE FeedSpec => []OneCardPerSource OBVIOUS
<1>1. FeedInit => AloneInv
  <2>1. FeedInit => \A j \in Polls : IdlePoll(j) /\ poll[j].step # "create" BY DEF FeedInit, NoPoll, IdlePoll
  <2>2. FeedInit => cards = <<>> /\ DOMAIN <<>> = {} BY DEF FeedInit
  <2> QED BY <2>1, <2>2 DEF AloneInv, RunsApart, CreatesUnseen, OneCardPerSource, CardsOf
<1>2. AloneInv => OneCardPerSource BY DEF AloneInv
<1>3. FeedInv /\ AloneInv /\ [FeedNext]_feedVars => AloneInv' BY AloneInvKept
<1> QED BY <1>1, <1>2, <1>3, FeedAlwaysInv, PTL DEF FeedSpec

\* Weights never hide a card: what its user and its workspace give the tags of an
\* event, in hundredths, moves its priority by half the scale at most, and leaves
\* it on the scale and above zero, where FeedTriage would make no card.  Each tag
\* of an event is one of its topics (feed_scorer.py, tags.py).
THEOREM WeightsNeverHide ==
  ASSUME NEW topics \in Nat \ {0}, NEW tagged \in 0..topics, NEW local \in BOOLEAN,
         NEW fresh \in {0, 1000, 2000}, NEW weight \in -(200 * tagged)..(200 * tagged)
  PROVE  LET priority == Priority(topics, local, fresh, weight)
             plain == Priority(topics, local, fresh, 0)
         IN  /\ priority > 0 /\ priority <= 10000
             /\ plain - 5000 <= priority /\ priority <= plain + 5000
<1>1. PICK a \in Int : /\ a = Clip(0, 10000, 3500 + 1200 * topics)
                       /\ a >= 4700 /\ (topics >= 2 => a >= 5900)
  BY DEF Clip
<1>2. PICK i \in Int : i = a + (IF local THEN 1000 ELSE 0) /\ i >= a BY <1>1
<1>3. PICK p \in Int : /\ p = Clip(0, 10000, i + fresh)
                       /\ p >= 4700 /\ p <= 10000 /\ (topics >= 2 => p >= 5900)
  BY <1>1, <1>2 DEF Clip
<1>4. PICK t \in Int : /\ t = Clip(-5000, 5000, 15 * weight)
                       /\ t >= -5000 /\ t <= 5000 /\ (tagged <= 1 => t >= -3000)
  BY DEF Clip
<1>5. tagged <= 1 \/ topics >= 2 OBVIOUS
<1>6. PICK q \in Int : /\ q = Clip(0, 10000, p + t)
                       /\ q > 0 /\ q <= 10000 /\ p - 5000 <= q /\ q <= p + 5000
  BY <1>3, <1>4, <1>5 DEF Clip
<1>7. Clip(-5000, 5000, 15 * 0) = 0 /\ p + 0 = p BY <1>3 DEF Clip
<1>8. Clip(0, 10000, p) = p BY <1>3 DEF Clip
<1>9. Priority(topics, local, fresh, weight) = q
  BY <1>1, <1>2, <1>3, <1>4, <1>6 DEF Priority
<1>10. Priority(topics, local, fresh, 0) = p
  BY <1>1, <1>2, <1>3, <1>7, <1>8 DEF Priority
<1> QED BY <1>6, <1>9, <1>10
=============================================================================
