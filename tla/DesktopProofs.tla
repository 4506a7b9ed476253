---------------------------- MODULE DesktopProofs ----------------------------
(***************************************************************************)
(* Proofs about DesktopFiles, for every set of paths, contents and edits:  *)
(* what the index says is in the points, follows the files, and has their  *)
(* text unless they changed between two reads.                             *)
(***************************************************************************)
EXTENDS DesktopFiles, IngestionProofs, SequenceTheorems, FiniteSetTheorems

Good(p) == index[p].status = "ingested" => index[p].hash = disk[p]

Queued(p) == \E i \in 1..Len(queue) : queue[i] = p

\* What the call under way will leave in the row of the path is the file as it is.
Current(p) ==
  LET c == call[worker] IN
  \/ c.path = p /\ c.step \in {"hash", "raised"}
  \/ c.path = p /\ c.step \in {"extract", "upsert", "index"} /\ c.hash = disk[p]
  \/ ~(c.path = p /\ c.step \in {"hash", "extract", "upsert", "index", "raised"}) /\ Good(p)

Handled(p) == Queued(p) \/ Current(p)

\* A file in place is to be looked at, or is in the queue, in hand or indexed
\* as it is; and what the collector has seen is no longer to be looked at.
Followed(p) ==
  disk[p] # NoFile => /\ p \in changed \/ Handled(p)
                      /\ SeenBefore(p) => Handled(p)

FollowInv ==
  /\ StoresInv
  /\ mtime \in [Paths -> Nat]
  /\ queue \in Seq(Paths)
  /\ seen \in [Paths -> [hash : Contents \cup {NoFile}, mtime : Nat]]
  /\ \A p \in Paths : seen[p].mtime <= mtime[p]
  /\ \A p \in Paths \ missed : Followed(p)

-----------------------------------------------------------------------------
(* Steps of the worker's call.                                             *)

\* There is one call, and the worker's is it.
LEMMA WorkerCalls == worker \in Calls
<1>1. Cardinality(Calls) = 1
  BY DesktopAssumption
<1>2. Calls # {}
  BY <1>1, FS_EmptySet
<1> QED BY <1>2 DEF worker

\* A step of a call writes no row but that of its path.
LEMMA OtherRows ==
  ASSUME StoresInv, NEW k \in Calls, IngestStep(k), NEW p \in Paths, p # call[k].path
  PROVE  index'[p] = index[p]
<1>1. index \in [Paths -> IndexRow]
  BY DEF StoresInv, IngestionTypeOK, IndexRow
<1>2. ASSUME NEW st, NEW h, UpsertIndex(k, st, h) PROVE index'[p] = index[p]
  BY <1>1, <1>2 DEF UpsertIndex
<1> HIDE DEF UpsertIndex
<1> QED BY <1>2 DEF IngestStep, HashFile, ExtractText, UpsertPoints, UpsertFails, MarkIngested,
                    PersistEvent, DatabaseFails

\* What a step of a call makes of the row of its path while the file is in place.
LEMMA OwnRow ==
  ASSUME StoresInv, NEW k \in Calls, IngestStep(k), NEW p \in Paths, call[k].path = p,
         disk[p] # NoFile
  PROVE  \/ call'[k].step = "raised"
         \/ call'[k].step = "extract" /\ call'[k].hash = disk[p]
         \/ /\ call[k].step \in {"extract", "upsert"} /\ call'[k].step \in {"upsert", "index"}
            /\ call'[k].hash = call[k].hash
         \/ /\ call[k].step = "index" /\ call'[k].step = "event"
            /\ index'[p].hash = call[k].hash
         \/ call[k].step = "event" /\ call'[k].step = "ingested" /\ index'[p] = index[p]
         \/ /\ call'[k].step \in {"skipped", "failed"}
            /\ index'[p].status = "ingested" => index'[p].hash = disk[p]
<1>1. call \in [Calls -> CallRecord] /\ call[k] \in CallRecord
  BY DEF StoresInv, IngestionTypeOK, CallRecord
<1>2. index \in [Paths -> IndexRow]
  BY DEF StoresInv, IngestionTypeOK, IndexRow
<1>3. ASSUME NEW step \in Steps, Goto(k, step)
      PROVE  call'[k].step = step /\ call'[k].hash = call[k].hash
  <2>1. call'[k] = [call[k] EXCEPT !.step = step]
    BY <1>1, <1>3 DEF Goto
  <2> HIDE DEF CallRecord
  <2> QED BY <2>1, GotoRecord
<1>4. \A step \in Outcomes \cup {"index", "event"} : step \in Steps
  BY DEF Steps
<1>5. ASSUME NEW st, NEW h, UpsertIndex(k, st, h)
      PROVE  index'[p].status = st /\ (h # NoFile => index'[p].hash = h)
  BY <1>2, <1>5 DEF UpsertIndex
<1>6. ~IsText(k)
  BY IngestionAssumption DEF IsText
<1> HIDE DEF UpsertIndex, Goto
<1>7. CASE HashFile(k)
  <2>1. CASE Goto(k, "failed") /\ UpsertIndex(k, "error", NoFile)
    BY <1>3, <1>4, <1>5, <2>1 DEF Outcomes
  <2>2. CASE Goto(k, "skipped") /\ UpsertIndex(k, "skipped", NoFile)
    BY <1>3, <1>4, <1>5, <2>2 DEF Outcomes
  <2>3. CASE Unchanged(call[k].path, disk[p]) /\ Goto(k, "skipped") /\ UNCHANGED index
    BY <1>3, <1>4, <2>3 DEF Outcomes, Unchanged
  <2>4. CASE call' = [call EXCEPT ![k].step = "extract", ![k].hash = disk[p]]
    BY <1>1, <2>4 DEF CallRecord
  <2> QED BY <1>7, <2>1, <2>2, <2>3, <2>4 DEF HashFile
<1>8. CASE ExtractText(k)
  <2>1. CASE Goto(k, "failed") /\ UpsertIndex(k, "error", call[k].hash)
    BY <1>3, <1>4, <1>5, <2>1 DEF Outcomes
  <2>2. CASE Goto(k, "skipped") /\ UpsertIndex(k, "skipped", call[k].hash)
    BY <1>3, <1>4, <1>5, <2>2 DEF Outcomes
  <2>3. CASE call[k].step = "extract"
             /\ call' = [call EXCEPT ![k].step = "upsert", ![k].text = disk[p]]
    BY <1>1, <2>3 DEF CallRecord
  <2> QED BY <1>8, <2>1, <2>2, <2>3 DEF ExtractText
<1>9. CASE UpsertPoints(k)
  BY <1>3, <1>4, <1>6, <1>9 DEF UpsertPoints
<1>10. CASE UpsertFails(k)
  BY <1>3, <1>4, <1>5, <1>10 DEF UpsertFails, Outcomes
<1>11. CASE MarkIngested(k)
  <2>1. call[k].hash # NoFile /\ call[k].step = "index"
    BY <1>11, IngestionAssumption DEF MarkIngested, StoresInv, CallShape
  <2> QED BY <1>3, <1>4, <1>5, <1>11, <2>1 DEF MarkIngested
<1>12. CASE PersistEvent(k)
  BY <1>3, <1>4, <1>12 DEF PersistEvent, Outcomes
<1>13. CASE DatabaseFails(k)
  BY <1>3, <1>4, <1>13 DEF DatabaseFails, Outcomes
<1> QED BY <1>7, <1>8, <1>9, <1>10, <1>11, <1>12, <1>13 DEF IngestStep

\* A path in hand stays in hand, or is indexed as it is.
LEMMA IngestCurrent ==
  ASSUME StoresInv, IngestStep(worker), NEW p \in Paths, disk[p] # NoFile, Current(p),
         disk' = disk
  PROVE  Current(p)'
<1>1. worker \in Calls
  BY WorkerCalls
<1>2. call'[worker].path = call[worker].path
  BY <1>1, CallKeepsDocument
<1> HIDE DEF worker
<1>3. CASE p # call[worker].path
  <2>1. index'[p] = index[p]
    BY <1>1, <1>3, OtherRows
  <2> QED BY <1>2, <1>3, <2>1 DEF Current, Good
<1>4. CASE p = call[worker].path
  <2> QED BY <1>1, <1>2, <1>4, OwnRow DEF Current, Good
<1> QED BY <1>3, <1>4

-----------------------------------------------------------------------------
(* The queue.                                                              *)

\* Taking the first of the queue leaves the others in it.
LEMMA TakenQueue ==
  ASSUME queue \in Seq(Paths), queue # <<>>, queue' = Tail(queue)
  PROVE  /\ Head(queue) \in Paths /\ queue' \in Seq(Paths)
         /\ \A p \in Paths : Queued(p) => p = Head(queue) \/ Queued(p)'
<1>1. Len(queue) \in Nat \ {0}
  BY EmptySeq
<1>2. /\ Head(queue) \in Paths /\ Tail(queue) \in Seq(Paths) /\ Len(Tail(queue)) = Len(queue) - 1
      /\ Head(queue) = queue[1]
  BY HeadTailProperties
<1>3. \A i \in 1..Len(Tail(queue)) : Tail(queue)[i] = queue[i + 1]
  BY HeadTailProperties
<1>4. ASSUME NEW p \in Paths, NEW i \in 1..Len(queue), queue[i] = p, p # Head(queue)
      PROVE  \E j \in 1..Len(queue') : queue'[j] = p
  <2>1. i # 1 /\ i \in Nat
    BY <1>1, <1>2, <1>4
  <2>2. i - 1 \in 1..Len(Tail(queue))
    BY <1>1, <1>2, <2>1
  <2>3. Tail(queue)[i - 1] = queue[i]
    BY <1>3, <2>1, <2>2
  <2> QED BY <1>4, <2>2, <2>3
<1> QED BY <1>2, <1>4 DEF Queued

\* Adding to the queue keeps what is in it.
LEMMA LongerQueue ==
  ASSUME queue \in Seq(Paths), NEW p \in Paths, queue' = Append(queue, p)
  PROVE  /\ queue' \in Seq(Paths) /\ Queued(p)'
         /\ \A q \in Paths : Queued(q) => Queued(q)'
<1>1. /\ Len(queue) \in Nat /\ queue' \in Seq(Paths) /\ Len(queue') = Len(queue) + 1
      /\ queue'[Len(queue) + 1] = p
      /\ \A i \in 1..Len(queue) : queue'[i] = queue[i]
  BY AppendProperties, LenProperties
<1>2. Len(queue) + 1 \in 1..Len(queue') /\ \A i \in 1..Len(queue) : i \in 1..Len(queue')
  BY <1>1
<1> QED BY <1>1, <1>2 DEF Queued

-----------------------------------------------------------------------------
(* The actions.                                                            *)

\* A change of a file is to be looked at, and is not what was seen.
LEMMA EditStep ==
  ASSUME FollowInv, NEW p \in Paths, NEW c \in Contents \cup {NoFile}, Edit(p, c)
  PROVE  FollowInv'
<1>1. /\ disk' = [disk EXCEPT ![p] = c] /\ mtime' = [mtime EXCEPT ![p] = @ + 1]
      /\ changed' = IF c = NoFile THEN changed ELSE changed \cup {p}
      /\ UNCHANGED <<index, points, events, call, offered, seen, queue, missed>>
  BY DEF Edit
<1>2. StoresInv /\ disk \in [Paths -> Contents \cup {NoFile}]
      /\ offered \subseteq [user : Users, scope : Scopes, text : Contents]
      /\ call = [k \in Calls |-> call[k]] /\ mtime \in [Paths -> Nat]
      /\ seen \in [Paths -> [hash : Contents \cup {NoFile}, mtime : Nat]]
  BY DEF FollowInv, StoresInv, IngestionTypeOK
<1>3. StoresInv'
  <2>1. /\ disk' \in [Paths -> Contents \cup {NoFile}]
        /\ offered' \subseteq [user : Users, scope : Scopes, text : Contents]
        /\ call' = [k \in Calls |-> call'[k]] /\ \A k \in Calls : call'[k] = call[k]
    BY <1>1, <1>2
  <2> QED BY <1>1, <1>2, <2>1, CallsReplaced
<1>4. /\ mtime' \in [Paths -> Nat] /\ mtime'[p] = mtime[p] + 1 /\ mtime[p] \in Nat
      /\ seen[p].mtime \in Nat /\ seen[p].mtime <= mtime[p]
      /\ disk'[p] = c
      /\ \A q \in Paths \ {p} : mtime'[q] = mtime[q] /\ disk'[q] = disk[q]
  BY <1>1, <1>2 DEF FollowInv
<1>5. \A q \in Paths : seen'[q].mtime <= mtime'[q]
  <2>1. seen[p].mtime <= mtime[p] + 1
    BY <1>4
  <2> QED BY <1>1, <1>4, <2>1 DEF FollowInv
<1>6. ASSUME NEW q \in Paths \ missed' PROVE Followed(q)'
  <2>1. Followed(q)
    BY <1>1 DEF FollowInv
  <2>2. CASE q = p
    <3>1. seen'[p].mtime # mtime'[p]
      BY <1>1, <1>4
    <3>2. ~SeenBefore(p)'
      BY <3>1 DEF SeenBefore
    <3> QED BY <1>1, <1>4, <2>2, <3>2 DEF Followed
  <2>3. CASE q # p
    BY <1>1, <1>4, <2>1, <2>3 DEF Followed, Handled, Queued, Current, Good, SeenBefore
  <2> QED BY <2>2, <2>3
<1> QED BY <1>1, <1>3, <1>4, <1>5, <1>6 DEF FollowInv

\* What leaves the set of changed paths was queued, or seen as it is.
LEMMA WatchStep ==
  ASSUME FollowInv, NEW p \in Paths, Watch(p)
  PROVE  FollowInv'
<1>1. /\ changed' = changed \ {p} /\ UNCHANGED <<docVars, mtime, missed>>
      /\ \/ /\ seen' = [seen EXCEPT ![p] = [hash |-> disk[p], mtime |-> mtime[p]]]
            /\ queue' = Append(queue, p)
         \/ (disk[p] = NoFile \/ SeenBefore(p)) /\ UNCHANGED <<seen, queue>>
  BY DEF Watch
<1>2. /\ disk \in [Paths -> Contents \cup {NoFile}] /\ mtime \in [Paths -> Nat]
      /\ seen \in [Paths -> [hash : Contents \cup {NoFile}, mtime : Nat]]
      /\ queue \in Seq(Paths) /\ \A q \in Paths : seen[q].mtime <= mtime[q]
  BY DEF FollowInv, StoresInv, IngestionTypeOK
<1>3. StoresInv'
  BY <1>1 DEF FollowInv, docVars, StoresInv, IngestionTypeOK, CallShape, CallPoint, IsText,
              WorkspacePoints, TextEvents, IndexHashed, RecordsBacked, EventPoint
<1>4. \A q \in Paths : Current(q)' <=> Current(q)
  BY <1>1 DEF docVars, Current, Good
<1>5. CASE /\ seen' = [seen EXCEPT ![p] = [hash |-> disk[p], mtime |-> mtime[p]]]
           /\ queue' = Append(queue, p)
  <2>1. /\ queue' \in Seq(Paths) /\ Queued(p)'
        /\ \A q \in Paths : Queued(q) => Queued(q)'
    BY <1>2, <1>5, LongerQueue
  <2>2. /\ seen' \in [Paths -> [hash : Contents \cup {NoFile}, mtime : Nat]]
        /\ \A q \in Paths : seen'[q].mtime <= mtime'[q]
        /\ \A q \in Paths \ {p} : seen'[q] = seen[q]
    BY <1>1, <1>2, <1>5
  <2>3. ASSUME NEW q \in Paths \ missed' PROVE Followed(q)'
    <3>1. Followed(q)
      BY <1>1 DEF FollowInv
    <3>2. CASE q = p
      BY <2>1, <3>2 DEF Followed, Handled
    <3>3. CASE q # p
      <4>1. SeenBefore(q)' <=> SeenBefore(q)
        BY <1>1, <2>2, <3>3 DEF SeenBefore, docVars
      <4> QED BY <1>1, <1>4, <2>1, <3>1, <3>3, <4>1 DEF Followed, Handled, docVars
    <3> QED BY <3>2, <3>3
  <2> QED BY <1>1, <1>2, <1>3, <2>1, <2>2, <2>3 DEF FollowInv
<1>6. CASE (disk[p] = NoFile \/ SeenBefore(p)) /\ UNCHANGED <<seen, queue>>
  <2>1. ASSUME NEW q \in Paths \ missed' PROVE Followed(q)'
    <3>1. Followed(q)
      BY <1>1 DEF FollowInv
    <3>2. (SeenBefore(q)' <=> SeenBefore(q)) /\ (Queued(q)' <=> Queued(q))
      BY <1>1, <1>6 DEF SeenBefore, docVars, Queued
    <3> QED BY <1>1, <1>4, <1>6, <3>1, <3>2 DEF Followed, Handled, docVars
  <2> QED BY <1>1, <1>2, <1>3, <1>6, <2>1 DEF FollowInv
<1> QED BY <1>1, <1>5, <1>6

\* A dropped file joins the queue.
LEMMA DropStep ==
  ASSUME FollowInv, NEW p \in Paths, Drop(p)
  PROVE  FollowInv'
<1>1. queue' = Append(queue, p) /\ UNCHANGED <<docVars, mtime, changed, seen, missed>>
  BY DEF Drop
<1>2. queue' \in Seq(Paths) /\ \A q \in Paths : Queued(q) => Queued(q)'
  BY <1>1, LongerQueue DEF FollowInv
<1>3. StoresInv'
  BY <1>1 DEF FollowInv, docVars, StoresInv, IngestionTypeOK, CallShape, CallPoint, IsText,
              WorkspacePoints, TextEvents, IndexHashed, RecordsBacked, EventPoint
<1>4. \A q \in Paths \ missed' : Followed(q)'
  BY <1>1, <1>2 DEF FollowInv, docVars, Followed, Handled, Current, Good, SeenBefore
<1> QED BY <1>1, <1>2, <1>3, <1>4 DEF FollowInv

\* The worker takes a path: it is in hand, whatever was missed of it before.
LEMMA TakeStep ==
  ASSUME FollowInv, Take
  PROVE  FollowInv'
<1> DEFINE p == Head(queue)
<1>1. /\ call[worker].step = "idle" /\ queue # <<>> /\ queue' = Tail(queue)
      /\ missed' = missed \ {p}
      /\ call' = IF disk[p] = NoFile THEN call
                 ELSE [call EXCEPT ![worker] = Document(p, user, Private)]
      /\ UNCHANGED <<disk, index, points, events, offered, mtime, changed, seen>>
  BY DEF Take
<1>2. worker \in Calls /\ user \in Users /\ Private \in Scopes
  BY WorkerCalls, DesktopAssumption DEF Scopes
<1>3. /\ StoresInv /\ call \in [Calls -> CallRecord]
      /\ disk \in [Paths -> Contents \cup {NoFile}]
      /\ offered \subseteq [user : Users, scope : Scopes, text : Contents]
  BY DEF FollowInv, StoresInv, IngestionTypeOK, CallRecord
<1>4. /\ p \in Paths /\ queue' \in Seq(Paths)
      /\ \A q \in Paths : Queued(q) => q = p \/ Queued(q)'
  BY <1>1, TakenQueue DEF FollowInv
<1> HIDE DEF worker, p
<1>5. StoresInv'
  <2>1. /\ disk' \in [Paths -> Contents \cup {NoFile}]
        /\ offered' \subseteq [user : Users, scope : Scopes, text : Contents]
        /\ call' = [k \in Calls |-> call'[k]]
        /\ \A k \in Calls : call'[k] = call[k] \/ call'[k] = Document(p, user, Private)
    BY <1>1, <1>2, <1>3
  <2>2. \A k \in Calls : call'[k] = call[k] \/
          \E q \in Paths, u \in Users, s \in Scopes : call'[k] = Document(q, u, s)
    BY <1>2, <1>4, <2>1
  <2> QED BY <1>1, <1>3, <2>1, <2>2, CallsReplaced
<1>6. ASSUME NEW q \in Paths \ missed', disk[q] # NoFile
      PROVE  /\ q \in changed \/ Handled(q)'
             /\ SeenBefore(q) => Handled(q)'
  <2>1. CASE q = p
    <3>1. call'[worker] = Document(p, user, Private)
      BY <1>1, <1>2, <1>3, <1>6, <2>1
    <3>2. call'[worker].step = "hash" /\ call'[worker].path = p
      BY <3>1 DEF Document, Idle
    <3> QED BY <2>1, <3>2 DEF Handled, Current
  <2>2. CASE q # p
    <3>1. Followed(q)
      BY <1>1, <2>2 DEF FollowInv
    <3>2. Current(q) => Good(q)
      BY <1>1 DEF Current
    <3>3. Good(q) => Current(q)'
      <4>1. CASE call' = call
        BY <1>1, <4>1 DEF Current, Good
      <4>2. CASE call' = [call EXCEPT ![worker] = Document(p, user, Private)]
        <5>1. call'[worker] = Document(p, user, Private)
          BY <1>2, <1>3, <4>2
        <5>2. call'[worker].path = p
          BY <5>1 DEF Document, Idle
        <5> QED BY <1>1, <2>2, <5>2 DEF Current, Good
      <4> QED BY <1>1, <4>1, <4>2
    <3> QED BY <1>4, <1>6, <2>2, <3>1, <3>2, <3>3 DEF Followed, Handled
  <2> QED BY <2>1, <2>2
<1>7. \A q \in Paths \ missed' : Followed(q)'
  BY <1>1, <1>6 DEF Followed, SeenBefore
<1> QED BY <1>1, <1>4, <1>5, <1>7 DEF FollowInv

\* A step of the ingestion of the file in hand.
LEMMA IngestingStep ==
  ASSUME FollowInv, Ingest
  PROVE  FollowInv'
<1>1. IngestStep(worker) /\ UNCHANGED <<mtime, changed, seen, queue, missed>>
  BY DEF Ingest
<1>2. disk' = disk
  BY <1>1 DEF IngestStep, HashFile, ExtractText, UpsertPoints, UpsertFails, MarkIngested,
              PersistEvent, DatabaseFails
<1>3. StoresInv'
  BY <1>1, WorkerCalls, IngestStepKeeps DEF FollowInv
<1>4. \A p \in Paths : disk[p] # NoFile /\ Current(p) => Current(p)'
  BY <1>1, <1>2, IngestCurrent DEF FollowInv
<1>5. \A p \in Paths \ missed' : Followed(p)'
  BY <1>1, <1>2, <1>4 DEF FollowInv, Followed, Handled, Queued, SeenBefore
<1> QED BY <1>1, <1>3, <1>5 DEF FollowInv

\* The worker is free again: a path whose ingestion raised is missed.
LEMMA ReturnStep ==
  ASSUME FollowInv, Return
  PROVE  FollowInv'
<1>1. /\ call[worker].step \in Outcomes /\ call' = [call EXCEPT ![worker] = Idle]
      /\ missed' = IF call[worker].step = "raised" THEN missed \cup {call[worker].path} ELSE missed
      /\ UNCHANGED <<disk, index, points, events, offered, mtime, changed, seen, queue>>
  BY DEF Return
<1>2. /\ StoresInv /\ call \in [Calls -> CallRecord]
      /\ disk \in [Paths -> Contents \cup {NoFile}]
      /\ offered \subseteq [user : Users, scope : Scopes, text : Contents]
  BY DEF FollowInv, StoresInv, IngestionTypeOK, CallRecord
<1>3. StoresInv'
  <2>1. /\ disk' \in [Paths -> Contents \cup {NoFile}]
        /\ offered' \subseteq [user : Users, scope : Scopes, text : Contents]
        /\ call' = [k \in Calls |-> call'[k]]
        /\ \A k \in Calls : call'[k] = call[k] \/ call'[k] = Idle
    BY <1>1, <1>2
  <2> QED BY <1>1, <1>2, <2>1, CallsReplaced
<1>4. ASSUME NEW p \in Paths \ missed', Current(p)
      PROVE  Current(p)'
  <2>1. Good(p)
    BY <1>1, <1>4 DEF Current, Outcomes
  <2>2. call'[worker].step = "idle"
    BY <1>1, <1>2, WorkerCalls DEF Idle
  <2> QED BY <1>1, <2>1, <2>2 DEF Current, Good
<1>5. \A p \in Paths \ missed' : Followed(p)'
  BY <1>1, <1>4 DEF FollowInv, Followed, Handled, Queued, SeenBefore
<1> QED BY <1>1, <1>3, <1>5 DEF FollowInv

\* The application starts again: all that was under way is missed.
LEMMA RestartStep ==
  ASSUME FollowInv, Restart
  PROVE  FollowInv'
<1>1. /\ missed' = missed \cup changed \cup {queue[i] : i \in 1..Len(queue)}
                     \cup ({call[worker].path} \cap Paths)
      /\ changed' = {} /\ queue' = <<>> /\ seen' = [p \in Paths |-> Unseen]
      /\ call' = [call EXCEPT ![worker] = Idle]
      /\ UNCHANGED <<disk, index, points, events, offered, mtime>>
  BY DEF Restart
<1>2. /\ StoresInv /\ call \in [Calls -> CallRecord] /\ mtime \in [Paths -> Nat]
      /\ disk \in [Paths -> Contents \cup {NoFile}]
      /\ offered \subseteq [user : Users, scope : Scopes, text : Contents]
  BY DEF FollowInv, StoresInv, IngestionTypeOK, CallRecord
<1>3. StoresInv'
  <2>1. /\ disk' \in [Paths -> Contents \cup {NoFile}]
        /\ offered' \subseteq [user : Users, scope : Scopes, text : Contents]
        /\ call' = [k \in Calls |-> call'[k]]
        /\ \A k \in Calls : call'[k] = call[k] \/ call'[k] = Idle
    BY <1>1, <1>2
  <2> QED BY <1>1, <1>2, <2>1, CallsReplaced
<1>4. /\ seen' \in [Paths -> [hash : Contents \cup {NoFile}, mtime : Nat]]
      /\ \A p \in Paths : seen'[p].mtime <= mtime'[p] /\ seen'[p].hash = NoFile
      /\ queue' \in Seq(Paths)
  BY <1>1, <1>2 DEF Unseen
<1>5. call'[worker].step = "idle"
  BY <1>1, <1>2, WorkerCalls DEF Idle
<1>6. ASSUME NEW p \in Paths \ missed' PROVE Followed(p)'
  <2>1. Followed(p) /\ p \notin changed /\ ~Queued(p) /\ call[worker].path # p
    BY <1>1 DEF FollowInv, Queued
  <2>2. disk[p] # NoFile => Good(p)
    BY <2>1 DEF Followed, Handled, Current
  <2>3. disk[p] # NoFile => Current(p)'
    BY <1>1, <1>5, <2>2 DEF Current, Good
  <2> QED BY <1>1, <2>3 DEF Followed, Handled
<1> QED BY <1>1, <1>2, <1>3, <1>4, <1>6 DEF FollowInv

-----------------------------------------------------------------------------
(* The text of the points.                                                 *)

\* Every point is the user's and has the text it is named after, unless torn;
\* so has the call, until it has stored it.
TextInv ==
  /\ \A id \in PointIds : points[id] # NoPoint => id[1] = user
  /\ \A c \in Contents \ torn : points[<<user, c>>] = NoPoint \/ StoredFor(c)
  /\ LET c == call[worker] IN
     /\ c.step \in Working => c.user = user /\ c.scope = Private /\ c.path \in Paths
     /\ c.step = "extract" => c.hash \in torn \/ c.hash = disk[c.path]
     /\ c.step = "upsert" => c.hash \in torn \/ c.text = c.hash

\* A change of a file tears what was hashed of it and is not read yet.
LEMMA EditText ==
  ASSUME FollowInv, TextInv, NEW p \in Paths, NEW c \in Contents \cup {NoFile}, Edit(p, c)
  PROVE  TextInv'
<1>1. /\ disk' = [disk EXCEPT ![p] = c] /\ UNCHANGED <<points, call>>
      /\ torn' = IF BetweenReads(p) THEN torn \cup {call[worker].hash} ELSE torn
  BY DEF Edit
<1>2. disk \in [Paths -> Contents \cup {NoFile}] /\ torn \subseteq torn'
  BY <1>1 DEF FollowInv, StoresInv, IngestionTypeOK
<1> HIDE DEF worker
<1>3. call[worker].step = "extract" => call[worker].hash \in torn' \/ call[worker].hash = disk'[call[worker].path]
  <2> SUFFICES ASSUME call[worker].step = "extract"
               PROVE  call[worker].hash \in torn' \/ call[worker].hash = disk'[call[worker].path]
    OBVIOUS
  <2>1. CASE call[worker].path = p
    BY <1>1, <2>1 DEF BetweenReads
  <2>2. CASE call[worker].path # p
    <3>1. call[worker].path \in Paths
      BY DEF TextInv, Working
    <3> QED BY <1>1, <1>2, <2>2, <3>1 DEF TextInv
  <2> QED BY <2>1, <2>2
<1> QED BY <1>1, <1>2, <1>3 DEF TextInv, StoredFor

\* The worker begins with a call of the user's.
LEMMA TakeText ==
  ASSUME FollowInv, TextInv, Take
  PROVE  TextInv'
<1>1. /\ queue # <<>> /\ queue' = Tail(queue) /\ UNCHANGED <<disk, points, torn>>
      /\ \/ call' = call
         \/ call' = [call EXCEPT ![worker] = Document(Head(queue), user, Private)]
  BY DEF Take
<1>2. worker \in Calls /\ call \in [Calls -> CallRecord] /\ Head(queue) \in Paths
  BY <1>1, WorkerCalls, TakenQueue DEF FollowInv, StoresInv, IngestionTypeOK, CallRecord
<1> HIDE DEF worker
<1>3. CASE call' = call
  BY <1>1, <1>3 DEF TextInv, StoredFor
<1>4. CASE call' = [call EXCEPT ![worker] = Document(Head(queue), user, Private)]
  <2>1. call'[worker] = Document(Head(queue), user, Private)
    BY <1>2, <1>4
  <2>2. /\ call'[worker].step = "hash" /\ call'[worker].user = user
        /\ call'[worker].scope = Private /\ call'[worker].path = Head(queue)
    BY <2>1 DEF Document, Idle
  <2> QED BY <1>1, <1>2, <2>2 DEF TextInv, StoredFor
<1> QED BY <1>1, <1>3, <1>4

\* A call that is over has nothing more to store.
LEMMA IdleText ==
  ASSUME FollowInv, TextInv, call' = [call EXCEPT ![worker] = Idle], UNCHANGED <<points, torn>>
  PROVE  TextInv'
<1>1. worker \in Calls /\ call \in [Calls -> CallRecord]
  BY WorkerCalls DEF FollowInv, StoresInv, IngestionTypeOK, CallRecord
<1> HIDE DEF worker
<1>2. call'[worker].step = "idle"
  BY <1>1 DEF Idle
<1> QED BY <1>2 DEF TextInv, StoredFor, Working

\* The call hashes and reads what is there, and stores what it read.
LEMMA IngestText ==
  ASSUME FollowInv, TextInv, Ingest
  PROVE  TextInv'
<1>1. /\ IngestStep(worker) /\ worker \in Calls
      /\ torn' = IF StoresWhole THEN torn \ {call[worker].hash} ELSE torn
  BY WorkerCalls DEF Ingest
<1>2. /\ StoresInv /\ call \in [Calls -> CallRecord] /\ call[worker] \in CallRecord
      /\ points \in [PointIds -> Payload \cup {NoPoint}] /\ user \in Users
  BY <1>1, DesktopAssumption DEF FollowInv, StoresInv, IngestionTypeOK, CallRecord
<1>3. /\ disk' = disk
      /\ call'[worker].path = call[worker].path /\ call'[worker].user = call[worker].user
      /\ call'[worker].scope = call[worker].scope
  BY <1>1, <1>2, CallKeepsDocument
  DEF IngestStep, HashFile, ExtractText, UpsertPoints, UpsertFails, MarkIngested, PersistEvent, DatabaseFails
<1> HIDE DEF worker
<1>4. call[worker].step \in Working
  BY <1>1 DEF IngestStep, HashFile, ExtractText, UpsertPoints, UpsertFails, MarkIngested,
              PersistEvent, DatabaseFails, Working
<1>5. /\ call[worker].user = user /\ call[worker].scope = Private /\ call[worker].path \in Paths
      /\ ~IsText(worker)
  BY <1>4, IngestionAssumption DEF TextInv, IsText
<1>6. ASSUME NEW step \in Steps, Goto(worker, step) PROVE call'[worker] = [call[worker] EXCEPT !.step = step]
  BY <1>1, <1>2, <1>6 DEF Goto
<1>7. CASE call[worker].step # "upsert"
  <2>1. points' = points /\ torn' = torn
    BY <1>1, <1>7 DEF StoresWhole, IngestStep, HashFile, ExtractText, UpsertPoints, UpsertFails,
                      MarkIngested, PersistEvent, DatabaseFails
  <2>2. /\ call'[worker].step = "extract" => call'[worker].hash = disk[call[worker].path]
        /\ call'[worker].step = "upsert" =>
             /\ call[worker].step = "extract" /\ call'[worker].hash = call[worker].hash
             /\ call'[worker].text = disk[call[worker].path]
    <3>1. CASE HashFile(worker)
      BY <1>1, <1>2, <3>1 DEF HashFile, Goto, CallRecord
    <3>2. CASE ExtractText(worker)
      BY <1>1, <1>2, <3>2 DEF ExtractText, Goto, CallRecord
    <3>3. CASE MarkIngested(worker) \/ PersistEvent(worker) \/ DatabaseFails(worker)
      BY <1>1, <1>2, <3>3 DEF MarkIngested, PersistEvent, DatabaseFails, Goto, CallRecord
    <3> QED BY <1>1, <1>7, <3>1, <3>2, <3>3 DEF IngestStep, UpsertPoints, UpsertFails
  <2> QED BY <1>3, <1>5, <2>1, <2>2 DEF TextInv, StoredFor
<1>8. CASE call[worker].step = "upsert"
  <2> DEFINE h == call[worker].hash
             t == call[worker].text
  <2>1. /\ h \in Contents /\ t \in Contents /\ <<user, h>> \in PointIds
        /\ h \in torn \/ t = h
    BY <1>1, <1>2, <1>8 DEF StoresInv, CallShape, PointIds, TextInv
  <2>2. UpsertPoints(worker) \/ UpsertFails(worker)
    BY <1>1, <1>8 DEF IngestStep, HashFile, ExtractText, MarkIngested, PersistEvent, DatabaseFails
  <2>3. Upserted(worker) = [points EXCEPT ![<<user, h>>] = [text |-> t, user |-> user, scope |-> Private]]
    BY <1>5 DEF Upserted, PointOwner
  <2>4. call'[worker].step \in {"index", "failed", "raised"}
    BY <1>1, <1>2, <1>5, <2>2 DEF UpsertPoints, UpsertFails, Goto, CallRecord
  <2>5. points' = points \/ points' = Upserted(worker)
    BY <2>2 DEF UpsertPoints, UpsertFails
  <2>6. call'[worker].step = "index" => points' = Upserted(worker)
    BY <1>1, <1>2, <2>2 DEF UpsertPoints, UpsertFails, Goto, CallRecord
  <2>7. \A id \in PointIds : points'[id] # NoPoint => id[1] = user
    BY <1>2, <2>1, <2>3, <2>5 DEF TextInv
  <2>8. ASSUME NEW c \in Contents \ torn', points'[<<user, c>>] # NoPoint
        PROVE  points'[<<user, c>>] = [text |-> c, user |-> user, scope |-> Private]
    <3>1. <<user, c>> \in PointIds
      BY <1>2 DEF PointIds
    <3>2. CASE c # h
      <4>1. points'[<<user, c>>] = points[<<user, c>>] /\ c \notin torn
        BY <1>1, <1>2, <2>1, <2>3, <2>5, <2>8, <3>1, <3>2
      <4> QED BY <2>8, <4>1 DEF TextInv, StoredFor
    <3>3. CASE c = h /\ h \notin torn
      <4>1. t = h
        BY <2>1, <3>3
      <4>2. CASE points' = points
        BY <2>8, <3>3, <4>2 DEF TextInv, StoredFor
      <4>3. CASE points' = Upserted(worker)
        BY <1>2, <2>1, <2>3, <3>3, <4>1, <4>3
      <4> QED BY <2>5, <4>2, <4>3
    <3>4. CASE c = h /\ h \in torn
      <4>1. StoresWhole
        BY <1>1, <2>8, <3>4
      <4>2. points' = Upserted(worker) /\ t = h
        BY <2>6, <4>1 DEF StoresWhole
      <4> QED BY <1>2, <2>1, <2>3, <3>4, <4>2
    <3> QED BY <3>2, <3>3, <3>4
  <2> HIDE DEF h, t
  <2>9. /\ call'[worker].step # "extract" /\ call'[worker].step # "upsert"
        /\ call'[worker].user = user /\ call'[worker].scope = Private
        /\ call'[worker].path \in Paths
    BY <1>3, <1>5, <2>4
  <2> QED BY <2>7, <2>8, <2>9 DEF TextInv, StoredFor
<1> QED BY <1>7, <1>8

-----------------------------------------------------------------------------
(* The theorems.                                                           *)

\* No file, nothing indexed.
LEMMA DesktopInitHolds == DesktopInit => FollowInv
<1> SUFFICES ASSUME DesktopInit PROVE FollowInv
  OBVIOUS
<1>1. StoresInv /\ disk = [p \in Paths |-> NoFile]
  BY StoresInit DEF DesktopInit, IngestionInit
<1>2. /\ mtime \in [Paths -> Nat] /\ queue \in Seq(Paths)
      /\ seen \in [Paths -> [hash : Contents \cup {NoFile}, mtime : Nat]]
      /\ \A p \in Paths : seen[p].mtime <= mtime[p]
  BY DEF DesktopInit, Unseen
<1>3. \A p \in Paths : Followed(p)
  BY <1>1 DEF Followed
<1> QED BY <1>1, <1>2, <1>3 DEF FollowInv

\* Every step of the desktop keeps it.
LEMMA DesktopStepKeeps == FollowInv /\ [DesktopNext]_desktopVars => FollowInv'
<1> SUFFICES ASSUME FollowInv, [DesktopNext]_desktopVars PROVE FollowInv'
  OBVIOUS
<1>1. CASE UNCHANGED desktopVars
  <2>1. UNCHANGED <<docVars, mtime, changed, seen, queue, missed>>
    BY <1>1 DEF desktopVars
  <2>2. StoresInv'
    BY <2>1 DEF FollowInv, docVars, StoresInv, IngestionTypeOK, CallShape, CallPoint, IsText,
                WorkspacePoints, TextEvents, IndexHashed, RecordsBacked, EventPoint
  <2>3. \A p \in Paths \ missed' : Followed(p)'
    BY <2>1 DEF FollowInv, docVars, Followed, Handled, Queued, Current, Good, SeenBefore
  <2> QED BY <2>1, <2>2, <2>3 DEF FollowInv
<1>2. CASE DesktopNext
  BY <1>2, EditStep, WatchStep, DropStep, TakeStep, IngestingStep, ReturnStep, RestartStep
  DEF DesktopNext
<1> QED BY <1>1, <1>2

\* The invariant, for every number of edits, events and restarts.
LEMMA FollowInvHolds == DesktopSpec => []FollowInv
BY DesktopInitHolds, DesktopStepKeeps, PTL DEF DesktopSpec

\* Every step keeps the texts too.
LEMMA DesktopTextKeeps == FollowInv /\ TextInv /\ [DesktopNext]_desktopVars => TextInv'
<1> SUFFICES ASSUME FollowInv, TextInv, [DesktopNext]_desktopVars PROVE TextInv'
  OBVIOUS
<1>1. CASE UNCHANGED <<disk, points, call, torn>>
  BY <1>1 DEF TextInv, StoredFor
<1>2. CASE UNCHANGED desktopVars
  BY <1>1, <1>2 DEF desktopVars, docVars
<1>3. ASSUME NEW p \in Paths, Watch(p) \/ Drop(p) PROVE TextInv'
  BY <1>1, <1>3 DEF Watch, Drop, docVars
<1>4. CASE Return \/ Restart
  BY <1>4, IdleText DEF Return, Restart
<1>5. CASE DesktopNext
  BY <1>3, <1>4, <1>5, EditText, TakeText, IngestText DEF DesktopNext
<1> QED BY <1>2, <1>5

\* Nothing is stored before the first call.
LEMMA DesktopTextHolds == DesktopSpec => []TextInv
<1>1. ASSUME DesktopInit PROVE TextInv
  <2>1. /\ points = [id \in PointIds |-> NoPoint] /\ torn = {} /\ call = [k \in Calls |-> Idle]
    BY <1>1 DEF DesktopInit, IngestionInit
  <2>2. /\ \A id \in PointIds : points[id] = NoPoint
        /\ \A c \in Contents : <<user, c>> \in PointIds
    BY <2>1, DesktopAssumption DEF PointIds
  <2>3. call[worker].step = "idle"
    BY <2>1, WorkerCalls DEF Idle
  <2> HIDE DEF worker
  <2> QED BY <2>2, <2>3 DEF TextInv, Working
<1>2. FollowInv /\ TextInv /\ [DesktopNext]_desktopVars => TextInv'
  BY DesktopTextKeeps
<1> QED BY <1>1, <1>2, FollowInvHolds, PTL DEF DesktopSpec

\* Every ingestion record of the desktop is backed by its point and its index
\* row, whatever fails or restarts in between.
THEOREM DesktopRecordsBacked == DesktopSpec => []RecordsBacked
<1>1. FollowInv => RecordsBacked
  BY DEF FollowInv, StoresInv
<1> QED BY <1>1, FollowInvHolds, PTL

\* When all that was reported is handled, a file the index calls ingested is
\* indexed as it is on disk, unless its last ingestion raised or was cut off;
\* and its own text is stored, unless bytes like its own changed between the
\* hash and the extraction and were not stored again since.
THEOREM DesktopIndexFollows == DesktopSpec => []IndexFollowsDisk
<1>1. ASSUME FollowInv, TextInv PROVE IndexFollowsDisk
  <2> SUFFICES ASSUME AtRest, NEW p \in Paths \ missed, Indexed(p)
               PROVE  index[p].hash = disk[p] /\ (disk[p] \in torn \/ StoredFor(disk[p]))
    BY DEF IndexFollowsDisk
  <2>1. changed = {} /\ Len(queue) = 0 /\ call[worker].step = "idle"
    BY EmptySeq DEF AtRest
  <2>2. Followed(p)
    BY <1>1 DEF FollowInv
  <2>3. ~Queued(p)
    BY <2>1 DEF Queued
  <2>4. index[p].hash = disk[p]
    BY <2>1, <2>2, <2>3 DEF Followed, Handled, Current, Good, Indexed
  <2>5. disk[p] \in Contents
    BY <1>1 DEF FollowInv, StoresInv, IngestionTypeOK, Indexed
  <2>6. PICK u \in Users : points[<<u, disk[p]>>] # NoPoint
    BY <1>1, <2>4 DEF FollowInv, StoresInv, RecordsBacked, Indexed
  <2>7. u = user
    BY <1>1, <2>5, <2>6 DEF TextInv, PointIds
  <2> QED BY <1>1, <2>4, <2>5, <2>6, <2>7 DEF TextInv
<1> QED BY <1>1, FollowInvHolds, DesktopTextHolds, PTL
=============================================================================
