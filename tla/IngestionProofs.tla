--------------------------- MODULE IngestionProofs ---------------------------
(***************************************************************************)
(* What the two stores owe each other: an inductive invariant of the steps *)
(* of Ingestion, for every set of calls, users, workspaces, paths and      *)
(* contents.  UploadsProofs and DesktopProofs show that their systems keep *)
(* it too.                                                                 *)
(***************************************************************************)
EXTENDS Ingestion, TLAPS

CallRecord == [step : Steps, path : Paths \cup {NoFile}, user : Users \cup {NoFile},
               scope : Scopes, hash : Contents \cup {NoFile}, text : Contents \cup {NoFile}]
IndexRow == [status : {"none", "skipped", "error", "ingested"}, hash : Contents \cup {NoFile}]

Working == {"hash", "extract", "upsert", "index", "event"}

CallPoint(k) == <<PointOwner(call[k].user, call[k].scope, IsText(k)), call[k].hash>>

\* What a call knows, and what it has left in Qdrant, when it is at a step.
CallShape(k) ==
  LET c == call[k] IN
  /\ c.step \in Working => c.user \in Users
  /\ c.step \in {"hash", "extract", "index"} => c.path \in Paths
  /\ c.step \in {"extract", "upsert", "index", "event"} => c.hash \in Contents
  /\ c.step = "upsert" => c.text \in Contents
  /\ c.step \in {"upsert", "event"} /\ IsText(k) => c.scope \in Workspaces
  /\ c.step = "upsert" /\ IsText(k) => c.text = c.hash
  /\ c.step \in {"index", "event"} => points[CallPoint(k)] # NoPoint

\* The points of a workspace are the shared texts they are named after.
WorkspacePoints ==
  \A w \in Workspaces, c \in Contents :
    points[<<w, c>>] # NoPoint => points[<<w, c>>].text = c /\ points[<<w, c>>].scope = w

TextEvents == \A e \in events : e.path = NoFile => e.scope \in Workspaces

IndexHashed == \A p \in Paths : index[p].status = "ingested" => index[p].hash \in Contents

StoresInv ==
  /\ IngestionTypeOK
  /\ \A k \in Calls : CallShape(k)
  /\ WorkspacePoints /\ TextEvents /\ IndexHashed
  /\ RecordsBacked

-----------------------------------------------------------------------------
\* Empty stores agree.
LEMMA StoresInit == IngestionInit => StoresInv
<1> SUFFICES ASSUME IngestionInit PROVE StoresInv
  OBVIOUS
<1> USE IngestionAssumption DEF IngestionInit
<1>1. IngestionTypeOK
  BY DEF IngestionTypeOK, NotIndexed, Idle, Steps, Scopes
<1>2. \A k \in Calls : CallShape(k)
  BY DEF CallShape, Idle, Working
<1>3. WorkspacePoints /\ TextEvents /\ IndexHashed
  BY DEF WorkspacePoints, TextEvents, PointIds, IndexHashed, NotIndexed
<1>4. RecordsBacked
  BY DEF RecordsBacked, NotIndexed
<1> QED BY <1>1, <1>2, <1>3, <1>4 DEF StoresInv

\* Two points of one identifier are one point: user and workspace ids differ.
LEMMA CallPointType ==
  ASSUME StoresInv, NEW k \in Calls, call[k].step \in {"upsert", "index", "event"}
  PROVE  /\ CallPoint(k) \in PointIds
         /\ IsText(k) => CallPoint(k) = <<call[k].scope, call[k].hash>> /\ call[k].scope \in Workspaces
         /\ ~IsText(k) => CallPoint(k) = <<call[k].user, call[k].hash>>
         /\ call[k].user \in Users /\ call[k].hash \in Contents
<1>1. call[k].user \in Users /\ call[k].hash \in Contents
  BY DEF StoresInv, CallShape, Working
<1>2. IsText(k) => call[k].scope \in Workspaces
  <2>1. CASE call[k].step = "index"
    BY <2>1, IngestionAssumption DEF StoresInv, CallShape, IsText
  <2>2. CASE call[k].step # "index"
    BY <2>2 DEF StoresInv, CallShape
  <2> QED BY <2>1, <2>2
<1> QED BY <1>1, <1>2 DEF CallPoint, PointOwner, PointIds

\* A call that goes on, and writes a status that is not "ingested" at most.
LEMMA StoresMarked ==
  ASSUME StoresInv, NEW k \in Calls, NEW c2 \in CallRecord,
         call' = [call EXCEPT ![k] = c2],
         c2.path = call[k].path, c2.user = call[k].user, c2.scope = call[k].scope,
         \/ c2.step \in Outcomes
         \/ c2.step = "extract" /\ call[k].step = "hash" /\ c2.hash \in Contents
         \/ /\ c2.step = "upsert" /\ call[k].step = "extract"
            /\ c2.text \in Contents /\ c2.hash = call[k].hash,
         index' \in [Paths -> IndexRow],
         \A p \in Paths : index'[p].status = "ingested" => index'[p] = index[p],
         disk' = disk, points' = points, events' = events, offered' = offered
  PROVE  StoresInv'
<1>1. call \in [Calls -> CallRecord] /\ call' \in [Calls -> CallRecord]
  BY DEF StoresInv, IngestionTypeOK, CallRecord
<1>2. IngestionTypeOK'
  BY <1>1 DEF StoresInv, IngestionTypeOK, CallRecord, IndexRow
<1>3. ASSUME NEW j \in Calls PROVE CallShape(j)'
  <2>1. CallShape(j)
    BY DEF StoresInv
  <2>2. CASE j # k
    <3>1. call'[j] = call[j]
      BY <1>1, <2>2
    <3> QED BY <2>1, <3>1 DEF CallShape, CallPoint, IsText
  <2>3. CASE j = k
    <3>1. call'[k] = c2
      BY <1>1
    <3>2. CASE c2.step \in Outcomes
      BY <2>3, <3>1, <3>2 DEF CallShape, Outcomes, Working
    <3>3. CASE c2.step = "extract" /\ call[k].step = "hash" /\ c2.hash \in Contents
      BY <2>1, <2>3, <3>1, <3>3 DEF CallShape, Working
    <3>4. CASE c2.step = "upsert" /\ call[k].step = "extract"
               /\ c2.text \in Contents /\ c2.hash = call[k].hash
      BY <2>1, <2>3, <3>1, <3>4, IngestionAssumption DEF CallShape, Working, IsText
    <3> QED BY <3>2, <3>3, <3>4
  <2> QED BY <2>2, <2>3
<1>4. WorkspacePoints' /\ TextEvents' /\ IndexHashed'
  BY DEF StoresInv, WorkspacePoints, TextEvents, IndexHashed
<1>5. RecordsBacked'
  <2>1. RecordsBacked
    BY DEF StoresInv
  <2>2. ASSUME NEW p \in Paths, index'[p].status = "ingested"
        PROVE  \E u \in Users : points'[<<u, index'[p].hash>>] # NoPoint
    BY <2>1, <2>2 DEF RecordsBacked
  <2>3. \A e \in events' : points'[EventPoint(e)] # NoPoint
    BY <2>1 DEF RecordsBacked
  <2> QED BY <2>2, <2>3 DEF RecordsBacked, EventPoint
<1> QED BY <1>2, <1>3, <1>4, <1>5 DEF StoresInv

\* UpsertIndex writes a row of the table, and only its path's.
LEMMA UpsertIndexType ==
  ASSUME StoresInv, NEW k \in Calls, call[k].path \in Paths,
         NEW st \in {"skipped", "error"}, NEW h \in Contents \cup {NoFile},
         UpsertIndex(k, st, h)
  PROVE  /\ index' \in [Paths -> IndexRow]
         /\ \A p \in Paths : index'[p].status = "ingested" => index'[p] = index[p]
<1>1. index \in [Paths -> IndexRow]
  BY DEF StoresInv, IngestionTypeOK, IndexRow
<1>2. index' = [index EXCEPT ![call[k].path] =
                  [status |-> st, hash |-> IF h = NoFile THEN index[call[k].path].hash ELSE h]]
  BY DEF UpsertIndex
<1>3. [status |-> st, hash |-> IF h = NoFile THEN index[call[k].path].hash ELSE h] \in IndexRow
  BY <1>1 DEF IndexRow
<1> QED BY <1>1, <1>2, <1>3

\* The same when nothing is written.
LEMMA IndexKept ==
  ASSUME StoresInv, index' = index
  PROVE  /\ index' \in [Paths -> IndexRow]
         /\ \A p \in Paths : index'[p].status = "ingested" => index'[p] = index[p]
BY DEF StoresInv, IngestionTypeOK, IndexRow

\* A call that moves to another step and changes nothing else stays a call.
LEMMA GotoRecord ==
  ASSUME StoresInv, NEW k \in Calls, NEW step \in Steps
  PROVE  /\ [call[k] EXCEPT !.step = step] \in CallRecord
         /\ [call[k] EXCEPT !.step = step].step = step
         /\ [call[k] EXCEPT !.step = step].path = call[k].path
         /\ [call[k] EXCEPT !.step = step].user = call[k].user
         /\ [call[k] EXCEPT !.step = step].scope = call[k].scope
         /\ [call[k] EXCEPT !.step = step].hash = call[k].hash
         /\ [call[k] EXCEPT !.step = step].text = call[k].text
<1>1. call[k] \in CallRecord
  BY DEF StoresInv, IngestionTypeOK, CallRecord
<1> QED BY <1>1 DEF CallRecord

\* A call that ends, whatever it writes about it.
LEMMA StoresEnded ==
  ASSUME StoresInv, NEW k \in Calls, NEW step \in Outcomes, Goto(k, step),
         index' \in [Paths -> IndexRow],
         \A p \in Paths : index'[p].status = "ingested" => index'[p] = index[p],
         disk' = disk, points' = points, events' = events, offered' = offered
  PROVE  StoresInv'
<1>1. step \in Steps
  BY DEF Outcomes, Steps
<1>2. call' = [call EXCEPT ![k] = [call[k] EXCEPT !.step = step]]
  BY DEF Goto
<1> HIDE DEF Outcomes, CallRecord, IndexRow
<1> QED BY <1>1, <1>2, GotoRecord, StoresMarked

\* Hashing reads the file and the row; it writes at most a status.
LEMMA HashFileStep ==
  ASSUME StoresInv, NEW k \in Calls, HashFile(k)
  PROVE  StoresInv'
<1> DEFINE c == disk[call[k].path]
<1>1. call[k].step = "hash" /\ call[k].path \in Paths
  BY DEF HashFile, StoresInv, CallShape
<1>2. c \in Contents \cup {NoFile}
  BY <1>1 DEF StoresInv, IngestionTypeOK
<1>3. disk' = disk /\ points' = points /\ events' = events /\ offered' = offered
  BY DEF HashFile
<1>4. CASE c = NoFile /\ UpsertIndex(k, "error", NoFile) /\ Goto(k, "failed")
  BY <1>1, <1>3, <1>4, UpsertIndexType, StoresEnded DEF Outcomes
<1>5. CASE c \in TooLarge /\ UpsertIndex(k, "skipped", NoFile) /\ Goto(k, "skipped")
  BY <1>1, <1>3, <1>5, UpsertIndexType, StoresEnded DEF Outcomes
<1>6. CASE Goto(k, "skipped") /\ UNCHANGED index
  BY <1>3, <1>6, IndexKept, StoresEnded DEF Outcomes
<1>7. CASE /\ c \notin TooLarge \cup {NoFile}
           /\ call' = [call EXCEPT ![k].step = "extract", ![k].hash = c]
           /\ UNCHANGED index
  <2> DEFINE c2 == [call[k] EXCEPT !.step = "extract", !.hash = c]
  <2>1. call[k] \in CallRecord
    BY DEF StoresInv, IngestionTypeOK, CallRecord
  <2>2. /\ c2 \in CallRecord /\ c2.step = "extract" /\ c2.hash \in Contents
        /\ c2.path = call[k].path /\ c2.user = call[k].user /\ c2.scope = call[k].scope
    BY <1>2, <1>7, <2>1 DEF CallRecord, Steps
  <2>3. call' = [call EXCEPT ![k] = c2]
    BY <1>7
  <2> HIDE DEF c2
  <2> QED BY <1>1, <1>3, <1>7, <2>2, <2>3, IndexKept, StoresMarked
<1> QED BY <1>4, <1>5, <1>6, <1>7 DEF HashFile

\* Extraction reads the file again; what it finds is a text all the same.
LEMMA ExtractTextStep ==
  ASSUME StoresInv, NEW k \in Calls, ExtractText(k)
  PROVE  StoresInv'
<1> DEFINE c == disk[call[k].path]
<1>1. call[k].step = "extract" /\ call[k].path \in Paths /\ call[k].hash \in Contents \cup {NoFile}
  BY DEF ExtractText, StoresInv, CallShape
<1>2. c \in Contents \cup {NoFile}
  BY <1>1 DEF StoresInv, IngestionTypeOK
<1>3. disk' = disk /\ points' = points /\ events' = events /\ offered' = offered
  BY DEF ExtractText
<1>4. CASE UpsertIndex(k, "error", call[k].hash) /\ Goto(k, "failed")
  BY <1>1, <1>3, <1>4, UpsertIndexType, StoresEnded DEF Outcomes
<1>5. CASE UpsertIndex(k, "skipped", call[k].hash) /\ Goto(k, "skipped")
  BY <1>1, <1>3, <1>5, UpsertIndexType, StoresEnded DEF Outcomes
<1>6. CASE /\ c \notin Unreadable \cup Blank \cup {NoFile}
           /\ call' = [call EXCEPT ![k].step = "upsert", ![k].text = c]
           /\ UNCHANGED index
  <2> DEFINE c2 == [call[k] EXCEPT !.step = "upsert", !.text = c]
  <2>1. call[k] \in CallRecord
    BY DEF StoresInv, IngestionTypeOK, CallRecord
  <2>2. /\ c2 \in CallRecord /\ c2.step = "upsert" /\ c2.text \in Contents
        /\ c2.path = call[k].path /\ c2.user = call[k].user /\ c2.scope = call[k].scope
        /\ c2.hash = call[k].hash
    BY <1>2, <1>6, <2>1 DEF CallRecord, Steps
  <2>3. call' = [call EXCEPT ![k] = c2]
    BY <1>6
  <2> HIDE DEF c2
  <2> QED BY <1>1, <1>3, <1>6, <2>2, <2>3, IndexKept, StoresMarked
<1> QED BY <1>4, <1>5, <1>6 DEF ExtractText

\* An exception leaves the stores as they are.
LEMMA DatabaseFailsStep ==
  ASSUME StoresInv, NEW k \in Calls, DatabaseFails(k)
  PROVE  StoresInv'
BY IndexKept, StoresEnded DEF DatabaseFails, Outcomes

\* An upsert takes no point away, and a workspace's points stay its own texts.
LEMMA UpsertedPoints ==
  ASSUME StoresInv, NEW k \in Calls, call[k].step = "upsert", points' = Upserted(k)
  PROVE  /\ points' \in [PointIds -> Payload \cup {NoPoint}]
         /\ points'[CallPoint(k)] # NoPoint
         /\ \A id \in PointIds : points[id] # NoPoint => points'[id] # NoPoint
         /\ WorkspacePoints'
<1> DEFINE new == [text |-> call[k].text, user |-> call[k].user, scope |-> call[k].scope]
<1>1. CallPoint(k) \in PointIds
  BY CallPointType
<1>2. new \in Payload /\ new # NoPoint
  BY IngestionAssumption DEF StoresInv, CallShape, Working, IngestionTypeOK, Payload
<1>3. points' = [points EXCEPT ![CallPoint(k)] = new]
  BY DEF Upserted, CallPoint
<1>4. points \in [PointIds -> Payload \cup {NoPoint}]
  BY DEF StoresInv, IngestionTypeOK
<1>5. WorkspacePoints'
  <2> SUFFICES ASSUME NEW w \in Workspaces, NEW c \in Contents, points'[<<w, c>>] # NoPoint
               PROVE  points'[<<w, c>>].text = c /\ points'[<<w, c>>].scope = w
    BY DEF WorkspacePoints
  <2>1. <<w, c>> \in PointIds
    BY DEF PointIds
  <2>2. CASE <<w, c>> = CallPoint(k)
    <3>1. IsText(k)
      BY <2>2, CallPointType, IngestionAssumption
    <3>2. call[k].scope = w /\ call[k].hash = c
      BY <2>2, <3>1, CallPointType
    <3>3. call[k].text = c
      BY <3>1, <3>2 DEF StoresInv, CallShape
    <3> QED BY <1>3, <1>4, <2>1, <2>2, <3>2, <3>3
  <2>3. CASE <<w, c>> # CallPoint(k)
    BY <1>3, <1>4, <2>1, <2>3 DEF StoresInv, WorkspacePoints
  <2> QED BY <2>2, <2>3
<1> HIDE DEF new
<1> QED BY <1>1, <1>2, <1>3, <1>4, <1>5

\* An event names a point of its user or, for a shared text, of its workspace.
LEMMA EventPointType ==
  ASSUME StoresInv, NEW e \in events
  PROVE  EventPoint(e) \in PointIds
BY DEF StoresInv, IngestionTypeOK, TextEvents, EventPoint, PointOwner, PointIds

\* After the upsert, a call may promise its point.
LEMMA StoresUpserted ==
  ASSUME StoresInv, NEW k \in Calls, call[k].step = "upsert", points' = Upserted(k),
         NEW step \in Outcomes \cup {IF IsText(k) THEN "event" ELSE "index"},
         Goto(k, step),
         index' \in [Paths -> IndexRow],
         \A p \in Paths : index'[p].status = "ingested" => index'[p] = index[p],
         disk' = disk, events' = events, offered' = offered
  PROVE  StoresInv'
<1> DEFINE c2 == [call[k] EXCEPT !.step = step]
<1>1. /\ points' \in [PointIds -> Payload \cup {NoPoint}]
      /\ points'[CallPoint(k)] # NoPoint
      /\ \A id \in PointIds : points[id] # NoPoint => points'[id] # NoPoint
      /\ WorkspacePoints'
  BY UpsertedPoints
<1>2. /\ c2 \in CallRecord /\ c2.step = step /\ c2.path = call[k].path
      /\ c2.user = call[k].user /\ c2.scope = call[k].scope /\ c2.hash = call[k].hash
      /\ step # "upsert"
  <2>1. step \in Steps /\ step # "upsert"
    BY DEF Outcomes, Steps
  <2> QED BY <2>1, GotoRecord
<1>3. call' = [call EXCEPT ![k] = c2]
  BY DEF Goto
<1>4. call \in [Calls -> CallRecord]
  BY DEF StoresInv, IngestionTypeOK, CallRecord
<1> HIDE DEF c2
<1>5. call'[k] = c2 /\ \A j \in Calls \ {k} : call'[j] = call[j]
  BY <1>3, <1>4
<1>6. IngestionTypeOK'
  <2>1. call' \in [Calls -> CallRecord]
    BY <1>2, <1>3, <1>4
  <2> QED BY <1>1, <2>1 DEF StoresInv, IngestionTypeOK, CallRecord, IndexRow
<1>7. ASSUME NEW j \in Calls \ {k} PROVE CallShape(j)'
  <2>1. CallShape(j)
    BY DEF StoresInv
  <2>2. call[j].step \in {"index", "event"} => CallPoint(j) \in PointIds
    <3>1. CASE call[j].step = "index"
      BY <3>1, CallPointType
    <3>2. CASE call[j].step = "event"
      BY <3>2, <2>1 DEF CallShape, CallPoint, PointOwner, IsText, Working, PointIds
    <3> QED BY <3>1, <3>2
  <2> QED BY <1>1, <1>5, <2>1, <2>2 DEF CallShape, CallPoint, IsText
<1>8. CallShape(k)'
  <2>1. CallShape(k)
    BY DEF StoresInv
  <2>2. CallPoint(k)' = CallPoint(k) /\ IsText(k)' = IsText(k)
    BY <1>2, <1>5 DEF CallPoint, IsText
  <2>3. CASE step \in Outcomes
    BY <1>2, <1>5, <2>3 DEF CallShape, Outcomes, Working
  <2>4. CASE step = IF IsText(k) THEN "event" ELSE "index"
    <3>1. ~IsText(k) => call[k].path \in Paths
      BY <1>4 DEF IsText, CallRecord
    <3> QED BY <1>1, <1>2, <1>5, <2>1, <2>2, <2>4, <3>1 DEF CallShape, Working
  <2> QED BY <2>3, <2>4
<1>9. TextEvents' /\ IndexHashed'
  BY DEF StoresInv, TextEvents, IndexHashed
<1>10. RecordsBacked'
  <2>1. RecordsBacked
    BY DEF StoresInv
  <2>2. ASSUME NEW p \in Paths, index'[p].status = "ingested"
        PROVE  \E u \in Users : points'[<<u, index'[p].hash>>] # NoPoint
    <3>1. index'[p] = index[p] /\ index[p].hash \in Contents
      BY <2>2 DEF StoresInv, IndexHashed
    <3>2. PICK u \in Users : points[<<u, index[p].hash>>] # NoPoint
      BY <2>1, <2>2, <3>1 DEF RecordsBacked
    <3>3. <<u, index[p].hash>> \in PointIds
      BY <3>1 DEF PointIds
    <3> QED BY <1>1, <3>1, <3>2, <3>3
  <2>3. ASSUME NEW e \in events' PROVE points'[EventPoint(e)] # NoPoint
    <3>1. EventPoint(e) \in PointIds
      BY EventPointType
    <3> QED BY <1>1, <2>1, <3>1 DEF RecordsBacked
  <2> QED BY <2>2, <2>3 DEF RecordsBacked, EventPoint, PointOwner
<1> QED BY <1>1, <1>6, <1>7, <1>8, <1>9, <1>10 DEF StoresInv

\* Qdrant answered.
LEMMA UpsertPointsStep ==
  ASSUME StoresInv, NEW k \in Calls, UpsertPoints(k)
  PROVE  StoresInv'
BY IndexKept, StoresUpserted DEF UpsertPoints

\* Qdrant failed, before or after it wrote.
LEMMA UpsertFailsStep ==
  ASSUME StoresInv, NEW k \in Calls, UpsertFails(k)
  PROVE  StoresInv'
<1>1. PICK step \in {"raised", "failed"} :
        /\ Goto(k, step)
        /\ index' = index \/ (~IsText(k) /\ UpsertIndex(k, "error", NoFile))
  BY DEF UpsertFails
<1>2. step \in Outcomes
  BY DEF Outcomes
<1>3. ~IsText(k) => call[k].path \in Paths
  BY DEF IsText, StoresInv, IngestionTypeOK
<1>4. /\ index' \in [Paths -> IndexRow]
      /\ \A p \in Paths : index'[p].status = "ingested" => index'[p] = index[p]
  BY <1>1, <1>3, IndexKept, UpsertIndexType
<1>5. /\ call[k].step = "upsert" /\ points' \in {points, Upserted(k)}
      /\ disk' = disk /\ events' = events /\ offered' = offered
  BY DEF UpsertFails
<1>6. CASE points' = points
  BY <1>1, <1>2, <1>4, <1>5, <1>6, StoresEnded
<1>7. CASE points' = Upserted(k)
  BY <1>1, <1>2, <1>4, <1>5, <1>7, StoresUpserted
<1> QED BY <1>5, <1>6, <1>7

\* The index row is committed after the points.
LEMMA MarkIngestedStep ==
  ASSUME StoresInv, NEW k \in Calls, MarkIngested(k)
  PROVE  StoresInv'
<1> DEFINE c2 == [call[k] EXCEPT !.step = "event"]
           row == [status |-> "ingested", hash |-> call[k].hash]
<1>1. CallShape(k) /\ call[k].step = "index"
  BY DEF StoresInv, MarkIngested
<1>2. call[k].path \in Paths /\ call[k].hash \in Contents /\ call[k].user \in Users
  BY <1>1 DEF CallShape, Working
<1>3. /\ c2 \in CallRecord /\ c2.step = "event" /\ c2.path = call[k].path
      /\ c2.user = call[k].user /\ c2.scope = call[k].scope /\ c2.hash = call[k].hash
  BY GotoRecord DEF Steps
<1>4. call' = [call EXCEPT ![k] = c2]
  BY DEF MarkIngested, Goto
<1>5. call \in [Calls -> CallRecord] /\ index \in [Paths -> IndexRow]
  BY DEF StoresInv, IngestionTypeOK, CallRecord, IndexRow
<1>6. index' = [index EXCEPT ![call[k].path] = row]
  BY <1>2, IngestionAssumption DEF MarkIngested, UpsertIndex
<1>7. row \in IndexRow
  BY <1>2 DEF IndexRow
<1> HIDE DEF c2
<1>8. call'[k] = c2 /\ (\A j \in Calls \ {k} : call'[j] = call[j]) /\ call' \in [Calls -> CallRecord]
  BY <1>3, <1>4, <1>5
<1>9. UNCHANGED <<disk, points, events, offered>>
  BY DEF MarkIngested
<1>10. IngestionTypeOK'
  BY <1>5, <1>6, <1>7, <1>8, <1>9 DEF StoresInv, IngestionTypeOK, CallRecord, IndexRow
<1>11. ASSUME NEW j \in Calls PROVE CallShape(j)'
  <2>1. CallShape(j)
    BY DEF StoresInv
  <2>2. CASE j # k
    BY <1>8, <1>9, <2>1, <2>2 DEF CallShape, CallPoint, IsText
  <2>3. CASE j = k
    BY <1>1, <1>2, <1>3, <1>8, <1>9, <2>3, IngestionAssumption
       DEF CallShape, CallPoint, IsText, Working
  <2> QED BY <2>2, <2>3
<1>12. WorkspacePoints' /\ TextEvents'
  BY <1>9 DEF StoresInv, WorkspacePoints, TextEvents
<1>13. IndexHashed'
  BY <1>2, <1>5, <1>6 DEF StoresInv, IndexHashed
<1>14. RecordsBacked'
  <2>1. points[<<call[k].user, call[k].hash>>] # NoPoint
    BY <1>1, <1>2, CallPointType, IngestionAssumption DEF CallShape, IsText
  <2>2. ASSUME NEW p \in Paths, index'[p].status = "ingested"
        PROVE  \E u \in Users : points'[<<u, index'[p].hash>>] # NoPoint
    BY <1>2, <1>5, <1>6, <1>9, <2>1, <2>2 DEF StoresInv, RecordsBacked
  <2> QED BY <1>9, <2>2 DEF StoresInv, RecordsBacked, EventPoint
<1> QED BY <1>10, <1>11, <1>12, <1>13, <1>14 DEF StoresInv

\* The event is committed last, for a point that is still there.
LEMMA PersistEventStep ==
  ASSUME StoresInv, NEW k \in Calls, PersistEvent(k)
  PROVE  StoresInv'
<1> DEFINE c2 == [call[k] EXCEPT !.step = "ingested"]
           new == [path |-> call[k].path, user |-> call[k].user,
                   scope |-> call[k].scope, hash |-> call[k].hash]
<1>1. CallShape(k) /\ call[k].step = "event"
  BY DEF StoresInv, PersistEvent
<1>2. c2 \in CallRecord /\ c2.step = "ingested"
  BY GotoRecord DEF Steps, Outcomes
<1>3. call' = [call EXCEPT ![k] = c2]
  BY DEF PersistEvent, Goto
<1>4. call \in [Calls -> CallRecord]
  BY DEF StoresInv, IngestionTypeOK, CallRecord
<1> HIDE DEF c2
<1>5. call'[k] = c2 /\ (\A j \in Calls \ {k} : call'[j] = call[j]) /\ call' \in [Calls -> CallRecord]
  BY <1>2, <1>3, <1>4
<1>6. UNCHANGED <<disk, points, index, offered>> /\ events' = events \cup {new}
  BY DEF PersistEvent
<1>7. /\ new \in [path : Paths \cup {NoFile}, user : Users, scope : Scopes, hash : Contents]
      /\ new.path = NoFile => new.scope \in Workspaces
      /\ EventPoint(new) = CallPoint(k)
  BY <1>1, <1>4 DEF CallShape, Working, CallRecord, EventPoint, CallPoint, IsText
<1>8. IngestionTypeOK'
  BY <1>5, <1>6, <1>7 DEF StoresInv, IngestionTypeOK, CallRecord
<1>9. ASSUME NEW j \in Calls PROVE CallShape(j)'
  <2>1. CASE j # k
    BY <1>5, <1>6, <2>1 DEF StoresInv, CallShape, CallPoint, IsText
  <2>2. CASE j = k
    BY <1>2, <1>5, <2>2 DEF CallShape, Working
  <2> QED BY <2>1, <2>2
<1> HIDE DEF new
<1>10. WorkspacePoints' /\ TextEvents' /\ IndexHashed'
  BY <1>6, <1>7 DEF StoresInv, WorkspacePoints, TextEvents, IndexHashed
<1>11. RecordsBacked'
  <2>1. \A e \in events' : points[EventPoint(e)] # NoPoint
    BY <1>1, <1>6, <1>7 DEF CallShape, StoresInv, RecordsBacked
  <2> QED BY <1>6, <2>1 DEF StoresInv, RecordsBacked, EventPoint
<1> QED BY <1>8, <1>9, <1>10, <1>11 DEF StoresInv

\* Every step of a call keeps what the stores owe each other.
LEMMA IngestStepKeeps ==
  ASSUME StoresInv, NEW k \in Calls, IngestStep(k)
  PROVE  StoresInv'
BY HashFileStep, ExtractTextStep, UpsertPointsStep, UpsertFailsStep, MarkIngestedStep,
   PersistEventStep, DatabaseFailsStep DEF IngestStep

\* Calls begin and end, and files change, without touching the stores.
LEMMA CallsReplaced ==
  ASSUME StoresInv, UNCHANGED <<index, points, events>>,
         disk' \in [Paths -> Contents \cup {NoFile}],
         offered' \subseteq [user : Users, scope : Scopes, text : Contents],
         call' = [k \in Calls |-> call'[k]],
         \A k \in Calls :
           \/ call'[k] = call[k] \/ call'[k] = Idle
           \/ \E p \in Paths, u \in Users, s \in Scopes : call'[k] = Document(p, u, s)
           \/ \E u \in Users, w \in Workspaces, c \in Contents : call'[k] = SharedText(u, w, c)
  PROVE  StoresInv'
<1>1. call \in [Calls -> CallRecord]
  BY DEF StoresInv, IngestionTypeOK, CallRecord
<1>2. ASSUME NEW k \in Calls
      PROVE  call'[k] \in CallRecord /\ CallShape(k)'
  <2>1. CallShape(k)
    BY DEF StoresInv
  <2>2. CASE call'[k] = call[k]
    BY <1>1, <2>1, <2>2 DEF CallShape, CallPoint, IsText
  <2>3. CASE call'[k] = Idle
    BY <2>3 DEF CallShape, Idle, Working, CallRecord, Steps, Scopes
  <2>4. ASSUME NEW p \in Paths, NEW u \in Users, NEW s \in Scopes, call'[k] = Document(p, u, s)
        PROVE  call'[k] \in CallRecord /\ CallShape(k)'
    BY <2>4 DEF CallShape, Idle, Document, Working, CallRecord, Steps
  <2>5. ASSUME NEW u \in Users, NEW w \in Workspaces, NEW c \in Contents,
               call'[k] = SharedText(u, w, c)
        PROVE  call'[k] \in CallRecord /\ CallShape(k)'
    BY <2>5 DEF CallShape, Idle, SharedText, Working, CallRecord, Steps, Scopes
  <2> QED BY <2>2, <2>3, <2>4, <2>5
<1>3. IngestionTypeOK'
  BY <1>2 DEF StoresInv, IngestionTypeOK, CallRecord
<1>4. WorkspacePoints' /\ TextEvents' /\ IndexHashed' /\ RecordsBacked'
  BY DEF StoresInv, WorkspacePoints, TextEvents, IndexHashed, RecordsBacked, EventPoint
<1> QED BY <1>2, <1>3, <1>4 DEF StoresInv

\* What was shared with a workspace is what its members find there.
LEMMA SharedTextFound == StoresInv => SharedTextRetrievable
<1> SUFFICES ASSUME StoresInv, NEW e \in events, e.path = NoFile,
                    NEW r \in Users, e.scope \in MemberOf[r]
             PROVE  e.hash \in Retrieved(r)
  BY DEF SharedTextRetrievable
<1> DEFINE id == <<e.scope, e.hash>>
<1>1. e.scope \in Workspaces /\ e.hash \in Contents
  BY DEF StoresInv, TextEvents, IngestionTypeOK
<1>2. id \in PointIds /\ points[id] # NoPoint
  BY <1>1 DEF PointIds, StoresInv, RecordsBacked, EventPoint, PointOwner
<1>3. points[id].text = e.hash /\ points[id].scope = e.scope
  BY <1>1, <1>2 DEF StoresInv, WorkspacePoints
<1> QED BY <1>2, <1>3 DEF Retrieved, InScope

-----------------------------------------------------------------------------
(* Who offered what.                                                       *)

Offered(u, s, t) == [user |-> u, scope |-> s, text |-> t] \in offered

\* Everything on its way to Qdrant, or in it, was offered by that user to that scope.
OfferInv ==
  /\ \A id \in PointIds : points[id] # NoPoint =>
       Offered(points[id].user, points[id].scope, points[id].text)
  /\ \A k \in Calls :
       LET c == call[k] IN
       /\ c.step = "upsert" => Offered(c.user, c.scope, c.text)
       /\ c.step \in {"hash", "extract"} /\ disk[c.path] # NoFile =>
            Offered(c.user, c.scope, disk[c.path])

\* A call keeps its document, and takes its text from the file.
LEMMA CallKeepsDocument ==
  ASSUME StoresInv, NEW k \in Calls, IngestStep(k)
  PROVE  /\ call' = [j \in Calls |-> call'[j]]
         /\ \A j \in Calls \ {k} : call'[j] = call[j]
         /\ call'[k].user = call[k].user /\ call'[k].scope = call[k].scope
         /\ call'[k].path = call[k].path
         /\ call'[k].step \in {"hash", "extract"} => call[k].step \in {"hash", "extract"}
         /\ call'[k].step = "upsert" =>
              /\ call[k].step = "extract"
              /\ call'[k].text = disk[call[k].path] /\ disk[call[k].path] # NoFile
<1>1. call \in [Calls -> CallRecord]
  BY DEF StoresInv, IngestionTypeOK, CallRecord
<1>2. ASSUME NEW step \in Outcomes \cup {"index", "event"}, Goto(k, step)
      PROVE  /\ call' = [j \in Calls |-> call'[j]]
             /\ \A j \in Calls \ {k} : call'[j] = call[j]
             /\ call'[k].user = call[k].user /\ call'[k].scope = call[k].scope
             /\ call'[k].path = call[k].path /\ call'[k].step = step
  BY <1>1, <1>2 DEF Goto, CallRecord
<1>3. \A step \in Outcomes \cup {"index", "event"} : step \notin {"hash", "extract", "upsert"}
  BY DEF Outcomes
<1>4. CASE HashFile(k)
  BY <1>1, <1>2, <1>3, <1>4 DEF HashFile, CallRecord, Outcomes
<1>5. CASE ExtractText(k)
  BY <1>1, <1>2, <1>3, <1>5 DEF ExtractText, CallRecord, Outcomes
<1>6. CASE UpsertPoints(k)
  BY <1>2, <1>3, <1>6 DEF UpsertPoints
<1>7. CASE UpsertFails(k) \/ DatabaseFails(k) \/ PersistEvent(k)
  BY <1>2, <1>3, <1>7 DEF UpsertFails, DatabaseFails, PersistEvent, Outcomes
<1>8. CASE MarkIngested(k)
  BY <1>2, <1>3, <1>8 DEF MarkIngested
<1> QED BY <1>4, <1>5, <1>6, <1>7, <1>8 DEF IngestStep

\* The steps of a call carry a text with the user and the scope it was offered for.
LEMMA IngestStepOffers ==
  ASSUME StoresInv, OfferInv, NEW k \in Calls, IngestStep(k)
  PROVE  OfferInv'
<1>1. call \in [Calls -> CallRecord] /\ points \in [PointIds -> Payload \cup {NoPoint}]
  BY DEF StoresInv, IngestionTypeOK, CallRecord
<1>2. disk' = disk /\ offered' = offered
  BY DEF IngestStep, HashFile, ExtractText, UpsertPoints, UpsertFails, MarkIngested,
         PersistEvent, DatabaseFails
<1>3. \/ points' = points
      \/ call[k].step = "upsert" /\ points' = Upserted(k)
  BY DEF IngestStep, HashFile, ExtractText, UpsertPoints, UpsertFails, MarkIngested,
         PersistEvent, DatabaseFails
<1>5. \A id \in PointIds : points'[id] # NoPoint =>
         Offered(points'[id].user, points'[id].scope, points'[id].text)
  <2>1. CASE points' = points
    BY <2>1 DEF OfferInv
  <2>2. CASE call[k].step = "upsert" /\ points' = Upserted(k)
    <3>1. CallPoint(k) \in PointIds
      BY <2>2, CallPointType
    <3>2. points' = [points EXCEPT ![CallPoint(k)] =
                       [text |-> call[k].text, user |-> call[k].user, scope |-> call[k].scope]]
      BY <2>2 DEF Upserted, CallPoint
    <3> QED BY <1>1, <2>2, <3>1, <3>2 DEF OfferInv
  <2> QED BY <1>3, <2>1, <2>2
<1>6. ASSUME NEW j \in Calls
      PROVE  LET c == call'[j] IN
             /\ c.step = "upsert" => Offered(c.user, c.scope, c.text)
             /\ c.step \in {"hash", "extract"} /\ disk[c.path] # NoFile =>
                  Offered(c.user, c.scope, disk[c.path])
  <2>1. CASE j # k
    <3>1. call'[j] = call[j]
      BY <2>1, CallKeepsDocument
    <3> QED BY <3>1 DEF OfferInv
  <2>2. CASE j = k
    <3>1. /\ call'[k].user = call[k].user /\ call'[k].scope = call[k].scope
          /\ call'[k].path = call[k].path
          /\ call'[k].step \in {"hash", "extract"} => call[k].step \in {"hash", "extract"}
          /\ call'[k].step = "upsert" =>
               /\ call[k].step = "extract"
               /\ call'[k].text = disk[call[k].path] /\ disk[call[k].path] # NoFile
      BY CallKeepsDocument
    <3> QED BY <2>2, <3>1 DEF OfferInv
  <2> QED BY <2>1, <2>2
<1> QED BY <1>2, <1>5, <1>6 DEF OfferInv, Offered

\* Retrieval gives a reader only what was offered to him or to a workspace of his.
LEMMA RetrievalFollowsOffers == StoresInv /\ OfferInv => RetrievalAllowed
<1> SUFFICES ASSUME StoresInv, OfferInv, NEW r \in Users, NEW c \in Retrieved(r)
             PROVE  \E o \in offered :
                      /\ o.text = c
                      /\ (o.user = r /\ o.scope = Private) \/ o.scope \in MemberOf[r]
  BY DEF RetrievalAllowed
<1>1. PICK id \in PointIds : points[id] # NoPoint /\ InScope(r, points[id]) /\ c = points[id].text
  BY DEF Retrieved
<1>2. Offered(points[id].user, points[id].scope, points[id].text)
  BY <1>1 DEF OfferInv
<1> QED BY <1>1, <1>2 DEF Offered, InScope
=============================================================================
