---------------------------- MODULE UploadsProofs ----------------------------
(***************************************************************************)
(* Proofs about Uploads, for every set of requests, worker processes,      *)
(* archives and contents: what is indexed, and who retrieves it; then, by  *)
(* a second invariant, who holds the slots, what stays in the upload       *)
(* directory, and what a reply counts.                                     *)
(***************************************************************************)
EXTENDS Uploads, IngestionProofs, SequenceTheorems, FiniteSetTheorems

Archive == [kind : Kinds, files : Seq(Contents)]
Counts == [Outcomes -> Nat]
Replies == {0, 200, 400, 413, 500}
UploadRecord ==
  [step : UploadSteps, worker : Workers \cup {NoFile}, archive : Archive,
   user : Users \cup {NoFile}, scope : Scopes, count : Counts,
   status : Replies]

Begun(k) == upload[k].step # "none"

\* A request stands for a user who offered the files of her archive.
RequestShape(k) ==
  LET x == upload[k] IN
  /\ Len(x.archive.files) <= MaxFiles
  /\ Begun(k) => /\ x.user \in Users /\ x.worker \in Workers
                 /\ \A i \in 1..Len(x.archive.files) : Offered(x.user, x.scope, x.archive.files[i])

\* A staged file is one of its request's archive.
FilesShape(k) ==
  \A i \in 1..MaxFiles : disk[<<k, i>>] # NoFile =>
    Begun(k) /\ Offered(upload[k].user, upload[k].scope, disk[<<k, i>>])

\* The document a request ingests is its own.
OwnCall(k) ==
  call[k].step \in {"hash", "extract"} =>
    /\ Begun(k) /\ call[k].user = upload[k].user /\ call[k].scope = upload[k].scope
    /\ \E i \in 1..MaxFiles : call[k].path = <<k, i>>

WaitersBegun ==
  \A w \in Workers : \A i \in 1..Len(waiting[w]) : upload[waiting[w][i]].step # "none"

UploadInv ==
  /\ upload \in [Calls -> UploadRecord]
  /\ waiting \in [Workers -> Seq(Calls)]
  /\ WaitersBegun
  /\ \A k \in Calls : RequestShape(k) /\ FilesShape(k) /\ OwnCall(k)

FullInv == StoresInv /\ OfferInv /\ UploadInv

-----------------------------------------------------------------------------
(* Steps that move requests on.                                            *)

\* What a request is about does not change while it is handled.
Carried(k) ==
  /\ upload'[k].step # "none"
  /\ upload'[k].user = upload[k].user /\ upload'[k].scope = upload[k].scope
  /\ upload'[k].archive = upload[k].archive /\ upload'[k].worker = upload[k].worker

Moved ==
  /\ upload' \in [Calls -> UploadRecord]
  /\ waiting' \in [Workers -> Seq(Calls)]
  /\ WaitersBegun'
  /\ \A k \in Calls : IF Begun(k) THEN Carried(k) ELSE upload'[k] = upload[k]

\* What may stand for upload[k] after a step of request k.
Onward(k, entry) ==
  /\ entry \in UploadRecord /\ entry.step # "none"
  /\ entry.user = upload[k].user /\ entry.scope = upload[k].scope
  /\ entry.archive = upload[k].archive /\ entry.worker = upload[k].worker

\* A request that goes one step on.
LEMMA Stepped ==
  ASSUME NEW x \in UploadRecord, NEW step \in UploadSteps
  PROVE  /\ [x EXCEPT !.step = step] \in UploadRecord
         /\ [x EXCEPT !.step = step].step = step
         /\ [x EXCEPT !.step = step].user = x.user /\ [x EXCEPT !.step = step].scope = x.scope
         /\ [x EXCEPT !.step = step].archive = x.archive /\ [x EXCEPT !.step = step].worker = x.worker
         /\ [x EXCEPT !.step = step].count = x.count /\ [x EXCEPT !.step = step].status = x.status
BY DEF UploadRecord

\* A request that is answered.
LEMMA AnswerOnward ==
  ASSUME UploadInv, NEW k \in Calls, NEW status \in Replies
  PROVE  Onward(k, Answer(k, status))
<1> DEFINE y == [upload[k] EXCEPT !.step = "answered"]
           z == Answer(k, status)
<1>1. upload[k] \in UploadRecord /\ "answered" \in UploadSteps
  BY DEF UploadInv, UploadSteps
<1>2. /\ y \in UploadRecord /\ y.step = "answered"
      /\ y.user = upload[k].user /\ y.scope = upload[k].scope
      /\ y.archive = upload[k].archive /\ y.worker = upload[k].worker
  BY <1>1, Stepped
<1> HIDE DEF y
<1>3. z = [y EXCEPT !.status = status]
  BY DEF y, Answer
<1> HIDE DEF z
<1>4. /\ z \in UploadRecord /\ z.step = y.step
      /\ z.user = y.user /\ z.scope = y.scope /\ z.archive = y.archive /\ z.worker = y.worker
  BY <1>2, <1>3 DEF UploadRecord
<1>5. Onward(k, z)
  BY <1>2, <1>4 DEF Onward
<1> QED BY <1>5 DEF z

\* One request moves.
LEMMA EditMoves ==
  ASSUME UploadInv, NEW k \in Calls, Begun(k), NEW entry, Onward(k, entry),
         upload' = [upload EXCEPT ![k] = entry], waiting' = waiting
  PROVE  Moved
<1>1. upload'[k] = entry /\ \A j \in Calls \ {k} : upload'[j] = upload[j]
  BY DEF UploadInv
<1>2. upload' \in [Calls -> UploadRecord]
  BY DEF UploadInv, Onward
<1>3. \A j \in Calls : IF Begun(j) THEN Carried(j) ELSE upload'[j] = upload[j]
  BY <1>1 DEF Onward, Carried, Begun
<1>4. WaitersBegun'
  <2> SUFFICES ASSUME NEW w \in Workers, NEW i \in 1..Len(waiting[w])
               PROVE  upload'[waiting[w][i]].step # "none"
    BY DEF WaitersBegun
  <2>1. waiting[w] \in Seq(Calls) /\ upload[waiting[w][i]].step # "none"
    BY DEF UploadInv, WaitersBegun
  <2>2. waiting[w][i] \in Calls
    BY <2>1, ElementOfSeq
  <2> QED BY <1>3, <2>1, <2>2 DEF Carried, Begun
<1> QED BY <1>2, <1>3, <1>4 DEF Moved, UploadInv

\* What popping the first of a queue gives.
LEMMA QueueHead ==
  ASSUME NEW S, NEW s \in Seq(S), s # <<>>
  PROVE  /\ Head(s) \in S /\ 1 \in 1..Len(s) /\ Head(s) = s[1]
         /\ Tail(s) \in Seq(S)
         /\ \A i \in 1..Len(Tail(s)) : i + 1 \in 1..Len(s) /\ Tail(s)[i] = s[i + 1]
<1>1. Len(s) \in Nat \ {0}
  BY EmptySeq
<1>2. Head(s) = s[1]
  OBVIOUS
<1>3. Len(Tail(s)) = Len(s) - 1
  BY HeadTailProperties
<1>4. 1 \in 1..Len(s) /\ \A i \in 1..Len(Tail(s)) : i + 1 \in 1..Len(s)
  BY <1>1, <1>3
<1> QED BY <1>2, <1>4, HeadTailProperties

\* One request ends and the next in line gets its slot.
LEMMA ReleaseMoves ==
  ASSUME UploadInv, NEW k \in Calls, Begun(k), NEW entry, Onward(k, entry), Release(k, entry)
  PROVE  Moved
<1> DEFINE w == upload[k].worker
<1>1. w \in Workers
  BY DEF UploadInv, RequestShape
<1>2. CASE waiting[w] = <<>>
  BY <1>2, EditMoves DEF Release
<1>3. CASE waiting[w] # <<>>
  <2> DEFINE h == Head(waiting[w])
             edited == [upload EXCEPT ![k] = entry]
  <2>1. waiting[w] \in Seq(Calls) /\ h \in Calls /\ Begun(h)
    <3>1. waiting[w] \in Seq(Calls)
      BY <1>1 DEF UploadInv
    <3>2. h \in Calls /\ h = waiting[w][1] /\ 1 \in 1..Len(waiting[w])
      BY <1>3, <3>1, QueueHead
    <3> QED BY <1>1, <3>1, <3>2 DEF UploadInv, WaitersBegun, Begun
  <2>2. /\ upload' = [edited EXCEPT ![h].step = "stream"]
        /\ waiting' = [waiting EXCEPT ![w] = Tail(@)]
    BY <1>3 DEF Release
  <2>3. /\ edited \in [Calls -> UploadRecord] /\ edited[k] = entry
        /\ \A j \in Calls \ {k} : edited[j] = upload[j]
    BY DEF UploadInv, Onward
  <2> HIDE DEF edited
  <2>4. /\ upload'[h] = [edited[h] EXCEPT !.step = "stream"]
        /\ \A j \in Calls \ {h} : upload'[j] = edited[j]
    BY <2>1, <2>2, <2>3
  <2>5. /\ upload'[h] \in UploadRecord /\ upload'[h].step = "stream"
        /\ upload'[h].user = edited[h].user /\ upload'[h].scope = edited[h].scope
        /\ upload'[h].archive = edited[h].archive /\ upload'[h].worker = edited[h].worker
    <3>1. "stream" \in UploadSteps /\ edited[h] \in UploadRecord
      BY <2>1, <2>3 DEF UploadSteps, Holding
    <3> HIDE DEF UploadRecord
    <3> QED BY <2>4, <3>1, Stepped
  <2>6. \A j \in Calls : IF Begun(j) THEN Carried(j) ELSE upload'[j] = upload[j]
    <3>1. ASSUME NEW j \in Calls \ {h} PROVE IF Begun(j) THEN Carried(j) ELSE upload'[j] = upload[j]
      BY <2>3, <2>4 DEF Onward, Carried, Begun
    <3>2. /\ edited[h].user = upload[h].user /\ edited[h].scope = upload[h].scope
          /\ edited[h].archive = upload[h].archive /\ edited[h].worker = upload[h].worker
      BY <2>1, <2>3 DEF Onward
    <3>3. Carried(h)
      BY <2>5, <3>2 DEF Carried, Begun
    <3> QED BY <2>1, <3>1, <3>3
  <2>10. upload' \in [Calls -> UploadRecord]
    BY <2>1, <2>2, <2>3, <2>4, <2>5
  <2>7. /\ Tail(waiting[w]) \in Seq(Calls)
        /\ \A i \in 1..Len(Tail(waiting[w])) :
             i + 1 \in 1..Len(waiting[w]) /\ Tail(waiting[w])[i] = waiting[w][i + 1]
    BY <1>3, <2>1, QueueHead
  <2>8. waiting' \in [Workers -> Seq(Calls)]
    BY <2>2, <2>7 DEF UploadInv
  <2>9. WaitersBegun'
    <3> SUFFICES ASSUME NEW v \in Workers, NEW i \in 1..Len(waiting'[v])
                 PROVE  upload'[waiting'[v][i]].step # "none"
      BY DEF WaitersBegun
    <3>1. PICK n \in 1..Len(waiting[v]) : waiting'[v][i] = waiting[v][n]
      <4>1. CASE v = w
        <5>1. waiting'[v] = Tail(waiting[w])
          BY <1>1, <2>2, <4>1 DEF UploadInv
        <5> QED BY <2>7, <4>1, <5>1
      <4>2. CASE v # w
        <5>1. waiting'[v] = waiting[v]
          BY <2>2, <4>2 DEF UploadInv
        <5> QED BY <5>1
      <4> QED BY <4>1, <4>2
    <3>2. waiting[v] \in Seq(Calls) /\ upload[waiting[v][n]].step # "none"
      BY DEF UploadInv, WaitersBegun
    <3>3. waiting[v][n] \in Calls
      BY <3>2, ElementOfSeq
    <3> QED BY <2>6, <3>1, <3>2, <3>3 DEF Carried, Begun
  <2> QED BY <2>6, <2>8, <2>9, <2>10 DEF Moved
<1> QED BY <1>2, <1>3

\* Requests that move on stay what they are, with files and calls of their own.
LEMMA MovedKeeps ==
  ASSUME UploadInv, Moved, offered' = offered,
         \A k \in Calls, i \in 1..MaxFiles :
           \/ disk'[<<k, i>>] \in {NoFile, disk[<<k, i>>]}
           \/ Begun(k) /\ Offered(upload[k].user, upload[k].scope, disk'[<<k, i>>]),
         \A k \in Calls : call'[k].step \in {"hash", "extract"} =>
           \/ /\ call[k].step \in {"hash", "extract"} /\ call'[k].path = call[k].path
              /\ call'[k].user = call[k].user /\ call'[k].scope = call[k].scope
           \/ /\ Begun(k) /\ call'[k].user = upload[k].user /\ call'[k].scope = upload[k].scope
              /\ \E i \in 1..MaxFiles : call'[k].path = <<k, i>>
  PROVE  UploadInv'
<1>1. ASSUME NEW k \in Calls
      PROVE  RequestShape(k)' /\ FilesShape(k)' /\ OwnCall(k)'
  <2>1. RequestShape(k) /\ FilesShape(k) /\ OwnCall(k)
    BY DEF UploadInv
  <2>2. /\ IF Begun(k) THEN Carried(k) ELSE upload'[k] = upload[k]
        /\ Begun(k)' <=> Begun(k)
        /\ upload'[k].user = upload[k].user /\ upload'[k].scope = upload[k].scope
        /\ upload'[k].archive = upload[k].archive /\ upload'[k].worker = upload[k].worker
    BY DEF Moved, Carried, Begun
  <2>3. RequestShape(k)'
    BY <2>1, <2>2 DEF RequestShape, Offered
  <2>4. FilesShape(k)'
    BY <2>1, <2>2 DEF FilesShape, Offered
  <2>5. OwnCall(k)'
    BY <2>1, <2>2 DEF OwnCall
  <2> QED BY <2>3, <2>4, <2>5
<1> QED BY <1>1 DEF Moved, UploadInv

\* What is on its way stays offered if files and calls are the requests' own.
LEMMA OffersKept ==
  ASSUME OfferInv, UploadInv', points' = points, offered \subseteq offered',
         \A k \in Calls : call'[k].step = "upsert" =>
           \/ call'[k] = call[k]
           \/ [user |-> call'[k].user, scope |-> call'[k].scope, text |-> call'[k].text] \in offered'
  PROVE  OfferInv'
<1>1. \A id \in PointIds : points'[id] # NoPoint =>
         [user |-> points'[id].user, scope |-> points'[id].scope, text |-> points'[id].text] \in offered'
  BY DEF OfferInv, Offered
<1>2. ASSUME NEW k \in Calls, call'[k].step = "upsert"
      PROVE  [user |-> call'[k].user, scope |-> call'[k].scope, text |-> call'[k].text] \in offered'
  BY <1>2 DEF OfferInv, Offered
<1>3. ASSUME NEW k \in Calls, call'[k].step \in {"hash", "extract"}, disk'[call'[k].path] # NoFile
      PROVE  [user |-> call'[k].user, scope |-> call'[k].scope,
              text |-> disk'[call'[k].path]] \in offered'
  <2>1. OwnCall(k)' /\ FilesShape(k)'
    BY DEF UploadInv
  <2>2. PICK i \in 1..MaxFiles : call'[k].path = <<k, i>>
    BY <1>3, <2>1 DEF OwnCall
  <2>3. call'[k].user = upload'[k].user /\ call'[k].scope = upload'[k].scope
    BY <1>3, <2>1 DEF OwnCall
  <2> QED BY <1>3, <2>1, <2>2, <2>3 DEF FilesShape, Offered
<1> QED BY <1>1, <1>2, <1>3 DEF OfferInv, Offered

\* A step of the staging, the semaphore or the loop over an archive.
LEMMA StagingStep ==
  ASSUME FullInv, Moved, UNCHANGED <<index, points, events, offered>>,
         disk' \in [Paths -> Contents \cup {NoFile}],
         \A k \in Calls, i \in 1..MaxFiles :
           \/ disk'[<<k, i>>] \in {NoFile, disk[<<k, i>>]}
           \/ Begun(k) /\ Offered(upload[k].user, upload[k].scope, disk'[<<k, i>>]),
         call' = [k \in Calls |-> call'[k]],
         \A k \in Calls :
           \/ call'[k] = call[k] \/ call'[k] = Idle
           \/ Begun(k) /\ \E i \in 1..MaxFiles :
                call'[k] = Document(<<k, i>>, upload[k].user, upload[k].scope)
  PROVE  FullInv'
<1>1. \A k \in Calls : Begun(k) => upload[k].user \in Users /\ upload[k].scope \in Scopes
  BY DEF FullInv, UploadInv, RequestShape, UploadRecord
<1>2. \A k \in Calls, i \in 1..MaxFiles : <<k, i>> \in Paths
  BY UploadsAssumption
<1>3. StoresInv'
  <2>1. offered' \subseteq [user : Users, scope : Scopes, text : Contents]
    BY DEF FullInv, StoresInv, IngestionTypeOK
  <2>2. \A k \in Calls :
           \/ call'[k] = call[k] \/ call'[k] = Idle
           \/ \E p \in Paths, u \in Users, s \in Scopes : call'[k] = Document(p, u, s)
    BY <1>1, <1>2
  <2> QED BY <2>1, <2>2, CallsReplaced DEF FullInv
<1>4. ASSUME NEW k \in Calls
      PROVE  /\ call'[k].step = "upsert" => call'[k] = call[k]
             /\ call'[k].step \in {"hash", "extract"} =>
                  \/ /\ call[k].step \in {"hash", "extract"} /\ call'[k].path = call[k].path
                     /\ call'[k].user = call[k].user /\ call'[k].scope = call[k].scope
                  \/ /\ Begun(k) /\ call'[k].user = upload[k].user
                     /\ call'[k].scope = upload[k].scope
                     /\ \E i \in 1..MaxFiles : call'[k].path = <<k, i>>
  <2>1. CASE call'[k] = call[k]
    BY <2>1
  <2>2. CASE call'[k] = Idle
    BY <2>2 DEF Idle
  <2>3. ASSUME Begun(k), NEW i \in 1..MaxFiles,
               call'[k] = Document(<<k, i>>, upload[k].user, upload[k].scope)
        PROVE  /\ call'[k].step = "hash" /\ call'[k].path = <<k, i>>
               /\ call'[k].user = upload[k].user /\ call'[k].scope = upload[k].scope
    BY <2>3 DEF Idle, Document
  <2> QED BY <2>1, <2>2, <2>3
<1>7. UploadInv'
  BY <1>4, MovedKeeps DEF FullInv
<1>8. offered \subseteq offered'
  OBVIOUS
<1>9. OfferInv'
  BY <1>4, <1>7, <1>8, OffersKept DEF FullInv
<1> QED BY <1>3, <1>7, <1>9 DEF FullInv

\* The same when neither files nor calls change.
LEMMA QuietStep ==
  ASSUME FullInv, Moved, UNCHANGED docVars
  PROVE  FullInv'
<1>1. /\ disk' \in [Paths -> Contents \cup {NoFile}] /\ call' = [k \in Calls |-> call'[k]]
      /\ UNCHANGED <<index, points, events, offered>> /\ disk' = disk /\ call' = call
  BY DEF FullInv, StoresInv, IngestionTypeOK, docVars
<1> QED BY <1>1, StagingStep

\* A request that ends with an error.
LEMMA FailsStep ==
  ASSUME FullInv, NEW k \in Calls, Begun(k), NEW status \in Replies,
         Fails(k, status), UNCHANGED <<index, points, events, offered>>
  PROVE  FullInv'
<1>1. Onward(k, Answer(k, status))
  BY AnswerOnward DEF FullInv
<1>2. Release(k, Answer(k, status)) /\ UNCHANGED <<disk, call>>
  BY DEF Fails
<1> QED BY <1>1, <1>2, ReleaseMoves, QuietStep DEF FullInv, docVars

\* A request that goes one step on and keeps its slot.
LEMMA StepMoves ==
  ASSUME UploadInv, NEW k \in Calls, Begun(k), NEW step \in UploadSteps \ {"none"},
         upload' = [upload EXCEPT ![k].step = step], waiting' = waiting
  PROVE  Moved
<1> DEFINE entry == [upload[k] EXCEPT !.step = step]
<1>1. upload[k] \in UploadRecord
  BY DEF UploadInv
<1>2. Onward(k, entry)
  BY <1>1, Stepped DEF Onward
<1>3. upload' = [upload EXCEPT ![k] = entry]
  OBVIOUS
<1> HIDE DEF entry
<1> QED BY <1>2, <1>3, EditMoves

\* The end of an archive: an answer, or the audit row.
LEMMA ProcessedMoves ==
  ASSUME UploadInv, NEW k \in Calls, Begun(k), NEW entry, Onward(k, entry), Processed(k, entry)
  PROVE  Moved
<1> DEFINE y == [entry EXCEPT !.step = "answered"]
           z == [entry EXCEPT !.step = "answered", !.status = 200]
           audit == [entry EXCEPT !.step = "audit"]
<1>1. entry \in UploadRecord /\ {"answered", "audit"} \subseteq UploadSteps
  BY DEF Onward, UploadSteps
<1>2. y \in UploadRecord /\ y.step = "answered" /\ Onward(k, audit)
      /\ y.user = entry.user /\ y.scope = entry.scope
      /\ y.archive = entry.archive /\ y.worker = entry.worker
  BY <1>1, Stepped DEF Onward
<1> HIDE DEF y
<1>3. z = [y EXCEPT !.status = 200]
  BY DEF y
<1>4. Release(k, z) \/ Release(k, audit)
  BY DEF Processed
<1> HIDE DEF z, audit
<1>5. /\ z \in UploadRecord /\ z.step = y.step
      /\ z.user = y.user /\ z.scope = y.scope /\ z.archive = y.archive /\ z.worker = y.worker
  BY <1>2, <1>3 DEF UploadRecord, Replies
<1>6. Onward(k, z)
  BY <1>2, <1>5 DEF Onward
<1> QED BY <1>2, <1>4, <1>6, ReleaseMoves

-----------------------------------------------------------------------------
(* The steps of a request.                                                 *)

\* The archive is being received.
LEMMA StreamStep ==
  ASSUME FullInv, NEW k \in Calls, Stream(k)
  PROVE  FullInv'
<1>1. Begun(k) /\ "copy" \in UploadSteps \ {"none"}
  BY DEF Stream, Begun, UploadSteps, Holding
<1> QED BY <1>1, StepMoves, QuietStep DEF Stream, FullInv

\* The incoming file is complete, or is removed.
LEMMA CopyStep ==
  ASSUME FullInv, NEW k \in Calls, Copy(k)
  PROVE  FullInv'
<1>1. Begun(k) /\ "stage" \in UploadSteps \ {"none"} /\ {413, 500} \subseteq Replies
  BY DEF Copy, Begun, UploadSteps, Holding, Replies
<1>2. UNCHANGED <<index, points, events, offered>>
  BY DEF Copy
<1>3. CASE Fails(k, 500) \/ Fails(k, 413)
  BY <1>1, <1>2, <1>3, FailsStep
<1>4. CASE upload' = [upload EXCEPT ![k].step = "stage"] /\ UNCHANGED <<disk, call, slots, waiting, incoming>>
  BY <1>1, <1>2, <1>4, StepMoves, QuietStep DEF FullInv, docVars
<1> QED BY <1>3, <1>4 DEF Copy

\* The archive moves into its batch directory, or the request is refused.
LEMMA StageStep ==
  ASSUME FullInv, NEW k \in Calls, Stage(k)
  PROVE  FullInv'
<1>1. Begun(k) /\ "extract" \in UploadSteps \ {"none"} /\ {400, 500} \subseteq Replies
  BY DEF Stage, Begun, UploadSteps, Holding, Replies
<1>2. UNCHANGED <<index, points, events, offered>>
  BY DEF Stage
<1>3. CASE Fails(k, 500) \/ Fails(k, 400)
  BY <1>1, <1>2, <1>3, FailsStep
<1>4. CASE upload' = [upload EXCEPT ![k].step = "extract"] /\ UNCHANGED <<disk, call, slots, waiting>>
  BY <1>1, <1>2, <1>4, StepMoves, QuietStep DEF FullInv, docVars
<1> QED BY <1>3, <1>4 DEF Stage

\* The audit row touches no document.
LEMMA AuditStep ==
  ASSUME FullInv, NEW k \in Calls, Audit(k)
  PROVE  FullInv'
<1>1. PICK status \in {200, 500} : upload' = [upload EXCEPT ![k] = Answer(k, status)]
  BY DEF Audit
<1>2. Begun(k) /\ status \in Replies /\ waiting' = waiting /\ UNCHANGED docVars
  BY DEF Audit, Begun, Replies, staging
<1>3. Onward(k, Answer(k, status))
  BY <1>2, AnswerOnward DEF FullInv
<1>4. Moved
  BY <1>1, <1>2, <1>3, EditMoves DEF FullInv
<1> QED BY <1>2, <1>4, QuietStep

\* The call of a shared text returns.
LEMMA TextDoneStep ==
  ASSUME FullInv, NEW k \in Calls, TextDone(k)
  PROVE  FullInv'
<1> DEFINE status == IF call[k].step = "ingested" THEN 200 ELSE 500
<1>1. /\ Begun(k) /\ status \in Replies /\ waiting' = waiting
      /\ upload' = [upload EXCEPT ![k] = Answer(k, status)]
      /\ call' = [call EXCEPT ![k] = Idle]
      /\ UNCHANGED <<disk, index, points, events, offered>>
  BY DEF TextDone, Begun, Replies, staging
<1>2. Onward(k, Answer(k, status))
  BY <1>1, AnswerOnward DEF FullInv
<1>3. Moved
  BY <1>1, <1>2, EditMoves DEF FullInv
<1>4. call \in [Calls -> CallRecord] /\ disk \in [Paths -> Contents \cup {NoFile}]
  BY DEF FullInv, StoresInv, IngestionTypeOK, CallRecord
<1>5. /\ call' = [j \in Calls |-> call'[j]]
      /\ \A j \in Calls : call'[j] = call[j] \/ call'[j] = Idle
  BY <1>1, <1>4
<1> QED BY <1>1, <1>3, <1>4, <1>5, StagingStep

\* The files of a batch are those of the archive, offered when it was received.
LEMMA ExtractStep ==
  ASSUME FullInv, NEW k \in Calls, Extract(k)
  PROVE  FullInv'
<1> DEFINE zip == upload[k].archive
<1>1. /\ Begun(k) /\ {400, 500} \subseteq Replies
      /\ UNCHANGED <<index, points, events, offered>>
  BY DEF Extract, Begun, Replies
<1>2. CASE Fails(k, 500) \/ Fails(k, 400)
  BY <1>1, <1>2, FailsStep
<1>3. CASE /\ disk' = [p \in Paths |-> IF p \in FilesOf(k) THEN zip.files[p[2]] ELSE disk[p]]
           /\ IF zip.files = <<>>
              THEN Processed(k, upload[k]) /\ UNCHANGED call
              ELSE /\ upload' = [upload EXCEPT ![k].step = "ingest"]
                   /\ call' = [call EXCEPT ![k] = Document(<<k, 1>>, upload[k].user, upload[k].scope)]
                   /\ UNCHANGED <<slots, waiting>>
  <2>1. upload[k] \in UploadRecord /\ RequestShape(k)
    BY DEF FullInv, UploadInv
  <2>2. zip.files \in Seq(Contents) /\ Len(zip.files) <= MaxFiles /\ Len(zip.files) \in Nat
    BY <2>1, LenProperties DEF UploadRecord, Archive, RequestShape
  <2>3. call \in [Calls -> CallRecord] /\ disk \in [Paths -> Contents \cup {NoFile}]
    BY DEF FullInv, StoresInv, IngestionTypeOK, CallRecord
  <2>4. ASSUME NEW p \in FilesOf(k)
        PROVE  /\ p[2] \in 1..Len(zip.files) /\ p = <<k, p[2]>>
               /\ zip.files[p[2]] \in Contents
               /\ Offered(upload[k].user, upload[k].scope, zip.files[p[2]])
    <3>1. p[2] \in 1..Len(zip.files) /\ p = <<k, p[2]>>
      BY DEF FilesOf
    <3>2. zip.files[p[2]] \in Contents
      BY <2>2, <3>1, ElementOfSeq
    <3> QED BY <1>1, <2>1, <3>1, <3>2 DEF RequestShape
  <2>5. disk' \in [Paths -> Contents \cup {NoFile}]
    BY <1>3, <2>3, <2>4
  <2>6. ASSUME NEW j \in Calls, NEW i \in 1..MaxFiles
        PROVE  \/ disk'[<<j, i>>] = disk[<<j, i>>]
               \/ Begun(j) /\ Offered(upload[j].user, upload[j].scope, disk'[<<j, i>>])
    <3>1. <<j, i>> \in Paths
      BY UploadsAssumption
    <3>2. CASE <<j, i>> \in FilesOf(k)
      <4>1. j = k /\ disk'[<<j, i>>] = zip.files[<<j, i>>[2]]
        BY <1>3, <3>1, <3>2 DEF FilesOf
      <4> QED BY <1>1, <2>4, <3>2, <4>1
    <3> QED BY <1>3, <3>1, <3>2
  <2>7. CASE zip.files = <<>>
    <3>1. Onward(k, upload[k])
      BY <1>1, <2>1 DEF Onward, Begun
    <3>2. Processed(k, upload[k]) /\ call' = call
      BY <1>3, <2>7
    <3>3. Moved
      BY <1>1, <3>1, <3>2, ProcessedMoves DEF FullInv
    <3> QED BY <1>1, <2>3, <2>5, <2>6, <3>2, <3>3, StagingStep
  <2>8. CASE zip.files # <<>>
    <3>1. "ingest" \in UploadSteps \ {"none"}
      BY DEF UploadSteps, Holding
    <3>2. Moved
      BY <1>1, <1>3, <2>8, <3>1, StepMoves DEF FullInv
    <3>3. 1 \in 1..MaxFiles
      <4>1. Len(zip.files) # 0
        BY <2>2, <2>8, EmptySeq
      <4> QED BY <2>2, <4>1, UploadsAssumption
    <3>4. /\ call' = [j \in Calls |-> call'[j]]
          /\ \A j \in Calls :
               \/ call'[j] = call[j]
               \/ Begun(j) /\ \E i \in 1..MaxFiles :
                    call'[j] = Document(<<j, i>>, upload[j].user, upload[j].scope)
      BY <1>1, <1>3, <2>3, <2>8, <3>3
    <3> QED BY <1>1, <2>5, <2>6, <3>2, <3>4, StagingStep
  <2> QED BY <2>7, <2>8
<1> QED BY <1>2, <1>3 DEF Extract

\* A step of ingest_document leaves requests and files alone.
LEMMA IngestFileStep ==
  ASSUME FullInv, NEW k \in Calls, IngestFile(k)
  PROVE  FullInv'
<1>1. IngestStep(k) /\ upload' = upload /\ waiting' = waiting
  BY DEF IngestFile, staging
<1>2. disk' = disk /\ offered' = offered
  BY <1>1 DEF IngestStep, HashFile, ExtractText, UpsertPoints, UpsertFails, MarkIngested,
              PersistEvent, DatabaseFails
<1>3. StoresInv' /\ OfferInv'
  BY <1>1, IngestStepKeeps, IngestStepOffers DEF FullInv
<1>4. Moved
  BY <1>1 DEF FullInv, UploadInv, Moved, WaitersBegun, Carried, Begun
<1>5. \A j \in Calls : call'[j].step \in {"hash", "extract"} =>
        /\ call[j].step \in {"hash", "extract"} /\ call'[j].path = call[j].path
        /\ call'[j].user = call[j].user /\ call'[j].scope = call[j].scope
  <2>1. ASSUME NEW j \in Calls \ {k} PROVE call'[j] = call[j]
    BY <1>1, CallKeepsDocument DEF FullInv
  <2>2. /\ call'[k].user = call[k].user /\ call'[k].scope = call[k].scope
        /\ call'[k].path = call[k].path
        /\ call'[k].step \in {"hash", "extract"} => call[k].step \in {"hash", "extract"}
    BY <1>1, CallKeepsDocument DEF FullInv
  <2> QED BY <2>1, <2>2
<1>6. UploadInv'
  BY <1>2, <1>4, <1>5, MovedKeeps DEF FullInv
<1> QED BY <1>3, <1>6 DEF FullInv

\* The counters of a reply are counters.
LEMMA CountedOnward ==
  ASSUME UploadInv, NEW k \in Calls, Begun(k), NEW o \in Outcomes
  PROVE  Onward(k, [upload[k] EXCEPT !.count[o] = @ + 1])
<1> DEFINE x == upload[k]
           counts == [x.count EXCEPT ![o] = @ + 1]
           entry == [x EXCEPT !.count = counts]
<1>1. x \in UploadRecord
  BY DEF UploadInv
<1>2. counts \in Counts
  BY <1>1 DEF UploadRecord, Counts
<1>3. [upload[k] EXCEPT !.count[o] = @ + 1] = entry
  OBVIOUS
<1> HIDE DEF counts
<1>4. /\ entry \in UploadRecord /\ entry.step = x.step /\ entry.user = x.user
      /\ entry.scope = x.scope /\ entry.archive = x.archive /\ entry.worker = x.worker
  BY <1>1, <1>2 DEF UploadRecord
<1>5. Onward(k, entry)
  BY <1>4 DEF Onward, Begun
<1> QED BY <1>3, <1>5

\* The loop of ingest_folder_zip goes to the next file of the same request.
LEMMA NextFileStep ==
  ASSUME FullInv, NEW k \in Calls, NextFile(k)
  PROVE  FullInv'
<1> DEFINE counted == [upload[k] EXCEPT !.count[call[k].step] = @ + 1]
           next == Done(k) + 2
<1>1. /\ Begun(k) /\ call[k].step \in Outcomes /\ 500 \in Replies
      /\ UNCHANGED <<disk, index, points, events, offered>>
  BY DEF NextFile, Begun, Replies
<1>2. call \in [Calls -> CallRecord] /\ disk \in [Paths -> Contents \cup {NoFile}]
  BY DEF FullInv, StoresInv, IngestionTypeOK, CallRecord
<1>3. Onward(k, counted) /\ Onward(k, Answer(k, 500))
  BY <1>1, CountedOnward, AnswerOnward DEF FullInv
<1> HIDE DEF counted
<1>4. CASE /\ Release(k, Answer(k, 500)) \/ Processed(k, counted)
           /\ call' = [call EXCEPT ![k] = Idle]
  <2>1. Moved
    BY <1>1, <1>3, <1>4, ReleaseMoves, ProcessedMoves DEF FullInv
  <2>2. /\ call' = [j \in Calls |-> call'[j]]
        /\ \A j \in Calls : call'[j] = call[j] \/ call'[j] = Idle
    BY <1>2, <1>4
  <2> QED BY <1>1, <1>2, <2>1, <2>2, StagingStep
<1>5. CASE /\ next <= Len(upload[k].archive.files)
           /\ upload' = [upload EXCEPT ![k] = counted]
           /\ call' = [call EXCEPT ![k] = Document(<<k, next>>, upload[k].user, upload[k].scope)]
           /\ UNCHANGED <<slots, waiting>>
  <2>1. Moved
    BY <1>1, <1>3, <1>5, EditMoves DEF FullInv
  <2>2. next \in 1..MaxFiles
    <3>1. upload[k] \in UploadRecord /\ RequestShape(k)
      BY DEF FullInv, UploadInv
    <3>2. Len(upload[k].archive.files) \in Nat /\ Len(upload[k].archive.files) <= MaxFiles
      BY <3>1, LenProperties DEF UploadRecord, Archive, RequestShape
    <3>3. Done(k) \in Nat
      BY <3>1 DEF Done, UploadRecord, Counts, Outcomes
    <3> QED BY <1>5, <3>2, <3>3, UploadsAssumption
  <2> HIDE DEF next
  <2>3. /\ call' = [j \in Calls |-> call'[j]]
        /\ \A j \in Calls :
             \/ call'[j] = call[j]
             \/ Begun(j) /\ \E i \in 1..MaxFiles :
                  call'[j] = Document(<<j, i>>, upload[j].user, upload[j].scope)
    BY <1>1, <1>2, <1>5, <2>2
  <2> QED BY <1>1, <1>2, <2>1, <2>3, StagingStep
<1> QED BY <1>4, <1>5 DEF NextFile, counted

-----------------------------------------------------------------------------
(* Requests come in.                                                       *)

\* A new request brings its offers with it.
LEMMA ReceivedKeeps ==
  ASSUME FullInv, NEW k \in Calls, ~Begun(k), NEW entry \in UploadRecord,
         entry.step # "none", entry.user \in Users, entry.worker \in Workers,
         Len(entry.archive.files) <= MaxFiles,
         offered \subseteq offered',
         offered' \subseteq [user : Users, scope : Scopes, text : Contents],
         \A i \in 1..Len(entry.archive.files) :
           [user |-> entry.user, scope |-> entry.scope, text |-> entry.archive.files[i]] \in offered',
         upload' = [upload EXCEPT ![k] = entry],
         waiting' \in [Workers -> Seq(Calls)], WaitersBegun',
         UNCHANGED <<disk, index, points, events>>,
         call' = [j \in Calls |-> call'[j]],
         \A j \in Calls : call'[j] = call[j] \/
           \E u \in Users, w \in Workspaces, c \in Contents :
             /\ call'[j] = SharedText(u, w, c)
             /\ [user |-> u, scope |-> w, text |-> c] \in offered'
  PROVE  FullInv'
<1>1. upload' \in [Calls -> UploadRecord] /\ upload'[k] = entry
      /\ \A j \in Calls \ {k} : upload'[j] = upload[j]
  BY DEF FullInv, UploadInv
<1>2. disk' \in [Paths -> Contents \cup {NoFile}]
  BY DEF FullInv, StoresInv, IngestionTypeOK
<1>3. StoresInv'
  <2>1. \A j \in Calls : call'[j] = call[j] \/
           \E u \in Users, w \in Workspaces, c \in Contents : call'[j] = SharedText(u, w, c)
    OBVIOUS
  <2> QED BY <1>2, <2>1, CallsReplaced DEF FullInv
<1>4. ASSUME NEW j \in Calls
      PROVE  /\ call'[j].step \in {"hash", "extract"} => call'[j] = call[j]
             /\ call'[j].step = "upsert" =>
                  \/ call'[j] = call[j]
                  \/ [user |-> call'[j].user, scope |-> call'[j].scope,
                      text |-> call'[j].text] \in offered'
  <2>1. ASSUME NEW u \in Users, NEW w \in Workspaces, NEW c \in Contents,
               call'[j] = SharedText(u, w, c),
               [user |-> u, scope |-> w, text |-> c] \in offered'
        PROVE  /\ call'[j].step = "upsert"
               /\ call'[j].user = u /\ call'[j].scope = w /\ call'[j].text = c
    BY <2>1 DEF SharedText, Idle
  <2>2. CASE call'[j] = call[j]
    BY <2>2
  <2>3. CASE call'[j] # call[j]
    <3>1. PICK u \in Users, w \in Workspaces, c \in Contents :
            /\ call'[j] = SharedText(u, w, c)
            /\ [user |-> u, scope |-> w, text |-> c] \in offered'
      BY <2>3
    <3>2. /\ call'[j].step = "upsert"
          /\ call'[j].user = u /\ call'[j].scope = w /\ call'[j].text = c
      BY <2>1, <3>1
    <3> QED BY <3>1, <3>2
  <2> QED BY <2>2, <2>3
<1>5. ASSUME NEW j \in Calls
      PROVE  RequestShape(j)' /\ FilesShape(j)' /\ OwnCall(j)'
  <2>1. RequestShape(j) /\ FilesShape(j) /\ OwnCall(j)
    BY DEF FullInv, UploadInv
  <2>2. CASE j # k
    <3>1. upload'[j] = upload[j]
      BY <1>1, <2>2
    <3>2. RequestShape(j)'
      BY <2>1, <3>1 DEF RequestShape, Offered, Begun
    <3>3. FilesShape(j)'
      BY <2>1, <3>1 DEF FilesShape, Offered, Begun
    <3>4. OwnCall(j)'
      BY <1>4, <2>1, <3>1 DEF OwnCall, Begun
    <3> QED BY <3>2, <3>3, <3>4
  <2>3. CASE j = k
    <3>1. RequestShape(k)'
      BY <1>1 DEF RequestShape, Offered, Begun
    <3>2. FilesShape(k)'
      BY <2>1, <2>3 DEF FilesShape
    <3>3. OwnCall(k)'
      BY <1>4, <2>1, <2>3 DEF OwnCall
    <3> QED BY <2>3, <3>1, <3>2, <3>3
  <2> QED BY <2>2, <2>3
<1>6. UploadInv'
  BY <1>1, <1>5 DEF UploadInv
<1>7. OfferInv'
  BY <1>4, <1>6, OffersKept DEF FullInv
<1> QED BY <1>3, <1>6, <1>7 DEF FullInv

\* The empty request.
LEMMA NoneTyped == None \in UploadRecord /\ None.step = "none" /\ None.archive.files = <<>>
<1>1. [o \in Outcomes |-> 0] \in Counts
  BY DEF Counts
<1>2. [kind |-> "zip", files |-> <<>>] \in Archive
  <2>1. <<>> \in Seq(Contents)
    OBVIOUS
  <2> QED BY <2>1 DEF Archive, Kinds
<1>3. "none" \in UploadSteps /\ 0 \in Replies /\ Private \in Scopes
  BY DEF UploadSteps, Replies, Scopes
<1> QED BY <1>1, <1>2, <1>3 DEF None, UploadRecord

\* The request an upload, or a shared text, starts with.
UploadEntry(w, u, s, a) == [None EXCEPT !.worker = w, !.archive = a, !.user = u, !.scope = s]
TextEntry(w, u, s) == [None EXCEPT !.step = "text", !.worker = w, !.user = u, !.scope = s]

\* An upload stands for its user, her scope and her archive.
LEMMA NewUpload ==
  ASSUME NEW w \in Workers, NEW u \in Users, NEW s \in Scopes, NEW a \in Archive
  PROVE  LET entry == UploadEntry(w, u, s, a) IN
         /\ entry \in UploadRecord /\ entry.worker = w /\ entry.archive = a
         /\ entry.user = u /\ entry.scope = s
<1> DEFINE entry == UploadEntry(w, u, s, a)
<1> DEFINE e1 == [None EXCEPT !.worker = w]
           e2 == [e1 EXCEPT !.archive = a]
           e3 == [e2 EXCEPT !.user = u]
<1>1. e1 \in UploadRecord /\ e1.worker = w
  BY NoneTyped DEF UploadRecord
<1>2. entry = [e3 EXCEPT !.scope = s]
  BY DEF UploadEntry
<1> HIDE DEF e1, entry
<1>3. e2 \in UploadRecord /\ e2.worker = w /\ e2.archive = a
  BY <1>1 DEF UploadRecord
<1> HIDE DEF e2
<1>4. e3 \in UploadRecord /\ e3.worker = w /\ e3.archive = a /\ e3.user = u
  BY <1>3 DEF UploadRecord
<1> HIDE DEF e3
<1>5. entry \in UploadRecord /\ entry.worker = w /\ entry.archive = a
      /\ entry.user = u /\ entry.scope = s
  BY <1>2, <1>4 DEF UploadRecord
<1> QED BY <1>5 DEF entry

\* A shared text stands for its user and has no archive.
LEMMA NewText ==
  ASSUME NEW w \in Workers, NEW u \in Users, NEW s \in Scopes
  PROVE  LET entry == TextEntry(w, u, s) IN
         /\ entry \in UploadRecord /\ entry.step = "text" /\ entry.worker = w
         /\ entry.archive.files = <<>> /\ entry.user = u
<1> DEFINE entry == TextEntry(w, u, s)
<1> DEFINE e1 == [None EXCEPT !.step = "text"]
           e2 == [e1 EXCEPT !.worker = w]
           e3 == [e2 EXCEPT !.user = u]
<1>1. e1 \in UploadRecord /\ e1.step = "text" /\ e1.archive = None.archive
  <2>1. "text" \in UploadSteps
    BY DEF UploadSteps
  <2> HIDE DEF UploadRecord
  <2> QED BY <2>1, NoneTyped, Stepped
<1>2. entry = [e3 EXCEPT !.scope = s]
  BY DEF TextEntry
<1> HIDE DEF e1, entry
<1>3. e2 \in UploadRecord /\ e2.step = "text" /\ e2.archive = None.archive /\ e2.worker = w
  BY <1>1 DEF UploadRecord
<1> HIDE DEF e2
<1>4. e3 \in UploadRecord /\ e3.step = "text" /\ e3.archive = None.archive /\ e3.worker = w
      /\ e3.user = u
  BY <1>3 DEF UploadRecord
<1> HIDE DEF e3
<1>5. entry \in UploadRecord /\ entry.step = "text" /\ entry.archive = None.archive
      /\ entry.worker = w /\ entry.user = u
  BY <1>2, <1>4 DEF UploadRecord
<1> QED BY <1>5, NoneTyped DEF entry

\* A request may be queued behind the others of its worker.
LEMMA QueuesGrow ==
  ASSUME UploadInv, NEW k \in Calls, NEW w \in Workers, NEW new \in UploadRecord,
         new.step # "none", upload' = [upload EXCEPT ![k] = new],
         waiting' = waiting \/ waiting' = [waiting EXCEPT ![w] = Append(@, k)]
  PROVE  waiting' \in [Workers -> Seq(Calls)] /\ WaitersBegun'
<1>1. waiting \in [Workers -> Seq(Calls)]
  BY DEF UploadInv
<1>2. upload'[k].step # "none" /\ \A j \in Calls \ {k} : upload'[j] = upload[j]
  BY DEF UploadInv
<1>3. ASSUME NEW v \in Workers, NEW j \in 1..Len(waiting[v])
      PROVE  waiting[v][j] \in Calls /\ upload'[waiting[v][j]].step # "none"
  <2>1. waiting[v][j] \in Calls
    BY <1>1, ElementOfSeq
  <2>2. upload[waiting[v][j]].step # "none"
    BY DEF UploadInv, WaitersBegun
  <2> QED BY <1>2, <2>1, <2>2
<1>4. CASE waiting' = waiting
  BY <1>1, <1>3, <1>4 DEF WaitersBegun
<1>5. CASE waiting' = [waiting EXCEPT ![w] = Append(@, k)]
  <2> DEFINE longer == Append(waiting[w], k)
  <2>1. /\ longer \in Seq(Calls) /\ Len(longer) = Len(waiting[w]) + 1 /\ Len(waiting[w]) \in Nat
        /\ longer[Len(waiting[w]) + 1] = k
        /\ \A i \in 1..Len(waiting[w]) : longer[i] = waiting[w][i]
    BY <1>1, AppendProperties, LenProperties
  <2>2. /\ waiting'[w] = longer
        /\ \A v \in Workers \ {w} : waiting'[v] = waiting[v]
    BY <1>1, <1>5
  <2> HIDE DEF longer
  <2>3. ASSUME NEW i \in 1..Len(longer)
        PROVE  upload'[longer[i]].step # "none"
    <3>1. i \in 1..Len(waiting[w]) \/ i = Len(waiting[w]) + 1
      BY <2>1
    <3> QED BY <1>2, <1>3, <2>1, <3>1
  <2>4. waiting' \in [Workers -> Seq(Calls)]
    BY <1>1, <1>5, <2>1 DEF longer
  <2>5. ASSUME NEW v \in Workers, NEW i \in 1..Len(waiting'[v])
        PROVE  upload'[waiting'[v][i]].step # "none"
    <3>1. CASE v = w
      BY <2>2, <2>3, <3>1
    <3>2. CASE v # w
      BY <1>3, <2>2, <3>2
    <3> QED BY <3>1, <3>2
  <2> QED BY <2>4, <2>5 DEF WaitersBegun
<1> QED BY <1>4, <1>5

\* An upload is received: refused, started, or queued behind the slot.
LEMMA ReceiveUploadStep ==
  ASSUME FullInv, NEW k \in Calls, NEW w \in Workers, NEW u \in Users, NEW s \in Scopes,
         NEW a \in Archives, ReceiveUpload(k, w, u, s, a)
  PROVE  FullInv'
<1> DEFINE entry == UploadEntry(w, u, s, a)
<1>1. /\ a \in Archive /\ Len(a.files) <= MaxFiles /\ a.files \in Seq(Contents)
      /\ \A i \in 1..Len(a.files) : a.files[i] \in Contents
  <2>1. a \in Archive /\ Len(a.files) <= MaxFiles /\ a.files \in Seq(Contents)
    BY UploadsAssumption DEF Archive
  <2> QED BY <2>1, ElementOfSeq
<1>2. entry \in UploadRecord /\ entry.user = u /\ entry.worker = w /\ entry.archive = a
      /\ entry.scope = s
  BY <1>1, NewUpload
<1>3. /\ ~Begun(k) /\ UNCHANGED <<disk, index, points, events, call>>
      /\ offered' = offered \cup {[user |-> u, scope |-> s, text |-> a.files[i]] :
                                  i \in 1..Len(a.files)}
      /\ \/ /\ upload' = [upload EXCEPT ![k] = [entry EXCEPT !.step = "answered", !.status = 413]]
            /\ UNCHANGED waiting
         \/ /\ upload' = [upload EXCEPT ![k] = [entry EXCEPT !.step = "stream"]]
            /\ UNCHANGED waiting
         \/ /\ upload' = [upload EXCEPT ![k] = [entry EXCEPT !.step = "waiting"]]
            /\ waiting' = [waiting EXCEPT ![w] = Append(@, k)]
  BY NoneTyped DEF ReceiveUpload, Begun, UploadEntry
<1> HIDE DEF entry
<1>4. offered \subseteq [user : Users, scope : Scopes, text : Contents]
      /\ call' = [j \in Calls |-> call'[j]]
  BY <1>3 DEF FullInv, StoresInv, IngestionTypeOK
<1>5. /\ offered \subseteq offered'
      /\ offered' \subseteq [user : Users, scope : Scopes, text : Contents]
      /\ \A i \in 1..Len(a.files) : [user |-> u, scope |-> s, text |-> a.files[i]] \in offered'
  BY <1>1, <1>3, <1>4
<1>6. ASSUME NEW new \in UploadRecord, new.step # "none", new.user = u, new.worker = w,
             new.archive = a, new.scope = s, upload' = [upload EXCEPT ![k] = new],
             waiting' = waiting \/ waiting' = [waiting EXCEPT ![w] = Append(@, k)]
      PROVE  FullInv'
  <2>1. waiting' \in [Workers -> Seq(Calls)] /\ WaitersBegun'
    BY <1>6, QueuesGrow DEF FullInv
  <2>2. /\ new.user \in Users /\ new.worker \in Workers /\ Len(new.archive.files) <= MaxFiles
        /\ \A i \in 1..Len(new.archive.files) :
             [user |-> new.user, scope |-> new.scope, text |-> new.archive.files[i]] \in offered'
    BY <1>1, <1>5, <1>6
  <2>3. /\ UNCHANGED <<disk, index, points, events>>
        /\ \A j \in Calls : call'[j] = call[j]
    BY <1>3
  <2> QED BY <1>3, <1>4, <1>5, <1>6, <2>1, <2>2, <2>3, ReceivedKeeps
<1>7. "answered" \in UploadSteps /\ "stream" \in UploadSteps /\ "waiting" \in UploadSteps
      /\ 413 \in Replies
  BY DEF UploadSteps, Holding, Replies
<1>8. ASSUME NEW step \in UploadSteps \ {"none"}
      PROVE  LET new == [entry EXCEPT !.step = step] IN
             /\ new \in UploadRecord /\ new.step # "none" /\ new.user = u /\ new.worker = w
             /\ new.archive = a /\ new.scope = s
  BY <1>2, Stepped
<1>9. CASE /\ upload' = [upload EXCEPT ![k] = [entry EXCEPT !.step = "answered", !.status = 413]]
           /\ UNCHANGED waiting
  <2> DEFINE y == [entry EXCEPT !.step = "answered"]
             new == [entry EXCEPT !.step = "answered", !.status = 413]
  <2>1. /\ y \in UploadRecord /\ y.step # "none" /\ y.user = u /\ y.worker = w
        /\ y.archive = a /\ y.scope = s
    BY <1>7, <1>8
  <2>2. new = [y EXCEPT !.status = 413]
    OBVIOUS
  <2> HIDE DEF y
  <2>3. upload' = [upload EXCEPT ![k] = new]
    BY <1>9
  <2> HIDE DEF new
  <2>4. /\ new \in UploadRecord /\ new.step # "none" /\ new.user = u /\ new.worker = w
        /\ new.archive = a /\ new.scope = s
    BY <1>7, <2>1, <2>2 DEF UploadRecord
  <2> QED BY <1>6, <1>9, <2>3, <2>4
<1>10. ASSUME NEW step \in UploadSteps \ {"none"},
              upload' = [upload EXCEPT ![k] = [entry EXCEPT !.step = step]],
              waiting' = waiting \/ waiting' = [waiting EXCEPT ![w] = Append(@, k)]
       PROVE  FullInv'
  <2> DEFINE new == [entry EXCEPT !.step = step]
  <2>1. /\ new \in UploadRecord /\ new.step # "none" /\ new.user = u /\ new.worker = w
        /\ new.archive = a /\ new.scope = s /\ upload' = [upload EXCEPT ![k] = new]
    BY <1>8, <1>10
  <2> HIDE DEF new
  <2> QED BY <1>6, <1>10, <2>1
<1> QED BY <1>3, <1>7, <1>9, <1>10

\* A shared text is received: a call of its own and no file.
LEMMA ReceiveTextStep ==
  ASSUME FullInv, NEW k \in Calls, NEW w \in Workers, NEW u \in Users,
         NEW ws \in Workspaces, NEW c \in Contents, ReceiveText(k, w, u, ws, c)
  PROVE  FullInv'
<1> DEFINE entry == TextEntry(w, u, ws)
<1>1. ws \in Scopes
  BY DEF Scopes
<1>2. entry \in UploadRecord /\ entry.step = "text" /\ entry.worker = w
      /\ entry.archive.files = <<>> /\ entry.user = u
  BY <1>1, NewText
<1>3. /\ ~Begun(k) /\ UNCHANGED <<disk, index, points, events, waiting>>
      /\ upload' = [upload EXCEPT ![k] = entry]
      /\ call' = [call EXCEPT ![k] = SharedText(u, ws, c)]
      /\ offered' = offered \cup {[user |-> u, scope |-> ws, text |-> c]}
  BY NoneTyped DEF ReceiveText, Begun, staging, TextEntry
<1> HIDE DEF entry
<1>4. /\ offered \subseteq [user : Users, scope : Scopes, text : Contents]
      /\ call \in [Calls -> CallRecord]
  BY DEF FullInv, StoresInv, IngestionTypeOK, CallRecord
<1>5. /\ offered \subseteq offered'
      /\ offered' \subseteq [user : Users, scope : Scopes, text : Contents]
      /\ [user |-> u, scope |-> ws, text |-> c] \in offered'
  BY <1>1, <1>3, <1>4
<1>6. waiting' \in [Workers -> Seq(Calls)] /\ WaitersBegun'
  BY <1>2, <1>3, QueuesGrow DEF FullInv
<1>7. Len(entry.archive.files) = 0
  BY <1>2, EmptySeq
<1>8. /\ Len(entry.archive.files) <= MaxFiles
      /\ \A i \in 1..Len(entry.archive.files) :
           [user |-> entry.user, scope |-> entry.scope, text |-> entry.archive.files[i]] \in offered'
  BY <1>7, UploadsAssumption
<1>9. /\ call' = [j \in Calls |-> call'[j]]
      /\ \A j \in Calls : call'[j] = call[j] \/ call'[j] = SharedText(u, ws, c)
  BY <1>3, <1>4
<1>10. \A j \in Calls : call'[j] = call[j] \/
           \E u2 \in Users, w2 \in Workspaces, c2 \in Contents :
             /\ call'[j] = SharedText(u2, w2, c2)
             /\ [user |-> u2, scope |-> w2, text |-> c2] \in offered'
  BY <1>5, <1>9
<1> QED BY <1>2, <1>3, <1>5, <1>6, <1>8, <1>9, <1>10, ReceivedKeeps

-----------------------------------------------------------------------------
(* Crashes and starts.                                                     *)

\* A crash drops the requests of one worker and the queue for its slots.
LEMMA CrashStep ==
  ASSUME FullInv, NEW w \in Workers, Crash(w)
  PROVE  FullInv'
<1> DEFINE gone == {k \in Calls : upload[k].worker = w /\ InFlight(k)}
<1>1. /\ upload' = [k \in Calls |-> IF k \in gone THEN [upload[k] EXCEPT !.step = "lost"]
                                    ELSE upload[k]]
      /\ call' = [k \in Calls |-> IF k \in gone THEN Idle ELSE call[k]]
      /\ waiting' = [waiting EXCEPT ![w] = <<>>]
      /\ UNCHANGED <<disk, index, points, events, offered>>
      /\ \A k \in gone : Begun(k)
  BY DEF Crash, InFlight, Begun
<1> HIDE DEF gone
<1>2. "lost" \in UploadSteps
  BY DEF UploadSteps
<1>3. ASSUME NEW k \in Calls
      PROVE  /\ upload'[k] \in UploadRecord
             /\ IF Begun(k) THEN Carried(k) ELSE upload'[k] = upload[k]
  <2>1. upload[k] \in UploadRecord
    BY DEF FullInv, UploadInv
  <2>2. CASE k \in gone
    <3>1. upload'[k] = [upload[k] EXCEPT !.step = "lost"]
      BY <1>1, <2>2
    <3>2. /\ upload'[k] \in UploadRecord /\ upload'[k].step = "lost"
          /\ upload'[k].user = upload[k].user /\ upload'[k].scope = upload[k].scope
          /\ upload'[k].archive = upload[k].archive /\ upload'[k].worker = upload[k].worker
      BY <1>2, <2>1, <3>1, Stepped
    <3> QED BY <1>1, <2>2, <3>2 DEF Carried
  <2>3. CASE k \notin gone
    <3>1. upload'[k] = upload[k]
      BY <1>1, <2>3
    <3> QED BY <2>1, <3>1 DEF Carried, Begun
  <2> QED BY <2>2, <2>3
<1>4. waiting \in [Workers -> Seq(Calls)]
  BY DEF FullInv, UploadInv
<1>5. waiting' \in [Workers -> Seq(Calls)]
  <2>1. <<>> \in Seq(Calls)
    OBVIOUS
  <2> QED BY <1>1, <1>4, <2>1
<1>6. WaitersBegun'
  <2> SUFFICES ASSUME NEW v \in Workers, NEW i \in 1..Len(waiting'[v])
               PROVE  upload'[waiting'[v][i]].step # "none"
    BY DEF WaitersBegun
  <2>1. v # w
    <3>1. ASSUME v = w PROVE FALSE
      <4>1. waiting'[v] = <<>>
        BY <1>1, <1>4, <3>1
      <4>2. Len(waiting'[v]) = 0
        BY <4>1, EmptySeq
      <4> QED BY <4>2
    <3> QED BY <3>1
  <2>2. waiting'[v] = waiting[v]
    BY <1>1, <1>4, <2>1
  <2>3. waiting[v][i] \in Calls
    BY <1>4, <2>2, ElementOfSeq
  <2>4. upload[waiting[v][i]].step # "none"
    BY <2>2 DEF FullInv, UploadInv, WaitersBegun
  <2> QED BY <1>3, <2>2, <2>3, <2>4 DEF Carried, Begun
<1>7. Moved
  <2>1. upload' \in [Calls -> UploadRecord]
    BY <1>1, <1>3
  <2> QED BY <1>3, <1>5, <1>6, <2>1 DEF Moved
<1>8. /\ disk' \in [Paths -> Contents \cup {NoFile}] /\ disk' = disk
      /\ call' = [k \in Calls |-> call'[k]]
      /\ \A k \in Calls : call'[k] = call[k] \/ call'[k] = Idle
  BY <1>1 DEF FullInv, StoresInv, IngestionTypeOK
<1> QED BY <1>1, <1>7, <1>8, StagingStep

\* A start empties the upload directory.
LEMMA StartStep ==
  ASSUME FullInv, NEW w \in Workers, Start(w)
  PROVE  FullInv'
<1>1. /\ disk' = [p \in Paths |-> NoFile]
      /\ UNCHANGED <<index, points, events, call, offered, upload, waiting>>
  BY DEF Start
<1>2. Moved
  BY <1>1 DEF FullInv, UploadInv, Moved, WaitersBegun, Carried, Begun
<1>3. /\ disk' \in [Paths -> Contents \cup {NoFile}]
      /\ call' = [k \in Calls |-> call'[k]]
      /\ \A k \in Calls : call'[k] = call[k]
  BY <1>1 DEF FullInv, StoresInv, IngestionTypeOK
<1>4. \A k \in Calls, i \in 1..MaxFiles : disk'[<<k, i>>] = NoFile
  BY <1>1, UploadsAssumption
<1> QED BY <1>1, <1>2, <1>3, <1>4, StagingStep

-----------------------------------------------------------------------------
(* The theorems.                                                           *)

\* The empty system satisfies the invariant.
LEMMA UploadsInitHolds == UploadsInit => FullInv
<1> SUFFICES ASSUME UploadsInit PROVE FullInv
  OBVIOUS
<1>1. IngestionInit /\ upload = [k \in Calls |-> None] /\ waiting = [w \in Workers |-> <<>>]
  BY DEF UploadsInit
<1>2. StoresInv /\ OfferInv
  BY <1>1, StoresInit DEF IngestionInit, OfferInv, Idle
<1>3. upload \in [Calls -> UploadRecord] /\ \A k \in Calls : upload[k] = None
  BY <1>1, NoneTyped
<1>4. waiting \in [Workers -> Seq(Calls)] /\ \A w \in Workers : Len(waiting[w]) = 0
  <2>1. <<>> \in Seq(Calls) /\ Len(<<>>) = 0
    BY EmptySeq
  <2> QED BY <1>1, <2>1
<1>5. WaitersBegun
  BY <1>4 DEF WaitersBegun
<1>6. ASSUME NEW k \in Calls PROVE RequestShape(k) /\ FilesShape(k) /\ OwnCall(k)
  <2>1. RequestShape(k)
    BY <1>3, NoneTyped, EmptySeq, UploadsAssumption DEF RequestShape, Begun
  <2>2. FilesShape(k)
    BY <1>1, UploadsAssumption DEF IngestionInit, FilesShape
  <2>3. OwnCall(k)
    BY <1>1 DEF IngestionInit, OwnCall, Idle
  <2> QED BY <2>1, <2>2, <2>3
<1>7. UploadInv
  BY <1>3, <1>4, <1>5, <1>6 DEF UploadInv
<1> QED BY <1>2, <1>7 DEF FullInv

\* Every step of the server keeps it.
LEMMA UploadsStepKeeps == FullInv /\ [UploadsNext]_uploadVars => FullInv'
<1> SUFFICES ASSUME FullInv, [UploadsNext]_uploadVars PROVE FullInv'
  OBVIOUS
<1>1. CASE UNCHANGED uploadVars
  <2>1. UNCHANGED docVars /\ upload' = upload /\ waiting' = waiting
    BY <1>1 DEF uploadVars, staging
  <2>2. Moved
    BY <2>1 DEF FullInv, UploadInv, Moved, WaitersBegun, Carried, Begun
  <2> QED BY <2>1, <2>2, QuietStep
<1>2. ASSUME NEW k \in Calls, UploadStep(k) PROVE FullInv'
  BY <1>2, TextDoneStep, StreamStep, CopyStep, StageStep, ExtractStep, IngestFileStep,
     NextFileStep, AuditStep DEF UploadStep
<1>3. ASSUME NEW w \in Workers, Crash(w) \/ Start(w) PROVE FullInv'
  BY <1>3, CrashStep, StartStep
<1>4. ASSUME NEW k \in Calls, NEW w \in Workers, NEW u \in Users,
             \/ \E s \in Scopes, a \in Archives : ReceiveUpload(k, w, u, s, a)
             \/ \E ws \in Workspaces, c \in Contents : ReceiveText(k, w, u, ws, c)
      PROVE  FullInv'
  BY <1>4, ReceiveUploadStep, ReceiveTextStep
<1> QED BY <1>1, <1>2, <1>3, <1>4 DEF UploadsNext

\* The invariant, for every number of requests, workers and crashes.
LEMMA FullInvHolds == UploadsSpec => []FullInv
BY UploadsInitHolds, UploadsStepKeeps, PTL DEF UploadsSpec

\* Every ingestion record of the server is backed by its point and its index
\* row, whatever requests, workers, crashes and starts interleave.
THEOREM UploadRecordsBacked == UploadsSpec => []RecordsBacked
<1>1. FullInv => RecordsBacked
  BY DEF FullInv, StoresInv
<1> QED BY <1>1, FullInvHolds, PTL

\* A text whose sharing was recorded is found by every retrieval of its
\* workspace, whatever else the workers ingest.
THEOREM UploadTextsRetrievable == UploadsSpec => []SharedTextRetrievable
<1>1. FullInv => SharedTextRetrievable
  BY SharedTextFound DEF FullInv
<1> QED BY <1>1, FullInvHolds, PTL

\* Nobody retrieves what was offered neither by her nor to a workspace whose
\* context she asks for.
THEOREM UploadRetrievalAllowed == UploadsSpec => []RetrievalAllowed
<1>1. FullInv => RetrievalAllowed
  BY RetrievalFollowsOffers DEF FullInv
<1> QED BY <1>1, FullInvHolds, PTL

-----------------------------------------------------------------------------
(* The semaphore, the upload directory and the replies.                    *)

Held(w) == {k \in Calls : upload[k].worker = w /\ upload[k].step \in Holding}

\* A queue lists requests of its worker that wait, each once.
WaitersQueued ==
  \A w \in Workers : \A i \in 1..Len(waiting[w]) :
    /\ upload[waiting[w][i]].step = "waiting" /\ upload[waiting[w][i]].worker = w
    /\ \A j \in 1..Len(waiting[w]) : waiting[w][i] = waiting[w][j] => i = j

\* Every slot is free or held, and nobody queues for a free one.
SlotsInv ==
  /\ slots \in [Workers -> Nat]
  /\ \A w \in Workers :
       /\ IsFiniteSet(Held(w)) /\ slots[w] + Cardinality(Held(w)) = Concurrency
       /\ waiting[w] # <<>> => slots[w] = 0
  /\ WaitersQueued

\* What a request may have in the upload directory.
StagedBy(k) ==
  /\ k \in incoming => upload[k].step \in {"copy", "stage", "lost"}
  /\ k \in batches => /\ upload[k].step \in {"extract", "ingest", "audit", "answered", "lost"}
                      /\ upload[k].status \notin {400, 413}
  /\ upload[k].step # "answered" => upload[k].status = 0

Recorded(p) == \E e \in events : e.path = p
RecordedUpTo(k, n) == {p \in {k} \X (1..n) : Recorded(p)}

BeforeFiles == {"none", "waiting", "stream", "copy", "stage", "extract", "text"}

\* The file a request is at, and the files behind it.
AtFile(k) ==
  LET n == Done(k) IN
  /\ n < Len(upload[k].archive.files) /\ call[k].path = <<k, n + 1>>
  /\ upload[k].count["ingested"] = Cardinality(RecordedUpTo(k, n))
  /\ \A i \in 1..MaxFiles : i > n /\ Recorded(<<k, i>>) => i = n + 1 /\ call[k].step = "ingested"
  /\ call[k].step = "ingested" => Recorded(<<k, n + 1>>)

\* The counters of a request are the events of its files so far.
RecordsOf(k) ==
  LET x == upload[k] IN
  /\ x.step \in BeforeFiles => /\ \A o \in Outcomes : x.count[o] = 0
                               /\ \A i \in 1..MaxFiles : ~Recorded(<<k, i>>)
  /\ x.step = "text" => x.archive.files = <<>> /\ call[k].path = NoFile
  /\ x.step = "ingest" => AtFile(k)
  /\ x.step = "audit" \/ (x.step = "answered" /\ x.status = 200) =>
       x.count["ingested"] = Cardinality(RecordedUpTo(k, Len(x.archive.files)))
  /\ call[k].step # "idle" => x.step \in {"ingest", "text"}

\* An event of a file is never without the index row that says so.
IndexedOf(k) ==
  /\ \A i \in 1..MaxFiles : Recorded(<<k, i>>) => index[<<k, i>>].status = "ingested"
  /\ call[k].step = "event" /\ call[k].path # NoFile => index[call[k].path].status = "ingested"

ServerInv ==
  /\ FullInv /\ SlotsInv
  /\ incoming \subseteq Calls /\ batches \subseteq Calls
  /\ \A k \in Calls : StagedBy(k) /\ RecordsOf(k) /\ IndexedOf(k)

\* Who stands in a queue.
LEMMA QueuedCall ==
  ASSUME FullInv, SlotsInv, NEW w \in Workers, NEW i \in 1..Len(waiting[w])
  PROVE  /\ waiting[w] \in Seq(Calls) /\ waiting[w][i] \in Calls
         /\ upload[waiting[w][i]].step = "waiting" /\ upload[waiting[w][i]].worker = w
<1>1. waiting[w] \in Seq(Calls)
  BY DEF FullInv, UploadInv
<1>2. waiting[w][i] \in Calls
  BY <1>1, ElementOfSeq
<1> QED BY <1>1, <1>2 DEF SlotsInv, WaitersQueued

\* A step that neither takes a slot nor gives one back.
LEMMA SlotsQuiet ==
  ASSUME FullInv, SlotsInv, UNCHANGED <<slots, waiting>>,
         \A k \in Calls :
           /\ upload'[k].step \in Holding <=> upload[k].step \in Holding
           /\ upload[k].step = "waiting" => upload'[k].step = "waiting"
           /\ upload[k].step \in Holding \cup {"waiting"} => upload'[k].worker = upload[k].worker
  PROVE  SlotsInv'
<1>1. ASSUME NEW w \in Workers PROVE Held(w)' = Held(w)
  BY DEF Held
<1>2. WaitersQueued'
  <2> SUFFICES ASSUME NEW w \in Workers, NEW i \in 1..Len(waiting[w])
               PROVE  /\ upload'[waiting[w][i]].step = "waiting"
                      /\ upload'[waiting[w][i]].worker = w
                      /\ \A j \in 1..Len(waiting[w]) : waiting[w][i] = waiting[w][j] => i = j
    BY DEF WaitersQueued
  <2>1. /\ waiting[w][i] \in Calls
        /\ upload[waiting[w][i]].step = "waiting" /\ upload[waiting[w][i]].worker = w
    BY QueuedCall
  <2> QED BY <2>1 DEF SlotsInv, WaitersQueued
<1>3. ASSUME NEW w \in Workers
      PROVE  /\ IsFiniteSet(Held(w))' /\ slots'[w] + Cardinality(Held(w)') = Concurrency
             /\ waiting'[w] # <<>> => slots'[w] = 0
  BY <1>1 DEF SlotsInv
<1> QED BY <1>2, <1>3 DEF SlotsInv

\* A request that starts takes a free slot.
LEMMA SlotTaken ==
  ASSUME FullInv, SlotsInv, NEW k \in Calls, NEW w \in Workers, NEW entry,
         upload[k].step = "none", entry.step = "stream", entry.worker = w,
         upload' = [upload EXCEPT ![k] = entry],
         slots[w] > 0, slots' = [slots EXCEPT ![w] = @ - 1], waiting' = waiting
  PROVE  SlotsInv'
<1>1. upload'[k] = entry /\ \A j \in Calls \ {k} : upload'[j] = upload[j]
  BY DEF FullInv, UploadInv
<1>2. /\ slots \in [Workers -> Nat] /\ slots[w] \in Nat \ {0}
      /\ slots'[w] = slots[w] - 1 /\ \A v \in Workers \ {w} : slots'[v] = slots[v]
  BY DEF SlotsInv
<1>3. slots' \in [Workers -> Nat]
  BY <1>2
<1>4. Held(w)' = Held(w) \cup {k} /\ k \notin Held(w)
  BY <1>1 DEF Held, Holding
<1>5. ASSUME NEW v \in Workers \ {w} PROVE Held(v)' = Held(v)
  BY <1>1, <1>5 DEF Held, Holding
<1>6. ASSUME NEW v \in Workers
      PROVE  /\ IsFiniteSet(Held(v))' /\ slots'[v] + Cardinality(Held(v)') = Concurrency
             /\ waiting'[v] # <<>> => slots'[v] = 0
  <2>1. CASE v = w
    <3>1. IsFiniteSet(Held(w)) /\ slots[w] + Cardinality(Held(w)) = Concurrency
      BY DEF SlotsInv
    <3>2. IsFiniteSet(Held(w)') /\ Cardinality(Held(w)') = Cardinality(Held(w)) + 1
      BY <1>4, <3>1, FS_AddElement
    <3>3. Cardinality(Held(w)) \in Nat
      BY <3>1, FS_CardinalityType
    <3>4. slots'[w] + Cardinality(Held(w)') = Concurrency
      BY <1>2, <3>1, <3>2, <3>3
    <3>5. waiting[w] = <<>>
      BY <1>2 DEF SlotsInv
    <3> QED BY <2>1, <3>2, <3>4, <3>5
  <2>2. CASE v # w
    BY <1>2, <1>5, <2>2 DEF SlotsInv
  <2> QED BY <2>1, <2>2
<1>7. WaitersQueued'
  <2> SUFFICES ASSUME NEW v \in Workers, NEW i \in 1..Len(waiting[v])
               PROVE  /\ upload'[waiting[v][i]].step = "waiting"
                      /\ upload'[waiting[v][i]].worker = v
                      /\ \A j \in 1..Len(waiting[v]) : waiting[v][i] = waiting[v][j] => i = j
    BY DEF WaitersQueued
  <2>1. /\ waiting[v][i] \in Calls
        /\ upload[waiting[v][i]].step = "waiting" /\ upload[waiting[v][i]].worker = v
    BY QueuedCall
  <2> QED BY <1>1, <2>1 DEF SlotsInv, WaitersQueued
<1> QED BY <1>3, <1>6, <1>7 DEF SlotsInv

\* A request that finds no free slot stands behind the others.
LEMMA SlotAwaited ==
  ASSUME FullInv, SlotsInv, NEW k \in Calls, NEW w \in Workers, NEW entry,
         upload[k].step = "none", entry.step = "waiting", entry.worker = w,
         upload' = [upload EXCEPT ![k] = entry],
         slots[w] = 0, slots' = slots, waiting' = [waiting EXCEPT ![w] = Append(@, k)]
  PROVE  SlotsInv'
<1>1. upload'[k] = entry /\ \A j \in Calls \ {k} : upload'[j] = upload[j]
  BY DEF FullInv, UploadInv
<1>2. ASSUME NEW v \in Workers PROVE Held(v)' = Held(v)
  BY <1>1 DEF Held, Holding
<1>3. /\ waiting \in [Workers -> Seq(Calls)] /\ waiting'[w] = Append(waiting[w], k)
      /\ \A v \in Workers \ {w} : waiting'[v] = waiting[v]
  BY DEF FullInv, UploadInv
<1>4. ASSUME NEW v \in Workers
      PROVE  /\ IsFiniteSet(Held(v))' /\ slots'[v] + Cardinality(Held(v)') = Concurrency
             /\ waiting'[v] # <<>> => slots'[v] = 0
  <2>1. IsFiniteSet(Held(v)) /\ slots[v] + Cardinality(Held(v)) = Concurrency
        /\ (waiting[v] # <<>> => slots[v] = 0)
    BY DEF SlotsInv
  <2> QED BY <1>2, <1>3, <2>1
<1>5. ASSUME NEW v \in Workers, NEW i \in 1..Len(waiting[v])
      PROVE  /\ waiting[v][i] # k
             /\ upload'[waiting[v][i]].step = "waiting" /\ upload'[waiting[v][i]].worker = v
             /\ \A j \in 1..Len(waiting[v]) : waiting[v][i] = waiting[v][j] => i = j
  <2>1. /\ waiting[v][i] \in Calls
        /\ upload[waiting[v][i]].step = "waiting" /\ upload[waiting[v][i]].worker = v
    BY QueuedCall
  <2> QED BY <1>1, <2>1 DEF SlotsInv, WaitersQueued
<1>6. WaitersQueued'
  <2> SUFFICES ASSUME NEW v \in Workers, NEW i \in 1..Len(waiting'[v])
               PROVE  /\ upload'[waiting'[v][i]].step = "waiting"
                      /\ upload'[waiting'[v][i]].worker = v
                      /\ \A j \in 1..Len(waiting'[v]) : waiting'[v][i] = waiting'[v][j] => i = j
    BY DEF WaitersQueued
  <2>1. CASE v # w
    BY <1>3, <1>5, <2>1
  <2>2. CASE v = w
    <3> DEFINE q == waiting[w]
               longer == Append(q, k)
    <3>1. /\ Len(longer) = Len(q) + 1 /\ Len(q) \in Nat /\ longer[Len(q) + 1] = k
          /\ \A n \in 1..Len(q) : longer[n] = q[n]
      BY <1>3, AppendProperties, LenProperties
    <3>2. waiting'[v] = longer
      BY <1>3, <2>2
    <3>3. \A n \in 1..Len(longer) : n \in 1..Len(q) \/ n = Len(q) + 1
      BY <3>1
    <3>4. \A n \in 1..Len(q) :
            /\ longer[n] = q[n] /\ longer[n] # k
            /\ upload'[longer[n]].step = "waiting" /\ upload'[longer[n]].worker = w
            /\ \A j \in 1..Len(q) : longer[n] = longer[j] => n = j
      BY <1>5, <3>1
    <3>5. upload'[k].step = "waiting" /\ upload'[k].worker = w
      BY <1>1
    <3>6. i \in 1..Len(longer)
      BY <3>2
    <3> HIDE DEF longer
    <3>7. upload'[longer[i]].step = "waiting" /\ upload'[longer[i]].worker = w
      BY <3>1, <3>3, <3>4, <3>5, <3>6
    <3>8. ASSUME NEW j \in 1..Len(longer), longer[i] = longer[j] PROVE i = j
      BY <3>1, <3>3, <3>4, <3>6, <3>8
    <3> QED BY <2>2, <3>2, <3>7, <3>8
  <2> QED BY <2>1, <2>2
<1> QED BY <1>4, <1>6 DEF SlotsInv

\* A request that a step of another one leaves alone, or lets through to its slot.
Stays(k) ==
  \/ upload'[k] = upload[k]
  \/ upload[k].step = "waiting" /\ upload'[k] = [upload[k] EXCEPT !.step = "stream"]

\* A slot given back is free, or goes to the head of the queue.
LEMMA ReleaseSlots ==
  ASSUME FullInv, SlotsInv, NEW k \in Calls, upload[k].step \in Holding,
         NEW entry, Onward(k, entry), entry.step \notin Holding \cup {"waiting"},
         Release(k, entry)
  PROVE  /\ SlotsInv' /\ upload'[k] = entry
         /\ \A j \in Calls \ {k} : Stays(j)
<1>0. PICK w : w = upload[k].worker
  OBVIOUS
<1>1. /\ w \in Workers /\ entry.worker = w /\ k \in Held(w)
      /\ upload \in [Calls -> UploadRecord] /\ waiting \in [Workers -> Seq(Calls)]
  BY <1>0 DEF FullInv, UploadInv, RequestShape, Begun, Onward, Held, Holding
<1>2. /\ slots \in [Workers -> Nat] /\ IsFiniteSet(Held(w))
      /\ slots[w] + Cardinality(Held(w)) = Concurrency /\ Cardinality(Held(w)) \in Nat \ {0}
  <2>1. /\ slots \in [Workers -> Nat] /\ IsFiniteSet(Held(w))
        /\ slots[w] + Cardinality(Held(w)) = Concurrency
    BY <1>1 DEF SlotsInv
  <2>2. Cardinality(Held(w)) \in Nat /\ (Cardinality(Held(w)) = 0 <=> Held(w) = {})
    BY <2>1, FS_CardinalityType, FS_EmptySet
  <2> QED BY <1>1, <2>1, <2>2
<1>3. IsFiniteSet(Held(w) \ {k}) /\ Cardinality(Held(w) \ {k}) = Cardinality(Held(w)) - 1
  BY <1>1, <1>2, FS_RemoveElement
<1>4. CASE waiting[w] = <<>>
  <2>1. /\ slots' = [slots EXCEPT ![w] = @ + 1] /\ waiting' = waiting
        /\ upload' = [upload EXCEPT ![k] = entry]
    BY <1>0, <1>4 DEF Release
  <2>2. upload'[k] = entry /\ \A j \in Calls \ {k} : upload'[j] = upload[j]
    BY <1>1, <2>1
  <2>3. Held(w)' = Held(w) \ {k}
    BY <1>0, <1>1, <2>2 DEF Held
  <2>4. ASSUME NEW v \in Workers \ {w} PROVE Held(v)' = Held(v)
    BY <1>0, <1>1, <2>2, <2>4 DEF Held
  <2>5. slots'[w] = slots[w] + 1 /\ \A v \in Workers \ {w} : slots'[v] = slots[v]
    BY <1>1, <1>2, <2>1
  <2>6. slots' \in [Workers -> Nat]
    BY <1>1, <1>2, <2>1
  <2>7. slots'[w] + Cardinality(Held(w)') = Concurrency
    <3>1. slots[w] \in Nat
      BY <1>1, <1>2
    <3> QED BY <1>2, <1>3, <2>3, <2>5, <3>1
  <2>8. ASSUME NEW v \in Workers
        PROVE  /\ IsFiniteSet(Held(v))' /\ slots'[v] + Cardinality(Held(v)') = Concurrency
               /\ waiting'[v] # <<>> => slots'[v] = 0
    <3>1. CASE v = w
      BY <1>3, <1>4, <2>1, <2>3, <2>7, <3>1
    <3>2. CASE v # w
      BY <2>1, <2>4, <2>5, <3>2 DEF SlotsInv
    <3> QED BY <3>1, <3>2
  <2>9. WaitersQueued'
    <3> SUFFICES ASSUME NEW v \in Workers, NEW i \in 1..Len(waiting[v])
                 PROVE  /\ upload'[waiting[v][i]].step = "waiting"
                        /\ upload'[waiting[v][i]].worker = v
                        /\ \A j \in 1..Len(waiting[v]) : waiting[v][i] = waiting[v][j] => i = j
      BY <2>1 DEF WaitersQueued
    <3>1. /\ waiting[v][i] \in Calls
          /\ upload[waiting[v][i]].step = "waiting" /\ upload[waiting[v][i]].worker = v
      BY QueuedCall
    <3>2. waiting[v][i] # k
      BY <3>1 DEF Holding
    <3> QED BY <2>2, <3>1, <3>2 DEF SlotsInv, WaitersQueued
  <2> QED BY <2>2, <2>6, <2>8, <2>9 DEF SlotsInv, Stays
<1>5. CASE waiting[w] # <<>>
  <2> DEFINE q == waiting[w]
             h == Head(q)
             edited == [upload EXCEPT ![k] = entry]
  <2>1. /\ q \in Seq(Calls) /\ h \in Calls /\ h = q[1] /\ 1 \in 1..Len(q)
        /\ Tail(q) \in Seq(Calls)
        /\ \A i \in 1..Len(Tail(q)) : i + 1 \in 1..Len(q) /\ Tail(q)[i] = q[i + 1]
    <3>1. q \in Seq(Calls)
      BY <1>1
    <3> QED BY <1>5, <3>1, QueueHead
  <2>2. upload[h].step = "waiting" /\ upload[h].worker = w /\ h # k
    BY <1>1, <2>1, QueuedCall DEF Holding
  <2>3. /\ upload' = [upload EXCEPT ![k] = entry, ![h].step = "stream"]
        /\ waiting' = [waiting EXCEPT ![w] = Tail(q)] /\ slots' = slots
    BY <1>0, <1>5 DEF Release
  <2>4. /\ upload'[k] = entry
        /\ upload'[h] = [upload[h] EXCEPT !.step = "stream"]
        /\ \A j \in Calls \ {k, h} : upload'[j] = upload[j]
    <3> HIDE DEF h
    <3>1. upload' = [edited EXCEPT ![h].step = "stream"]
      BY <2>3
    <3>2. /\ edited \in [Calls -> UploadRecord] /\ edited[k] = entry
          /\ \A j \in Calls \ {k} : edited[j] = upload[j]
      BY <1>1 DEF Onward
    <3> HIDE DEF edited
    <3>3. /\ upload'[h] = [edited[h] EXCEPT !.step = "stream"]
          /\ \A j \in Calls \ {h} : upload'[j] = edited[j]
      BY <2>1, <3>1, <3>2
    <3> QED BY <2>1, <2>2, <3>2, <3>3
  <2>5. upload'[h].step = "stream" /\ upload'[h].worker = w
    <3>1. upload[h] \in UploadRecord /\ "stream" \in UploadSteps
      BY <1>1, <2>1 DEF UploadSteps, Holding
    <3> QED BY <2>2, <2>4, <3>1, Stepped
  <2> HIDE DEF h
  <2>6. Held(w)' = (Held(w) \ {k}) \cup {h} /\ h \notin Held(w) \ {k}
    <3>1. h \in Held(w)' /\ h \notin Held(w)
      BY <2>1, <2>2, <2>5 DEF Held, Holding
    <3>2. k \notin Held(w)'
      BY <2>4 DEF Held
    <3>3. ASSUME NEW j \in Calls \ {k, h} PROVE j \in Held(w)' <=> j \in Held(w)
      BY <2>4 DEF Held
    <3>4. Held(w) \subseteq Calls /\ Held(w)' \subseteq Calls
      BY DEF Held
    <3> QED BY <3>1, <3>2, <3>3, <3>4
  <2>7. ASSUME NEW v \in Workers \ {w} PROVE Held(v)' = Held(v)
    BY <1>0, <1>1, <2>1, <2>2, <2>4, <2>5, <2>7 DEF Held
  <2>8. IsFiniteSet(Held(w)') /\ Cardinality(Held(w)') = Cardinality(Held(w))
    BY <1>2, <1>3, <2>6, FS_AddElement
  <2>9. ASSUME NEW v \in Workers
        PROVE  /\ IsFiniteSet(Held(v))' /\ slots'[v] + Cardinality(Held(v)') = Concurrency
               /\ waiting'[v] # <<>> => slots'[v] = 0
    <3>1. CASE v = w
      BY <1>2, <1>5, <2>3, <2>8, <3>1 DEF SlotsInv
    <3>2. CASE v # w
      BY <1>1, <2>3, <2>7, <3>2 DEF SlotsInv
    <3> QED BY <3>1, <3>2
  <2>10. ASSUME NEW v \in Workers, NEW i \in 1..Len(waiting[v]), waiting[v][i] # h
         PROVE  upload'[waiting[v][i]].step = "waiting" /\ upload'[waiting[v][i]].worker = v
    <3>1. /\ waiting[v][i] \in Calls
          /\ upload[waiting[v][i]].step = "waiting" /\ upload[waiting[v][i]].worker = v
      BY QueuedCall
    <3>2. waiting[v][i] # k
      BY <3>1 DEF Holding
    <3> QED BY <2>4, <2>10, <3>1, <3>2
  <2>11. WaitersQueued'
    <3> SUFFICES ASSUME NEW v \in Workers, NEW i \in 1..Len(waiting'[v])
                 PROVE  /\ upload'[waiting'[v][i]].step = "waiting"
                        /\ upload'[waiting'[v][i]].worker = v
                        /\ \A j \in 1..Len(waiting'[v]) : waiting'[v][i] = waiting'[v][j] => i = j
      BY DEF WaitersQueued
    <3>1. CASE v = w
      <4> DEFINE rest == Tail(q)
      <4>1. waiting'[v] = rest
        BY <1>1, <2>3, <3>1
      <4>2. Len(q) \in Nat /\ Len(rest) \in Nat
        BY <2>1, LenProperties
      <4>3. \A n \in 1..Len(rest) : n + 1 \in 1..Len(q) /\ rest[n] = q[n + 1]
        BY <2>1
      <4> HIDE DEF rest
      <4>4. \A m, n \in 1..Len(q) : q[m] = q[n] => m = n
        BY <1>1 DEF SlotsInv, WaitersQueued
      <4>5. i \in 1..Len(rest)
        BY <4>1
      <4>6. q[i + 1] # h
        <5>1. i + 1 \in 1..Len(q) /\ i + 1 # 1
          BY <4>2, <4>3, <4>5
        <5> QED BY <2>1, <4>4, <5>1
      <4>7. upload'[rest[i]].step = "waiting" /\ upload'[rest[i]].worker = w
        BY <1>1, <2>10, <4>3, <4>5, <4>6
      <4>8. ASSUME NEW j \in 1..Len(rest), rest[i] = rest[j] PROVE i = j
        <5>1. i + 1 = j + 1
          BY <4>3, <4>4, <4>5, <4>8
        <5> QED BY <4>2, <4>5, <5>1
      <4> QED BY <3>1, <4>1, <4>7, <4>8
    <3>2. CASE v # w
      <4>1. waiting'[v] = waiting[v]
        BY <1>1, <2>3, <3>2
      <4>2. waiting[v][i] # h
        BY <2>2, <3>2, <4>1, QueuedCall
      <4> QED BY <2>10, <4>1, <4>2 DEF SlotsInv, WaitersQueued
    <3> QED BY <3>1, <3>2
  <2>12. \A j \in Calls \ {k} : Stays(j)
    BY <2>2, <2>4 DEF Stays
  <2>13. slots' \in [Workers -> Nat]
    BY <1>2, <2>3
  <2> QED BY <2>4, <2>9, <2>11, <2>12, <2>13 DEF SlotsInv
<1> QED BY <1>4, <1>5

\* A crash gives a worker all its slots back and empties its queue.
LEMMA CrashSlots ==
  ASSUME FullInv, SlotsInv, NEW w \in Workers, Crash(w)
  PROVE  SlotsInv'
<1> DEFINE gone == {k \in Calls : upload[k].worker = w /\ InFlight(k)}
<1>1. /\ upload' = [k \in Calls |-> IF k \in gone THEN [upload[k] EXCEPT !.step = "lost"]
                                    ELSE upload[k]]
      /\ slots' = [slots EXCEPT ![w] = Concurrency]
      /\ waiting' = [waiting EXCEPT ![w] = <<>>]
  BY DEF Crash
<1>2. ASSUME NEW k \in gone PROVE upload'[k].step = "lost" /\ upload'[k].worker = w
  <2>1. upload[k] \in UploadRecord /\ "lost" \in UploadSteps /\ upload[k].worker = w
    BY DEF FullInv, UploadInv, UploadSteps
  <2>2. upload'[k] = [upload[k] EXCEPT !.step = "lost"]
    BY <1>1
  <2> QED BY <2>1, <2>2, Stepped
<1>3. \A k \in Calls \ gone : upload'[k] = upload[k]
  BY <1>1
<1>4. Held(w)' = {}
  BY <1>2, <1>3 DEF Held, InFlight, Holding
<1>5. ASSUME NEW v \in Workers \ {w} PROVE Held(v)' = Held(v)
  BY <1>2, <1>3, <1>5 DEF Held
<1> HIDE DEF gone
<1>6. /\ slots \in [Workers -> Nat] /\ Concurrency \in Nat
      /\ waiting \in [Workers -> Seq(Calls)]
  BY UploadsAssumption DEF FullInv, UploadInv, SlotsInv
<1>7. /\ slots'[w] = Concurrency /\ waiting'[w] = <<>>
      /\ \A v \in Workers \ {w} : slots'[v] = slots[v] /\ waiting'[v] = waiting[v]
  BY <1>1, <1>6
<1>8. slots' \in [Workers -> Nat]
  BY <1>1, <1>6
<1>9. ASSUME NEW v \in Workers
      PROVE  /\ IsFiniteSet(Held(v))' /\ slots'[v] + Cardinality(Held(v)') = Concurrency
             /\ waiting'[v] # <<>> => slots'[v] = 0
  <2>1. CASE v = w
    <3>1. IsFiniteSet({}) /\ Cardinality({}) = 0
      BY FS_EmptySet
    <3>2. IsFiniteSet(Held(w)') /\ Cardinality(Held(w)') = 0
      BY <1>4, <3>1
    <3>3. slots'[w] + Cardinality(Held(w)') = Concurrency
      BY <1>6, <1>7, <3>2
    <3> QED BY <1>7, <2>1, <3>2, <3>3
  <2>2. CASE v # w
    BY <1>5, <1>7, <2>2 DEF SlotsInv
  <2> QED BY <2>1, <2>2
<1>10. WaitersQueued'
  <2> SUFFICES ASSUME NEW v \in Workers, NEW i \in 1..Len(waiting'[v])
               PROVE  /\ upload'[waiting'[v][i]].step = "waiting"
                      /\ upload'[waiting'[v][i]].worker = v
                      /\ \A j \in 1..Len(waiting'[v]) : waiting'[v][i] = waiting'[v][j] => i = j
    BY DEF WaitersQueued
  <2>1. v # w
    <3>1. Len(<<>>) = 0
      BY EmptySeq
    <3> QED BY <1>7, <3>1
  <2>2. /\ waiting'[v] = waiting[v] /\ waiting[v][i] \in Calls
        /\ upload[waiting[v][i]].step = "waiting" /\ upload[waiting[v][i]].worker = v
    BY <1>7, <2>1, QueuedCall
  <2>3. waiting[v][i] \notin gone
    BY <2>1, <2>2 DEF gone
  <2> QED BY <1>3, <2>2, <2>3 DEF SlotsInv, WaitersQueued
<1> QED BY <1>8, <1>9, <1>10 DEF SlotsInv

\* The fields of a reply.
LEMMA AnswerFields ==
  ASSUME FullInv, NEW k \in Calls, NEW status \in Replies
  PROVE  LET z == Answer(k, status) IN
         /\ z.step = "answered" /\ z.status = status
         /\ z.count = upload[k].count /\ z.archive = upload[k].archive
<1> DEFINE y == [upload[k] EXCEPT !.step = "answered"]
           z == Answer(k, status)
<1>1. upload[k] \in UploadRecord /\ "answered" \in UploadSteps
  BY DEF FullInv, UploadInv, UploadSteps
<1>2. /\ y \in UploadRecord /\ y.step = "answered"
      /\ y.count = upload[k].count /\ y.archive = upload[k].archive
  BY <1>1, Stepped
<1> HIDE DEF y
<1>3. z = [y EXCEPT !.status = status]
  BY DEF y, Answer
<1> HIDE DEF z
<1>4. /\ z.step = y.step /\ z.status = status /\ z.count = y.count /\ z.archive = y.archive
  BY <1>2, <1>3 DEF UploadRecord
<1>5. /\ z.step = "answered" /\ z.status = status
      /\ z.count = upload[k].count /\ z.archive = upload[k].archive
  BY <1>2, <1>4
<1> QED BY <1>5 DEF z

\* What is let through to its slot is what it was.
LEMMA StayingFields ==
  ASSUME FullInv, NEW k \in Calls, Stays(k)
  PROVE  /\ upload'[k].count = upload[k].count /\ upload'[k].archive = upload[k].archive
         /\ upload'[k].status = upload[k].status
         /\ \/ upload'[k].step = upload[k].step
            \/ upload[k].step = "waiting" /\ upload'[k].step = "stream"
<1>1. upload[k] \in UploadRecord /\ "stream" \in UploadSteps
  BY DEF FullInv, UploadInv, UploadSteps, Holding
<1>2. CASE upload'[k] = upload[k]
  BY <1>2
<1>3. CASE upload[k].step = "waiting" /\ upload'[k] = [upload[k] EXCEPT !.step = "stream"]
  <2>1. /\ upload'[k].count = upload[k].count /\ upload'[k].archive = upload[k].archive
        /\ upload'[k].status = upload[k].status /\ upload'[k].step = "stream"
    BY <1>1, <1>3, Stepped
  <2> QED BY <1>3, <2>1
<1> QED BY <1>2, <1>3 DEF Stays

\* A file of a request is a path of its own.
LEMMA FilePaths ==
  ASSUME NEW k \in Calls, NEW i \in 1..MaxFiles
  PROVE  <<k, i>> \in Paths /\ <<k, i>> # NoFile
BY UploadsAssumption, IngestionAssumption

\* The length of an archive.
LEMMA ArchiveLength ==
  ASSUME FullInv, NEW k \in Calls
  PROVE  /\ Len(upload[k].archive.files) \in 0..MaxFiles /\ Done(k) \in Nat
         /\ upload[k].archive.files \in Seq(Contents) /\ upload[k].count \in Counts
<1>1. upload[k] \in UploadRecord /\ RequestShape(k)
  BY DEF FullInv, UploadInv
<1>2. upload[k].archive.files \in Seq(Contents) /\ upload[k].count \in Counts
  BY <1>1 DEF UploadRecord, Archive
<1>3. Len(upload[k].archive.files) \in Nat /\ Len(upload[k].archive.files) <= MaxFiles
  BY <1>1, <1>2, LenProperties DEF RequestShape
<1>4. Done(k) \in Nat
  BY <1>2 DEF Done, Counts, Outcomes
<1> QED BY <1>2, <1>3, <1>4, UploadsAssumption

\* Where the call of a request is.
LEMMA OwnPath ==
  ASSUME ServerInv, NEW k \in Calls, call[k].step # "idle"
  PROVE  \/ upload[k].step = "text" /\ call[k].path = NoFile
         \/ /\ upload[k].step = "ingest" /\ call[k].path = <<k, Done(k) + 1>>
            /\ Done(k) + 1 \in 1..MaxFiles /\ Done(k) + 1 \in 1..Len(upload[k].archive.files)
            /\ call[k].path \in Paths /\ call[k].path # NoFile
<1>1. RecordsOf(k) /\ FullInv
  BY DEF ServerInv
<1>2. Len(upload[k].archive.files) \in 0..MaxFiles /\ Done(k) \in Nat
  BY <1>1, ArchiveLength
<1>3. CASE upload[k].step = "text"
  BY <1>1, <1>3 DEF RecordsOf
<1>4. CASE upload[k].step = "ingest"
  <2>1. call[k].path = <<k, Done(k) + 1>> /\ Done(k) < Len(upload[k].archive.files)
    BY <1>1, <1>4 DEF RecordsOf, AtFile
  <2>2. Done(k) + 1 \in 1..MaxFiles /\ Done(k) + 1 \in 1..Len(upload[k].archive.files)
    BY <1>2, <2>1, UploadsAssumption
  <2> QED BY <1>4, <2>1, <2>2, FilePaths
<1> QED BY <1>1, <1>3, <1>4 DEF RecordsOf

\* Events and rows of a request that nothing of another one touches.
LEMMA SameUpTo ==
  ASSUME NEW k \in Calls, NEW n \in 0..MaxFiles,
         \A i \in 1..MaxFiles : Recorded(<<k, i>>)' <=> Recorded(<<k, i>>)
  PROVE  RecordedUpTo(k, n)' = RecordedUpTo(k, n)
<1>1. \A p \in {k} \X (1..n) : Recorded(p)' <=> Recorded(p)
  <2> SUFFICES ASSUME NEW i \in 1..n PROVE Recorded(<<k, i>>)' <=> Recorded(<<k, i>>)
    OBVIOUS
  <2>1. i \in 1..MaxFiles
    BY UploadsAssumption
  <2> QED BY <2>1
<1> QED BY <1>1 DEF RecordedUpTo

\* A request keeps its records while others step.
LEMMA RecordsStay ==
  ASSUME ServerInv, NEW k \in Calls, Stays(k), call'[k] = call[k],
         \A i \in 1..MaxFiles : /\ Recorded(<<k, i>>)' <=> Recorded(<<k, i>>)
                                /\ index'[<<k, i>>] = index[<<k, i>>]
  PROVE  RecordsOf(k)' /\ IndexedOf(k)'
<1>1. FullInv /\ RecordsOf(k) /\ IndexedOf(k)
  BY DEF ServerInv
<1>2. /\ upload'[k].count = upload[k].count /\ upload'[k].archive = upload[k].archive
      /\ upload'[k].status = upload[k].status
      /\ \/ upload'[k].step = upload[k].step
         \/ upload[k].step = "waiting" /\ upload'[k].step = "stream"
  BY <1>1, StayingFields
<1>3. Done(k)' = Done(k)
  BY <1>2 DEF Done
<1>4. Len(upload[k].archive.files) \in 0..MaxFiles /\ Done(k) \in Nat
  BY <1>1, ArchiveLength
<1>5. RecordsOf(k)'
  <2>1. upload'[k].step \in BeforeFiles =>
          /\ \A o \in Outcomes : upload'[k].count[o] = 0
          /\ \A i \in 1..MaxFiles : ~Recorded(<<k, i>>)'
    BY <1>1, <1>2 DEF RecordsOf, BeforeFiles
  <2>2. upload'[k].step = "text" => upload'[k].archive.files = <<>> /\ call'[k].path = NoFile
    BY <1>1, <1>2 DEF RecordsOf
  <2>3. ASSUME upload'[k].step = "ingest" PROVE AtFile(k)'
    <3>1. upload[k].step = "ingest" /\ AtFile(k)
      BY <1>1, <1>2, <2>3 DEF RecordsOf
    <3>2. Done(k) \in 0..MaxFiles /\ Done(k) + 1 \in 1..MaxFiles
      BY <1>4, <3>1, UploadsAssumption DEF AtFile
    <3>3. PICK n : n = Done(k)
      OBVIOUS
    <3>4. n \in 0..MaxFiles /\ RecordedUpTo(k, n)' = RecordedUpTo(k, n)
      BY <3>2, <3>3, SameUpTo
    <3>5. /\ n < Len(upload'[k].archive.files) /\ call'[k].path = <<k, n + 1>>
          /\ upload'[k].count["ingested"] = Cardinality(RecordedUpTo(k, n)')
          /\ \A i \in 1..MaxFiles : i > n /\ Recorded(<<k, i>>)' =>
               i = n + 1 /\ call'[k].step = "ingested"
          /\ call'[k].step = "ingested" => Recorded(<<k, n + 1>>)'
      BY <1>2, <3>1, <3>2, <3>3, <3>4 DEF AtFile
    <3>6. n = Done(k)'
      BY <1>3, <3>3
    <3> QED BY <3>5, <3>6 DEF AtFile
  <2>4. ASSUME upload'[k].step = "audit" \/ (upload'[k].step = "answered" /\ upload'[k].status = 200)
        PROVE  upload'[k].count["ingested"] =
                 Cardinality(RecordedUpTo(k, Len(upload[k].archive.files))')
    <3>1. PICK n : n = Len(upload[k].archive.files)
      OBVIOUS
    <3>2. RecordedUpTo(k, n)' = RecordedUpTo(k, n)
      BY <1>4, <3>1, SameUpTo
    <3>3. upload[k].count["ingested"] = Cardinality(RecordedUpTo(k, n))
      BY <1>1, <1>2, <2>4, <3>1 DEF RecordsOf
    <3>4. upload'[k].count["ingested"] = Cardinality(RecordedUpTo(k, n)')
      BY <1>2, <3>2, <3>3
    <3>5. n = Len(upload'[k].archive.files)
      BY <1>2, <3>1
    <3> QED BY <3>4, <3>5, <1>2
  <2>5. call'[k].step # "idle" => upload'[k].step \in {"ingest", "text"}
    BY <1>1, <1>2 DEF RecordsOf
  <2> QED BY <1>2, <2>1, <2>2, <2>3, <2>4, <2>5 DEF RecordsOf
<1>6. IndexedOf(k)'
  <2>1. call[k].step = "event" /\ call[k].path # NoFile =>
          \E i \in 1..MaxFiles : call[k].path = <<k, i>>
    BY OwnPath
  <2> QED BY <1>1, <2>1 DEF IndexedOf
<1> QED BY <1>5, <1>6

\* What a request has staged stays its own while others step.
LEMMA StagedStays ==
  ASSUME ServerInv, NEW k \in Calls, Stays(k),
         k \in incoming' => k \in incoming, k \in batches' => k \in batches
  PROVE  StagedBy(k)'
<1>1. FullInv /\ StagedBy(k)
  BY DEF ServerInv
<1>2. /\ upload'[k].status = upload[k].status
      /\ \/ upload'[k].step = upload[k].step
         \/ upload[k].step = "waiting" /\ upload'[k].step = "stream"
  BY <1>1, StayingFields
<1> QED BY <1>1, <1>2 DEF StagedBy

\* A step of one request that writes neither events nor index rows.
LEMMA RequestStep ==
  ASSUME ServerInv, NEW k \in Calls, FullInv', SlotsInv', UNCHANGED <<index, events>>,
         \A j \in Calls \ {k} : Stays(j) /\ call'[j] = call[j],
         incoming' \subseteq incoming \cup {k}, batches' \subseteq batches \cup {k},
         call'[k] = call[k] \/ call'[k].step # "event",
         StagedBy(k)', RecordsOf(k)'
  PROVE  ServerInv'
<1>1. ASSUME NEW j \in Calls \ {k} PROVE StagedBy(j)' /\ RecordsOf(j)' /\ IndexedOf(j)'
  <2>1. StagedBy(j)'
    BY StagedStays
  <2>2. \A i \in 1..MaxFiles : /\ Recorded(<<j, i>>)' <=> Recorded(<<j, i>>)
                               /\ index'[<<j, i>>] = index[<<j, i>>]
    BY DEF Recorded
  <2>3. RecordsOf(j)' /\ IndexedOf(j)'
    BY <2>2, RecordsStay
  <2> QED BY <2>1, <2>3
<1>2. IndexedOf(k)'
  BY DEF ServerInv, IndexedOf, Recorded
<1>3. incoming' \subseteq Calls /\ batches' \subseteq Calls
  BY DEF ServerInv
<1> QED BY <1>1, <1>2, <1>3 DEF ServerInv

\* A request that goes on before its first file.
LEMMA RecordsBefore ==
  ASSUME ServerInv, NEW k \in Calls, upload[k].step \in BeforeFiles \ {"text"},
         NEW step \in BeforeFiles \ {"text"}, upload'[k] = [upload[k] EXCEPT !.step = step],
         events' = events, call' = call
  PROVE  RecordsOf(k)'
<1>1. RecordsOf(k) /\ upload[k] \in UploadRecord /\ step \in UploadSteps
  BY DEF ServerInv, FullInv, UploadInv, BeforeFiles, UploadSteps, Holding
<1>2. upload'[k].step = step /\ upload'[k].count = upload[k].count
  BY <1>1, Stepped
<1> QED BY <1>1, <1>2 DEF RecordsOf, BeforeFiles, Recorded

\* A request that has an answer to its error.
LEMMA RecordsEnded ==
  ASSUME NEW k \in Calls, upload'[k].step \in {"answered", "lost"},
         upload'[k].step = "answered" => upload'[k].status # 200,
         call'[k].step = "idle"
  PROVE  RecordsOf(k)'
BY DEF RecordsOf, BeforeFiles

\* A request that keeps its slot and its call.
LEMMA StepEdits ==
  ASSUME ServerInv, NEW k \in Calls, NEW step \in UploadSteps,
         upload' = [upload EXCEPT ![k].step = step]
  PROVE  /\ upload'[k] = [upload[k] EXCEPT !.step = step]
         /\ upload'[k].step = step /\ upload'[k].status = upload[k].status
         /\ upload'[k].count = upload[k].count /\ upload'[k].archive = upload[k].archive
         /\ upload'[k].worker = upload[k].worker
         /\ \A j \in Calls \ {k} : upload'[j] = upload[j]
<1>1. upload \in [Calls -> UploadRecord] /\ upload[k] \in UploadRecord
  BY DEF ServerInv, FullInv, UploadInv
<1>2. /\ upload'[k] = [upload[k] EXCEPT !.step = step]
      /\ \A j \in Calls \ {k} : upload'[j] = upload[j]
  BY <1>1
<1> QED BY <1>1, <1>2, Stepped

\* A request that fails with an answer gives its slot back.
LEMMA FailsEnds ==
  ASSUME ServerInv, NEW k \in Calls, upload[k].step \in Holding, call[k].step = "idle",
         NEW status \in Replies \ {200}, Fails(k, status)
  PROVE  /\ SlotsInv' /\ RecordsOf(k)'
         /\ upload'[k].step = "answered" /\ upload'[k].status = status
         /\ \A j \in Calls \ {k} : Stays(j) /\ call'[j] = call[j]
         /\ call' = call
<1>1. FullInv /\ SlotsInv /\ UploadInv /\ Begun(k)
  BY DEF ServerInv, FullInv, Begun, Holding
<1> DEFINE z == Answer(k, status)
<1>2. z.step = "answered" /\ z.status = status
  BY <1>1, AnswerFields
<1>3. Onward(k, z)
  BY <1>1, AnswerOnward
<1>4. Release(k, z) /\ call' = call
  BY DEF Fails
<1> HIDE DEF z
<1>5. SlotsInv' /\ upload'[k] = z /\ \A j \in Calls \ {k} : Stays(j)
  BY <1>1, <1>2, <1>3, <1>4, ReleaseSlots DEF Holding
<1>6. RecordsOf(k)'
  BY <1>2, <1>4, <1>5, RecordsEnded
<1> QED BY <1>2, <1>4, <1>5, <1>6

\* Nobody's call runs before the archive is extracted.
LEMMA IdleBefore ==
  ASSUME ServerInv, NEW k \in Calls, upload[k].step \notin {"ingest", "text"}
  PROVE  call[k].step = "idle"
BY DEF ServerInv, RecordsOf

\* The incoming file is created.
LEMMA StreamKeeps ==
  ASSUME ServerInv, FullInv', NEW k \in Calls, Stream(k)
  PROVE  ServerInv'
<1>1. /\ upload[k].step = "stream" /\ incoming' = incoming \cup {k}
      /\ upload' = [upload EXCEPT ![k].step = "copy"]
      /\ UNCHANGED <<index, events, call, slots, waiting, batches>>
  BY DEF Stream, docVars
<1>2. "copy" \in UploadSteps
  BY DEF UploadSteps, Holding
<1>3. /\ upload'[k] = [upload[k] EXCEPT !.step = "copy"]
      /\ upload'[k].step = "copy" /\ upload'[k].status = upload[k].status
      /\ upload'[k].worker = upload[k].worker
      /\ \A j \in Calls \ {k} : upload'[j] = upload[j]
  BY <1>1, <1>2, StepEdits
<1>4. SlotsInv'
  BY <1>1, <1>3, SlotsQuiet DEF ServerInv, Holding
<1>5. StagedBy(k)'
  BY <1>1, <1>3 DEF ServerInv, StagedBy
<1>6. RecordsOf(k)'
  BY <1>1, <1>3, RecordsBefore DEF BeforeFiles
<1> QED BY <1>1, <1>3, <1>4, <1>5, <1>6, RequestStep DEF Stays

\* The incoming file is complete, or removed with the error that ends the request.
LEMMA CopyKeeps ==
  ASSUME ServerInv, FullInv', NEW k \in Calls, Copy(k)
  PROVE  ServerInv'
<1>1. /\ upload[k].step = "copy" /\ UNCHANGED <<index, events, batches>>
      /\ call[k].step = "idle" /\ k \notin batches
  BY IdleBefore DEF Copy, ServerInv, StagedBy
<1>2. CASE upload' = [upload EXCEPT ![k].step = "stage"]
           /\ UNCHANGED <<disk, call, slots, waiting, incoming>>
  <2>1. "stage" \in UploadSteps
    BY DEF UploadSteps, Holding
  <2>2. /\ upload'[k] = [upload[k] EXCEPT !.step = "stage"]
        /\ upload'[k].step = "stage" /\ upload'[k].status = upload[k].status
        /\ upload'[k].worker = upload[k].worker
        /\ \A j \in Calls \ {k} : upload'[j] = upload[j]
    BY <1>2, <2>1, StepEdits
  <2>3. SlotsInv'
    BY <1>1, <1>2, <2>2, SlotsQuiet DEF ServerInv, Holding
  <2>4. StagedBy(k)'
    BY <1>1, <1>2, <2>2 DEF ServerInv, StagedBy
  <2>5. RecordsOf(k)'
    BY <1>1, <1>2, <2>2, RecordsBefore DEF BeforeFiles
  <2> QED BY <1>1, <1>2, <2>2, <2>3, <2>4, <2>5, RequestStep DEF Stays
<1>3. ASSUME NEW status \in {413, 500}, incoming' = incoming \ {k}, Fails(k, status)
      PROVE  ServerInv'
  <2>1. status \in Replies \ {200} /\ upload[k].step \in Holding
    BY <1>1 DEF Replies, Holding
  <2>2. SlotsInv' /\ RecordsOf(k)' /\ call' = call
    BY <1>1, <1>3, <2>1, FailsEnds
  <2>3. upload'[k].step = "answered" /\ \A j \in Calls \ {k} : Stays(j) /\ call'[j] = call[j]
    BY <1>1, <1>3, <2>1, FailsEnds
  <2>4. StagedBy(k)'
    BY <1>1, <1>3, <2>3 DEF StagedBy
  <2> QED BY <1>1, <1>3, <2>2, <2>3, <2>4, RequestStep
<1> QED BY <1>2, <1>3 DEF Copy

\* The archive is moved into its batch, or its error ends the request.
LEMMA StageKeeps ==
  ASSUME ServerInv, FullInv', NEW k \in Calls, Stage(k)
  PROVE  ServerInv'
<1>1. /\ upload[k].step = "stage" /\ UNCHANGED <<index, events>>
      /\ incoming' = incoming \ {k} /\ call[k].step = "idle" /\ k \notin batches
      /\ upload[k].status = 0
  BY IdleBefore DEF Stage, ServerInv, StagedBy
<1>2. CASE /\ batches' = batches \cup {k}
           /\ upload' = [upload EXCEPT ![k].step = "extract"]
           /\ UNCHANGED <<disk, call, slots, waiting>>
  <2>1. "extract" \in UploadSteps
    BY DEF UploadSteps, Holding
  <2>2. /\ upload'[k] = [upload[k] EXCEPT !.step = "extract"]
        /\ upload'[k].step = "extract" /\ upload'[k].status = upload[k].status
        /\ upload'[k].worker = upload[k].worker
        /\ \A j \in Calls \ {k} : upload'[j] = upload[j]
    BY <1>2, <2>1, StepEdits
  <2>3. SlotsInv'
    BY <1>1, <1>2, <2>2, SlotsQuiet DEF ServerInv, Holding
  <2>4. StagedBy(k)'
    BY <1>1, <2>2 DEF StagedBy
  <2>5. RecordsOf(k)'
    BY <1>1, <1>2, <2>2, RecordsBefore DEF BeforeFiles
  <2> QED BY <1>1, <1>2, <2>2, <2>3, <2>4, <2>5, RequestStep DEF Stays
<1>3. ASSUME NEW status \in {400, 500}, batches' = batches, Fails(k, status)
      PROVE  ServerInv'
  <2>1. status \in Replies \ {200} /\ upload[k].step \in Holding
    BY <1>1 DEF Replies, Holding
  <2>2. SlotsInv' /\ RecordsOf(k)' /\ call' = call
    BY <1>1, <1>3, <2>1, FailsEnds
  <2>3. upload'[k].step = "answered" /\ \A j \in Calls \ {k} : Stays(j) /\ call'[j] = call[j]
    BY <1>1, <1>3, <2>1, FailsEnds
  <2>4. StagedBy(k)'
    BY <1>1, <1>3, <2>3 DEF StagedBy
  <2> QED BY <1>1, <1>3, <2>2, <2>3, <2>4, RequestStep
<1> QED BY <1>2, <1>3 DEF Stage

\* The files of a request are finitely many, and those before the first are none.
LEMMA UpToFinite ==
  ASSUME NEW k \in Calls, NEW n \in Nat
  PROVE  /\ IsFiniteSet(RecordedUpTo(k, n)) /\ Cardinality(RecordedUpTo(k, n)) \in Nat
         /\ n = 0 => Cardinality(RecordedUpTo(k, n)) = 0
<1>1. IsFiniteSet(1..n) /\ IsFiniteSet({k})
  <2>1. 1 \in Int /\ n \in Int
    OBVIOUS
  <2>2. IsFiniteSet(1..n)
    BY <2>1, FS_Interval
  <2>3. IsFiniteSet({k})
    BY FS_Singleton
  <2> QED BY <2>2, <2>3
<1>2. IsFiniteSet({k} \X (1..n))
  BY <1>1, FS_Product
<1>3. RecordedUpTo(k, n) \in SUBSET ({k} \X (1..n))
  BY DEF RecordedUpTo
<1>4. IsFiniteSet(RecordedUpTo(k, n))
  BY <1>2, <1>3, FS_Subset
<1>5. ASSUME n = 0 PROVE RecordedUpTo(k, n) = {}
  BY <1>3, <1>5
<1> QED BY <1>4, <1>5, FS_CardinalityType, FS_EmptySet

\* One more file is counted: as ingested exactly if it has its event.
LEMMA UpToNext ==
  ASSUME NEW k \in Calls, NEW n \in Nat
  PROVE  Cardinality(RecordedUpTo(k, n + 1)) =
           Cardinality(RecordedUpTo(k, n)) + (IF Recorded(<<k, n + 1>>) THEN 1 ELSE 0)
<1>1. IsFiniteSet(RecordedUpTo(k, n)) /\ Cardinality(RecordedUpTo(k, n)) \in Nat
  BY UpToFinite
<1>2. \A p \in {k} \X (1..(n + 1)) : p \in {k} \X (1..n) \/ p = <<k, n + 1>>
  OBVIOUS
<1>3. <<k, n + 1>> \notin {k} \X (1..n) /\ <<k, n + 1>> \in {k} \X (1..(n + 1))
      /\ {k} \X (1..n) \subseteq {k} \X (1..(n + 1))
  OBVIOUS
<1>4. CASE Recorded(<<k, n + 1>>)
  <2>1. /\ RecordedUpTo(k, n + 1) = RecordedUpTo(k, n) \cup {<<k, n + 1>>}
        /\ <<k, n + 1>> \notin RecordedUpTo(k, n)
    BY <1>2, <1>3, <1>4 DEF RecordedUpTo
  <2>2. Cardinality(RecordedUpTo(k, n + 1)) = Cardinality(RecordedUpTo(k, n)) + 1
    BY <1>1, <2>1, FS_AddElement
  <2> QED BY <1>4, <2>2
<1>5. CASE ~Recorded(<<k, n + 1>>)
  <2>1. RecordedUpTo(k, n + 1) = RecordedUpTo(k, n)
    BY <1>2, <1>3, <1>5 DEF RecordedUpTo
  <2> QED BY <1>1, <1>5, <2>1
<1> QED BY <1>4, <1>5

\* The end of an archive whose files are all counted.
LEMMA ProcessedEnds ==
  ASSUME ServerInv, NEW k \in Calls, upload[k].step \in {"extract", "ingest"},
         NEW entry, Onward(k, entry), entry.status = upload[k].status,
         entry.count["ingested"] = Cardinality(RecordedUpTo(k, Len(upload[k].archive.files))),
         Processed(k, entry), UNCHANGED <<events, incoming, batches>>, call'[k].step = "idle"
  PROVE  /\ SlotsInv' /\ StagedBy(k)' /\ RecordsOf(k)'
         /\ \A j \in Calls \ {k} : Stays(j)
<1>1. /\ FullInv /\ SlotsInv /\ upload[k].step \in Holding
      /\ k \notin incoming /\ upload[k].status = 0
  BY DEF ServerInv, StagedBy, Holding
<1> DEFINE y == [entry EXCEPT !.step = "answered"]
           z == [entry EXCEPT !.step = "answered", !.status = 200]
           audit == [entry EXCEPT !.step = "audit"]
<1>2. entry \in UploadRecord /\ {"answered", "audit"} \subseteq UploadSteps
  BY DEF Onward, UploadSteps
<1>3. /\ y \in UploadRecord /\ y.step = "answered" /\ y.count = entry.count
      /\ y.user = entry.user /\ y.scope = entry.scope
      /\ y.archive = entry.archive /\ y.worker = entry.worker
  BY <1>2, Stepped
<1>4. /\ audit \in UploadRecord /\ audit.step = "audit" /\ audit.count = entry.count
      /\ audit.user = entry.user /\ audit.scope = entry.scope /\ audit.status = 0
      /\ audit.archive = entry.archive /\ audit.worker = entry.worker
  BY <1>1, <1>2, Stepped
<1> HIDE DEF y
<1>5. z = [y EXCEPT !.status = 200]
  BY DEF y
<1>6. Release(k, z) \/ Release(k, audit)
  BY DEF Processed
<1> HIDE DEF z, audit
<1>7. /\ z \in UploadRecord /\ z.step = "answered" /\ z.status = 200 /\ z.count = y.count
      /\ z.user = y.user /\ z.scope = y.scope /\ z.archive = y.archive /\ z.worker = y.worker
  BY <1>3, <1>5 DEF UploadRecord, Replies
<1>8. PICK last \in {z, audit} : Release(k, last)
  BY <1>6
<1>9. /\ Onward(k, last) /\ last.step \in {"answered", "audit"}
      /\ last.count = entry.count /\ last.archive = upload[k].archive
      /\ last.status \in {0, 200} /\ (last.step = "audit" => last.status = 0)
  BY <1>3, <1>4, <1>7 DEF Onward
<1>10. last.step \notin Holding \cup {"waiting"}
  BY <1>9 DEF Holding
<1>11. SlotsInv' /\ upload'[k] = last /\ \A j \in Calls \ {k} : Stays(j)
  BY <1>1, <1>8, <1>9, <1>10, ReleaseSlots
<1>12. StagedBy(k)'
  BY <1>1, <1>9, <1>11 DEF StagedBy
<1>13. PICK n : n = Len(upload[k].archive.files)
  OBVIOUS
<1>14. RecordedUpTo(k, n)' = RecordedUpTo(k, n)
  BY DEF RecordedUpTo, Recorded
<1>15. upload'[k].count["ingested"] = Cardinality(RecordedUpTo(k, n)')
  BY <1>9, <1>11, <1>13, <1>14
<1>16. n = Len(upload'[k].archive.files)
  BY <1>9, <1>11, <1>13
<1>17. upload'[k].count["ingested"] = Cardinality(RecordedUpTo(k, Len(upload[k].archive.files))')
  BY <1>15, <1>16
<1>18. RecordsOf(k)'
  BY <1>9, <1>11, <1>17 DEF RecordsOf, BeforeFiles
<1> QED BY <1>11, <1>12, <1>18

\* The archive is extracted, and its first file is next, or there is none.
LEMMA ExtractKeeps ==
  ASSUME ServerInv, FullInv', NEW k \in Calls, Extract(k)
  PROVE  ServerInv'
<1> DEFINE zip == upload[k].archive
<1>1. /\ upload[k].step = "extract" /\ UNCHANGED <<index, events, incoming>>
      /\ call[k].step = "idle" /\ k \notin incoming /\ upload[k].status = 0
      /\ upload[k].step \in Holding /\ Begun(k)
  BY IdleBefore DEF Extract, ServerInv, StagedBy, Holding, Begun
<1>2. FullInv /\ SlotsInv /\ RecordsOf(k) /\ upload[k] \in UploadRecord
      /\ upload \in [Calls -> UploadRecord] /\ call \in [Calls -> CallRecord]
  BY DEF ServerInv, FullInv, UploadInv, StoresInv, IngestionTypeOK, CallRecord
<1>3. /\ \A o \in Outcomes : upload[k].count[o] = 0
      /\ \A i \in 1..MaxFiles : ~Recorded(<<k, i>>)
  BY <1>1, <1>2 DEF RecordsOf, BeforeFiles
<1>4. ASSUME NEW status \in {400, 500}, Fails(k, status),
             \/ status = 400 /\ batches' = batches \ {k}
             \/ status = 500 /\ batches' = batches
      PROVE  ServerInv'
  <2>1. status \in Replies \ {200}
    BY DEF Replies
  <2>2. SlotsInv' /\ RecordsOf(k)' /\ call' = call
    BY <1>1, <1>4, <2>1, FailsEnds
  <2>3. upload'[k].step = "answered" /\ upload'[k].status = status
    BY <1>1, <1>4, <2>1, FailsEnds
  <2>4. \A j \in Calls \ {k} : Stays(j) /\ call'[j] = call[j]
    BY <1>1, <1>4, <2>1, FailsEnds
  <2>5. StagedBy(k)'
    BY <1>1, <1>4, <2>3 DEF StagedBy
  <2> QED BY <1>1, <1>4, <2>2, <2>4, <2>5, RequestStep
<1>5. CASE zip.files = <<>> /\ Processed(k, upload[k]) /\ UNCHANGED <<call, batches>>
  <2>1. Onward(k, upload[k])
    BY <1>1, <1>2 DEF Onward, Begun
  <2>2. Len(zip.files) = 0
    BY <1>5, EmptySeq
  <2>3. upload[k].count["ingested"] = Cardinality(RecordedUpTo(k, Len(upload[k].archive.files)))
    BY <1>3, <2>2, UpToFinite DEF Outcomes
  <2>4. SlotsInv' /\ StagedBy(k)' /\ RecordsOf(k)' /\ \A j \in Calls \ {k} : Stays(j)
    BY <1>1, <1>5, <2>1, <2>3, ProcessedEnds
  <2> QED BY <1>1, <1>5, <2>4, RequestStep
<1>6. CASE /\ zip.files # <<>>
           /\ upload' = [upload EXCEPT ![k].step = "ingest"]
           /\ call' = [call EXCEPT ![k] = Document(<<k, 1>>, upload[k].user, upload[k].scope)]
           /\ UNCHANGED <<slots, waiting, batches>>
  <2>1. "ingest" \in UploadSteps
    BY DEF UploadSteps, Holding
  <2>2. /\ upload'[k].step = "ingest" /\ upload'[k].status = upload[k].status
        /\ upload'[k].worker = upload[k].worker /\ upload'[k].count = upload[k].count
        /\ upload'[k].archive = upload[k].archive
        /\ \A j \in Calls \ {k} : upload'[j] = upload[j]
    BY <1>6, <2>1, StepEdits
  <2>3. /\ call'[k].step = "hash" /\ call'[k].path = <<k, 1>>
        /\ \A j \in Calls \ {k} : call'[j] = call[j]
    BY <1>2, <1>6 DEF Document, Idle
  <2>4. SlotsInv'
    BY <1>1, <1>2, <1>6, <2>2, SlotsQuiet DEF Holding
  <2>5. StagedBy(k)'
    BY <1>1, <1>6, <2>2 DEF StagedBy, ServerInv
  <2>6. AtFile(k)'
    <3>1. Done(k)' = 0
      BY <1>3, <2>2 DEF Done, Outcomes
    <3>2. Len(zip.files) \in Nat \ {0}
      BY <1>2, <1>6, ArchiveLength, EmptySeq
    <3>3. RecordedUpTo(k, 0)' = RecordedUpTo(k, 0) /\ Cardinality(RecordedUpTo(k, 0)) = 0
      <4>1. RecordedUpTo(k, 0)' = RecordedUpTo(k, 0)
        BY <1>1 DEF RecordedUpTo, Recorded
      <4> QED BY <4>1, UpToFinite
    <3>4. /\ 0 < Len(upload'[k].archive.files) /\ call'[k].path = <<k, 0 + 1>>
          /\ upload'[k].count["ingested"] = Cardinality(RecordedUpTo(k, 0)')
          /\ \A i \in 1..MaxFiles : ~Recorded(<<k, i>>)'
          /\ call'[k].step # "ingested"
      BY <1>1, <1>3, <2>2, <2>3, <3>2, <3>3 DEF Recorded, Outcomes
    <3> QED BY <3>1, <3>4 DEF AtFile
  <2>7. RecordsOf(k)'
    BY <2>2, <2>6 DEF RecordsOf, BeforeFiles
  <2> QED BY <1>1, <1>6, <2>2, <2>3, <2>4, <2>5, <2>7, RequestStep DEF Stays
<1> QED BY <1>4, <1>5, <1>6 DEF Extract

\* One file more is counted under its outcome.
LEMMA CountedFields ==
  ASSUME FullInv, NEW k \in Calls, NEW o \in {"ingested", "skipped", "failed"}
  PROVE  LET z == [upload[k] EXCEPT !.count[o] = @ + 1] IN
         /\ z.step = upload[k].step /\ z.status = upload[k].status
         /\ z.archive = upload[k].archive /\ z.worker = upload[k].worker
         /\ z.count["ingested"] = upload[k].count["ingested"] + (IF o = "ingested" THEN 1 ELSE 0)
         /\ z.count["ingested"] + z.count["skipped"] + z.count["failed"] = Done(k) + 1
<1> DEFINE x == upload[k]
           counts == [x.count EXCEPT ![o] = @ + 1]
           entry == [x EXCEPT !.count = counts]
<1>1. x \in UploadRecord /\ x.count \in Counts
  BY DEF FullInv, UploadInv, UploadRecord
<1>2. /\ x.count["ingested"] \in Nat /\ x.count["skipped"] \in Nat /\ x.count["failed"] \in Nat
      /\ Done(k) = x.count["ingested"] + x.count["skipped"] + x.count["failed"]
  BY <1>1 DEF Counts, Outcomes, Done
<1>3. /\ counts["ingested"] = x.count["ingested"] + (IF o = "ingested" THEN 1 ELSE 0)
      /\ counts["skipped"] = x.count["skipped"] + (IF o = "skipped" THEN 1 ELSE 0)
      /\ counts["failed"] = x.count["failed"] + (IF o = "failed" THEN 1 ELSE 0)
  BY <1>1, <1>2 DEF Counts, Outcomes
<1>4. counts["ingested"] + counts["skipped"] + counts["failed"] = Done(k) + 1
  BY <1>2, <1>3
<1>5. [upload[k] EXCEPT !.count[o] = @ + 1] = entry
  OBVIOUS
<1> HIDE DEF counts
<1>6. /\ entry.step = x.step /\ entry.status = x.status /\ entry.count = counts
      /\ entry.archive = x.archive /\ entry.worker = x.worker
  BY <1>1 DEF UploadRecord
<1> QED BY <1>3, <1>4, <1>5, <1>6

\* The loop of ingest_folder_zip: a file is counted, and the next one begins.
LEMMA NextFileKeeps ==
  ASSUME ServerInv, FullInv', NEW k \in Calls, NextFile(k)
  PROVE  ServerInv'
<1> DEFINE counted == [upload[k] EXCEPT !.count[call[k].step] = @ + 1]
<1>1. /\ upload[k].step = "ingest" /\ call[k].step \in Outcomes
      /\ UNCHANGED <<index, events, incoming, batches>>
      /\ upload[k].step \in Holding /\ k \notin incoming /\ upload[k].status = 0 /\ Begun(k)
  BY DEF NextFile, ServerInv, StagedBy, Holding, Begun
<1>2. /\ FullInv /\ SlotsInv /\ UploadInv /\ AtFile(k) /\ upload[k] \in UploadRecord
      /\ upload \in [Calls -> UploadRecord] /\ call \in [Calls -> CallRecord]
  BY <1>1 DEF ServerInv, FullInv, UploadInv, StoresInv, IngestionTypeOK, CallRecord, RecordsOf
<1>3. ASSUME call' = [call EXCEPT ![k] = Idle]
      PROVE  call'[k].step = "idle" /\ \A j \in Calls \ {k} : call'[j] = call[j]
  BY <1>2, <1>3 DEF Idle
<1>4. CASE Release(k, Answer(k, 500)) /\ call' = [call EXCEPT ![k] = Idle]
  <2>1. 500 \in Replies
    BY DEF Replies
  <2> DEFINE z == Answer(k, 500)
  <2>2. z.step = "answered" /\ z.status = 500
    BY <1>2, <2>1, AnswerFields
  <2>3. Onward(k, z)
    BY <1>1, <1>2, <2>1, AnswerOnward
  <2>4. Release(k, z)
    BY <1>4
  <2> HIDE DEF z
  <2>5. z.step \notin Holding \cup {"waiting"}
    BY <2>2 DEF Holding
  <2>6. SlotsInv' /\ upload'[k] = z /\ \A j \in Calls \ {k} : Stays(j)
    BY <1>1, <1>2, <2>3, <2>4, <2>5, ReleaseSlots
  <2>7. RecordsOf(k)'
    BY <1>3, <1>4, <2>2, <2>6, RecordsEnded
  <2>8. StagedBy(k)'
    BY <1>1, <2>2, <2>6 DEF StagedBy
  <2> QED BY <1>1, <1>3, <1>4, <2>6, <2>7, <2>8, RequestStep
<1>5. ASSUME call[k].step # "raised"
      PROVE  /\ Onward(k, counted) /\ counted.step = "ingest" /\ counted.status = 0
             /\ counted.archive = upload[k].archive /\ counted.worker = upload[k].worker
             /\ counted.count["ingested"] = Cardinality(RecordedUpTo(k, Done(k) + 1))
             /\ counted.count["ingested"] + counted.count["skipped"] + counted.count["failed"]
                  = Done(k) + 1
  <2>1. PICK o \in {"ingested", "skipped", "failed"} : call[k].step = o
    BY <1>1, <1>5 DEF Outcomes
  <2>2. counted = [upload[k] EXCEPT !.count[o] = @ + 1]
    BY <2>1
  <2>3. Onward(k, [upload[k] EXCEPT !.count[o] = @ + 1])
    BY <1>1, <1>2, CountedOnward DEF Outcomes
  <2>4. /\ counted.step = upload[k].step /\ counted.status = upload[k].status
        /\ counted.archive = upload[k].archive /\ counted.worker = upload[k].worker
        /\ counted.count["ingested"] = upload[k].count["ingested"] + (IF o = "ingested" THEN 1 ELSE 0)
        /\ counted.count["ingested"] + counted.count["skipped"] + counted.count["failed"]
             = Done(k) + 1
    <3> HIDE DEF counted
    <3>1. LET z == [upload[k] EXCEPT !.count[o] = @ + 1] IN
          /\ z.step = upload[k].step /\ z.status = upload[k].status
          /\ z.archive = upload[k].archive /\ z.worker = upload[k].worker
          /\ z.count["ingested"] = upload[k].count["ingested"] + (IF o = "ingested" THEN 1 ELSE 0)
          /\ z.count["ingested"] + z.count["skipped"] + z.count["failed"] = Done(k) + 1
      BY <1>2, CountedFields
    <3> QED BY <2>2, <3>1, Zenon
  <2> HIDE DEF counted
  <2>5. PICK n \in Nat : n = Done(k) /\ n + 1 \in 1..MaxFiles
    <3>1. Done(k) \in Nat /\ Done(k) < Len(upload[k].archive.files)
          /\ Len(upload[k].archive.files) \in 0..MaxFiles
      BY <1>2, ArchiveLength DEF AtFile
    <3> QED BY <3>1, UploadsAssumption
  <2>6. Recorded(<<k, n + 1>>) <=> o = "ingested"
    BY <1>2, <2>1, <2>5 DEF AtFile
  <2>7. upload[k].count["ingested"] = Cardinality(RecordedUpTo(k, n))
    BY <1>2, <2>5 DEF AtFile
  <2>8. Cardinality(RecordedUpTo(k, n + 1)) =
          Cardinality(RecordedUpTo(k, n)) + (IF Recorded(<<k, n + 1>>) THEN 1 ELSE 0)
    BY <2>5, UpToNext
  <2>9. counted.count["ingested"] = Cardinality(RecordedUpTo(k, n + 1))
    BY <2>4, <2>6, <2>7, <2>8
  <2> QED BY <1>1, <2>2, <2>3, <2>4, <2>5, <2>9
<1>6. CASE /\ call[k].step # "raised" /\ Done(k) + 2 > Len(upload[k].archive.files)
           /\ Processed(k, counted) /\ call' = [call EXCEPT ![k] = Idle]
  <2>1. Done(k) + 1 = Len(upload[k].archive.files)
    <3>1. Done(k) \in Nat /\ Done(k) < Len(upload[k].archive.files)
          /\ Len(upload[k].archive.files) \in 0..MaxFiles
      BY <1>2, ArchiveLength DEF AtFile
    <3> QED BY <1>6, <3>1, UploadsAssumption
  <2>2. /\ Onward(k, counted) /\ counted.status = upload[k].status
        /\ counted.count["ingested"] = Cardinality(RecordedUpTo(k, Len(upload[k].archive.files)))
    BY <1>1, <1>5, <1>6, <2>1
  <2>3. Processed(k, counted) /\ call'[k].step = "idle"
    BY <1>3, <1>6
  <2> HIDE DEF counted
  <2>4. SlotsInv' /\ StagedBy(k)' /\ RecordsOf(k)' /\ \A j \in Calls \ {k} : Stays(j)
    BY <1>1, <2>2, <2>3, ProcessedEnds
  <2> QED BY <1>1, <1>3, <1>6, <2>4, RequestStep
<1>7. CASE /\ call[k].step # "raised" /\ Done(k) + 2 <= Len(upload[k].archive.files)
           /\ upload' = [upload EXCEPT ![k] = counted]
           /\ call' = [call EXCEPT ![k] =
                         Document(<<k, Done(k) + 2>>, upload[k].user, upload[k].scope)]
           /\ UNCHANGED <<slots, waiting>>
  <2>1. upload'[k] = counted /\ \A j \in Calls \ {k} : upload'[j] = upload[j]
    BY <1>2, <1>7
  <2>2. /\ call'[k].step = "hash" /\ call'[k].path = <<k, Done(k) + 2>>
        /\ \A j \in Calls \ {k} : call'[j] = call[j]
    BY <1>2, <1>7 DEF Document, Idle
  <2>3. /\ counted.step = "ingest" /\ counted.status = 0
        /\ counted.archive = upload[k].archive /\ counted.worker = upload[k].worker
        /\ counted.count["ingested"] = Cardinality(RecordedUpTo(k, Done(k) + 1))
        /\ counted.count["ingested"] + counted.count["skipped"] + counted.count["failed"]
             = Done(k) + 1
    BY <1>5, <1>7
  <2> HIDE DEF counted
  <2>4. SlotsInv'
    BY <1>1, <1>2, <1>7, <2>1, <2>3, SlotsQuiet DEF Holding
  <2>5. StagedBy(k)'
    <3>1. StagedBy(k) /\ upload'[k].step = "ingest" /\ upload'[k].status = 0
      BY <2>1, <2>3 DEF ServerInv
    <3> QED BY <1>1, <3>1 DEF StagedBy
  <2>6. PICK n \in Nat : n = Done(k) /\ n + 2 <= Len(upload[k].archive.files)
                         /\ Len(upload[k].archive.files) \in Nat
    BY <1>2, <1>7, ArchiveLength
  <2>7. Done(k)' = n + 1
    BY <2>1, <2>3, <2>6 DEF Done
  <2>8. RecordedUpTo(k, n + 1)' = RecordedUpTo(k, n + 1)
    BY <1>1 DEF RecordedUpTo, Recorded
  <2>9. /\ n + 1 < Len(upload'[k].archive.files) /\ call'[k].path = <<k, (n + 1) + 1>>
        /\ upload'[k].count["ingested"] = Cardinality(RecordedUpTo(k, n + 1)')
        /\ call'[k].step # "ingested"
    <3>1. n + 1 < Len(upload[k].archive.files) /\ (n + 1) + 1 = n + 2
      BY <2>6
    <3> QED BY <2>1, <2>2, <2>3, <2>6, <2>8, <3>1
  <2>10. \A i \in 1..MaxFiles : i > n + 1 => ~Recorded(<<k, i>>)'
    <3>1. \A i \in 1..MaxFiles : i > n /\ Recorded(<<k, i>>) => i = n + 1
      BY <1>2, <2>6 DEF AtFile
    <3> QED BY <1>1, <2>6, <3>1, UploadsAssumption DEF Recorded
  <2>11. AtFile(k)'
    BY <2>7, <2>9, <2>10 DEF AtFile
  <2>12. RecordsOf(k)'
    BY <2>1, <2>2, <2>3, <2>11 DEF RecordsOf, BeforeFiles
  <2> QED BY <1>1, <2>1, <2>2, <2>4, <2>5, <2>12, RequestStep DEF Stays
<1> QED BY <1>4, <1>6, <1>7 DEF NextFile

\* The audit row ends a shared upload, whether its commit succeeds or not.
LEMMA AuditKeeps ==
  ASSUME ServerInv, FullInv', NEW k \in Calls, Audit(k)
  PROVE  ServerInv'
<1>1. PICK status \in {200, 500} : upload' = [upload EXCEPT ![k] = Answer(k, status)]
  BY DEF Audit
<1>2. /\ upload[k].step = "audit" /\ UNCHANGED <<docVars, slots, waiting, incoming, batches>>
      /\ k \notin incoming /\ call[k].step = "idle" /\ status \in Replies
      /\ UNCHANGED <<index, events, call>>
  BY IdleBefore DEF Audit, staging, ServerInv, StagedBy, Replies, docVars
<1>3. FullInv /\ SlotsInv /\ RecordsOf(k) /\ upload \in [Calls -> UploadRecord]
  BY DEF ServerInv, FullInv, UploadInv
<1> DEFINE z == Answer(k, status)
<1>4. /\ z.step = "answered" /\ z.status = status
      /\ z.count = upload[k].count /\ z.archive = upload[k].archive
  BY <1>2, <1>3, AnswerFields
<1>5. upload'[k] = z /\ \A j \in Calls \ {k} : upload'[j] = upload[j]
  BY <1>1, <1>3
<1> HIDE DEF z
<1>6. SlotsInv'
  BY <1>2, <1>3, <1>4, <1>5, SlotsQuiet DEF Holding
<1>7. StagedBy(k)'
  BY <1>2, <1>4, <1>5 DEF StagedBy
<1>8. PICK n : n = Len(upload[k].archive.files)
  OBVIOUS
<1>9. RecordedUpTo(k, n)' = RecordedUpTo(k, n)
  BY <1>2 DEF RecordedUpTo, Recorded
<1>10. upload[k].count["ingested"] = Cardinality(RecordedUpTo(k, n))
  BY <1>2, <1>3, <1>8 DEF RecordsOf
<1>11. upload'[k].count["ingested"] = Cardinality(RecordedUpTo(k, n)')
       /\ n = Len(upload'[k].archive.files)
  BY <1>4, <1>5, <1>8, <1>9, <1>10
<1>12. upload'[k].count["ingested"] = Cardinality(RecordedUpTo(k, Len(upload[k].archive.files))')
  BY <1>11
<1>13. RecordsOf(k)'
  BY <1>2, <1>4, <1>5, <1>12 DEF RecordsOf, BeforeFiles
<1> QED BY <1>2, <1>5, <1>6, <1>7, <1>13, RequestStep DEF Stays

\* The call of a shared text returns: there was no file to count.
LEMMA TextDoneKeeps ==
  ASSUME ServerInv, FullInv', NEW k \in Calls, TextDone(k)
  PROVE  ServerInv'
<1>1. PICK status \in {200, 500} : upload' = [upload EXCEPT ![k] = Answer(k, status)]
  BY DEF TextDone
<1>2. /\ upload[k].step = "text" /\ UNCHANGED <<index, events, slots, waiting, incoming, batches>>
      /\ k \notin incoming /\ k \notin batches /\ status \in Replies
      /\ call' = [call EXCEPT ![k] = Idle]
  BY DEF TextDone, staging, ServerInv, StagedBy, Replies
<1>3. /\ FullInv /\ SlotsInv /\ RecordsOf(k) /\ upload \in [Calls -> UploadRecord]
      /\ call \in [Calls -> CallRecord]
  BY DEF ServerInv, FullInv, UploadInv, StoresInv, IngestionTypeOK, CallRecord
<1>4. call'[k].step = "idle" /\ \A j \in Calls \ {k} : call'[j] = call[j]
  BY <1>2, <1>3 DEF Idle
<1> DEFINE z == Answer(k, status)
<1>5. /\ z.step = "answered" /\ z.status = status
      /\ z.count = upload[k].count /\ z.archive = upload[k].archive
  BY <1>2, <1>3, AnswerFields
<1>6. upload'[k] = z /\ \A j \in Calls \ {k} : upload'[j] = upload[j]
  BY <1>1, <1>3
<1> HIDE DEF z
<1>7. SlotsInv'
  BY <1>2, <1>3, <1>5, <1>6, SlotsQuiet DEF Holding
<1>8. StagedBy(k)'
  BY <1>2, <1>5, <1>6 DEF StagedBy
<1>9. upload[k].count["ingested"] = 0 /\ upload[k].archive.files = <<>>
  BY <1>2, <1>3 DEF RecordsOf, BeforeFiles, Outcomes
<1>10. Len(upload'[k].archive.files) = 0
  BY <1>5, <1>6, <1>9, EmptySeq
<1>11. RecordedUpTo(k, 0)' = RecordedUpTo(k, 0) /\ Cardinality(RecordedUpTo(k, 0)) = 0
  <2>1. RecordedUpTo(k, 0)' = RecordedUpTo(k, 0)
    BY <1>2 DEF RecordedUpTo, Recorded
  <2> QED BY <2>1, UpToFinite
<1>12. upload'[k].count["ingested"] = Cardinality(RecordedUpTo(k, Len(upload[k].archive.files))')
  BY <1>5, <1>6, <1>9, <1>10, <1>11
<1>13. RecordsOf(k)'
  BY <1>4, <1>5, <1>6, <1>12 DEF RecordsOf, BeforeFiles
<1> QED BY <1>2, <1>4, <1>6, <1>7, <1>8, <1>13, RequestStep DEF Stays

\* What a step of ingest_document writes.
LEMMA IngestWrites ==
  ASSUME StoresInv, NEW k \in Calls, IngestStep(k)
  PROVE  /\ call[k].step \in Working /\ call'[k].step # "idle"
         /\ \A q \in Paths : q # call[k].path => index'[q] = index[q]
         /\ \/ events' = events /\ call'[k].step # "ingested"
            \/ /\ call[k].step = "event" /\ call'[k].step = "ingested" /\ index' = index
               /\ \E e \in events' : events' = events \cup {e} /\ e.path = call[k].path
         /\ call'[k].step = "event" /\ call[k].path \in Paths =>
              index'[call[k].path].status = "ingested"
<1>1. call \in [Calls -> CallRecord] /\ index \in [Paths -> IndexRow] /\ CallShape(k)
  BY DEF StoresInv, IngestionTypeOK, CallRecord, IndexRow
<1>2. ASSUME NEW status, NEW hash, UpsertIndex(k, status, hash)
      PROVE  /\ \A q \in Paths : q # call[k].path => index'[q] = index[q]
             /\ call[k].path \in Paths => index'[call[k].path].status = status
  BY <1>1, <1>2 DEF UpsertIndex
<1>3. ASSUME NEW step, Goto(k, step) PROVE call'[k].step = step
  BY <1>1, <1>3 DEF Goto, CallRecord
<1>4. CASE HashFile(k)
  <2>1. call[k].step = "hash" /\ events' = events
    BY <1>4 DEF HashFile
  <2>2. \/ \E status : UpsertIndex(k, status, NoFile)
        \/ index' = index
    BY <1>4 DEF HashFile
  <2>3. call'[k].step \in {"failed", "skipped", "extract"}
    <3>1. CASE call' = [call EXCEPT ![k].step = "extract", ![k].hash = disk[call[k].path]]
      BY <1>1, <3>1 DEF CallRecord
    <3> QED BY <1>3, <1>4, <3>1 DEF HashFile
  <2> QED BY <1>2, <2>1, <2>2, <2>3 DEF Working
<1>5. CASE ExtractText(k)
  <2>1. call[k].step = "extract" /\ events' = events
    BY <1>5 DEF ExtractText
  <2>2. \/ \E status : UpsertIndex(k, status, call[k].hash)
        \/ index' = index
    BY <1>5 DEF ExtractText
  <2>3. call'[k].step \in {"failed", "skipped", "upsert"}
    <3>1. CASE call' = [call EXCEPT ![k].step = "upsert", ![k].text = disk[call[k].path]]
      BY <1>1, <3>1 DEF CallRecord
    <3> QED BY <1>3, <1>5, <3>1 DEF ExtractText
  <2> QED BY <1>2, <2>1, <2>2, <2>3 DEF Working
<1>6. CASE UpsertPoints(k)
  <2>1. call[k].step = "upsert" /\ events' = events /\ index' = index
    BY <1>6 DEF UpsertPoints
  <2>2. call'[k].step = IF IsText(k) THEN "event" ELSE "index"
    BY <1>3, <1>6 DEF UpsertPoints
  <2> QED BY <2>1, <2>2, IngestionAssumption DEF Working, IsText
<1>7. CASE UpsertFails(k)
  <2>1. call[k].step = "upsert" /\ events' = events
    BY <1>7 DEF UpsertFails
  <2>2. \/ UpsertIndex(k, "error", NoFile) \/ index' = index
    BY <1>7 DEF UpsertFails
  <2>3. call'[k].step \in {"failed", "raised"}
    BY <1>3, <1>7 DEF UpsertFails
  <2> QED BY <1>2, <2>1, <2>2, <2>3 DEF Working
<1>8. CASE MarkIngested(k)
  <2>1. /\ call[k].step = "index" /\ events' = events
        /\ UpsertIndex(k, "ingested", call[k].hash)
    BY <1>8 DEF MarkIngested
  <2>2. call'[k].step = "event"
    BY <1>3, <1>8 DEF MarkIngested
  <2> QED BY <1>2, <2>1, <2>2 DEF Working
<1>9. CASE PersistEvent(k)
  <2> DEFINE row == [path |-> call[k].path, user |-> call[k].user,
                     scope |-> call[k].scope, hash |-> call[k].hash]
  <2>1. call[k].step = "event" /\ index' = index /\ events' = events \cup {row}
    BY <1>9 DEF PersistEvent
  <2>2. call'[k].step = "ingested"
    BY <1>3, <1>9 DEF PersistEvent
  <2>3. row.path = call[k].path /\ row \in events'
    BY <2>1
  <2> HIDE DEF row
  <2> QED BY <2>1, <2>2, <2>3 DEF Working
<1>10. CASE DatabaseFails(k)
  <2>1. call[k].step \in {"hash", "extract", "index", "event"}
        /\ events' = events /\ index' = index
    BY <1>10 DEF DatabaseFails
  <2>2. call'[k].step = "raised"
    BY <1>3, <1>10 DEF DatabaseFails
  <2> QED BY <2>1, <2>2 DEF Working
<1> QED BY <1>4, <1>5, <1>6, <1>7, <1>8, <1>9, <1>10 DEF IngestStep

\* A step of ingest_document records at most the file its request is at.
LEMMA IngestFileKeeps ==
  ASSUME ServerInv, FullInv', NEW k \in Calls, IngestFile(k)
  PROVE  ServerInv'
<1>1. /\ IngestStep(k) /\ upload' = upload
      /\ UNCHANGED <<slots, waiting, incoming, batches>>
  BY DEF IngestFile, staging
<1>2. /\ FullInv /\ SlotsInv /\ StoresInv /\ RecordsOf(k) /\ IndexedOf(k)
      /\ events \subseteq [path : Paths \cup {NoFile}, user : Users, scope : Scopes, hash : Contents]
  BY DEF ServerInv, FullInv, StoresInv, IngestionTypeOK
<1>3. call'[k].path = call[k].path /\ \A j \in Calls \ {k} : call'[j] = call[j]
  BY <1>1, <1>2, CallKeepsDocument
<1>4. /\ call[k].step \in Working /\ call'[k].step # "idle"
      /\ \A q \in Paths : q # call[k].path => index'[q] = index[q]
      /\ \/ events' = events /\ call'[k].step # "ingested"
         \/ /\ call[k].step = "event" /\ call'[k].step = "ingested" /\ index' = index
            /\ \E e \in events' : events' = events \cup {e} /\ e.path = call[k].path
      /\ call'[k].step = "event" /\ call[k].path \in Paths =>
           index'[call[k].path].status = "ingested"
  BY <1>1, <1>2, IngestWrites
<1>5. /\ \A p : p # call[k].path => (Recorded(p)' <=> Recorded(p))
      /\ Recorded(call[k].path)' <=>
           (Recorded(call[k].path) \/ call'[k].step = "ingested")
  <2>1. CASE events' = events /\ call'[k].step # "ingested"
    BY <1>3, <2>1 DEF Recorded
  <2>2. ASSUME NEW e \in events', events' = events \cup {e}, e.path = call[k].path,
               call'[k].step = "ingested"
        PROVE  /\ \A p : p # call[k].path => (Recorded(p)' <=> Recorded(p))
               /\ \E f \in events' : f.path = call'[k].path
    BY <1>3, <2>2 DEF Recorded
  <2> QED BY <1>3, <1>4, <2>1, <2>2 DEF Recorded
<1>6. call[k].step # "idle" /\ call[k].step # "ingested"
  BY <1>4 DEF Working
<1>7. SlotsInv'
  BY <1>1, <1>2, SlotsQuiet
<1>8. ASSUME NEW j \in Calls PROVE StagedBy(j)'
  BY <1>1 DEF ServerInv, StagedBy
<1>9. ASSUME NEW j \in Calls \ {k} PROVE RecordsOf(j)' /\ IndexedOf(j)'
  <2>1. \A i \in 1..MaxFiles : <<j, i>> \in Paths /\ <<j, i>> # call[k].path
    <3>1. call[k].path = NoFile \/ call[k].path = <<k, Done(k) + 1>>
      BY <1>6, OwnPath
    <3> QED BY <3>1, FilePaths
  <2>2. \A i \in 1..MaxFiles : /\ Recorded(<<j, i>>)' <=> Recorded(<<j, i>>)
                               /\ index'[<<j, i>>] = index[<<j, i>>]
    BY <1>4, <1>5, <2>1
  <2> QED BY <1>1, <1>3, <2>2, RecordsStay DEF Stays
<1>10. ASSUME upload[k].step = "text", call[k].path = NoFile
       PROVE  RecordsOf(k)' /\ IndexedOf(k)'
  <2>1. \A i \in 1..MaxFiles : <<k, i>> \in Paths /\ <<k, i>> # call[k].path
    BY <1>10, FilePaths
  <2>2. \A i \in 1..MaxFiles : /\ Recorded(<<k, i>>)' <=> Recorded(<<k, i>>)
                               /\ index'[<<k, i>>] = index[<<k, i>>]
    BY <1>4, <1>5, <2>1
  <2>3. RecordsOf(k)'
    BY <1>1, <1>2, <1>3, <1>10, <2>2 DEF RecordsOf, BeforeFiles
  <2>4. IndexedOf(k)'
    BY <1>2, <1>3, <1>10, <2>2 DEF IndexedOf
  <2> QED BY <2>3, <2>4
<1>11. ASSUME upload[k].step = "ingest", call[k].path = <<k, Done(k) + 1>>,
              Done(k) + 1 \in 1..MaxFiles, call[k].path \in Paths
       PROVE  RecordsOf(k)' /\ IndexedOf(k)'
  <2>1. PICK n : n = Done(k)
    OBVIOUS
  <2>2. AtFile(k) /\ n \in Nat /\ n + 1 \in 1..MaxFiles
        /\ Len(upload[k].archive.files) \in Nat
    BY <1>2, <1>11, <2>1, ArchiveLength DEF RecordsOf
  <2>3. /\ n < Len(upload[k].archive.files) /\ call[k].path = <<k, n + 1>>
        /\ upload[k].count["ingested"] = Cardinality(RecordedUpTo(k, n))
        /\ \A i \in 1..MaxFiles : i > n => ~Recorded(<<k, i>>)
    BY <1>6, <2>1, <2>2 DEF AtFile
  <2>4. \A i \in 1..MaxFiles : i # n + 1 => (Recorded(<<k, i>>)' <=> Recorded(<<k, i>>))
    BY <1>5, <2>3
  <2>5. Recorded(<<k, n + 1>>)' <=> call'[k].step = "ingested"
    <3>1. ~Recorded(<<k, n + 1>>)
      BY <2>2, <2>3
    <3>2. CASE events' = events /\ call'[k].step # "ingested"
      BY <3>1, <3>2 DEF Recorded
    <3>3. ASSUME NEW e \in events', e.path = call[k].path, call'[k].step = "ingested"
          PROVE  Recorded(<<k, n + 1>>)'
      BY <2>3, <3>3 DEF Recorded
    <3> QED BY <1>4, <3>2, <3>3
  <2>6. RecordedUpTo(k, n)' = RecordedUpTo(k, n)
    <3>1. ASSUME NEW i \in 1..n PROVE Recorded(<<k, i>>)' <=> Recorded(<<k, i>>)
      <4>1. i \in 1..MaxFiles /\ i # n + 1
        BY <2>2, UploadsAssumption
      <4> QED BY <2>4, <4>1
    <3>2. \A p \in {k} \X (1..n) : Recorded(p)' <=> Recorded(p)
      BY <3>1
    <3> QED BY <3>2 DEF RecordedUpTo
  <2>7. Done(k)' = n
    BY <1>1, <2>1 DEF Done
  <2>8. /\ n < Len(upload'[k].archive.files) /\ call'[k].path = <<k, n + 1>>
        /\ upload'[k].count["ingested"] = Cardinality(RecordedUpTo(k, n)')
    BY <1>1, <1>3, <2>3, <2>6
  <2>9. \A i \in 1..MaxFiles : i > n /\ Recorded(<<k, i>>)' =>
          i = n + 1 /\ call'[k].step = "ingested"
    BY <2>3, <2>4, <2>5
  <2>10. AtFile(k)'
    BY <2>5, <2>7, <2>8, <2>9 DEF AtFile
  <2>11. RecordsOf(k)'
    BY <1>1, <1>11, <2>10 DEF RecordsOf, BeforeFiles
  <2>12. IndexedOf(k)'
    <3>1. ASSUME NEW i \in 1..MaxFiles, Recorded(<<k, i>>)'
          PROVE  index'[<<k, i>>].status = "ingested"
      <4>1. CASE i = n + 1
        <5>1. call[k].step = "event" /\ index' = index
          BY <1>4, <2>5, <3>1, <4>1
        <5> QED BY <1>2, <1>11, <2>3, <4>1, <5>1, FilePaths DEF IndexedOf
      <4>2. CASE i # n + 1
        <5>1. Recorded(<<k, i>>)
          BY <2>4, <3>1, <4>2
        <5>2. <<k, i>> \in Paths /\ <<k, i>> # call[k].path
          BY <2>3, <4>2, FilePaths
        <5> QED BY <1>2, <1>4, <5>1, <5>2 DEF IndexedOf
      <4> QED BY <4>1, <4>2
    <3> QED BY <1>3, <1>4, <1>11, <3>1 DEF IndexedOf
  <2> QED BY <2>11, <2>12
<1>12. RecordsOf(k)' /\ IndexedOf(k)'
  BY <1>6, <1>10, <1>11, OwnPath
<1>13. incoming' \subseteq Calls /\ batches' \subseteq Calls
  BY <1>1 DEF ServerInv
<1> QED BY <1>7, <1>8, <1>9, <1>12, <1>13 DEF ServerInv

\* A new request has staged nothing and counted nothing.
LEMMA ReceivedRequest ==
  ASSUME ServerInv, NEW k \in Calls, upload[k].step = "none",
         upload'[k].step \in {"waiting", "stream", "answered"},
         upload'[k].step = "answered" => upload'[k].status = 413,
         upload'[k].step # "answered" => upload'[k].status = 0,
         upload'[k].count = [o \in Outcomes |-> 0], call'[k] = call[k],
         UNCHANGED <<events, incoming, batches>>
  PROVE  StagedBy(k)' /\ RecordsOf(k)'
<1>1. /\ k \notin incoming /\ k \notin batches /\ call'[k].step = "idle"
      /\ \A i \in 1..MaxFiles : ~Recorded(<<k, i>>)'
  BY DEF ServerInv, StagedBy, RecordsOf, BeforeFiles, Recorded
<1> QED BY <1>1 DEF StagedBy, RecordsOf, BeforeFiles

\* The entry of a request has no reply and no counts.
LEMMA EntryFields ==
  ASSUME NEW w \in Workers, NEW u \in Users, NEW s \in Scopes, NEW a \in Archive,
         NEW step \in UploadSteps
  PROVE  LET x == [UploadEntry(w, u, s, a) EXCEPT !.step = step] IN
         /\ x.step = step /\ x.worker = w /\ x.status = 0 /\ x.count = [o \in Outcomes |-> 0]
<1> DEFINE entry == UploadEntry(w, u, s, a)
<1>1. entry \in UploadRecord /\ entry.worker = w
  BY NewUpload
<1>2. entry.status = 0 /\ entry.count = [o \in Outcomes |-> 0]
  BY DEF UploadEntry, None
<1> HIDE DEF entry
<1>3. LET x == [entry EXCEPT !.step = step] IN
      /\ x.step = step /\ x.worker = w /\ x.status = 0 /\ x.count = [o \in Outcomes |-> 0]
  BY <1>1, <1>2, Stepped
<1> QED BY <1>3 DEF entry

\* An upload is refused for its declared size, gets a slot, or waits for one.
LEMMA ReceiveUploadKeeps ==
  ASSUME ServerInv, FullInv', NEW k \in Calls, NEW w \in Workers, NEW u \in Users,
         NEW s \in Scopes, NEW a \in Archives, ReceiveUpload(k, w, u, s, a)
  PROVE  ServerInv'
<1> DEFINE entry == UploadEntry(w, u, s, a)
           started == [entry EXCEPT !.step = "stream"]
           queued == [entry EXCEPT !.step = "waiting"]
           y == [entry EXCEPT !.step = "answered"]
           refused == [entry EXCEPT !.step = "answered", !.status = 413]
<1>1. /\ FullInv /\ SlotsInv /\ upload \in [Calls -> UploadRecord]
      /\ slots \in [Workers -> Nat] /\ slots[w] \in Nat
  BY DEF ServerInv, FullInv, UploadInv, SlotsInv
<1>2. a \in Archive /\ {"answered", "stream", "waiting"} \subseteq UploadSteps
  BY UploadsAssumption DEF Archive, UploadSteps, Holding
<1>3. /\ upload[k].step = "none"
      /\ UNCHANGED <<index, events, call, incoming, batches>>
      /\ \/ upload' = [upload EXCEPT ![k] = refused] /\ UNCHANGED <<slots, waiting>>
         \/ /\ slots[w] > 0 /\ slots' = [slots EXCEPT ![w] = @ - 1]
            /\ upload' = [upload EXCEPT ![k] = started] /\ UNCHANGED waiting
         \/ /\ slots[w] = 0 /\ waiting' = [waiting EXCEPT ![w] = Append(@, k)]
            /\ upload' = [upload EXCEPT ![k] = queued] /\ UNCHANGED slots
  BY NoneTyped DEF ReceiveUpload, UploadEntry
<1>4. /\ started.step = "stream" /\ started.worker = w /\ started.status = 0
      /\ started.count = [o \in Outcomes |-> 0]
  BY <1>2, EntryFields
<1>5. /\ queued.step = "waiting" /\ queued.worker = w /\ queued.status = 0
      /\ queued.count = [o \in Outcomes |-> 0]
  BY <1>2, EntryFields
<1>6. /\ refused.step = "answered" /\ refused.status = 413
      /\ refused.count = [o \in Outcomes |-> 0]
  <2>1. y.step = "answered" /\ y.count = [o \in Outcomes |-> 0]
    BY <1>2, EntryFields
  <2>2. y \in UploadRecord
    <3>1. entry \in UploadRecord
      BY <1>2, NewUpload
    <3> HIDE DEF entry
    <3> QED BY <1>2, <3>1, Stepped
  <2>3. refused = [y EXCEPT !.status = 413]
    OBVIOUS
  <2> HIDE DEF y
  <2>4. refused.step = y.step /\ refused.status = 413 /\ refused.count = y.count
    <3> HIDE DEF refused
    <3> QED BY <2>2, <2>3 DEF UploadRecord
  <2> HIDE DEF refused
  <2> QED BY <2>1, <2>4
<1> HIDE DEF entry, started, queued, y, refused
<1>7. ASSUME NEW new, upload' = [upload EXCEPT ![k] = new], SlotsInv',
             new.step \in {"waiting", "stream", "answered"},
             new.step = "answered" => new.status = 413, new.step # "answered" => new.status = 0,
             new.count = [o \in Outcomes |-> 0]
      PROVE  ServerInv'
  <2>1. upload'[k] = new /\ \A j \in Calls \ {k} : upload'[j] = upload[j]
    BY <1>1, <1>7
  <2>2. StagedBy(k)' /\ RecordsOf(k)'
    BY <1>3, <1>7, <2>1, ReceivedRequest
  <2> QED BY <1>3, <1>7, <2>1, <2>2, RequestStep DEF Stays
<1>8. CASE upload' = [upload EXCEPT ![k] = refused] /\ UNCHANGED <<slots, waiting>>
  <2>1. upload'[k] = refused /\ \A j \in Calls \ {k} : upload'[j] = upload[j]
    BY <1>1, <1>8
  <2>2. SlotsInv'
    BY <1>1, <1>3, <1>6, <1>8, <2>1, SlotsQuiet DEF Holding
  <2> QED BY <1>6, <1>7, <1>8, <2>2
<1>9. CASE /\ slots[w] > 0 /\ slots' = [slots EXCEPT ![w] = @ - 1]
           /\ upload' = [upload EXCEPT ![k] = started] /\ UNCHANGED waiting
  <2>1. SlotsInv'
    BY <1>1, <1>3, <1>4, <1>9, SlotTaken
  <2> QED BY <1>4, <1>7, <1>9, <2>1
<1>10. CASE /\ slots[w] = 0 /\ waiting' = [waiting EXCEPT ![w] = Append(@, k)]
            /\ upload' = [upload EXCEPT ![k] = queued] /\ UNCHANGED slots
  <2>1. SlotsInv'
    BY <1>1, <1>3, <1>5, <1>10, SlotAwaited
  <2> QED BY <1>5, <1>7, <1>10, <2>1
<1> QED BY <1>3, <1>8, <1>9, <1>10

\* A shared text has a call, no archive and no slot.
LEMMA ReceiveTextKeeps ==
  ASSUME ServerInv, FullInv', NEW k \in Calls, NEW w \in Workers, NEW u \in Users,
         NEW ws \in Workspaces, NEW c \in Contents, ReceiveText(k, w, u, ws, c)
  PROVE  ServerInv'
<1> DEFINE entry == TextEntry(w, u, ws)
<1>1. /\ FullInv /\ SlotsInv /\ upload \in [Calls -> UploadRecord]
      /\ call \in [Calls -> CallRecord] /\ ws \in Scopes
  BY DEF ServerInv, FullInv, UploadInv, StoresInv, IngestionTypeOK, CallRecord, Scopes
<1>2. /\ upload[k].step = "none" /\ upload' = [upload EXCEPT ![k] = entry]
      /\ call' = [call EXCEPT ![k] = SharedText(u, ws, c)]
      /\ UNCHANGED <<index, events, slots, waiting, incoming, batches>>
  BY NoneTyped DEF ReceiveText, TextEntry, staging
<1>3. entry.step = "text" /\ entry.archive.files = <<>>
  BY <1>1, NewText
<1>4. entry.status = 0 /\ entry.count = [o \in Outcomes |-> 0]
  BY DEF TextEntry, None
<1> HIDE DEF entry
<1>5. upload'[k] = entry /\ \A j \in Calls \ {k} : upload'[j] = upload[j]
  BY <1>1, <1>2
<1>6. /\ call'[k].step = "upsert" /\ call'[k].path = NoFile
      /\ \A j \in Calls \ {k} : call'[j] = call[j]
  BY <1>1, <1>2 DEF SharedText, Idle
<1>7. SlotsInv'
  BY <1>1, <1>2, <1>3, <1>5, SlotsQuiet DEF Holding
<1>8. /\ k \notin incoming /\ k \notin batches /\ \A i \in 1..MaxFiles : ~Recorded(<<k, i>>)'
  BY <1>2 DEF ServerInv, StagedBy, RecordsOf, BeforeFiles, Recorded
<1>9. StagedBy(k)'
  BY <1>2, <1>4, <1>5, <1>8 DEF StagedBy
<1>10. RecordsOf(k)'
  BY <1>3, <1>4, <1>5, <1>6, <1>8 DEF RecordsOf, BeforeFiles
<1> QED BY <1>2, <1>5, <1>6, <1>7, <1>9, <1>10, RequestStep DEF Stays

\* A crash leaves what was staged, and the requests it drops count nothing any more.
LEMMA CrashKeeps ==
  ASSUME ServerInv, FullInv', NEW w \in Workers, Crash(w)
  PROVE  ServerInv'
<1> DEFINE gone == {k \in Calls : upload[k].worker = w /\ InFlight(k)}
<1>1. /\ upload' = [k \in Calls |-> IF k \in gone THEN [upload[k] EXCEPT !.step = "lost"]
                                    ELSE upload[k]]
      /\ call' = [k \in Calls |-> IF k \in gone THEN Idle ELSE call[k]]
      /\ UNCHANGED <<index, events, incoming, batches>>
  BY DEF Crash
<1>2. FullInv /\ SlotsInv
  BY DEF ServerInv
<1>3. SlotsInv'
  BY <1>2, CrashSlots
<1>4. ASSUME NEW k \in Calls PROVE StagedBy(k)' /\ RecordsOf(k)' /\ IndexedOf(k)'
  <2>1. \A i \in 1..MaxFiles : /\ Recorded(<<k, i>>)' <=> Recorded(<<k, i>>)
                               /\ index'[<<k, i>>] = index[<<k, i>>]
    BY <1>1 DEF Recorded
  <2>2. CASE k \in gone
    <3>1. upload[k] \in UploadRecord /\ "lost" \in UploadSteps
      BY <1>2 DEF FullInv, UploadInv, UploadSteps
    <3>2. upload'[k] = [upload[k] EXCEPT !.step = "lost"] /\ call'[k] = Idle
      BY <1>1, <2>2
    <3>3. upload'[k].step = "lost" /\ upload'[k].status = upload[k].status
      BY <3>1, <3>2, Stepped
    <3>4. call'[k].step = "idle"
      BY <3>2 DEF Idle
    <3>5. RecordsOf(k)'
      BY <3>3, <3>4, RecordsEnded
    <3>6. StagedBy(k) /\ IndexedOf(k) /\ upload[k].step # "answered"
      BY <2>2 DEF ServerInv, InFlight
    <3>7. StagedBy(k)'
      BY <1>1, <3>3, <3>6 DEF StagedBy
    <3>8. IndexedOf(k)'
      BY <2>1, <3>4, <3>6 DEF IndexedOf
    <3> QED BY <3>5, <3>7, <3>8
  <2>3. CASE k \notin gone
    <3>1. upload'[k] = upload[k] /\ call'[k] = call[k]
      BY <1>1, <2>3
    <3>2. Stays(k)
      BY <3>1 DEF Stays
    <3>3. StagedBy(k)'
      BY <1>1, <3>2, StagedStays
    <3> QED BY <2>1, <3>1, <3>2, <3>3, RecordsStay
  <2> QED BY <2>2, <2>3
<1> QED BY <1>1, <1>3, <1>4 DEF ServerInv

\* A start removes all that is staged.
LEMMA StartKeeps ==
  ASSUME ServerInv, FullInv', NEW w \in Workers, Start(w)
  PROVE  ServerInv'
<1>1. /\ incoming' = {} /\ batches' = {}
      /\ UNCHANGED <<index, events, call, upload, slots, waiting>>
  BY DEF Start
<1>2. SlotsInv'
  BY <1>1, SlotsQuiet DEF ServerInv
<1>3. ASSUME NEW k \in Calls PROVE StagedBy(k)' /\ RecordsOf(k)' /\ IndexedOf(k)'
  <2>1. \A i \in 1..MaxFiles : /\ Recorded(<<k, i>>)' <=> Recorded(<<k, i>>)
                               /\ index'[<<k, i>>] = index[<<k, i>>]
    BY <1>1 DEF Recorded
  <2>2. Stays(k) /\ call'[k] = call[k]
    BY <1>1 DEF Stays
  <2>3. StagedBy(k)'
    BY <1>1, <2>2, StagedStays
  <2> QED BY <2>1, <2>2, <2>3, RecordsStay
<1> QED BY <1>1, <1>2, <1>3 DEF ServerInv

\* The empty server satisfies the invariant.
LEMMA ServerInit == UploadsInit => ServerInv
<1> SUFFICES ASSUME UploadsInit PROVE ServerInv
  OBVIOUS
<1>1. /\ upload = [k \in Calls |-> None] /\ slots = [w \in Workers |-> Concurrency]
      /\ waiting = [w \in Workers |-> <<>>] /\ incoming = {} /\ batches = {}
      /\ events = {} /\ call = [k \in Calls |-> Idle]
  BY DEF UploadsInit, IngestionInit
<1>2. FullInv
  BY UploadsInitHolds
<1>3. SlotsInv
  <2>1. slots \in [Workers -> Nat]
    BY <1>1, UploadsAssumption
  <2>2. ASSUME NEW w \in Workers
        PROVE  /\ IsFiniteSet(Held(w)) /\ slots[w] + Cardinality(Held(w)) = Concurrency
               /\ waiting[w] # <<>> => slots[w] = 0
    <3>1. Held(w) = {}
      BY <1>1, NoneTyped DEF Held, Holding
    <3>2. IsFiniteSet(Held(w)) /\ Cardinality(Held(w)) = 0
      BY <3>1, FS_EmptySet
    <3> QED BY <1>1, <3>2, UploadsAssumption
  <2>3. WaitersQueued
    <3>1. Len(<<>>) = 0
      BY EmptySeq
    <3> QED BY <1>1, <3>1 DEF WaitersQueued
  <2> QED BY <2>1, <2>2, <2>3 DEF SlotsInv
<1>4. ASSUME NEW k \in Calls PROVE StagedBy(k) /\ RecordsOf(k) /\ IndexedOf(k)
  <2>1. /\ upload[k].step = "none" /\ upload[k].status = 0
        /\ upload[k].count = [o \in Outcomes |-> 0] /\ call[k].step = "idle"
    BY <1>1 DEF None, Idle
  <2> QED BY <1>1, <2>1 DEF StagedBy, RecordsOf, IndexedOf, BeforeFiles, Recorded
<1> QED BY <1>1, <1>2, <1>3, <1>4 DEF ServerInv

\* Every step of the server keeps it.
LEMMA ServerStepKeeps == ServerInv /\ [UploadsNext]_uploadVars => ServerInv'
<1> SUFFICES ASSUME ServerInv, [UploadsNext]_uploadVars PROVE ServerInv'
  OBVIOUS
<1>1. FullInv'
  BY UploadsStepKeeps DEF ServerInv
<1>2. CASE UNCHANGED uploadVars
  <2>1. UNCHANGED <<index, events, call, upload, slots, waiting, incoming, batches>>
    BY <1>2 DEF uploadVars, staging, docVars
  <2>2. SlotsInv'
    BY <2>1, SlotsQuiet DEF ServerInv
  <2>3. ASSUME NEW k \in Calls PROVE StagedBy(k)' /\ RecordsOf(k)' /\ IndexedOf(k)'
    <3>1. \A i \in 1..MaxFiles : /\ Recorded(<<k, i>>)' <=> Recorded(<<k, i>>)
                                 /\ index'[<<k, i>>] = index[<<k, i>>]
      BY <2>1 DEF Recorded
    <3>2. Stays(k) /\ call'[k] = call[k]
      BY <2>1 DEF Stays
    <3>3. StagedBy(k)'
      BY <2>1, <3>2, StagedStays
    <3> QED BY <3>1, <3>2, <3>3, RecordsStay
  <2> QED BY <1>1, <2>1, <2>2, <2>3 DEF ServerInv
<1>3. ASSUME NEW k \in Calls, UploadStep(k) PROVE ServerInv'
  BY <1>1, <1>3, TextDoneKeeps, StreamKeeps, CopyKeeps, StageKeeps, ExtractKeeps,
     IngestFileKeeps, NextFileKeeps, AuditKeeps DEF UploadStep
<1>4. ASSUME NEW w \in Workers, Crash(w) \/ Start(w) PROVE ServerInv'
  BY <1>1, <1>4, CrashKeeps, StartKeeps
<1>5. ASSUME NEW k \in Calls, NEW w \in Workers, NEW u \in Users,
             \/ \E s \in Scopes, a \in Archives : ReceiveUpload(k, w, u, s, a)
             \/ \E ws \in Workspaces, c \in Contents : ReceiveText(k, w, u, ws, c)
      PROVE  ServerInv'
  BY <1>1, <1>5, ReceiveUploadKeeps, ReceiveTextKeeps
<1> QED BY <1>2, <1>3, <1>4, <1>5 DEF UploadsNext

\* The invariant, for every number of requests, workers, slots and crashes.
LEMMA ServerInvHolds == UploadsSpec => []ServerInv
BY ServerInit, ServerStepKeeps, PTL DEF UploadsSpec

\* No worker handles more archives than INGESTION_CONCURRENCY, and nobody waits
\* for a slot that is free: none is lost by an error, a refusal or a crash.
THEOREM SlotsAlwaysRespected == UploadsSpec => []SlotsRespected
<1>1. SlotsInv => SlotsRespected
  <2> SUFFICES ASSUME SlotsInv, NEW w \in Workers
               PROVE  /\ Cardinality(Held(w)) <= Concurrency
                      /\ waiting[w] # <<>> => Cardinality(Held(w)) = Concurrency
    BY DEF SlotsRespected, Held
  <2>1. /\ slots[w] \in Nat /\ IsFiniteSet(Held(w))
        /\ slots[w] + Cardinality(Held(w)) = Concurrency
        /\ waiting[w] # <<>> => slots[w] = 0
    BY DEF SlotsInv
  <2>2. Cardinality(Held(w)) \in Nat
    BY <2>1, FS_CardinalityType
  <2> QED BY <2>1, <2>2
<1>2. ServerInv => SlotsInv
  BY DEF ServerInv
<1> QED BY <1>1, <1>2, ServerInvHolds, PTL

\* A refused archive leaves no batch directory, and only a crash leaves an
\* incoming file behind, whichever step fails.
THEOREM StagingAlwaysAccounted == UploadsSpec => []StagingAccounted
<1>1. ServerInv => StagingAccounted
  BY DEF ServerInv, StagedBy, StagingAccounted
<1> QED BY <1>1, ServerInvHolds, PTL

\* A reply of 200 counts as ingested exactly the files that have their event,
\* whatever other requests and workers do meanwhile.
THEOREM RepliesMatchRecords == UploadsSpec => []ReplyMatchesRecords
<1>1. ServerInv => ReplyMatchesRecords
  <2> SUFFICES ASSUME ServerInv, NEW k \in Calls,
                      upload[k].step = "answered", upload[k].status = 200
               PROVE  /\ upload[k].count["ingested"] =
                           Cardinality({p \in FilesOf(k) : Recorded(p)})
                      /\ \A p \in FilesOf(k) : Recorded(p) => index[p].status = "ingested"
    BY DEF ReplyMatchesRecords, Recorded
  <2>1. RecordsOf(k) /\ IndexedOf(k) /\ FullInv
    BY DEF ServerInv
  <2>2. Len(upload[k].archive.files) \in 0..MaxFiles
    BY <2>1, ArchiveLength
  <2>3. upload[k].count["ingested"] = Cardinality({p \in FilesOf(k) : Recorded(p)})
    BY <2>1 DEF RecordsOf, RecordedUpTo, FilesOf
  <2>4. ASSUME NEW p \in FilesOf(k), Recorded(p) PROVE index[p].status = "ingested"
    <3>1. PICK i \in 1..Len(upload[k].archive.files) : p = <<k, i>>
      BY DEF FilesOf
    <3>2. i \in 1..MaxFiles
      BY <2>2, UploadsAssumption
    <3> QED BY <2>1, <2>4, <3>1, <3>2 DEF IndexedOf
  <2> QED BY <2>3, <2>4
<1> QED BY <1>1, ServerInvHolds, PTL
=============================================================================
