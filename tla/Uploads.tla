------------------------------- MODULE Uploads -------------------------------
(***************************************************************************)
(* ZIP uploads and shared text of the server, with the staging directory,  *)
(* the semaphore of each worker process, crashes and the cleanup at start. *)
(*                                                                         *)
(* A request streams its archive to an incoming file, moves it into a      *)
(* batch directory, extracts it and ingests the files one by one, in       *)
(* threads, while other requests and other workers do the same.  Every     *)
(* worker empties the whole upload directory when it starts.               *)
(***************************************************************************)
EXTENDS Ingestion, Sequences

CONSTANTS
  Workers,       \* processes of uvicorn (SERVER_WORKERS)
  Concurrency,   \* INGESTION_CONCURRENCY
  Archives,      \* what clients upload
  MaxFiles,      \* bound: FOLDER_UPLOAD_MAX_FILES
  MaxCrashes     \* bound: crashes of workers

\* kind: how far the archive gets; files: what it holds, in order.
Kinds == {"declaredLarge", "large", "misnamed", "broken", "zip"}

ASSUME UploadsAssumption ==
  /\ Paths = Calls \X (1..MaxFiles)
  /\ Archives \subseteq [kind : Kinds, files : Seq(Contents)]
  /\ \A a \in Archives : Len(a.files) <= MaxFiles
  /\ Concurrency \in Nat \ {0} /\ MaxFiles \in Nat /\ MaxCrashes \in Nat

VARIABLES
  upload,    \* the requests
  slots,     \* value of each worker's ingestion_semaphore
  waiting,   \* requests waiting for it, in order
  incoming,  \* incoming-*.zip files in the upload directory
  batches,   \* batch directories in the upload directory
  down,      \* workers that crashed
  crashes

staging == <<slots, waiting, incoming, batches>>
uploadVars == <<docVars, upload, staging, down, crashes>>

None == [step |-> "none", worker |-> NoFile, archive |-> [kind |-> "zip", files |-> <<>>],
         user |-> NoFile, scope |-> Private, count |-> [o \in Outcomes |-> 0], status |-> 0]

Holding == {"stream", "copy", "stage", "extract", "ingest"}
UploadSteps == {"none", "waiting", "text", "audit", "answered", "lost"} \cup Holding

UploadsTypeOK ==
  /\ IngestionTypeOK
  /\ \A k \in Calls : /\ upload[k].step \in UploadSteps
                      /\ upload[k].status \in {0, 200, 400, 413, 500}
                      /\ upload[k].count \in [Outcomes -> 0..MaxFiles]
  /\ slots \in [Workers -> 0..Concurrency]
  /\ \A w \in Workers : waiting[w] \in Seq(Calls)
  /\ incoming \cup batches \subseteq Calls /\ down \subseteq Workers

UploadsInit ==
  /\ IngestionInit
  /\ upload = [k \in Calls |-> None]
  /\ slots = [w \in Workers |-> Concurrency]
  /\ waiting = [w \in Workers |-> <<>>]
  /\ incoming = {} /\ batches = {} /\ down = {} /\ crashes = 0

FilesOf(k) == {k} \X (1..Len(upload[k].archive.files))
Done(k) == LET c == upload[k].count IN c["ingested"] + c["skipped"] + c["failed"]

-----------------------------------------------------------------------------
(* The semaphore: a slot given back goes to the request that waited longest. *)

\* Mutation: the slot of a request is given back but wakes nobody.
ReleaseSilently(k, entry) ==
  /\ upload' = [upload EXCEPT ![k] = entry]
  /\ slots' = [slots EXCEPT ![upload[k].worker] = @ + 1]
  /\ UNCHANGED waiting

Release(k, entry) ==
  LET w == upload[k].worker IN
  IF waiting[w] = <<>>
  THEN /\ slots' = [slots EXCEPT ![w] = @ + 1]
       /\ upload' = [upload EXCEPT ![k] = entry]
       /\ UNCHANGED waiting
  ELSE /\ upload' = [upload EXCEPT ![k] = entry, ![Head(waiting[w])].step = "stream"]
       /\ waiting' = [waiting EXCEPT ![w] = Tail(@)]
       /\ UNCHANGED slots

Answer(k, status) == [upload[k] EXCEPT !.step = "answered", !.status = status]

\* The end of _run_bounded_ingestion with an error.
Fails(k, status) == Release(k, Answer(k, status)) /\ UNCHANGED <<disk, call>>

-----------------------------------------------------------------------------
(* Requests. *)

\* ingest_folder_upload (private) or upload_shared_context (to a workspace).
ReceiveUpload(k, w, u, s, a) ==
  LET entry == [None EXCEPT !.worker = w, !.archive = a, !.user = u, !.scope = s] IN
  /\ upload[k] = None /\ w \notin down
  /\ offered' = offered \cup {[user |-> u, scope |-> s, text |-> a.files[i]] :
                              i \in 1..Len(a.files)}
  /\ \/ /\ a.kind = "declaredLarge"
        /\ upload' = [upload EXCEPT ![k] = [entry EXCEPT !.step = "answered", !.status = 413]]
        /\ UNCHANGED <<slots, waiting>>
     \/ /\ a.kind # "declaredLarge" /\ slots[w] > 0
        /\ slots' = [slots EXCEPT ![w] = @ - 1]
        /\ upload' = [upload EXCEPT ![k] = [entry EXCEPT !.step = "stream"]]
        /\ UNCHANGED waiting
     \/ /\ a.kind # "declaredLarge" /\ slots[w] = 0
        /\ waiting' = [waiting EXCEPT ![w] = Append(@, k)]
        /\ upload' = [upload EXCEPT ![k] = [entry EXCEPT !.step = "waiting"]]
        /\ UNCHANGED slots
  /\ UNCHANGED <<disk, index, points, events, call, incoming, batches, down, crashes>>

\* ingest_context or post_shared_context: no semaphore, no staging.
ReceiveText(k, w, u, ws, c) ==
  /\ upload[k] = None /\ w \notin down
  /\ c \notin Blank
  /\ upload' = [upload EXCEPT ![k] = [None EXCEPT !.step = "text", !.worker = w,
                                      !.user = u, !.scope = ws]]
  /\ call' = [call EXCEPT ![k] = SharedText(u, ws, c)]
  /\ offered' = offered \cup {[user |-> u, scope |-> ws, text |-> c]}
  /\ UNCHANGED <<disk, index, points, events, staging, down, crashes>>

TextDone(k) ==
  /\ upload[k].step = "text" /\ call[k].step \in Outcomes
  /\ upload' = [upload EXCEPT ![k] = Answer(k, IF call[k].step = "ingested" THEN 200 ELSE 500)]
  /\ call' = [call EXCEPT ![k] = Idle]
  /\ UNCHANGED <<disk, index, points, events, offered, staging, down, crashes>>

\* _stream_upload_to_temp creates the incoming file...
Stream(k) ==
  /\ upload[k].step = "stream"
  /\ incoming' = incoming \cup {k}
  /\ upload' = [upload EXCEPT ![k].step = "copy"]
  /\ UNCHANGED <<docVars, slots, waiting, batches, down, crashes>>

\* ...and removes it when the archive is too large or the copy fails.
Copy(k) ==
  /\ upload[k].step = "copy"
  /\ \/ /\ upload[k].archive.kind # "large"
        /\ upload' = [upload EXCEPT ![k].step = "stage"]
        /\ UNCHANGED <<disk, call, slots, waiting, incoming>>
     \/ incoming' = incoming \ {k} /\ Fails(k, 500)
     \/ upload[k].archive.kind = "large" /\ incoming' = incoming \ {k} /\ Fails(k, 413)
  /\ UNCHANGED <<index, points, events, offered, batches, down, crashes>>

\* Mutation: no "finally" around the ingestion.
StageWithoutFinally(k) ==
  /\ upload[k].step = "stage"
  /\ \/ /\ k \notin incoming
        /\ Fails(k, 500) /\ UNCHANGED <<incoming, batches>>
     \/ /\ k \in incoming /\ upload[k].archive.kind = "misnamed"
        /\ Fails(k, 400) /\ UNCHANGED <<incoming, batches>>
     \/ /\ k \in incoming /\ upload[k].archive.kind # "misnamed"
        /\ incoming' = incoming \ {k} /\ batches' = batches \cup {k}
        /\ upload' = [upload EXCEPT ![k].step = "extract"]
        /\ UNCHANGED <<disk, call, slots, waiting>>
  /\ UNCHANGED <<index, points, events, offered, down, crashes>>

\* The head of ingest_folder_zip, and the "finally" of its caller: the archive
\* moves into a new batch directory unless it is refused or was removed.
Stage(k) ==
  /\ upload[k].step = "stage"
  /\ incoming' = incoming \ {k}
  /\ \/ k \notin incoming /\ Fails(k, 500) /\ UNCHANGED batches
     \/ /\ k \in incoming /\ upload[k].archive.kind = "misnamed"
        /\ Fails(k, 400) /\ UNCHANGED batches
     \/ /\ k \in incoming /\ upload[k].archive.kind # "misnamed"
        /\ batches' = batches \cup {k}
        /\ upload' = [upload EXCEPT ![k].step = "extract"]
        /\ UNCHANGED <<disk, call, slots, waiting>>
  /\ UNCHANGED <<index, points, events, offered, down, crashes>>

\* The thread returns; a shared upload still has its audit row to commit.
Processed(k, entry) ==
  Release(k, IF entry.scope = Private THEN [entry EXCEPT !.step = "answered", !.status = 200]
             ELSE [entry EXCEPT !.step = "audit"])

\* A bad ZIP or an unsafe member removes the batch; any other error leaves it.
Extract(k) ==
  LET zip == upload[k].archive IN
  /\ upload[k].step = "extract"
  /\ \/ /\ k \in batches /\ zip.kind = "broken"
        /\ batches' = batches \ {k} /\ Fails(k, 400)
     \/ Fails(k, 500) /\ UNCHANGED batches
     \/ /\ k \in batches /\ zip.kind = "zip"
        /\ disk' = [p \in Paths |-> IF p \in FilesOf(k) THEN zip.files[p[2]] ELSE disk[p]]
        /\ IF zip.files = <<>>
           THEN Processed(k, upload[k]) /\ UNCHANGED call
           ELSE /\ upload' = [upload EXCEPT ![k].step = "ingest"]
                /\ call' = [call EXCEPT ![k] = Document(<<k, 1>>, upload[k].user, upload[k].scope)]
                /\ UNCHANGED <<slots, waiting>>
        /\ UNCHANGED batches
  /\ UNCHANGED <<index, points, events, offered, incoming, down, crashes>>

IngestFile(k) == IngestStep(k) /\ UNCHANGED <<upload, staging, down, crashes>>

\* The loop of ingest_folder_zip: an exception ends the request.
NextFile(k) ==
  LET counted == [upload[k] EXCEPT !.count[call[k].step] = @ + 1]
      next == Done(k) + 2
  IN
  /\ upload[k].step = "ingest" /\ call[k].step \in Outcomes
  /\ \/ /\ call[k].step = "raised"
        /\ Release(k, Answer(k, 500)) /\ call' = [call EXCEPT ![k] = Idle]
     \/ /\ call[k].step # "raised" /\ next > Len(upload[k].archive.files)
        /\ Processed(k, counted) /\ call' = [call EXCEPT ![k] = Idle]
     \/ /\ call[k].step # "raised" /\ next <= Len(upload[k].archive.files)
        /\ upload' = [upload EXCEPT ![k] = counted]
        /\ call' = [call EXCEPT ![k] = Document(<<k, next>>, upload[k].user, upload[k].scope)]
        /\ UNCHANGED <<slots, waiting>>
  /\ UNCHANGED <<disk, index, points, events, offered, incoming, batches, down, crashes>>

\* add_audit_event and the commit of upload_shared_context; it may fail.
Audit(k) ==
  /\ upload[k].step = "audit"
  /\ \E status \in {200, 500} : upload' = [upload EXCEPT ![k] = Answer(k, status)]
  /\ UNCHANGED <<docVars, staging, down, crashes>>

UploadStep(k) ==
  \/ TextDone(k) \/ Stream(k) \/ Copy(k) \/ Stage(k) \/ Extract(k)
  \/ IngestFile(k) \/ NextFile(k) \/ Audit(k)

-----------------------------------------------------------------------------
(* Crashes and starts. *)

InFlight(k) == upload[k].step \notin {"none", "answered", "lost"}

Crash(w) ==
  LET gone == {k \in Calls : upload[k].worker = w /\ InFlight(k)} IN
  /\ crashes < MaxCrashes /\ w \notin down
  /\ crashes' = crashes + 1 /\ down' = down \cup {w}
  /\ upload' = [k \in Calls |-> IF k \in gone THEN [upload[k] EXCEPT !.step = "lost"] ELSE upload[k]]
  /\ call' = [k \in Calls |-> IF k \in gone THEN Idle ELSE call[k]]
  /\ slots' = [slots EXCEPT ![w] = Concurrency]
  /\ waiting' = [waiting EXCEPT ![w] = <<>>]
  /\ UNCHANGED <<disk, index, points, events, offered, incoming, batches>>

\* cleanup_managed_uploads_on_startup removes all there is in the directory.
Start(w) ==
  /\ w \in down
  /\ down' = down \ {w}
  /\ incoming' = {} /\ batches' = {}
  /\ disk' = [p \in Paths |-> NoFile]
  /\ UNCHANGED <<index, points, events, call, offered, upload, slots, waiting, crashes>>

UploadsNext ==
  \/ \E k \in Calls, w \in Workers, u \in Users :
       \/ \E s \in Scopes, a \in Archives : ReceiveUpload(k, w, u, s, a)
       \/ \E ws \in Workspaces, c \in Contents : ReceiveText(k, w, u, ws, c)
  \/ \E k \in Calls : UploadStep(k)
  \/ \E w \in Workers : Crash(w) \/ Start(w)

UploadsSpec == UploadsInit /\ [][UploadsNext]_uploadVars

\* The event loop and the threads it started run on.
FairUploadsSpec == UploadsSpec /\ \A k \in Calls : WF_uploadVars(UploadStep(k))

-----------------------------------------------------------------------------
\* At most INGESTION_CONCURRENCY archives are handled in a worker, and nobody
\* waits while a slot is free (news.py, ingestion_semaphore).
SlotsRespected ==
  \A w \in Workers :
    LET held == Cardinality({k \in Calls : upload[k].worker = w /\ upload[k].step \in Holding}) IN
    /\ held <= Concurrency
    /\ waiting[w] # <<>> => held = Concurrency

\* An archive that is refused leaves nothing in the upload directory, and only
\* a crash leaves an incoming file (news.py "finally", folder_upload.py rmtree).
StagingAccounted ==
  /\ \A k \in incoming : upload[k].step \in {"copy", "stage", "lost"}
  /\ \A k \in batches : upload[k].status \notin {400, 413}

\* A reply of 200 counts the files as the stores have them: every file it
\* calls ingested has its event, and no other has (folder_upload.py).
ReplyMatchesRecords ==
  \A k \in Calls : upload[k].step = "answered" /\ upload[k].status = 200 =>
    /\ upload[k].count["ingested"] = Cardinality({p \in FilesOf(k) : \E e \in events : e.path = p})
    /\ \A p \in FilesOf(k) : (\E e \in events : e.path = p) => index[p].status = "ingested"

\* The staged files of an upload in progress stay (docs/architecture/
\* system_architecture.md: the cleanup "Clears expired temporary upload folders").
ActiveStagingKept ==
  \A k \in Calls : upload[k].step = "ingest" => \A p \in FilesOf(k) : disk[p] # NoFile

\* Every request that waits for a slot is answered unless its worker crashes.
UploadsAnswered ==
  \A k \in Calls : upload[k].step = "waiting" ~> upload[k].step \in {"answered", "lost"}
=============================================================================
