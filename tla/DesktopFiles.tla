----------------------------- MODULE DesktopFiles -----------------------------
(***************************************************************************)
(* Files of the desktop on their way to the index: the folder watcher, the *)
(* drop area and the one worker that ingests.                              *)
(*                                                                         *)
(* The watcher's thread reports a change, the collector compares hash and  *)
(* modification time with what it saw last, and the worker reads the file  *)
(* again when its turn comes.  The event bus and the queue between them    *)
(* are a sequence (Telemetry models them); the worker has one call.        *)
(***************************************************************************)
EXTENDS Ingestion, Sequences

CONSTANTS
  user,         \* the desktop's local user
  MaxEdits,     \* bound: changes of a file
  MaxQueue,     \* bound: ingestion events waiting
  MaxRestarts   \* bound: restarts of the application

ASSUME DesktopAssumption ==
  user \in Users /\ Cardinality(Calls) = 1 /\ {MaxEdits, MaxQueue, MaxRestarts} \subseteq Nat

VARIABLES
  mtime,     \* modification time of each file
  changed,   \* paths with a file system event not yet handled
  seen,      \* FolderWatchCollector._seen
  queue,     \* file_ingestion events on their way to the worker
  missed,    \* paths whose last notification came to nothing
  torn,      \* contents whose point may hold the text of other bytes (history)
  restarts

desktopVars == <<docVars, mtime, changed, seen, queue, missed, torn, restarts>>

worker == CHOOSE k \in Calls : TRUE
Unseen == [hash |-> NoFile, mtime |-> 0]

DesktopTypeOK ==
  /\ IngestionTypeOK
  /\ mtime \in [Paths -> 0..MaxEdits]
  /\ changed \subseteq Paths /\ missed \subseteq Paths /\ torn \subseteq Contents
  /\ seen \in [Paths -> [hash : Contents \cup {NoFile}, mtime : 0..MaxEdits]]
  /\ queue \in Seq(Paths) /\ Len(queue) <= MaxQueue
  /\ restarts \in 0..MaxRestarts

DesktopInit ==
  /\ IngestionInit
  /\ mtime = [p \in Paths |-> 0]
  /\ changed = {} /\ missed = {} /\ torn = {} /\ queue = <<>> /\ restarts = 0
  /\ seen = [p \in Paths |-> Unseen]

\* The file was hashed and is to be read.
BetweenReads(p) == call[worker].step = "extract" /\ call[worker].path = p

\* The user saves other bytes, or removes the file: no event is handled for that.
Edit(p, c) ==
  /\ mtime[p] < MaxEdits /\ c # disk[p]
  /\ disk' = [disk EXCEPT ![p] = c]
  /\ mtime' = [mtime EXCEPT ![p] = @ + 1]
  /\ changed' = IF c = NoFile THEN changed ELSE changed \cup {p}
  /\ torn' = IF BetweenReads(p) THEN torn \cup {call[worker].hash} ELSE torn
  /\ UNCHANGED <<index, points, events, call, offered, seen, queue, missed, restarts>>

\* Mutation: the collector compares hashes alone.
SeenHash(p) == seen[p].hash = disk[p]

SeenBefore(p) == seen[p] = [hash |-> disk[p], mtime |-> mtime[p]]

\* _handle_path: a file that cannot be read is ignored.
Watch(p) ==
  /\ p \in changed
  /\ changed' = changed \ {p}
  /\ \/ /\ disk[p] # NoFile /\ ~SeenBefore(p)
        /\ Len(queue) < MaxQueue
        /\ seen' = [seen EXCEPT ![p] = [hash |-> disk[p], mtime |-> mtime[p]]]
        /\ queue' = Append(queue, p)
     \/ (disk[p] = NoFile \/ SeenBefore(p)) /\ UNCHANGED <<seen, queue>>
  /\ UNCHANGED <<docVars, mtime, missed, torn, restarts>>

\* handle_paths: a dropped file is reported whatever was seen of it.
Drop(p) ==
  /\ disk[p] # NoFile /\ Len(queue) < MaxQueue
  /\ queue' = Append(queue, p)
  /\ UNCHANGED <<docVars, mtime, changed, seen, missed, torn, restarts>>

\* DocumentIngestionWorker: an event whose file is gone is ignored.
Take ==
  /\ call[worker].step = "idle" /\ queue # <<>>
  /\ queue' = Tail(queue)
  /\ missed' = missed \ {Head(queue)}
  /\ call' = IF disk[Head(queue)] = NoFile THEN call
             ELSE [call EXCEPT ![worker] = Document(Head(queue), user, Private)]
  /\ UNCHANGED <<disk, index, points, events, offered, mtime, changed, seen, torn, restarts>>

\* The call stored the text of the bytes it hashed.
StoresWhole ==
  /\ call[worker].step = "upsert" /\ call'[worker].step = "index"
  /\ call[worker].text = call[worker].hash

Ingest ==
  /\ IngestStep(worker)
  /\ torn' = IF StoresWhole THEN torn \ {call[worker].hash} ELSE torn
  /\ UNCHANGED <<mtime, changed, seen, queue, missed, restarts>>

\* _AsyncQueueWorker.run: an exception is logged and the event is over.
Return ==
  /\ call[worker].step \in Outcomes
  /\ call' = [call EXCEPT ![worker] = Idle]
  /\ missed' = IF call[worker].step = "raised" THEN missed \cup {call[worker].path} ELSE missed
  /\ UNCHANGED <<disk, index, points, events, offered, mtime, changed, seen, queue, torn, restarts>>

\* The application ends anywhere and starts again: what was under way is gone
\* and folders are not scanned.
Restart ==
  /\ restarts < MaxRestarts
  /\ restarts' = restarts + 1
  /\ missed' = missed \cup changed \cup {queue[i] : i \in 1..Len(queue)}
                 \cup ({call[worker].path} \cap Paths)
  /\ changed' = {} /\ queue' = <<>> /\ seen' = [p \in Paths |-> Unseen]
  /\ call' = [call EXCEPT ![worker] = Idle]
  /\ UNCHANGED <<disk, index, points, events, offered, mtime, torn>>

DesktopNext ==
  \/ \E p \in Paths : \/ \E c \in Contents \cup {NoFile} : Edit(p, c)
                      \/ Watch(p) \/ Drop(p)
  \/ Take \/ Ingest \/ Return \/ Restart

DesktopSpec == DesktopInit /\ [][DesktopNext]_desktopVars

-----------------------------------------------------------------------------
AtRest == changed = {} /\ queue = <<>> /\ call[worker].step = "idle"

\* What the index promises of the file at p.
Indexed(p) == index[p].status = "ingested" /\ disk[p] # NoFile
StoredFor(c) == points[<<user, c>>] = [text |-> c, user |-> user, scope |-> Private]

\* When every change was reported and handled, a file the index calls ingested
\* was indexed as it is now, although the collector, the hash and the
\* extraction each read it at another moment (folder_watch_collector.py,
\* document_service.py); and the text stored for it is its own, unless a file
\* with these bytes changed between the hash and the extraction and they were
\* not stored again since.
IndexFollowsDisk ==
  AtRest => \A p \in Paths \ missed : Indexed(p) =>
    /\ index[p].hash = disk[p]
    /\ disk[p] \in torn \/ StoredFor(disk[p])

\* The same without the exception is not kept: edited between the two reads
\* and then edited back, a file counts as unchanged while the text of other
\* bytes is stored for it (document_service.py:50).
TextFollowsDisk ==
  AtRest => \A p \in Paths \ missed : Indexed(p) => StoredFor(disk[p])
=============================================================================
