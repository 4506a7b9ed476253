---------------------------- MODULE ServerRuntime ----------------------------
(***************************************************************************)
(* The life of the server's worker processes: lifespan of server/app.py    *)
(* with the tables, the bundled Qdrant and its collections, and the user   *)
(* of the trusted LAN.  The workers share the database and one Qdrant      *)
(* address; each may start a Qdrant process and stops only its own.        *)
(*                                                                         *)
(* An exception anywhere in the start leads to the same finally as the end *)
(* of the server.  The supervisor (external) starts workers again.         *)
(***************************************************************************)
EXTENDS Integers

CONSTANTS
  Worker,
  Settings,     \* the sets of workers a server may be configured with
  Collections,  \* how many collections initialize_qdrant_collections names
  Processes,    \* Qdrant processes that exist at a time (bound)
  MaxFaults     \* failures, kills and hangs (bound)

ASSUME RuntimeAssumption ==
  /\ Settings \subseteq SUBSET Worker
  /\ Collections \in Nat \ {0} /\ Processes \in Nat \ {0} /\ MaxFaults \in Nat

VARIABLES
  pc,           \* where the lifespan of each worker is
  next,         \* the collection ensure_collection is at
  process,      \* _process of each worker, 0 for None
  qdrant,       \* the Qdrant processes
  tables, made, user, identity,   \* what the database and Qdrant's storage hold
  stopping,     \* the server is being stopped
  faults,
  orphaned      \* Qdrant went down on its own: a history variable

runtimeVars == <<pc, next, process, qdrant, tables, made, user, identity, stopping, faults, orphaned>>
storage == <<tables, made, user, identity>>

Process == 1..Processes
\* left: its worker was killed.
Gone == [at |-> "gone", left |-> FALSE]

StartSteps == {"tables", "create", "database", "start", "spawn", "wait", "ready",
               "collection", "make", "again", "user", "add_user", "identity", "add_identity"}
EndSteps == {"close", "stop", "stop_wait", "dispose"}
Steps == {"off", "down", "serving", "timed_out"} \cup StartSteps \cup EndSteps

RuntimeTypeOK ==
  /\ pc \in [Worker -> Steps] /\ next \in [Worker -> 1..Collections + 1]
  /\ process \in [Worker -> 0..Processes]
  /\ qdrant \in [Process -> [at : {"gone", "booting", "up", "closing", "hung"}, left : BOOLEAN]]
  /\ made \subseteq 1..Collections /\ tables \in BOOLEAN /\ user \in BOOLEAN /\ identity \in BOOLEAN
  /\ stopping \in BOOLEAN /\ orphaned \in BOOLEAN
  /\ faults \in 0..MaxFaults
  \* One storage directory, one address.
  /\ \A p, q \in Process : qdrant[p].at = "up" /\ qdrant[q].at = "up" => p = q

\* SERVER_WORKERS of the workers there could be.
RuntimeInit ==
  /\ \E used \in Settings : pc = [w \in Worker |-> IF w \in used THEN "down" ELSE "off"]
  /\ next = [w \in Worker |-> 1]
  /\ process = [w \in Worker |-> 0] /\ qdrant = [p \in Process |-> Gone]
  /\ tables = FALSE /\ made = {} /\ user = FALSE /\ identity = FALSE
  /\ stopping = FALSE /\ faults = 0 /\ orphaned = FALSE

-----------------------------------------------------------------------------
\* Somebody answers at QDRANT_URL: not necessarily the process of this worker.
Healthy == \E p \in Process : qdrant[p].at = "up"
Alive(p) == p # 0 /\ qdrant[p].at # "gone"
Own(w) == process[w]

\* Mutation: finally only covers what comes after the start.
FailedUncaught == "dispose"

\* An exception of the start goes to the outer finally.
Failed == "close"

Go(w, to) == pc' = [pc EXCEPT ![w] = to]
Fault == faults < MaxFaults /\ faults' = faults + 1

-----------------------------------------------------------------------------
(* The start. *)

\* validate_storage_configuration and cleanup_managed_uploads_on_startup.
Start(w) ==
  /\ pc[w] = "down" /\ ~stopping
  /\ Go(w, "tables") /\ next' = [next EXCEPT ![w] = 1]
  /\ UNCHANGED <<process, qdrant, storage, stopping, faults, orphaned>>

\* create_all looks for the tables, then creates those it did not find.
LookTables(w) ==
  /\ pc[w] = "tables"
  /\ Go(w, IF tables THEN "database" ELSE "create")
  /\ UNCHANGED <<next, process, qdrant, storage, stopping, faults, orphaned>>

CreateTables(w) ==
  /\ pc[w] = "create"
  /\ tables' = TRUE
  /\ Go(w, IF tables THEN Failed ELSE "database")
  /\ UNCHANGED <<next, process, qdrant, made, user, identity, stopping, faults, orphaned>>

CheckDatabase(w) ==
  /\ pc[w] = "database" /\ Go(w, "start")
  /\ UNCHANGED <<next, process, qdrant, storage, stopping, faults, orphaned>>

\* Mutation: only the own process counts.
NotAsked == FALSE
Answers == Healthy

\* start_bundled_qdrant: one that is healthy is used, whoever started it.
LookQdrant(w) ==
  /\ pc[w] = "start"
  /\ Go(w, IF Answers THEN "ready" ELSE IF Alive(Own(w)) THEN Failed ELSE "spawn")
  /\ UNCHANGED <<next, process, qdrant, storage, stopping, faults, orphaned>>

Spawn(w) ==
  /\ pc[w] = "spawn"
  /\ \E p \in Process :
       /\ qdrant[p] = Gone /\ \A v \in Worker : process[v] # p
       /\ \A q \in Process : q < p => ~(qdrant[q] = Gone /\ \A v \in Worker : process[v] # q)
       /\ process' = [process EXCEPT ![w] = p]
       /\ qdrant' = [qdrant EXCEPT ![p] = [at |-> "booting", left |-> FALSE]]
  /\ Go(w, "wait")
  /\ UNCHANGED <<next, storage, stopping, faults, orphaned>>

\* One turn of _wait_until_healthy: the own process first, then the address.
WaitHealthy(w) ==
  /\ pc[w] = "wait"
  /\ ~Alive(Own(w)) \/ Healthy
  /\ Go(w, IF Alive(Own(w)) THEN "ready" ELSE Failed)
  /\ UNCHANGED <<next, process, qdrant, storage, stopping, faults, orphaned>>

\* The deadline passes: the process is stopped before the exception is raised.
TimeOut(w) ==
  /\ pc[w] = "wait" /\ Alive(Own(w)) /\ Fault
  /\ Go(w, "timed_out")
  /\ qdrant' = [qdrant EXCEPT ![Own(w)].at = "closing"]
  /\ UNCHANGED <<next, process, storage, stopping, orphaned>>

\* check_qdrant_ready.
CheckQdrant(w) ==
  /\ pc[w] = "ready"
  /\ Go(w, IF Healthy THEN "collection" ELSE Failed)
  /\ UNCHANGED <<next, process, qdrant, storage, stopping, faults, orphaned>>

Advance(w) == next' = [next EXCEPT ![w] = @ + 1]

Remaining(w) == next[w] <= Collections

\* ensure_collection for one name after the other.
LookCollection(w) ==
  /\ pc[w] = "collection"
  /\ IF ~Remaining(w) THEN Go(w, "user") /\ UNCHANGED next
     ELSE IF ~Healthy THEN Go(w, Failed) /\ UNCHANGED next
     ELSE IF next[w] \in made THEN Advance(w) /\ UNCHANGED pc
     ELSE Go(w, "make") /\ UNCHANGED next
  /\ UNCHANGED <<process, qdrant, storage, stopping, faults, orphaned>>

\* One that exists by now, or no Qdrant: an exception, and a second look.
MakeCollection(w) ==
  /\ pc[w] = "make"
  /\ IF Healthy /\ next[w] \notin made
     THEN made' = made \cup {next[w]} /\ Advance(w) /\ Go(w, "collection")
     ELSE Go(w, "again") /\ UNCHANGED <<made, next>>
  /\ UNCHANGED <<process, qdrant, tables, user, identity, stopping, faults, orphaned>>

\* Mutation: an exception of create_collection always means that it is there.
TakenForMade(w) == TRUE
Exists(w) == Healthy /\ next[w] \in made

LookAgain(w) ==
  /\ pc[w] = "again"
  /\ IF Exists(w) THEN Advance(w) /\ Go(w, "collection") ELSE Go(w, Failed) /\ UNCHANGED next
  /\ UNCHANGED <<process, qdrant, storage, stopping, faults, orphaned>>

\* ensure_trusted_lan_user: the user, then in a transaction of its own the
\* identity.  The loser of an insertion meets the unique key and fails.
LookUser(w) ==
  /\ pc[w] = "user"
  /\ Go(w, IF user THEN "identity" ELSE "add_user")
  /\ UNCHANGED <<next, process, qdrant, storage, stopping, faults, orphaned>>

AddUser(w) ==
  /\ pc[w] = "add_user"
  /\ user' = TRUE /\ Go(w, IF user THEN Failed ELSE "identity")
  /\ UNCHANGED <<next, process, qdrant, tables, made, identity, stopping, faults, orphaned>>

LookIdentity(w) ==
  /\ pc[w] = "identity"
  /\ Go(w, IF identity THEN "serving" ELSE "add_identity")
  /\ UNCHANGED <<next, process, qdrant, storage, stopping, faults, orphaned>>

AddIdentity(w) ==
  /\ pc[w] = "add_identity"
  /\ identity' = TRUE /\ Go(w, IF identity THEN Failed ELSE "serving")
  /\ UNCHANGED <<next, process, qdrant, tables, made, user, stopping, faults, orphaned>>

\* Any step of the start may fail by itself: no database, no executable.
StartFails(w) ==
  /\ pc[w] \in StartSteps /\ Fault
  /\ Go(w, Failed)
  /\ UNCHANGED <<next, process, qdrant, storage, stopping, orphaned>>

-----------------------------------------------------------------------------
(* The end: close_qdrant, stop_bundled_qdrant, dispose_database. *)

StopServing(w) ==
  /\ pc[w] = "serving" /\ stopping
  /\ Go(w, "close")
  /\ UNCHANGED <<next, process, qdrant, storage, stopping, faults, orphaned>>

\* Whatever close raises, the next finally follows.
Close(w) ==
  /\ pc[w] = "close" /\ Go(w, "stop")
  /\ UNCHANGED <<next, process, qdrant, storage, stopping, faults, orphaned>>

\* terminate, if the process is alive.
StopQdrant(w) ==
  /\ pc[w] = "stop"
  /\ IF Alive(Own(w))
     THEN /\ qdrant' = [qdrant EXCEPT ![Own(w)].at = "closing"]
          /\ Go(w, "stop_wait") /\ UNCHANGED process
     ELSE process' = [process EXCEPT ![w] = 0] /\ Go(w, "dispose") /\ UNCHANGED qdrant
  /\ UNCHANGED <<next, storage, stopping, faults, orphaned>>

\* Mutation: the process is waited for without a limit.
WaitForExit(p) == ~Alive(p)

\* wait(timeout=10), then kill.
WaitTenSeconds(p) == TRUE

StopWait(w) ==
  /\ pc[w] \in {"stop_wait", "timed_out"} /\ WaitTenSeconds(Own(w))
  /\ qdrant' = [qdrant EXCEPT ![Own(w)] = Gone]
  /\ process' = [process EXCEPT ![w] = 0]
  /\ Go(w, IF pc[w] = "stop_wait" THEN "dispose" ELSE Failed)
  /\ UNCHANGED <<next, storage, stopping, faults, orphaned>>

Dispose(w) ==
  /\ pc[w] = "dispose" /\ Go(w, "down")
  /\ process' = [process EXCEPT ![w] = 0]
  /\ UNCHANGED <<next, qdrant, storage, stopping, faults, orphaned>>

-----------------------------------------------------------------------------
(* The processes and the machine. *)

\* A Qdrant takes its storage and its address, or exits because another has them.
Boot(p) ==
  /\ qdrant[p].at = "booting"
  /\ qdrant' = IF \E q \in Process \ {p} : qdrant[q].at \in {"up", "closing", "hung"}
               THEN [qdrant EXCEPT ![p] = Gone] ELSE [qdrant EXCEPT ![p].at = "up"]
  /\ UNCHANGED <<pc, next, process, storage, stopping, faults, orphaned>>

\* A process that was told to terminate does, unless it hangs.
Hang(p) ==
  /\ qdrant[p].at = "closing" /\ Fault
  /\ qdrant' = [qdrant EXCEPT ![p].at = "hung"]
  /\ UNCHANGED <<pc, next, process, storage, stopping, orphaned>>

Exit(p) ==
  /\ qdrant[p].at = "closing" /\ qdrant' = [qdrant EXCEPT ![p] = Gone]
  /\ UNCHANGED <<pc, next, process, storage, stopping, faults, orphaned>>

\* Qdrant fails by itself.
QdrantDies(p) ==
  /\ qdrant[p].at \in {"booting", "up"} /\ Fault
  /\ qdrant' = [qdrant EXCEPT ![p] = Gone] /\ orphaned' = TRUE
  /\ UNCHANGED <<pc, next, process, storage, stopping>>

\* A worker is killed: no finally, and its Qdrant goes on.
Kill(w) ==
  /\ pc[w] \notin {"off", "down"} /\ Fault
  /\ Go(w, "down") /\ process' = [process EXCEPT ![w] = 0]
  /\ qdrant' = IF Alive(Own(w)) THEN [qdrant EXCEPT ![Own(w)].left = TRUE] ELSE qdrant
  /\ UNCHANGED <<next, storage, stopping, orphaned>>

Shutdown ==
  /\ ~stopping /\ stopping' = TRUE
  /\ UNCHANGED <<pc, next, process, qdrant, storage, faults, orphaned>>

-----------------------------------------------------------------------------
Starting(w) ==
  \/ LookTables(w) \/ CreateTables(w) \/ CheckDatabase(w)
  \/ LookQdrant(w) \/ Spawn(w) \/ WaitHealthy(w) \/ CheckQdrant(w)
  \/ LookCollection(w) \/ MakeCollection(w) \/ LookAgain(w)
  \/ LookUser(w) \/ AddUser(w) \/ LookIdentity(w) \/ AddIdentity(w)
Ending(w) == StopServing(w) \/ Close(w) \/ StopQdrant(w) \/ StopWait(w) \/ Dispose(w)

RuntimeNext ==
  \/ \E w \in Worker : Start(w) \/ Starting(w) \/ Ending(w) \/ TimeOut(w) \/ StartFails(w) \/ Kill(w)
  \/ \E p \in Process : Boot(p) \/ Exit(p) \/ Hang(p) \/ QdrantDies(p)
  \/ Shutdown

\* A worker runs, the supervisor starts it again, and a process boots, and ends
\* when it is told to unless it hangs.
RuntimeSpec ==
  /\ RuntimeInit /\ [][RuntimeNext]_runtimeVars
  /\ \A w \in Worker : WF_runtimeVars(Start(w)) /\ WF_runtimeVars(Starting(w)) /\ WF_runtimeVars(Ending(w))
  /\ \A p \in Process : WF_runtimeVars(Boot(p)) /\ WF_runtimeVars(Exit(p))

-----------------------------------------------------------------------------
\* A Qdrant that a worker started does not outlive the worker, at whatever step
\* its start failed, unless the worker was killed (app.py, qdrant_runtime.py).
NoOrphan ==
  \A p \in Process : qdrant[p].at # "gone" /\ ~qdrant[p].left =>
    \E w \in Worker : process[w] = p /\ pc[w] # "down"

\* A worker serves only over complete storage, whichever worker created which
\* part and whoever failed or was killed half-way.
ServesComplete ==
  \A w \in Worker : pc[w] = "serving" =>
    tables /\ made = 1..Collections /\ user /\ identity

\* The only worker of a server in the end serves, with a Qdrant to serve from
\* unless one died by itself: also after it was killed and its own old Qdrant,
\* booting or up, still holds the address.  One that hangs and was left behind
\* holds it for ever.
Alone == \A v, w \in Worker : pc[v] # "off" /\ pc[w] # "off" => v = w
Serves == (\A w \in Worker : pc[w] \in {"off", "serving"}) /\ (Healthy \/ orphaned)
LoneServes ==
  Alone => <>[](stopping \/ Serves \/ \E p \in Process : qdrant[p] = [at |-> "hung", left |-> TRUE])

\* The server stops, even with a Qdrant that ignores being told to, and while
\* workers start.
ShutdownEnds == stopping ~> \A w \in Worker : pc[w] \in {"off", "down"}

\* The same for any number of workers: not kept, for workers that fail can go on
\* taking each other's Qdrant away.
AllServe == <>[](stopping \/ Serves)

\* While a worker serves, the Qdrant it found or started is not taken away by
\* another worker: not kept, for the owner stops it when its own start fails.
QdrantWhileServing ==
  (\E w \in Worker : pc[w] = "serving") /\ ~orphaned /\ ~stopping => Healthy
=============================================================================
