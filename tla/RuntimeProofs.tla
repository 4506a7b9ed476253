---------------------------- MODULE RuntimeProofs ----------------------------
(***************************************************************************)
(* Proofs about the start of the server, and about the tab that uses it.   *)
(*                                                                         *)
(* ServerRuntime, for any workers, settings, collections, processes and    *)
(* faults: types, no Qdrant outlives the worker that started it unless the *)
(* worker was killed, and a worker serves only over complete storage.      *)
(*                                                                         *)
(* Console, for any accounts, workspaces, requests in flight and sessions: *)
(* types, what the pages show and send is of the account and the workspace *)
(* shown, and the token kept is that account's.                            *)
(***************************************************************************)
EXTENDS ServerRuntime, Console, SequenceTheorems, TLAPS

\* The steps of the lifespan at which a worker has no Qdrant of its own, and
\* those at which all of a part of the storage is there.
WithoutProcess == {"off", "down", "tables", "create", "database", "start", "spawn", "dispose"}
FirstCollection == {"tables", "create", "database", "start", "spawn", "wait", "ready"}
AfterTables == {"database", "start", "spawn", "wait", "ready", "collection", "make", "again",
                "user", "add_user", "identity", "add_identity", "serving"}
AfterCollections == {"user", "add_user", "identity", "add_identity", "serving"}
AfterUser == {"identity", "add_identity", "serving"}

\* A worker that starts, or has ended, owns nothing.
ProcessHeld == \A w \in Worker : pc[w] \in WithoutProcess => process[w] = 0

\* How far a start is tells what the storage holds, whoever put it there.
Progress ==
  \A w \in Worker :
    /\ pc[w] \in FirstCollection => next[w] = 1
    /\ pc[w] \in {"make", "again"} => next[w] \in 1..Collections
    /\ pc[w] \in AfterTables => tables
    /\ pc[w] \in {"collection", "make", "again"} => 1..(next[w] - 1) \subseteq made
    /\ pc[w] \in AfterCollections => made = 1..Collections
    /\ pc[w] \in AfterUser => user
    /\ pc[w] = "serving" => identity

RuntimeInv == RuntimeTypeOK /\ ProcessHeld /\ NoOrphan /\ Progress

USE RuntimeAssumption DEF RuntimeAssumption

\* Nothing runs, and nothing is stored.
LEMMA RuntimeStarts == RuntimeInit => RuntimeInv
<1> SUFFICES ASSUME RuntimeInit PROVE RuntimeInv OBVIOUS
<1> USE DEF RuntimeInit
<1>1. pc \in [Worker -> {"off", "down"}] OBVIOUS
<1>2. RuntimeTypeOK
  <2>1. pc \in [Worker -> Steps] BY <1>1 DEF Steps
  <2>2. next \in [Worker -> 1..Collections + 1] /\ process \in [Worker -> 0..Processes] OBVIOUS
  <2>3. Gone \in [at : {"gone", "booting", "up", "closing", "hung"}, left : BOOLEAN] /\ Gone.at # "up"
    BY DEF Gone
  <2>4. qdrant \in [Process -> [at : {"gone", "booting", "up", "closing", "hung"}, left : BOOLEAN]]
        /\ \A p \in Process : qdrant[p].at # "up"
    BY <2>3
  <2>5. made \subseteq 1..Collections /\ faults \in 0..MaxFaults OBVIOUS
  <2>6. tables \in BOOLEAN /\ user \in BOOLEAN /\ identity \in BOOLEAN
        /\ stopping \in BOOLEAN /\ orphaned \in BOOLEAN
    BY Zenon
  <2> QED BY <2>1, <2>2, <2>4, <2>5, <2>6, Zenon DEF RuntimeTypeOK
<1>3. ProcessHeld BY DEF ProcessHeld
<1>4. NoOrphan BY DEF NoOrphan, Gone
<1>5. Progress
  BY <1>1 DEF Progress, FirstCollection, AfterTables, AfterCollections, AfterUser
<1> QED BY <1>2, <1>3, <1>4, <1>5 DEF RuntimeInv

-----------------------------------------------------------------------------
(* What every step keeps.                                                  *)

\* The steps of RuntimeNext by what they change.
Looks(w) ==
  \/ Start(w) \/ LookTables(w) \/ CheckDatabase(w) \/ LookQdrant(w) \/ WaitHealthy(w) \/ CheckQdrant(w)
  \/ LookCollection(w) \/ LookAgain(w) \/ LookUser(w) \/ LookIdentity(w)
  \/ StartFails(w) \/ StopServing(w) \/ Close(w)
Stores(w) == CreateTables(w) \/ MakeCollection(w) \/ AddUser(w) \/ AddIdentity(w)
Controls(w) == Spawn(w) \/ TimeOut(w) \/ StopQdrant(w) \/ StopWait(w) \/ Dispose(w) \/ Kill(w)
Outside(p) == Boot(p) \/ Exit(p) \/ Hang(p) \/ QdrantDies(p)

LEMMA StepsSplit ==
  RuntimeNext => (\E w \in Worker : Looks(w) \/ Stores(w) \/ Controls(w)) \/ (\E p \in Process : Outside(p)) \/ Shutdown
BY Zenon DEF RuntimeNext, Starting, Ending, Looks, Stores, Controls, Outside

\* The two halves of the type invariant: what a step of the control or of the
\* processes changes, and what Boolean it sets.
WorkersOK ==
  /\ pc \in [Worker -> Steps] /\ next \in [Worker -> 1..Collections + 1]
  /\ process \in [Worker -> 0..Processes] /\ made \subseteq 1..Collections /\ faults \in 0..MaxFaults
QdrantOK == qdrant \in [Process -> [at : {"gone", "booting", "up", "closing", "hung"}, left : BOOLEAN]]
FlagsOK ==
  /\ tables \in BOOLEAN /\ user \in BOOLEAN /\ identity \in BOOLEAN
  /\ stopping \in BOOLEAN /\ orphaned \in BOOLEAN
OneUp == \A p, q \in Process : qdrant[p].at = "up" /\ qdrant[q].at = "up" => p = q

LEMMA TypeSplit == RuntimeTypeOK <=> WorkersOK /\ QdrantOK /\ FlagsOK /\ OneUp
BY Zenon DEF RuntimeTypeOK, WorkersOK, QdrantOK, FlagsOK, OneUp

LEMMA AdvanceKept ==
  ASSUME RuntimeTypeOK, NEW w \in Worker, next[w] \in 1..Collections, Advance(w)
  PROVE  next' \in [Worker -> 1..Collections + 1]
<1>1. next[w] + 1 \in 1..Collections + 1 OBVIOUS
<1> QED BY <1>1 DEF Advance, RuntimeTypeOK

\* A process that changes without coming up keeps what is said of all.
LEMMA ProcessChanged ==
  ASSUME QdrantOK, OneUp, NEW p \in Process,
         NEW state \in [at : {"gone", "booting", "closing", "hung"}, left : BOOLEAN],
         qdrant' = [qdrant EXCEPT ![p] = state]
  PROVE  QdrantOK' /\ OneUp'
<1>1. state.at # "up" /\ state \in [at : {"gone", "booting", "up", "closing", "hung"}, left : BOOLEAN] OBVIOUS
<1> HIDE DEF Process
<1>2. QdrantOK' BY <1>1 DEF QdrantOK
<1>3. OneUp' BY <1>1, <1>2 DEF QdrantOK, OneUp
<1> QED BY <1>2, <1>3

LEMMA ProcessToldToEnd ==
  ASSUME QdrantOK, OneUp, NEW p \in Process, qdrant' = [qdrant EXCEPT ![p].at = "closing"]
  PROVE  QdrantOK' /\ OneUp'
<1> DEFINE state == [qdrant[p] EXCEPT !.at = "closing"]
<1>1. state \in [at : {"gone", "booting", "closing", "hung"}, left : BOOLEAN] BY DEF QdrantOK
<1>2. qdrant' = [qdrant EXCEPT ![p] = state] OBVIOUS
<1> HIDE DEF state
<1> QED BY <1>1, <1>2, ProcessChanged

LEMMA LooksKeepWorkers ==
  ASSUME RuntimeInv, NEW w \in Worker, Looks(w)
  PROVE  WorkersOK' /\ UNCHANGED <<process, qdrant, tables, made, user, identity, stopping, orphaned>>
<1> USE DEF WorkersOK, RuntimeInv, Progress, StartSteps, EndSteps, Steps, Go, Failed, storage
<1>1. CASE Start(w) BY <1>1, TypeSplit DEF Start
<1>2. CASE LookTables(w) BY <1>2, TypeSplit DEF LookTables
<1>3. CASE CheckDatabase(w) BY <1>3, TypeSplit DEF CheckDatabase
<1>4. CASE LookQdrant(w) BY <1>4, TypeSplit DEF LookQdrant
<1>5. CASE WaitHealthy(w) BY <1>5, TypeSplit DEF WaitHealthy
<1>6. CASE CheckQdrant(w) BY <1>6, TypeSplit DEF CheckQdrant
<1>7. CASE LookCollection(w)
  <2>1. CASE Remaining(w) /\ Healthy /\ next[w] \in made
    <3>1. next[w] \in 1..Collections BY <2>1, TypeSplit DEF Remaining
    <3>2. next' \in [Worker -> 1..Collections + 1] BY <1>7, <2>1, <3>1, AdvanceKept DEF LookCollection
    <3> QED BY <1>7, <2>1, <3>2, TypeSplit DEF LookCollection
  <2>2. CASE ~(Remaining(w) /\ Healthy /\ next[w] \in made)
    BY <1>7, <2>2, TypeSplit DEF LookCollection
  <2> QED BY <2>1, <2>2
<1>8. CASE LookAgain(w)
  <2>1. next[w] \in 1..Collections BY <1>8 DEF LookAgain
  <2>2. CASE Exists(w)
    <3>1. next' \in [Worker -> 1..Collections + 1] BY <1>8, <2>1, <2>2, AdvanceKept DEF LookAgain
    <3> QED BY <1>8, <2>2, <3>1, TypeSplit DEF LookAgain
  <2>3. CASE ~Exists(w) BY <1>8, <2>3, TypeSplit DEF LookAgain
  <2> QED BY <2>2, <2>3
<1>9. CASE LookUser(w) \/ LookIdentity(w) BY <1>9, TypeSplit DEF LookUser, LookIdentity
<1>10. CASE StartFails(w) BY <1>10, TypeSplit DEF StartFails, Fault
<1>11. CASE StopServing(w) \/ Close(w) BY <1>11, TypeSplit DEF StopServing, Close
<1> QED BY <1>1, <1>2, <1>3, <1>4, <1>5, <1>6, <1>7, <1>8, <1>9, <1>10, <1>11 DEF Looks

LEMMA StoresKeepWorkers ==
  ASSUME RuntimeInv, NEW w \in Worker, Stores(w)
  PROVE  WorkersOK' /\ FlagsOK' /\ UNCHANGED <<process, qdrant, stopping, orphaned>>
<1> USE DEF WorkersOK, RuntimeInv, Progress, StartSteps, EndSteps, Steps, Go, Failed
<1>1. FlagsOK'
  BY TypeSplit, Zenon DEF Stores, CreateTables, MakeCollection, AddUser, AddIdentity, FlagsOK
<1>2. CASE CreateTables(w) BY <1>1, <1>2, TypeSplit DEF CreateTables
<1>3. CASE MakeCollection(w)
  <2>1. next[w] \in 1..Collections BY <1>3 DEF MakeCollection
  <2>2. CASE Healthy /\ next[w] \notin made
    <3>1. next' \in [Worker -> 1..Collections + 1] BY <1>3, <2>1, <2>2, AdvanceKept DEF MakeCollection
    <3>2. made' \subseteq 1..Collections BY <1>3, <2>1, <2>2, TypeSplit DEF MakeCollection
    <3>3. pc' \in [Worker -> Steps] BY <1>3, <2>2, TypeSplit DEF MakeCollection
    <3> QED BY <1>1, <1>3, <2>2, <3>1, <3>2, <3>3, TypeSplit DEF MakeCollection
  <2>3. CASE ~(Healthy /\ next[w] \notin made) BY <1>1, <1>3, <2>3, TypeSplit DEF MakeCollection
  <2> QED BY <2>2, <2>3
<1>4. CASE AddUser(w) BY <1>1, <1>4, TypeSplit DEF AddUser
<1>5. CASE AddIdentity(w) BY <1>1, <1>5, TypeSplit DEF AddIdentity
<1> QED BY <1>2, <1>3, <1>4, <1>5 DEF Stores

LEMMA ControlsKeepsTypes ==
  ASSUME RuntimeInv, NEW w \in Worker, Controls(w)
  PROVE  WorkersOK' /\ QdrantOK' /\ OneUp' /\ UNCHANGED <<next, storage, stopping, orphaned>>
<1> USE DEF WorkersOK, StartSteps, EndSteps, Steps, Go, Failed, Own, storage
<1>1. WorkersOK /\ QdrantOK /\ OneUp /\ process[w] \in 0..Processes BY TypeSplit DEF RuntimeInv
<1>2. Alive(Own(w)) => Own(w) \in Process BY <1>1 DEF Alive, Process
<1>3. CASE Spawn(w)
  <2>1. PICK p \in Process : /\ process' = [process EXCEPT ![w] = p]
                             /\ qdrant' = [qdrant EXCEPT ![p] = [at |-> "booting", left |-> FALSE]]
    BY <1>3 DEF Spawn
  <2>2. QdrantOK' /\ OneUp' BY <1>1, <2>1, ProcessChanged
  <2> QED BY <1>1, <1>3, <2>1, <2>2 DEF Spawn, Process
<1>4. CASE TimeOut(w)
  <2>1. QdrantOK' /\ OneUp' BY <1>1, <1>2, <1>4, ProcessToldToEnd DEF TimeOut
  <2> QED BY <1>1, <1>4, <2>1 DEF TimeOut, Fault
<1>5. CASE StopQdrant(w)
  <2>1. CASE Alive(Own(w))
    <3>1. QdrantOK' /\ OneUp' BY <1>1, <1>2, <1>5, <2>1, ProcessToldToEnd DEF StopQdrant
    <3> QED BY <1>1, <1>5, <2>1, <3>1 DEF StopQdrant
  <2>2. CASE ~Alive(Own(w))
    <3>1. QdrantOK' /\ OneUp' BY <1>1, <1>5, <2>2 DEF StopQdrant, QdrantOK, OneUp
    <3> QED BY <1>1, <1>5, <2>2, <3>1 DEF StopQdrant
  <2> QED BY <2>1, <2>2
<1>6. CASE StopWait(w)
  <2>1. QdrantOK' /\ OneUp'
    <3>1. CASE Own(w) \in Process BY <1>1, <1>6, <3>1, ProcessChanged DEF StopWait, Gone
    <3>2. CASE Own(w) \notin Process BY <1>1, <1>6, <3>2 DEF StopWait, QdrantOK, OneUp
    <3> QED BY <3>1, <3>2
  <2> QED BY <1>1, <1>6, <2>1 DEF StopWait
<1>7. CASE Dispose(w) BY <1>1, <1>7 DEF Dispose, QdrantOK, OneUp
<1>8. CASE Kill(w)
  <2>1. QdrantOK' /\ OneUp'
    <3>1. CASE Alive(Own(w))
      <4> DEFINE state == [qdrant[Own(w)] EXCEPT !.left = TRUE]
      <4>1. qdrant' = [qdrant EXCEPT ![Own(w)] = state] BY <1>8, <3>1 DEF Kill
      <4>2. state.at = qdrant[Own(w)].at
            /\ state \in [at : {"gone", "booting", "up", "closing", "hung"}, left : BOOLEAN]
        BY <1>1, <1>2, <3>1 DEF QdrantOK
      <4> HIDE DEF state
      <4> QED BY <1>1, <1>2, <3>1, <4>1, <4>2 DEF QdrantOK, OneUp
    <3>2. CASE ~Alive(Own(w)) BY <1>1, <1>8, <3>2 DEF Kill, QdrantOK, OneUp
    <3> QED BY <3>1, <3>2
  <2> QED BY <1>1, <1>8, <2>1 DEF Kill, Fault
<1> QED BY <1>3, <1>4, <1>5, <1>6, <1>7, <1>8 DEF Controls

LEMMA OutsideKeepsTypes ==
  ASSUME RuntimeInv, NEW p \in Process, Outside(p)
  PROVE  QdrantOK' /\ OneUp' /\ faults' \in 0..MaxFaults /\ orphaned' \in BOOLEAN
         /\ UNCHANGED <<pc, next, process, storage, stopping>>
<1> USE DEF WorkersOK, QdrantOK, OneUp, RuntimeInv
<1>1. orphaned' \in BOOLEAN BY TypeSplit, Zenon DEF Outside, Boot, Exit, Hang, QdrantDies, FlagsOK
<1>2. CASE Boot(p)
  <2>1. CASE \E q \in Process \ {p} : qdrant[q].at \in {"up", "closing", "hung"}
    BY <1>1, <1>2, <2>1, TypeSplit DEF Boot, Gone
  <2>2. CASE ~\E q \in Process \ {p} : qdrant[q].at \in {"up", "closing", "hung"}
    BY <1>1, <1>2, <2>2, TypeSplit DEF Boot
  <2> QED BY <2>1, <2>2
<1>3. CASE Exit(p) BY <1>1, <1>3, TypeSplit DEF Exit, Gone
<1>4. CASE Hang(p) BY <1>1, <1>4, TypeSplit DEF Hang, Fault
<1>5. CASE QdrantDies(p) BY <1>1, <1>5, TypeSplit DEF QdrantDies, Fault, Gone
<1> QED BY <1>2, <1>3, <1>4, <1>5 DEF Outside

LEMMA TypesKept == RuntimeInv /\ [RuntimeNext]_runtimeVars => RuntimeTypeOK'
<1> SUFFICES ASSUME RuntimeInv, [RuntimeNext]_runtimeVars PROVE RuntimeTypeOK'
  OBVIOUS
<1>1. WorkersOK /\ QdrantOK /\ FlagsOK /\ OneUp BY TypeSplit DEF RuntimeInv
<1>2. WorkersOK' /\ QdrantOK' /\ FlagsOK' /\ OneUp' => RuntimeTypeOK'
  BY Zenon DEF RuntimeTypeOK, WorkersOK, QdrantOK, FlagsOK, OneUp
<1>3. ASSUME NEW w \in Worker, Looks(w) PROVE RuntimeTypeOK'
  <2>1. WorkersOK' /\ UNCHANGED <<process, qdrant, tables, made, user, identity, stopping, orphaned>>
    BY <1>3, LooksKeepWorkers
  <2>2. QdrantOK' /\ OneUp' BY <1>1, <2>1 DEF QdrantOK, OneUp
  <2>3. FlagsOK' BY <1>1, <2>1, Zenon DEF FlagsOK
  <2> QED BY <1>2, <2>1, <2>2, <2>3
<1>4. ASSUME NEW w \in Worker, Stores(w) PROVE RuntimeTypeOK'
  <2>1. WorkersOK' /\ FlagsOK' /\ UNCHANGED <<process, qdrant, stopping, orphaned>>
    BY <1>4, StoresKeepWorkers
  <2>2. QdrantOK' /\ OneUp' BY <1>1, <2>1 DEF QdrantOK, OneUp
  <2> QED BY <1>2, <2>1, <2>2
<1>5. ASSUME NEW w \in Worker, Controls(w) PROVE RuntimeTypeOK'
  <2>1. WorkersOK' /\ QdrantOK' /\ OneUp' /\ UNCHANGED <<next, storage, stopping, orphaned>>
    BY <1>5, ControlsKeepsTypes
  <2>2. FlagsOK' BY <1>1, <2>1, Zenon DEF FlagsOK, storage
  <2> QED BY <1>2, <2>1, <2>2
<1>6. ASSUME NEW p \in Process, Outside(p) PROVE RuntimeTypeOK'
  <2>1. QdrantOK' /\ OneUp' /\ faults' \in 0..MaxFaults /\ orphaned' \in BOOLEAN
        /\ UNCHANGED <<pc, next, process, storage, stopping>>
    BY <1>6, OutsideKeepsTypes
  <2>2. WorkersOK' BY <1>1, <2>1 DEF WorkersOK, storage
  <2>3. FlagsOK' BY <1>1, <2>1, Zenon DEF FlagsOK, storage
  <2> QED BY <1>2, <2>1, <2>2, <2>3
<1>7. CASE Shutdown
  <2>1. WorkersOK' /\ QdrantOK' /\ OneUp' BY <1>1, <1>7 DEF Shutdown, WorkersOK, QdrantOK, OneUp, storage
  <2>2. FlagsOK' BY <1>1, <1>7, Zenon DEF Shutdown, FlagsOK, storage
  <2> QED BY <1>2, <2>1, <2>2
<1>8. CASE UNCHANGED runtimeVars
  <2>1. WorkersOK' /\ QdrantOK' /\ OneUp' BY <1>1, <1>8 DEF runtimeVars, WorkersOK, QdrantOK, OneUp, storage
  <2>2. FlagsOK' BY <1>1, <1>8, Zenon DEF runtimeVars, FlagsOK, storage
  <2> QED BY <1>2, <2>1, <2>2
<1> QED BY <1>3, <1>4, <1>5, <1>6, <1>7, <1>8, StepsSplit

-----------------------------------------------------------------------------
(* No Qdrant outlives its worker.                                          *)

LEMMA OwnersKept ==
  RuntimeInv /\ [RuntimeNext]_runtimeVars => ProcessHeld' /\ NoOrphan'
<1> SUFFICES ASSUME RuntimeInv, [RuntimeNext]_runtimeVars PROVE ProcessHeld' /\ NoOrphan'
  OBVIOUS
<1> DEFINE Owned == ProcessHeld /\ NoOrphan
<1> USE DEF ProcessHeld, NoOrphan, WithoutProcess, StartSteps, Go, Failed, storage
<1>1. /\ pc \in [Worker -> Steps] /\ process \in [Worker -> 0..Processes]
      /\ QdrantOK /\ ProcessHeld /\ NoOrphan
  BY TypeSplit DEF RuntimeInv, WorkersOK
<1>2. ASSUME NEW w \in Worker, Looks(w) PROVE Owned'
  <2>1. UNCHANGED <<process, qdrant>> BY <1>2, LooksKeepWorkers
  <2>2. PICK to : pc' = [pc EXCEPT ![w] = to] /\ to \notin {"off", "down", "dispose"}
        /\ (to \in WithoutProcess => pc[w] \in WithoutProcess)
    BY <1>1, <1>2 DEF Looks, Start, LookTables, CheckDatabase, LookQdrant, WaitHealthy, CheckQdrant,
                      LookCollection, LookAgain, LookUser, LookIdentity, StartFails, StopServing, Close
  <2> QED BY <1>1, <2>1, <2>2
<1>3. ASSUME NEW w \in Worker, Stores(w) PROVE Owned'
  <2>1. UNCHANGED <<process, qdrant>> BY <1>3, StoresKeepWorkers
  <2>2. PICK to : pc' = [pc EXCEPT ![w] = to] /\ to \notin {"off", "down", "dispose"}
        /\ (to \in WithoutProcess => pc[w] \in WithoutProcess)
    BY <1>1, <1>3 DEF Stores, CreateTables, MakeCollection, AddUser, AddIdentity
  <2> QED BY <1>1, <2>1, <2>2
<1>4. ASSUME NEW w \in Worker, Controls(w) PROVE Owned'
  <2> USE DEF Own, Alive, Process, QdrantOK
  <2>1. CASE Spawn(w)
    <3>1. PICK p \in Process :
            /\ process' = [process EXCEPT ![w] = p] /\ pc' = [pc EXCEPT ![w] = "wait"]
            /\ qdrant' = [qdrant EXCEPT ![p] = [at |-> "booting", left |-> FALSE]]
      BY <2>1 DEF Spawn
    <3>2. process[w] = 0 /\ pc[w] = "spawn" BY <1>1, <2>1 DEF Spawn
    <3> QED BY <1>1, <3>1, <3>2
  <2>2. CASE TimeOut(w)
    <3>1. process[w] \in Process /\ pc[w] = "wait" /\ process' = process BY <1>1, <2>2 DEF TimeOut
    <3>2. \A p \in Process : qdrant'[p].left = qdrant[p].left /\ (p # process[w] => qdrant'[p] = qdrant[p])
      BY <1>1, <2>2, <3>1 DEF TimeOut
    <3>3. pc' = [pc EXCEPT ![w] = "timed_out"] BY <2>2 DEF TimeOut
    <3> QED BY <1>1, <3>1, <3>2, <3>3
  <2>3. CASE StopQdrant(w)
    <3>1. CASE Alive(Own(w))
      <4>1. process[w] \in Process /\ pc[w] = "stop" /\ process' = process BY <1>1, <2>3, <3>1 DEF StopQdrant
      <4>2. \A p \in Process : qdrant'[p].left = qdrant[p].left /\ (p # process[w] => qdrant'[p] = qdrant[p])
        BY <1>1, <2>3, <3>1, <4>1 DEF StopQdrant
      <4>3. pc' = [pc EXCEPT ![w] = "stop_wait"] BY <2>3, <3>1 DEF StopQdrant
      <4> QED BY <1>1, <4>1, <4>2, <4>3
    <3>2. CASE ~Alive(Own(w))
      <4>1. /\ pc' = [pc EXCEPT ![w] = "dispose"] /\ process' = [process EXCEPT ![w] = 0]
            /\ qdrant' = qdrant
        BY <2>3, <3>2 DEF StopQdrant
      <4> QED BY <1>1, <3>2, <4>1
    <3> QED BY <3>1, <3>2
  <2>4. CASE StopWait(w)
    <3>1. PICK to \in {"dispose", "close"} :
            /\ pc' = [pc EXCEPT ![w] = to] /\ process' = [process EXCEPT ![w] = 0]
            /\ qdrant' = [qdrant EXCEPT ![process[w]] = Gone]
      BY <2>4 DEF StopWait
    <3> QED BY <1>1, <3>1 DEF Gone
  <2>5. CASE Dispose(w)
    <3>1. process[w] = 0 BY <1>1, <2>5 DEF Dispose
    <3> QED BY <1>1, <2>5, <3>1 DEF Dispose
  <2>6. CASE Kill(w)
    <3>1. pc' = [pc EXCEPT ![w] = "down"] /\ process' = [process EXCEPT ![w] = 0] BY <2>6 DEF Kill
    <3>2. CASE Alive(Own(w))
      <4>1. process[w] \in Process BY <1>1, <3>2
      <4>2. qdrant'[process[w]].left = TRUE /\ \A p \in Process \ {process[w]} : qdrant'[p] = qdrant[p]
        BY <1>1, <2>6, <3>2, <4>1 DEF Kill
      <4> QED BY <1>1, <3>1, <4>1, <4>2
    <3>3. CASE ~Alive(Own(w))
      <4>1. qdrant' = qdrant BY <2>6, <3>3 DEF Kill
      <4> QED BY <1>1, <3>1, <3>3, <4>1
    <3> QED BY <3>2, <3>3
  <2> QED BY <1>4, <2>1, <2>2, <2>3, <2>4, <2>5, <2>6 DEF Controls
<1>5. ASSUME NEW p \in Process, Outside(p) PROVE Owned'
  <2>1. pc' = pc /\ process' = process BY <1>5, OutsideKeepsTypes
  <2>2. ASSUME NEW q \in Process
        PROVE  qdrant'[q].at # "gone" => qdrant[q].at # "gone" /\ qdrant'[q].left = qdrant[q].left
    BY <1>1, <1>5 DEF Outside, Boot, Exit, Hang, QdrantDies, QdrantOK, Gone
  <2> QED BY <1>1, <2>1, <2>2
<1>6. CASE Shutdown BY <1>1, <1>6 DEF Shutdown
<1>7. CASE UNCHANGED runtimeVars BY <1>1, <1>7 DEF runtimeVars
<1> QED BY <1>2, <1>3, <1>4, <1>5, <1>6, <1>7, StepsSplit

-----------------------------------------------------------------------------
(* A worker that is at a step found or made what the step needs.           *)

\* Progress of one worker.
Reached(w) ==
  /\ pc[w] \in FirstCollection => next[w] = 1
  /\ pc[w] \in {"make", "again"} => next[w] \in 1..Collections
  /\ pc[w] \in AfterTables => tables
  /\ pc[w] \in {"collection", "make", "again"} => 1..(next[w] - 1) \subseteq made
  /\ pc[w] \in AfterCollections => made = 1..Collections
  /\ pc[w] \in AfterUser => user
  /\ pc[w] = "serving" => identity

\* What is stored stays.
Grows == made \subseteq made' /\ made' \subseteq 1..Collections /\ (tables => tables') /\ (user => user') /\ (identity => identity')

LEMMA ReachedStays ==
  ASSUME Grows, NEW v \in Worker, Reached(v), pc'[v] = pc[v], next'[v] = next[v]
  PROVE  Reached(v)'
BY DEF Grows, Reached

\* Where nothing is needed, nothing is to be shown.
Free == {"off", "down", "timed_out"} \cup EndSteps

LEMMA FreeReached == ASSUME NEW v \in Worker, pc'[v] \in Free PROVE Reached(v)'
BY DEF Reached, Free, EndSteps, FirstCollection, AfterTables, AfterCollections, AfterUser

LEMMA LooksReach ==
  ASSUME RuntimeInv, NEW w \in Worker, Looks(w)
  PROVE  Reached(w)'
<1> USE DEF Reached, FirstCollection, AfterTables, AfterCollections, AfterUser, Go, Failed, storage
<1>1. /\ pc \in [Worker -> Steps] /\ next \in [Worker -> 1..Collections + 1]
      /\ made \subseteq 1..Collections /\ Reached(w)
  BY TypeSplit DEF RuntimeInv, WorkersOK, Progress
<1>2. CASE Start(w) BY <1>1, <1>2 DEF Start
<1>3. CASE LookTables(w) \/ CheckDatabase(w) BY <1>1, <1>3 DEF LookTables, CheckDatabase
<1>4. CASE LookQdrant(w) \/ WaitHealthy(w) \/ CheckQdrant(w)
  BY <1>1, <1>4 DEF LookQdrant, WaitHealthy, CheckQdrant
<1>5. CASE LookCollection(w)
  <2>1. pc[w] = "collection" /\ tables /\ UNCHANGED <<tables, made>> BY <1>1, <1>5 DEF LookCollection
  <2>2. CASE ~Remaining(w)
    <3>1. next[w] = Collections + 1 BY <1>1, <2>2 DEF Remaining
    <3>2. made = 1..Collections
      <4>1. 1..(next[w] - 1) \subseteq made BY <1>1, <2>1
      <4>2. next[w] - 1 = Collections BY <3>1
      <4> QED BY <1>1, <4>1, <4>2
    <3>3. pc'[w] = "user" BY <1>1, <1>5, <2>2 DEF LookCollection
    <3> QED BY <2>1, <3>2, <3>3
  <2>3. CASE Remaining(w) /\ ~Healthy BY <1>1, <1>5, <2>1, <2>3 DEF LookCollection
  <2>4. CASE Remaining(w) /\ Healthy /\ next[w] \in made
    <3>1. pc'[w] = "collection" /\ next'[w] = next[w] + 1 BY <1>1, <1>5, <2>1, <2>4 DEF LookCollection, Advance
    <3> QED BY <1>1, <2>1, <2>4, <3>1
  <2>5. CASE Remaining(w) /\ Healthy /\ next[w] \notin made
    BY <1>1, <1>5, <2>1, <2>5 DEF LookCollection, Remaining
  <2> QED BY <2>2, <2>3, <2>4, <2>5
<1>6. CASE LookAgain(w)
  <2>1. CASE Exists(w)
    <3>1. pc'[w] = "collection" /\ next'[w] = next[w] + 1 /\ UNCHANGED <<tables, made>>
      BY <1>1, <1>6, <2>1 DEF LookAgain, Advance
    <3> QED BY <1>1, <1>6, <2>1, <3>1 DEF Exists, LookAgain
  <2>2. CASE ~Exists(w) BY <1>1, <1>6, <2>2 DEF LookAgain
  <2> QED BY <2>1, <2>2
<1>7. CASE LookUser(w) \/ LookIdentity(w) BY <1>1, <1>7 DEF LookUser, LookIdentity
<1>8. CASE StartFails(w) BY <1>1, <1>8 DEF StartFails
<1>9. CASE StopServing(w) \/ Close(w) BY <1>1, <1>9 DEF StopServing, Close
<1> QED BY <1>2, <1>3, <1>4, <1>5, <1>6, <1>7, <1>8, <1>9 DEF Looks

LEMMA StoresReach ==
  ASSUME RuntimeInv, NEW w \in Worker, Stores(w)
  PROVE  Reached(w)' /\ Grows
<1> USE DEF Reached, Grows, FirstCollection, AfterTables, AfterCollections, AfterUser, Go, Failed
<1>1. /\ pc \in [Worker -> Steps] /\ next \in [Worker -> 1..Collections + 1]
      /\ made \subseteq 1..Collections /\ Reached(w)
  BY TypeSplit DEF RuntimeInv, WorkersOK, Progress
<1>2. CASE CreateTables(w) BY <1>1, <1>2 DEF CreateTables
<1>3. CASE MakeCollection(w)
  <2>1. CASE Healthy /\ next[w] \notin made
    <3>1. /\ pc'[w] = "collection" /\ next'[w] = next[w] + 1 /\ made' = made \cup {next[w]}
          /\ UNCHANGED <<tables, user, identity>> /\ pc[w] = "make"
      BY <1>1, <1>3, <2>1 DEF MakeCollection, Advance
    <3>2. next[w] \in 1..Collections /\ 1..(next[w] - 1) \subseteq made /\ tables BY <1>1, <3>1
    <3>3. Grows BY <1>1, <3>1, <3>2
    <3>4. 1..(next'[w] - 1) \subseteq made' BY <3>1, <3>2
    <3>5. Reached(w)' BY <3>1, <3>2, <3>4
    <3> QED BY <3>3, <3>5
  <2>2. CASE ~(Healthy /\ next[w] \notin made) BY <1>1, <1>3, <2>2 DEF MakeCollection
  <2> QED BY <2>1, <2>2
<1>4. CASE AddUser(w) BY <1>1, <1>4 DEF AddUser
<1>5. CASE AddIdentity(w) BY <1>1, <1>5 DEF AddIdentity
<1> QED BY <1>2, <1>3, <1>4, <1>5 DEF Stores

LEMMA ProgressKept == RuntimeInv /\ [RuntimeNext]_runtimeVars => Progress'
<1> SUFFICES ASSUME RuntimeInv, [RuntimeNext]_runtimeVars, NEW v \in Worker PROVE Reached(v)'
  BY DEF Progress, Reached
<1>1. /\ pc \in [Worker -> Steps] /\ next \in [Worker -> 1..Collections + 1]
      /\ made \subseteq 1..Collections /\ Reached(v)
  BY TypeSplit DEF RuntimeInv, WorkersOK, Progress, Reached
<1>2. UNCHANGED storage => Grows BY <1>1 DEF Grows, storage
<1>3. ASSUME NEW w \in Worker, Looks(w) PROVE Reached(v)'
  <2>1. UNCHANGED storage BY <1>3, LooksKeepWorkers DEF storage
  <2>2. w # v => pc'[v] = pc[v] /\ next'[v] = next[v]
    BY <1>1, <1>3 DEF Looks, Start, LookTables, CheckDatabase, LookQdrant, WaitHealthy, CheckQdrant,
       LookCollection, LookAgain, LookUser, LookIdentity, StartFails, StopServing, Close, Go, Advance
  <2> QED BY <1>1, <1>2, <1>3, <2>1, <2>2, LooksReach, ReachedStays
<1>4. ASSUME NEW w \in Worker, Stores(w) PROVE Reached(v)'
  <2>1. w # v => pc'[v] = pc[v] /\ next'[v] = next[v]
    BY <1>1, <1>4 DEF Stores, CreateTables, MakeCollection, AddUser, AddIdentity, Go, Advance
  <2> QED BY <1>1, <1>4, <2>1, StoresReach, ReachedStays
<1>5. ASSUME NEW w \in Worker, Controls(w) PROVE Reached(v)'
  <2>1. UNCHANGED storage /\ next' = next BY <1>5, ControlsKeepsTypes
  <2>2. w # v => pc'[v] = pc[v]
    BY <1>1, <1>5 DEF Controls, Spawn, TimeOut, StopQdrant, StopWait, Dispose, Kill, Go
  <2>3. CASE Spawn(w)
    <3>1. w = v => Reached(v)'
      BY <1>1, <2>1, <2>3 DEF Spawn, Go, Reached, FirstCollection, AfterTables, AfterCollections, AfterUser, storage
    <3> QED BY <1>1, <1>2, <2>1, <2>2, <3>1, ReachedStays
  <2>4. CASE ~Spawn(w)
    <3>1. w = v => pc'[v] \in Free
      BY <1>1, <1>5, <2>4 DEF Controls, TimeOut, StopQdrant, StopWait, Dispose, Kill, Go, Free, EndSteps, Failed
    <3> QED BY <1>1, <1>2, <2>1, <2>2, <3>1, ReachedStays, FreeReached
  <2> QED BY <2>3, <2>4
<1>6. ASSUME NEW p \in Process, Outside(p) PROVE Reached(v)'
  BY <1>1, <1>2, <1>6, OutsideKeepsTypes, ReachedStays
<1>7. CASE Shutdown \/ UNCHANGED runtimeVars
  BY <1>1, <1>2, <1>7, ReachedStays DEF Shutdown, runtimeVars, storage
<1> QED BY <1>3, <1>4, <1>5, <1>6, <1>7, StepsSplit

-----------------------------------------------------------------------------
\* The invariant of every behaviour.
THEOREM RuntimeInvariant == RuntimeSpec => []RuntimeInv
<1>1. RuntimeInv /\ [RuntimeNext]_runtimeVars => RuntimeInv'
  BY TypesKept, OwnersKept, ProgressKept DEF RuntimeInv
<1> QED BY <1>1, RuntimeStarts, PTL DEF RuntimeSpec

\* Types, and at most one Qdrant that is up.
THEOREM RuntimeTypeCorrect == RuntimeSpec => []RuntimeTypeOK
<1>1. RuntimeInv => RuntimeTypeOK BY DEF RuntimeInv
<1> QED BY <1>1, RuntimeInvariant, PTL

\* No Qdrant that a worker started outlives it, unless the worker was killed
\* (app.py: the finally blocks of lifespan; qdrant_runtime.py).
THEOREM NoOrphanHolds == RuntimeSpec => []NoOrphan
<1>1. RuntimeInv => NoOrphan BY DEF RuntimeInv
<1> QED BY <1>1, RuntimeInvariant, PTL

\* A worker serves only over tables, collections and a user that are all there,
\* however many workers start, fail and are killed beside it.
THEOREM ServesCompleteHolds == RuntimeSpec => []ServesComplete
<1>1. RuntimeInv => ServesComplete
  BY DEF RuntimeInv, Progress, ServesComplete, AfterTables, AfterCollections, AfterUser
<1> QED BY <1>1, RuntimeInvariant, PTL

HIDE RuntimeAssumption DEF RuntimeAssumption
-----------------------------------------------------------------------------
(* Console: the requests in flight and the pages.                          *)

\* What a request and its answer are made of.
Answered == [got : BOOLEAN, ok : BOOLEAN, who : Account \cup {NoOne}, tok : Nat, list : SUBSET Workspace]
Requests ==
  [op : Ops \cup {"none"}, tok : Nat, ws : Workspace \cup {NoWhere}, shown : Workspace \cup {NoWhere},
   live : BOOLEAN, flow : Flows, who : Account \cup {NoOne}, ans : Answered]
Shell ==
  [boot : SUBSET Workspace, of : Account \cup {NoOne}, loading : BOOLEAN, error : BOOLEAN,
   selected : Workspace \cup {NoWhere}, page : {"manage", "context"}]
SharedPage ==
  [on : BOOLEAN, at : Workspace \cup {NoWhere}, of : Account \cup {NoOne}, loading : BOOLEAN, busy : BOOLEAN]
Board ==
  [list : SUBSET Workspace, of : Account \cup {NoOne}, selected : Workspace \cup {NoWhere}, loaded : BOOLEAN,
   result : Workspace \cup {NoWhere}, by : Account \cup {NoOne}, loading : BOOLEAN]

TabTypes ==
  /\ owner \in Seq(Account) /\ revoked \subseteq 1..Len(owner)
  /\ registered \subseteq Account
  /\ members \in [Account -> SUBSET Workspace] /\ admins \in [Account -> SUBSET Workspace]
  /\ token \in Tokens /\ stored \in Workspace \cup {NoWhere}
  /\ status \in Account \cup {"unknown", "offline", "out"} /\ route \in Routes
  /\ preview \in {"none", "loading", "new", "existing", "error"}
  /\ adm \in Shell /\ ctx \in SharedPage /\ dash \in Board
  /\ net \in [Slots -> Requests]

\* The page of shared context is one of a console that is loaded.
ConsoleTypes ==
  /\ TabTypes
  /\ ctx.on => route = "admin" /\ adm.page = "context" /\ ~adm.loading /\ ~adm.error

\* The operations of the pages, and the pages that wait for their answers.
PageOps == {"bootstrap", "write", "context", "share", "list", "generate"}
SignedIn == {"landing", "admin", "dashboard"}
PagesOf(op) == IF op \in {"list", "generate"} THEN {"dashboard"} ELSE {"landing", "admin"}

\* A sign-in or an acceptance, up to the status that follows it.
Signing(r) == SigningIn(r) \/ r.flow = "join"

\* An answer is about the account of the request's token.
Honest(r, own) ==
  /\ r.op = "none" => r = Idle
  /\ r.op = "login" => r.who \in Account
  /\ {r.tok, r.ans.tok} \subseteq 0..Len(own)
  /\ r.ans.ok /\ r.op \in PageOps => r.tok # 0 /\ r.ans.who = own[r.tok]
  /\ r.ans.ok /\ r.op = "status" /\ r.ans.who # NoOne => r.tok # 0 /\ r.ans.who = own[r.tok]

\* A page that is there waits for answers about the account it shows.
Waited(r, own, st, rt) ==
  /\ r.op \in PageOps /\ r.live => st \in Account /\ rt \in PagesOf(r.op) /\ (r.tok # 0 => own[r.tok] = st)
  /\ r.op = "context" => r.live

\* What can be on its way for AuthProvider.
Provided(r, tok, st, rt) ==
  /\ r.op = "status" /\ r.tok # 0 => tok \in {0, r.tok} /\ (r.flow = "stay" => st = "unknown")
  /\ (r.op = "status" => r.flow \in {"stay", "enter", "joined"}) /\ (r.flow = "join" => r.op = "login")
  /\ Signing(r) => r.op \in AuthOps /\ rt \in {"signin", "invite"}
  /\ r.op = "accept" \/ r.flow \in {"join", "joined"} => rt = "invite"
  /\ st = "unknown" => r = Idle \/ (r.op = "status" /\ r.flow = "stay")

Fits(r, own, tok, st, rt) == Honest(r, own) /\ Waited(r, own, st, rt) /\ Provided(r, tok, st, rt)

OneSigning == \A i, k \in Slots : Signing(net[i]) /\ Signing(net[k]) => i = k
UnknownAlone == status = "unknown" => \A i, k \in Slots : net[i] # Idle /\ net[k] # Idle => i = k
NetInv == (\A i \in Slots : Fits(net[i], owner, token, status, route)) /\ OneSigning /\ UnknownAlone

\* The token is the account's that is shown, or an answer will say so.
TokenSettled ==
  token # 0 => status = owner[token] \/ \E i \in Slots : net[i].op \in {"status", "logout"}
PageToken == route \in SignedIn /\ status \in Account /\ token # 0 => status = owner[token]

\* The pages one sees without an account show nothing of any.
Blank == route \in {"signin", "invite"} => {adm.of, ctx.of, dash.of, dash.by} = {NoOne}
Listed ==
  route = "admin" /\ status \notin {"unknown", "offline"} /\ ~adm.loading /\ ~adm.error => adm.selected \in adm.boot
PagesThere ==
  /\ adm.error \/ ctx.on => route = "admin" /\ status \in Account
  /\ status = "unknown" => preview = "none"

PagesInv == OwnDataAlwaysShown /\ Blank /\ Listed /\ PagesThere

ConsoleInv == ConsoleTypes /\ NetInv /\ TokenSettled /\ PageToken /\ PagesInv

-----------------------------------------------------------------------------
(* Requests.                                                               *)

LEMMA RequestsNamed ==
  /\ Idle \in Requests /\ Idle.op = "none" /\ Idle.flow = "stay" /\ Idle.tok = 0 /\ ~Idle.live
  /\ NoAnswer \in Answered /\ NoAnswer.tok = 0 /\ ~NoAnswer.ok /\ Idle.ans = NoAnswer
<1>1. NoAnswer \in Answered /\ NoAnswer.tok = 0 /\ ~NoAnswer.ok BY DEF NoAnswer, Answered
<1>2. "none" \in Ops \cup {"none"} /\ "stay" \in Flows BY DEF Flows
<1>3. Idle \in Requests BY <1>1, <1>2 DEF Idle, Requests
<1> QED BY <1>1, <1>3 DEF Idle

\* A request as it is sent.
LEMMA RequestSent ==
  ASSUME NEW op \in Ops, NEW flow \in Flows, NEW tok \in Nat, NEW ws \in Workspace \cup {NoWhere}
  PROVE  LET r == Request(op, flow, tok, ws) IN
         /\ r \in Requests /\ r.op = op /\ r.flow = flow /\ r.tok = tok
         /\ r.live /\ r.who = NoOne /\ r.ans = NoAnswer
<1>1. NoAnswer \in Answered BY RequestsNamed
<1>2. Request(op, flow, tok, ws) \in Requests BY <1>1 DEF Request, Requests
<1> QED BY <1>2 DEF Request

\* A request of a form that may have gone.
LEMMA RequestLeft ==
  ASSUME NEW op \in Ops, NEW flow \in Flows, NEW tok \in Nat, NEW ws \in Workspace \cup {NoWhere}, NEW live \in BOOLEAN
  PROVE  LET r == [Request(op, flow, tok, ws) EXCEPT !.live = live] IN
         r \in Requests /\ r.op = op /\ r.flow = flow /\ r.tok = tok /\ r.ans = NoAnswer
<1> DEFINE q == Request(op, flow, tok, ws)
<1>1. q \in Requests /\ q.op = op /\ q.flow = flow /\ q.tok = tok /\ q.ans = NoAnswer BY RequestSent
<1> HIDE DEF q
<1>2. LET r == [q EXCEPT !.live = live] IN
      r \in Requests /\ r.op = op /\ r.flow = flow /\ r.tok = tok /\ r.ans = NoAnswer
  BY <1>1 DEF Requests
<1> QED BY <1>2 DEF q

LEMMA IdleFits ==
  ASSUME NEW own \in Seq(Account), NEW tok, NEW st, NEW rt
  PROVE  Fits(Idle, own, tok, st, rt)
<1>1. Len(own) \in Nat BY LenProperties
<1>2. {Idle.tok, Idle.ans.tok} \subseteq 0..Len(own) /\ ~Idle.ans.ok BY <1>1, RequestsNamed
<1>3. Idle.op \notin PageOps \cup {"status", "context", "share", "accept", "login"} BY RequestsNamed DEF PageOps
<1>4. ~Signing(Idle) BY RequestsNamed DEF Signing, SigningIn
<1> QED BY <1>2, <1>3, <1>4, RequestsNamed DEF Fits, Honest, Waited, Provided

\* A new request of a page fits the page that sends it.
LEMMA SentFits ==
  ASSUME NEW own \in Seq(Account), NEW tok, NEW st, NEW rt,
         NEW r \in Requests, r.ans = NoAnswer, r.live, r.tok \in 0..Len(own),
         r.op \in PageOps, st \in Account, rt \in PagesOf(r.op), r.tok # 0 => own[r.tok] = st,
         ~Signing(r)
  PROVE  Fits(r, own, tok, st, rt)
<1>1. Len(own) \in Nat BY LenProperties
<1>2. Honest(r, own) BY <1>1, RequestsNamed DEF Honest, PageOps
<1>3. Waited(r, own, st, rt) BY DEF Waited
<1>4. st # "unknown" BY ConsoleAssumption DEF ConsoleAssumption
<1>5. r.op \notin {"status", "accept"} /\ r.flow \notin {"join", "joined"} BY DEF PageOps, Signing, SigningIn
<1>6. Provided(r, tok, st, rt) BY <1>4, <1>5 DEF Provided
<1> QED BY <1>2, <1>3, <1>6 DEF Fits

\* A request that a page leaves behind.
LEMMA LeaveFits ==
  ASSUME NEW r \in Requests, NEW own \in Seq(Account), NEW tok, NEW st, NEW rt, NEW tok2, NEW st2, NEW rt2,
         Fits(r, own, tok, st, rt), st2 # "unknown", tok2 \in {0, tok},
         r.op = "status" /\ r.tok # 0 => r.flow # "stay", Signing(r) => rt2 = rt
  PROVE  /\ Leave(r) \in Requests /\ Fits(Leave(r), own, tok2, st2, rt2)
         /\ Signing(Leave(r)) => Signing(r)
         /\ r.op \in AuthOps => Leave(r).op = r.op
         /\ Leave(r).op \in AuthOps => r.op = Leave(r).op
<1>1. CASE r.op \in AuthOps \cup {"none"} /\ ~SigningIn(r)
  <2>1. Leave(r) = r BY <1>1 DEF Leave
  <2>2. r.op \notin PageOps BY <1>1 DEF AuthOps, PageOps
  <2>3. Honest(r, own) BY DEF Fits
  <2>4. Waited(r, own, st2, rt2) BY <2>2 DEF Waited, PageOps
  <2>5. Provided(r, tok2, st2, rt2)
    <3>1. Provided(r, tok, st, rt) BY DEF Fits
    <3>2. r.op = "accept" \/ r.flow \in {"join", "joined"} => Signing(r) BY DEF Signing, SigningIn
    <3> QED BY <3>1, <3>2 DEF Provided
  <2> QED BY <2>1, <2>2, <2>3, <2>4, <2>5 DEF Fits
<1>2. CASE ~(r.op \in AuthOps \cup {"none"} /\ ~SigningIn(r)) /\ (r.op \in {"context", "preview"} \/ (r.op = "bootstrap" /\ r.flow = "load"))
  <2>1. Leave(r) = Idle BY <1>2 DEF Leave
  <2>2. ~Signing(Idle) /\ Idle.op \notin AuthOps \cup PageOps BY RequestsNamed DEF Signing, SigningIn, AuthOps, PageOps
  <2>3. r.op \notin AuthOps
    <3>1. r.op \in AuthOps => SigningIn(r) BY <1>2
    <3>2. r.op \in AuthOps => r.op \notin {"context", "preview", "bootstrap"} BY DEF AuthOps
    <3> QED BY <1>2, <3>2
  <2>4. Fits(Idle, own, tok2, st2, rt2) BY IdleFits
  <2> QED BY <2>1, <2>2, <2>3, <2>4, RequestsNamed DEF AuthOps
<1>3. CASE /\ ~(r.op \in AuthOps \cup {"none"} /\ ~SigningIn(r))
           /\ ~(r.op \in {"context", "preview"} \/ (r.op = "bootstrap" /\ r.flow = "load"))
  <2> DEFINE l == [r EXCEPT !.live = FALSE]
  <2>1. Leave(r) = l BY <1>3 DEF Leave
  <2>2. /\ l \in Requests /\ l.op = r.op /\ l.flow = r.flow /\ l.tok = r.tok /\ l.ws = r.ws /\ l.shown = r.shown
        /\ l.ans = r.ans /\ l.who = r.who /\ ~l.live
    BY DEF Requests
  <2> HIDE DEF l
  <2>3. Signing(l) <=> Signing(r) BY <2>2 DEF Signing, SigningIn
  <2>4. Honest(l, own)
    <3>1. r.op # "none"
      <4>1. r.op = "none" => r = Idle BY DEF Fits, Honest
      <4>2. ~SigningIn(Idle) BY RequestsNamed DEF SigningIn
      <4> QED BY <1>3, <4>1, <4>2
    <3> QED BY <2>2, <3>1 DEF Fits, Honest
  <2>5. Waited(l, own, st2, rt2) BY <1>3, <2>2 DEF Waited
  <2>6. Provided(l, tok2, st2, rt2)
    <3>1. Provided(r, tok, st, rt) BY DEF Fits
    <3>2. r.op = "accept" \/ r.flow \in {"join", "joined"} => Signing(r) BY DEF Signing, SigningIn
    <3> QED BY <2>2, <2>3, <3>1, <3>2 DEF Provided
  <2> QED BY <2>2, <2>1, <2>3, <2>4, <2>5, <2>6 DEF Fits
<1> QED BY <1>1, <1>2, <1>3

-----------------------------------------------------------------------------
(* Free places, and pages that come and go.                                *)

LEMMA SomeIdleFree ==
  ASSUME NEW nets, \E k \in Slots : nets[k] = Idle
  PROVE  SomeIdle(nets) \in Slots /\ nets[SomeIdle(nets)] = Idle
BY DEF SomeIdle

\* The request a page sends when it comes fits it.
LEMMA PreviewFits ==
  ASSUME NEW own \in Seq(Account), NEW tok, NEW st, NEW rt, st # "unknown",
         NEW ws \in Workspace \cup {NoWhere}
  PROVE  LET r == Request("preview", "load", 0, ws) IN
         r \in Requests /\ Fits(r, own, tok, st, rt) /\ ~Signing(r) /\ r.op = "preview"
<1> DEFINE r == Request("preview", "load", 0, ws)
<1>1. "preview" \in Ops /\ "load" \in Flows BY DEF Ops, Flows
<1>2. r \in Requests /\ r.op = "preview" /\ r.flow = "load" /\ r.tok = 0 /\ r.ans = NoAnswer
  BY <1>1, RequestSent
<1> HIDE DEF r
<1>3. Len(own) \in Nat BY LenProperties
<1>4. ~Signing(r) BY <1>2 DEF Signing, SigningIn
<1>5. Fits(r, own, tok, st, rt)
  BY <1>2, <1>3, <1>4, RequestsNamed DEF Fits, Honest, Waited, Provided, PageOps
<1> QED BY <1>2, <1>4, <1>5 DEF r

\* What the others still wait for when a page comes; nothing an earlier page
\* showed is left.
LEMMA EnterKeeps ==
  ASSUME owner \in Seq(Account), owner' = owner, NEW nets \in [Slots -> Requests], NEW to \in Routes,
         NEW ws \in Workspace \cup {NoWhere},
         token' \in {0, token}, token \in 0..Len(owner), status' # "unknown",
         \A k \in Slots : /\ Fits(nets[k], owner, token, status, route)
                          /\ nets[k].op = "status" /\ nets[k].tok # 0 => nets[k].flow # "stay"
                          /\ Signing(nets[k]) => to = route,
         \A i, k \in Slots : Signing(nets[i]) /\ Signing(nets[k]) => i = k,
         to \in SignedIn => status' \in Account /\ (token' # 0 => owner[token'] = status'),
         Enter(nets, to, token', ws)
  PROVE  /\ route' = to /\ net' \in [Slots -> Requests] /\ NetInv'
         /\ \A k \in Slots : nets[k].op \in AuthOps => net'[k].op = nets[k].op
         /\ adm' \in Shell /\ ctx' \in SharedPage /\ dash' \in Board /\ preview' \in {"none", "loading"}
         /\ PagesInv' /\ ~ctx'.on
<1> DEFINE left == Left(nets)
           r == Request(CASE to = "dashboard" -> "list" [] to = "invite" -> "preview" [] OTHER -> "bootstrap",
                        "load", IF to = "invite" THEN 0 ELSE token', ws)
<1>1. route' = to BY DEF Enter
<1>2. ASSUME NEW k \in Slots
      PROVE  /\ left[k] \in Requests /\ Fits(left[k], owner, token', status', to)
             /\ Signing(left[k]) => Signing(nets[k])
             /\ nets[k].op \in AuthOps => left[k].op = nets[k].op
             /\ nets[k] = Idle => left[k] = Idle
  <2>1. left[k] = Leave(nets[k]) BY DEF Left
  <2>3. Idle.op \notin AuthOps /\ Leave(Idle) = Idle
    <3>1. Idle.op \notin AuthOps /\ ~SigningIn(Idle) BY RequestsNamed DEF AuthOps, SigningIn
    <3> QED BY <3>1, RequestsNamed DEF Leave
  <2> HIDE DEF left
  <2>4. PICK x \in Requests : x = nets[k] OBVIOUS
  <2>5. /\ Fits(x, owner, token, status, route) /\ (Signing(x) => to = route)
        /\ (x.op = "status" /\ x.tok # 0 => x.flow # "stay")
    BY <2>4
  <2>6. /\ Leave(x) \in Requests /\ Fits(Leave(x), owner, token', status', to)
        /\ Signing(Leave(x)) => Signing(x)
        /\ x.op \in AuthOps => Leave(x).op = x.op
    BY <2>5, LeaveFits
  <2> QED BY <2>1, <2>3, <2>4, <2>6
<1>3. left \in [Slots -> Requests] BY <1>2 DEF Left
<1>4. ASSUME NEW q \in Requests, ~Signing(q), Fits(q, owner, token', status', to),
             \E k \in Slots : left[k] = Idle, net' = [left EXCEPT ![SomeIdle(left)] = q]
      PROVE  /\ net' \in [Slots -> Requests] /\ \A k \in Slots : Fits(net'[k], owner, token', status', to)
             /\ \A k \in Slots : nets[k].op \in AuthOps => net'[k].op = nets[k].op
             /\ \A k \in Slots : Signing(net'[k]) => Signing(nets[k])
  <2> DEFINE f == SomeIdle(left)
  <2>1. f \in Slots /\ left[f] = Idle BY <1>4, SomeIdleFree
  <2>2. net' = [left EXCEPT ![f] = q] BY <1>4
  <2> HIDE DEF left, f
  <2>3. net' \in [Slots -> Requests] /\ net'[f] = q /\ \A k \in Slots \ {f} : net'[k] = left[k]
    BY <1>3, <2>1, <2>2
  <2>4. nets[f].op \notin AuthOps BY <1>2, <2>1, RequestsNamed DEF AuthOps
  <2> QED BY <1>2, <1>4, <2>3, <2>4
<1>5. /\ net' \in [Slots -> Requests] /\ \A k \in Slots : Fits(net'[k], owner, token', status', to)
      /\ \A k \in Slots : nets[k].op \in AuthOps => net'[k].op = nets[k].op
      /\ \A k \in Slots : Signing(net'[k]) => Signing(nets[k])
  <2>1. CASE to = "signin"
    <3>1. net' = left BY <2>1 DEF Enter
    <3> HIDE DEF left
    <3> QED BY <1>2, <1>3, <2>1, <3>1
  <2>2. CASE to = "invite"
    <3>1. r = Request("preview", "load", 0, ws) BY <2>2
    <3>2. (\E k \in Slots : left[k] = Idle) /\ net' = [left EXCEPT ![SomeIdle(left)] = r] BY <2>2 DEF Enter
    <3>3. r \in Requests /\ Fits(r, owner, token', status', to) /\ ~Signing(r) BY <3>1, PreviewFits
    <3> HIDE DEF left, r
    <3> QED BY <1>4, <3>2, <3>3
  <2>3. CASE to \in SignedIn
    <3> DEFINE op == IF to = "dashboard" THEN "list" ELSE "bootstrap"
    <3>1. r = Request(op, "load", token', ws) BY <2>3 DEF SignedIn
    <3>2. (\E k \in Slots : left[k] = Idle) /\ net' = [left EXCEPT ![SomeIdle(left)] = r]
      BY <2>3 DEF Enter, SignedIn
    <3>3. op \in Ops /\ op \in PageOps /\ "load" \in Flows /\ to \in PagesOf(op) /\ op # "share"
      BY <2>3 DEF Ops, PageOps, Flows, PagesOf, SignedIn
    <3>4. token' \in Nat /\ token' \in 0..Len(owner)
      <4>1. Len(owner) \in Nat BY LenProperties
      <4> QED BY <4>1
    <3> HIDE DEF left, r, op
    <3>5. r \in Requests /\ r.op = op /\ r.flow = "load" /\ r.tok = token' /\ r.live /\ r.ans = NoAnswer
      BY <3>1, <3>3, <3>4, RequestSent
    <3>6. ~Signing(r) BY <3>3, <3>5 DEF Signing, SigningIn, PageOps
    <3>7. Fits(r, owner, token', status', to)
      BY <2>3, <3>3, <3>4, <3>5, <3>6, SentFits
    <3> QED BY <1>4, <3>2, <3>5, <3>6, <3>7
  <2> QED BY <2>1, <2>2, <2>3 DEF Routes, SignedIn
<1> HIDE DEF left, r
<1>6. NetInv'
  <2>1. OneSigning' BY <1>5 DEF OneSigning
  <2>2. UnknownAlone' BY DEF UnknownAlone
  <2>3. \A k \in Slots : Fits(net'[k], owner', token', status', route') BY <1>1, <1>5
  <2> QED BY <2>1, <2>2, <2>3 DEF NetInv
<1>7. /\ adm' = IF to \in {"landing", "admin"} THEN [NoAdm EXCEPT !.loading = TRUE, !.selected = ws] ELSE NoAdm
      /\ ctx' = NoCtx /\ dash' = NoDash /\ preview' = IF to = "invite" THEN "loading" ELSE "none"
  BY DEF Enter
<1>8. /\ adm' \in Shell /\ adm'.of = NoOne /\ ~adm'.error /\ (to = "admin" => adm'.loading)
  BY <1>7 DEF NoAdm, Shell
<1>9. /\ ctx' \in SharedPage /\ ctx'.of = NoOne /\ ~ctx'.on
      /\ dash' \in Board /\ dash'.of = NoOne /\ dash'.by = NoOne
  BY <1>7 DEF NoCtx, NoDash, SharedPage, Board
<1>10. PagesInv'
  <2>1. OwnDataAlwaysShown' BY <1>8, <1>9 DEF OwnDataAlwaysShown
  <2>2. Blank' BY <1>8, <1>9 DEF Blank
  <2>3. Listed' BY <1>1, <1>8 DEF Listed
  <2>4. PagesThere' BY <1>8, <1>9 DEF PagesThere
  <2> QED BY <2>1, <2>2, <2>3, <2>4 DEF PagesInv
<1> QED BY <1>1, <1>5, <1>6, <1>7, <1>8, <1>9, <1>10

-----------------------------------------------------------------------------
(* Steps of the pages.                                                     *)

\* What may take the place of a request while the session stays as it is.
Follows(y, x) ==
  /\ y \in Requests /\ Fits(y, owner, token, status, route)
  /\ Signing(y) => Signing(x)
  /\ x.op \in {"status", "logout"} => y.op = x.op

LEMMA RequestsFollow ==
  ASSUME ConsoleInv
  PROVE  /\ owner \in Seq(Account) /\ Len(owner) \in Nat /\ net \in [Slots -> Requests]
         /\ \A k \in Slots : Follows(net[k], net[k]) /\ Fits(net[k], owner, token, status, route)
<1>1. owner \in Seq(Account) /\ net \in [Slots -> Requests] BY DEF ConsoleInv, ConsoleTypes, TabTypes
<1>2. Len(owner) \in Nat BY <1>1, LenProperties
<1> QED BY <1>1, <1>2 DEF ConsoleInv, NetInv, Follows

LEMMA IdleFollows ==
  ASSUME ConsoleInv, NEW x, x.op \notin {"status", "logout"}
  PROVE  Follows(Idle, x)
<1>1. owner \in Seq(Account) BY RequestsFollow
<1>2. Fits(Idle, owner, token, status, route) BY <1>1, IdleFits
<1> QED BY <1>2, RequestsNamed DEF Follows, Signing, SigningIn

LEMMA OneFollows ==
  ASSUME ConsoleInv, NEW nets \in [Slots -> Requests], \A k \in Slots : Follows(nets[k], net[k]),
         NEW i \in Slots, NEW q, Follows(q, net[i])
  PROVE  /\ [nets EXCEPT ![i] = q] \in [Slots -> Requests]
         /\ \A k \in Slots : Follows([nets EXCEPT ![i] = q][k], net[k])
<1>1. q \in Requests BY DEF Follows
<1> QED BY <1>1

\* The page of shared context goes.
LEMMA LeaveContextFollows ==
  ASSUME ConsoleInv, NEW x, NEW y, Follows(y, x)
  PROVE  Follows(LeaveContext(y), x)
<1>1. CASE y.op = "context"
  <2>1. LeaveContext(y) = Idle BY <1>1 DEF LeaveContext
  <2>2. x.op \notin {"status", "logout"} BY <1>1 DEF Follows
  <2> QED BY <2>1, <2>2, IdleFollows
<1>2. CASE y.op = "share"
  <2> DEFINE l == [y EXCEPT !.live = FALSE]
  <2>1. LeaveContext(y) = l BY <1>2 DEF LeaveContext
  <2>2. y \in Requests BY DEF Follows
  <2>3. /\ l \in Requests /\ l.op = y.op /\ l.flow = y.flow /\ l.tok = y.tok /\ l.ws = y.ws /\ l.shown = y.shown
        /\ l.ans = y.ans /\ ~l.live
    BY <2>2 DEF Requests
  <2> HIDE DEF l
  <2>4. ~Signing(y) /\ ~Signing(l) BY <1>2, <2>3 DEF Follows, Fits, Provided, Signing, SigningIn, AuthOps
  <2>5. Honest(l, owner) BY <1>2, <2>3 DEF Follows, Fits, Honest
  <2>6. Waited(l, owner, status, route) BY <1>2, <2>3 DEF Follows, Fits, Waited
  <2>7. Provided(l, token, status, route)
    <3>1. status # "unknown"
      <4>1. Idle.op # "share" BY RequestsNamed
      <4> QED BY <1>2, <4>1 DEF Follows, Fits, Provided
    <3> QED BY <1>2, <2>3, <2>4, <3>1 DEF Provided, Signing, SigningIn
  <2>8. x.op \notin {"status", "logout"} BY <1>2 DEF Follows
  <2> QED BY <2>1, <2>3, <2>4, <2>5, <2>6, <2>7, <2>8 DEF Follows, Fits
<1>3. CASE y.op \notin {"context", "share"} BY <1>3 DEF LeaveContext
<1> QED BY <1>1, <1>2, <1>3

\* A request of the page that is there.
LEMMA SentFollows ==
  ASSUME ConsoleInv, status \in Account, token # 0 => status = owner[token],
         NEW op \in PageOps, NEW flow \in Flows, ~(flow \in {"join", "joined", "enter"}),
         NEW ws \in Workspace \cup {NoWhere}, route \in PagesOf(op), NEW x, x.op \notin {"status", "logout"}
  PROVE  Follows(Request(op, flow, token, ws), x) /\ Request(op, flow, token, ws) # Idle
<1> DEFINE r == Request(op, flow, token, ws)
<1>1. owner \in Seq(Account) /\ Len(owner) \in Nat BY RequestsFollow
<1>2. token \in Nat /\ token \in 0..Len(owner) BY <1>1 DEF ConsoleInv, ConsoleTypes, TabTypes, Tokens
<1>3. op \in Ops /\ op \notin {"login", "accept", "none"} BY DEF PageOps, Ops
<1>4. r \in Requests /\ r.op = op /\ r.flow = flow /\ r.tok = token /\ r.live /\ r.ans = NoAnswer
  BY <1>2, <1>3, RequestSent
<1> HIDE DEF r
<1>5. ~Signing(r) BY <1>3, <1>4 DEF Signing, SigningIn
<1>6. Fits(r, owner, token, status, route) BY <1>1, <1>2, <1>4, <1>5, SentFits
<1>7. Follows(r, x) BY <1>4, <1>5, <1>6 DEF Follows
<1> QED BY <1>3, <1>4, <1>7, RequestsNamed DEF r

\* The effect of a selection.
LEMMA LoadContextFollows ==
  ASSUME ConsoleInv, status \in Account, token # 0 => status = owner[token], route \in {"landing", "admin"},
         NEW ws \in Workspace \cup {NoWhere},
         NEW nets \in [Slots -> Requests], \A k \in Slots : Follows(nets[k], net[k]),
         \E k \in Slots : Aborted(nets)[k] = Idle
  PROVE  /\ LoadContext(nets, ws) \in [Slots -> Requests]
         /\ \A k \in Slots : Follows(LoadContext(nets, ws)[k], net[k])
<1> DEFINE ab == Aborted(nets)
           q == Request("context", "load", token, ws)
           f == SomeIdle(ab)
<1>1. ASSUME NEW k \in Slots PROVE Follows(ab[k], net[k])
  <2>1. CASE nets[k].op = "context" /\ nets[k].flow = "load"
    <3>1. ab[k] = Idle BY <2>1 DEF Aborted
    <3>2. net[k].op \notin {"status", "logout"} BY <2>1 DEF Follows
    <3> QED BY <3>1, <3>2, IdleFollows
  <2>2. CASE ~(nets[k].op = "context" /\ nets[k].flow = "load")
    <3>1. ab[k] = nets[k] BY <2>2 DEF Aborted
    <3> QED BY <3>1
  <2> QED BY <2>1, <2>2
<1>2. ab \in [Slots -> Requests] BY <1>1 DEF Aborted, Follows
<1>3. f \in Slots /\ ab[f] = Idle BY SomeIdleFree
<1> HIDE DEF ab, f
<1>4. net[f].op \notin {"status", "logout"} BY <1>1, <1>3, RequestsNamed DEF Follows
<1>5. "context" \in PageOps /\ "load" \in Flows /\ route \in PagesOf("context") BY DEF PageOps, Flows, PagesOf
<1>6. Follows(q, net[f]) BY <1>4, <1>5, SentFollows
<1> HIDE DEF q
<1>7. LoadContext(nets, ws) = [ab EXCEPT ![f] = q] BY DEF LoadContext, ab, f, q
<1>8. q \in Requests BY <1>6 DEF Follows
<1>9. /\ LoadContext(nets, ws) \in [Slots -> Requests] /\ LoadContext(nets, ws)[f] = q
      /\ \A k \in Slots \ {f} : LoadContext(nets, ws)[k] = ab[k]
  BY <1>2, <1>3, <1>7, <1>8
<1> QED BY <1>1, <1>6, <1>9

\* A step that leaves the session, the page and the account as they are.
LEMMA TabTypesKept ==
  ASSUME ConsoleTypes, UNCHANGED serverVars, token' \in 0..Len(owner),
         stored' \in Workspace \cup {NoWhere}, status' \in Account \cup {"unknown", "offline", "out"},
         route' \in Routes, preview' \in {"none", "loading", "new", "existing", "error"},
         adm' \in Shell, ctx' \in SharedPage, dash' \in Board, net' \in [Slots -> Requests],
         \A k \in Slots : Fits(net'[k], owner', token', status', route'),
         ctx'.on => route' = "admin" /\ adm'.page = "context" /\ ~adm'.loading /\ ~adm'.error
  PROVE  ConsoleTypes'
<1>1. UNCHANGED <<owner, revoked, registered, members, admins>> BY DEF serverVars
<1>2. TabTypes' BY <1>1 DEF ConsoleTypes, TabTypes, Tokens
<1> QED BY <1>2 DEF ConsoleTypes

LEMMA PageStep ==
  ASSUME ConsoleInv, UNCHANGED serverVars, UNCHANGED <<token, status, route>>, status # "unknown",
         stored' \in Workspace \cup {NoWhere}, preview' \in {"none", "loading", "new", "existing", "error"},
         adm' \in Shell, ctx' \in SharedPage, dash' \in Board, PagesInv',
         ctx'.on => route = "admin" /\ adm'.page = "context" /\ ~adm'.loading /\ ~adm'.error,
         net' \in [Slots -> Requests], \A k \in Slots : Follows(net'[k], net[k])
  PROVE  ConsoleInv'
<1>1. UNCHANGED <<owner, token, status, route>> BY DEF serverVars
<1>2. \A k \in Slots : Fits(net'[k], owner', token', status', route') BY <1>1 DEF Follows
<1>3. ConsoleTypes'
  <2>1. token \in 0..Len(owner) /\ status \in Account \cup {"unknown", "offline", "out"} /\ route \in Routes /\ ConsoleTypes
    BY DEF ConsoleInv, ConsoleTypes, TabTypes, Tokens
  <2> QED BY <1>2, <2>1, TabTypesKept
<1>4. NetInv'
  <2>1. OneSigning' BY DEF ConsoleInv, NetInv, OneSigning, Follows
  <2>2. UnknownAlone' BY DEF UnknownAlone
  <2> QED BY <1>2, <2>1, <2>2 DEF NetInv
<1>5. TokenSettled'
  <2>1. \A k \in Slots : net[k].op \in {"status", "logout"} => net'[k].op = net[k].op BY DEF Follows
  <2> QED BY <1>1, <2>1 DEF ConsoleInv, TokenSettled
<1>6. PageToken' BY <1>1 DEF ConsoleInv, PageToken
<1> QED BY <1>3, <1>4, <1>5, <1>6 DEF ConsoleInv

-----------------------------------------------------------------------------
(* Answers to a page.                                                      *)

LEMMA PagesAre ==
  ASSUME ConsoleInv
  PROVE  /\ adm \in Shell /\ ctx \in SharedPage /\ dash \in Board /\ PagesInv
         /\ stored \in Workspace \cup {NoWhere} /\ preview \in {"none", "loading", "new", "existing", "error"}
         /\ status \in Account \cup {"unknown", "offline", "out"} /\ route \in Routes
         /\ ctx.on => route = "admin" /\ adm.page = "context" /\ ~adm.loading /\ ~adm.error
BY DEF ConsoleInv, ConsoleTypes, TabTypes

\* What is shown after a step is what was shown, or an answer about the account.
LEMMA PagesStep ==
  ASSUME PagesInv, UNCHANGED <<status, route>>, status # "unknown",
         \A by \in {adm'.of, ctx'.of, dash'.of, dash'.by} :
            by \in {NoOne, adm.of, ctx.of, dash.of, dash.by} \/ (by = status /\ route \in SignedIn),
         adm'.error \/ ctx'.on => adm.error \/ ctx.on \/ (route = "admin" /\ status \in Account),
         \/ adm'.loading \/ adm'.error \/ adm'.selected \in adm'.boot
         \/ adm'.loading = adm.loading /\ adm'.error = adm.error /\ adm'.selected = adm.selected /\ adm'.boot = adm.boot
  PROVE  PagesInv'
<1>1. OwnDataAlwaysShown' BY DEF PagesInv, OwnDataAlwaysShown
<1>2. Blank' BY DEF PagesInv, Blank, SignedIn
<1>3. Listed' BY DEF PagesInv, Listed
<1>4. PagesThere' BY DEF PagesInv, PagesThere
<1> QED BY <1>1, <1>2, <1>3, <1>4 DEF PagesInv

LEMMA PageAnswer ==
  ASSUME ConsoleInv, NEW i \in Slots, net[i].op \in PageOps \cup {"preview"}
  PROVE  /\ net[i] \in Requests /\ net[i].ans \in Answered /\ status # "unknown"
         /\ net[i].op \in PageOps /\ net[i].live =>
              /\ status \in Account /\ route \in PagesOf(net[i].op) /\ route \in SignedIn
              /\ token # 0 => status = owner[token]
              /\ net[i].ans.ok => net[i].ans.who = status
         /\ [net EXCEPT ![i] = Idle] \in [Slots -> Requests]
         /\ \A k \in Slots : Follows([net EXCEPT ![i] = Idle][k], net[k])
<1>1. /\ net \in [Slots -> Requests] /\ \A k \in Slots : Follows(net[k], net[k])
      /\ Fits(net[i], owner, token, status, route)
  BY RequestsFollow
<1>2. net[i] \in Requests /\ net[i].ans \in Answered BY <1>1 DEF Requests
<1>3. net[i].op \notin {"status", "logout", "none"} BY DEF PageOps
<1>4. status # "unknown"
  <2>1. status = "unknown" => net[i] = Idle \/ net[i].op = "status" BY <1>1 DEF Fits, Provided
  <2> QED BY <1>3, <2>1, RequestsNamed
<1>5. ASSUME net[i].op \in PageOps, net[i].live
      PROVE  /\ status \in Account /\ route \in PagesOf(net[i].op) /\ route \in SignedIn
             /\ token # 0 => status = owner[token]
             /\ net[i].ans.ok => net[i].ans.who = status
  <2>1. status \in Account /\ route \in PagesOf(net[i].op) /\ (net[i].tok # 0 => owner[net[i].tok] = status)
    BY <1>1, <1>5 DEF Fits, Waited
  <2>2. route \in SignedIn BY <2>1 DEF PagesOf, SignedIn
  <2>3. net[i].ans.ok => net[i].tok # 0 /\ net[i].ans.who = owner[net[i].tok] BY <1>1, <1>5 DEF Fits, Honest
  <2>4. token # 0 => status = owner[token] BY <2>1, <2>2 DEF ConsoleInv, PageToken
  <2> QED BY <2>1, <2>2, <2>3, <2>4
<1>6. Follows(Idle, net[i]) BY <1>3, IdleFollows
<1>7. /\ [net EXCEPT ![i] = Idle] \in [Slots -> Requests]
      /\ \A k \in Slots : Follows([net EXCEPT ![i] = Idle][k], net[k])
  BY <1>1, <1>6, RequestsNamed
<1> QED BY <1>2, <1>4, <1>5, <1>7

LEMMA GenerateKeeps ==
  ASSUME ConsoleInv, NEW i \in Slots, UNCHANGED serverVars, GenerateArrives(i)
  PROVE  ConsoleInv'
<1>1. net[i].op = "generate" /\ net[i].op \in PageOps BY DEF GenerateArrives, PageOps
<1>2. /\ net' = [net EXCEPT ![i] = Idle] /\ UNCHANGED <<token, stored, status, route, preview, adm, ctx>>
      /\ dash' = IF ~net[i].live THEN dash
             ELSE [dash EXCEPT !.loading = FALSE,
                               !.result = IF net[i].ans.ok THEN net[i].ws ELSE @,
                               !.by = IF net[i].ans.ok THEN net[i].ans.who ELSE @]
  BY DEF GenerateArrives
<1>3. net' \in [Slots -> Requests] /\ \A k \in Slots : Follows(net'[k], net[k]) BY <1>1, <1>2, PageAnswer
<1>4. net[i] \in Requests /\ net[i].ws \in Workspace \cup {NoWhere} /\ net[i].ans.who \in Account \cup {NoOne}
  BY <1>1, PageAnswer DEF Requests, Answered
<1>5. dash' \in Board /\ dash'.of = dash.of /\ (dash'.by = dash.by \/ (dash'.by = status /\ route \in SignedIn))
  BY <1>1, <1>2, <1>4, PagesAre, PageAnswer DEF Board
<1>6. PagesInv' BY <1>1, <1>2, <1>5, PagesAre, PageAnswer, PagesStep
<1> QED BY <1>1, <1>2, <1>3, <1>5, <1>6, PagesAre, PageAnswer, PageStep

LEMMA ListKeeps ==
  ASSUME ConsoleInv, NEW i \in Slots, UNCHANGED serverVars, ListArrives(i)
  PROVE  ConsoleInv'
<1>1. net[i].op = "list" /\ net[i].op \in PageOps BY DEF ListArrives, PageOps
<1>2. net' = [net EXCEPT ![i] = Idle] /\ UNCHANGED <<token, status, route, preview, adm, ctx>> BY DEF ListArrives
<1>3. net' \in [Slots -> Requests] /\ \A k \in Slots : Follows(net'[k], net[k]) BY <1>1, <1>2, PageAnswer
<1>4. net[i].ans \in Answered /\ net[i].ans.list \subseteq Workspace /\ net[i].ans.who \in Account \cup {NoOne}
  BY <1>1, PageAnswer DEF Answered
<1>5. stored' \in Workspace \cup {NoWhere} /\ dash' \in Board /\ dash'.by = dash.by
      /\ (dash'.of = dash.of \/ (dash'.of = status /\ route \in SignedIn))
  <2>1. CASE net[i].ans.ok
    <3>1. PICK w \in IF net[i].ans.list = {} THEN {NoWhere} ELSE Chosen(net[i].ans.list) :
            /\ stored' = w
            /\ dash' = IF net[i].live THEN [dash EXCEPT !.list = net[i].ans.list, !.of = net[i].ans.who,
                                                    !.selected = w, !.loaded = TRUE] ELSE dash
      BY <2>1 DEF ListArrives
    <3>2. w \in Workspace \cup {NoWhere} BY <1>4, <3>1, PagesAre DEF Chosen
    <3> QED BY <1>1, <1>4, <2>1, <3>1, <3>2, PagesAre, PageAnswer DEF Board
  <2>2. CASE ~net[i].ans.ok
    <3>1. dash' = (IF net[i].live THEN [dash EXCEPT !.loaded = TRUE] ELSE dash) /\ stored' = stored
      BY <2>2 DEF ListArrives
    <3> QED BY <3>1, PagesAre DEF Board
  <2> QED BY <2>1, <2>2
<1>6. PagesInv' BY <1>1, <1>2, <1>5, PagesAre, PageAnswer, PagesStep
<1> QED BY <1>1, <1>2, <1>3, <1>5, <1>6, PagesAre, PageAnswer, PageStep

LEMMA PreviewKeeps ==
  ASSUME ConsoleInv, NEW i \in Slots, UNCHANGED serverVars, PreviewArrives(i)
  PROVE  ConsoleInv'
<1>1. /\ net[i].op \in PageOps \cup {"preview"} /\ net' = [net EXCEPT ![i] = Idle]
      /\ UNCHANGED <<token, stored, status, route, adm, ctx, dash>> /\ preview' \in {"error", "existing", "new"}
  BY DEF PreviewArrives
<1>2. net' \in [Slots -> Requests] /\ \A k \in Slots : Follows(net'[k], net[k]) BY <1>1, PageAnswer
<1>3. PagesInv' BY <1>1, PagesAre, PageAnswer, PagesStep
<1> QED BY <1>1, <1>2, <1>3, PagesAre, PageAnswer, PageStep

LEMMA ContextKeeps ==
  ASSUME ConsoleInv, NEW i \in Slots, UNCHANGED serverVars, ContextArrives(i)
  PROVE  ConsoleInv'
<1>1. net[i].op = "context" /\ net[i].op \in PageOps BY DEF ContextArrives, PageOps
<1>2. /\ net' = [net EXCEPT ![i] = Idle] /\ UNCHANGED <<token, stored, status, route, preview, adm, dash>>
      /\ ctx' = [ctx EXCEPT !.at = IF net[i].ans.ok THEN net[i].ws ELSE @,
                        !.of = IF net[i].ans.ok THEN net[i].ans.who ELSE @,
                        !.loading = FALSE,
                        !.busy = IF net[i].flow = "form" THEN FALSE ELSE @]
  BY DEF ContextArrives
<1>3. net' \in [Slots -> Requests] /\ \A k \in Slots : Follows(net'[k], net[k]) BY <1>1, <1>2, PageAnswer
<1>4. net[i] \in Requests /\ net[i].ws \in Workspace \cup {NoWhere} /\ net[i].ans.who \in Account \cup {NoOne}
  BY <1>1, PageAnswer DEF Requests, Answered
<1>5. net[i].live BY <1>1, RequestsFollow DEF Fits, Waited
<1>6. ctx' \in SharedPage /\ ctx'.on = ctx.on /\ (ctx'.of = ctx.of \/ (ctx'.of = status /\ route \in SignedIn))
  BY <1>1, <1>2, <1>4, <1>5, PagesAre, PageAnswer DEF SharedPage
<1>7. PagesInv' BY <1>1, <1>2, <1>6, PagesAre, PageAnswer, PagesStep
<1> QED BY <1>1, <1>2, <1>3, <1>6, <1>7, PagesAre, PageAnswer, PageStep

\* The page asks for the same workspace again.
LEMMA ShareKeeps ==
  ASSUME ConsoleInv, NEW i \in Slots, UNCHANGED serverVars, ShareArrives(i)
  PROVE  ConsoleInv'
<1>1. net[i].op = "share" /\ net[i].op \in PageOps BY DEF ShareArrives, PageOps
<1>2. UNCHANGED <<token, stored, status, route, preview, adm, dash>> BY DEF ShareArrives
<1>3. net \in [Slots -> Requests] /\ \A k \in Slots : Follows(net[k], net[k]) BY RequestsFollow
<1>4. net[i].ws \in Workspace \cup {NoWhere} BY <1>1, PageAnswer DEF Requests
<1>5. /\ net' \in [Slots -> Requests] /\ \A k \in Slots : Follows(net'[k], net[k])
      /\ ctx' \in SharedPage /\ ctx'.on = ctx.on /\ ctx'.of = ctx.of
  <2>1. CASE net[i].live /\ net[i].ans.ok
    <3> DEFINE q == Request("context", "form", token, net[i].ws)
    <3>1. ctx' = [ctx EXCEPT !.loading = TRUE] /\ net' = [net EXCEPT ![i] = q] BY <2>1 DEF ShareArrives
    <3>2. /\ "context" \in PageOps /\ "form" \in Flows /\ "form" \notin {"join", "joined", "enter"}
          /\ PagesOf("context") = PagesOf(net[i].op)
      BY <1>1 DEF PageOps, Flows, PagesOf
    <3>3. Follows(q, net[i]) BY <1>1, <1>4, <2>1, <3>2, PageAnswer, SentFollows
    <3> HIDE DEF q
    <3>4. q \in Requests BY <3>3 DEF Follows
    <3> QED BY <1>3, <3>1, <3>3, <3>4, PagesAre DEF SharedPage
  <2>2. CASE ~(net[i].live /\ net[i].ans.ok)
    <3>1. net' = [net EXCEPT ![i] = Idle] /\ ctx' = IF net[i].live THEN [ctx EXCEPT !.busy = FALSE] ELSE ctx
      BY <2>2 DEF ShareArrives
    <3> QED BY <1>1, <3>1, PagesAre, PageAnswer DEF SharedPage
  <2> QED BY <2>1, <2>2
<1>6. PagesInv' BY <1>1, <1>2, <1>5, PagesAre, PageAnswer, PagesStep
<1> QED BY <1>1, <1>2, <1>5, <1>6, PagesAre, PageAnswer, PageStep

-----------------------------------------------------------------------------
(* Answers to the console.                                                 *)

\* The bootstrap of a refresh, which may have lost its page already.
LEMMA AgainFollows ==
  ASSUME ConsoleInv, status # "unknown", NEW live \in BOOLEAN,
         live => /\ status \in Account /\ route \in {"landing", "admin"}
                 /\ token # 0 => status = owner[token],
         NEW x, x.op \notin {"status", "logout"}
  PROVE  Follows([Request("bootstrap", "again", token, stored) EXCEPT !.live = live], x)
<1> DEFINE q == Request("bootstrap", "again", token, stored)
           r == [q EXCEPT !.live = live]
<1>1. owner \in Seq(Account) /\ Len(owner) \in Nat BY RequestsFollow
<1>2. token \in Nat /\ token \in 0..Len(owner) BY <1>1 DEF ConsoleInv, ConsoleTypes, TabTypes, Tokens
<1>3. stored \in Workspace \cup {NoWhere} BY PagesAre
<1>4. "bootstrap" \in Ops /\ "again" \in Flows BY DEF Ops, Flows
<1>5. q \in Requests /\ q.op = "bootstrap" /\ q.flow = "again" /\ q.tok = token /\ q.ans = NoAnswer
  BY <1>2, <1>3, <1>4, RequestSent
<1> HIDE DEF q
<1>6. r \in Requests /\ r.op = "bootstrap" /\ r.flow = "again" /\ r.tok = token /\ r.live = live /\ r.ans = NoAnswer
  BY <1>5 DEF Requests
<1> HIDE DEF r
<1>7. ~Signing(r) BY <1>6 DEF Signing, SigningIn
<1>8. Honest(r, owner) BY <1>1, <1>2, <1>6, RequestsNamed DEF Honest
<1>9. Waited(r, owner, status, route) BY <1>6 DEF Waited, PagesOf
<1>10. Provided(r, token, status, route) BY <1>6, <1>7 DEF Provided
<1>11. Follows(r, x) BY <1>6, <1>7, <1>8, <1>9, <1>10 DEF Follows, Fits
<1> QED BY <1>11 DEF r, q

LEMMA WriteKeeps ==
  ASSUME ConsoleInv, NEW i \in Slots, UNCHANGED serverVars, WriteArrives(i)
  PROVE  ConsoleInv'
<1> DEFINE q == [Request("bootstrap", "again", token, stored) EXCEPT !.live = net[i].live]
<1>1. net[i].op = "write" /\ net[i].op \in PageOps BY DEF WriteArrives, PageOps
<1>2. UNCHANGED <<token, stored, status, route, preview, dash>> BY DEF WriteArrives
<1>3. net \in [Slots -> Requests] /\ \A k \in Slots : Follows(net[k], net[k]) BY RequestsFollow
<1>4. net[i].live \in BOOLEAN BY <1>1, PageAnswer DEF Requests
<1>5. net[i].live => /\ status \in Account /\ route \in {"landing", "admin"}
                     /\ token # 0 => status = owner[token]
  BY <1>1, PageAnswer DEF PagesOf
<1>6. Follows(q, net[i]) BY <1>1, <1>4, <1>5, PageAnswer, AgainFollows
<1>7. Follows(Idle, net[i]) BY <1>1, IdleFollows
<1> HIDE DEF q
<1>8. q \in Requests BY <1>6 DEF Follows
<1>9. /\ net' \in [Slots -> Requests] /\ \A k \in Slots : Follows(net'[k], net[k])
      /\ adm' \in Shell /\ ctx' \in SharedPage /\ adm'.of = adm.of /\ ctx'.of \in {NoOne, ctx.of}
      /\ \/ adm' = adm /\ ctx' = ctx
         \/ adm'.loading /\ ~adm'.error /\ ~ctx'.on
  <2>1. CASE net[i].ans.ok /\ net[i].live
    <3>1. /\ adm' = [adm EXCEPT !.loading = TRUE, !.error = FALSE] /\ ctx' = NoCtx
          /\ net' = [k \in Slots |-> IF k = i THEN q ELSE LeaveContext(net[k])]
      BY <2>1 DEF WriteArrives, ContextAfterRefresh, q
    <3>2. ASSUME NEW k \in Slots PROVE Follows(net'[k], net[k])
      <4>1. Follows(LeaveContext(net[k]), net[k]) BY <1>3, LeaveContextFollows
      <4>2. net'[k] = IF k = i THEN q ELSE LeaveContext(net[k]) BY <3>1
      <4> QED BY <1>6, <4>1, <4>2
    <3>3. net' \in [Slots -> Requests] BY <3>1, <3>2 DEF Follows
    <3> QED BY <3>1, <3>2, <3>3, PagesAre DEF Shell, SharedPage, NoCtx
  <2>2. CASE ~(net[i].ans.ok /\ net[i].live)
    <3>1. net' = [net EXCEPT ![i] = IF net[i].ans.ok THEN q ELSE Idle] /\ UNCHANGED <<adm, ctx>>
      BY <2>2 DEF WriteArrives, q
    <3>2. PICK y \in Requests : y = IF net[i].ans.ok THEN q ELSE Idle BY <1>8, RequestsNamed
    <3>3. Follows(y, net[i]) BY <1>6, <1>7, <3>2
    <3>4. net' = [net EXCEPT ![i] = y] BY <3>1, <3>2
    <3> QED BY <1>3, <3>1, <3>3, <3>4, PagesAre
  <2> QED BY <2>1, <2>2
<1>10. PagesInv' BY <1>1, <1>2, <1>9, PagesAre, PageAnswer, PagesStep
<1> QED BY <1>1, <1>2, <1>9, <1>10, PagesAre, PageAnswer, PageStep

\* A page that comes while the session stays.
LEMMA EnterStep ==
  ASSUME ConsoleInv, UNCHANGED serverVars, UNCHANGED <<token, status>>, status \in Account,
         token # 0 => status = owner[token], route \in SignedIn, NEW to \in SignedIn,
         NEW ws \in Workspace \cup {NoWhere}, stored' \in Workspace \cup {NoWhere},
         NEW nets \in [Slots -> Requests], \A k \in Slots : Follows(nets[k], net[k]),
         Enter(nets, to, token, ws)
  PROVE  ConsoleInv'
<1>1. UNCHANGED <<owner, token, status>> BY DEF serverVars
<1>2. /\ owner \in Seq(Account) /\ Len(owner) \in Nat /\ token \in 0..Len(owner) /\ status # "unknown" /\ to \in Routes
      /\ ConsoleTypes
  BY RequestsFollow, ConsoleAssumption
  DEF ConsoleAssumption, ConsoleInv, ConsoleTypes, TabTypes, Tokens, SignedIn, Routes
<1>3. ASSUME NEW k \in Slots
      PROVE  /\ Fits(nets[k], owner, token, status, route)
             /\ nets[k].op = "status" /\ nets[k].tok # 0 => nets[k].flow # "stay"
             /\ ~Signing(nets[k])
  <2>1. Fits(nets[k], owner, token, status, route) BY DEF Follows
  <2>2. ~Signing(nets[k]) BY <2>1 DEF Fits, Provided, SignedIn
  <2> QED BY <1>2, <2>1, <2>2 DEF Fits, Provided
<1>4. Enter(nets, to, token', ws) BY <1>1
<1>5. /\ route' = to /\ net' \in [Slots -> Requests] /\ NetInv'
      /\ \A k \in Slots : nets[k].op \in AuthOps => net'[k].op = nets[k].op
      /\ adm' \in Shell /\ ctx' \in SharedPage /\ dash' \in Board /\ preview' \in {"none", "loading"}
      /\ PagesInv' /\ ~ctx'.on
  BY <1>1, <1>2, <1>3, <1>4, EnterKeeps
<1>6. ConsoleTypes'
  <2>1. \A k \in Slots : Fits(net'[k], owner', token', status', route') BY <1>5 DEF NetInv
  <2>2. token' \in 0..Len(owner) /\ status' \in Account \cup {"unknown", "offline", "out"} BY <1>1, <1>2
  <2> QED BY <1>2, <1>5, <2>1, <2>2, TabTypesKept
<1>7. TokenSettled' BY <1>1 DEF TokenSettled
<1>8. PageToken' BY <1>1 DEF PageToken
<1> QED BY <1>5, <1>6, <1>7, <1>8 DEF ConsoleInv

LEMMA BootstrapKeeps ==
  ASSUME ConsoleInv, NEW i \in Slots, UNCHANGED serverVars, BootstrapArrives(i)
  PROVE  ConsoleInv'
<1>1. net[i].op = "bootstrap" /\ net[i].op \in PageOps BY DEF BootstrapArrives, PageOps
<1>2. PICK done \in [Slots -> Requests] :
        done = [net EXCEPT ![i] = Idle] /\ \A k \in Slots : Follows(done[k], net[k])
  BY <1>1, PageAnswer
<1>3. UNCHANGED <<token, status>> BY DEF BootstrapArrives
<1>4. net[i].ans \in Answered /\ net[i].ans.list \subseteq Workspace /\ net[i].ans.who \in Account \cup {NoOne}
      /\ status # "unknown"
  BY <1>1, PageAnswer DEF Answered
<1>5. net[i].live => /\ status \in Account /\ route \in {"landing", "admin"} /\ route \in SignedIn
                     /\ token # 0 => status = owner[token]
                     /\ net[i].ans.ok => net[i].ans.who = status
  BY <1>1, PageAnswer DEF PagesOf
<1>6. CASE net[i].ans.ok
  <2>1. PICK w \in Chosen(net[i].ans.list) :
             /\ stored' = w
             /\ CASE ~net[i].live -> net' = done /\ UNCHANGED <<route, preview, adm, ctx, dash>>
                  [] net[i].live /\ route = "landing" -> Enter(done, "admin", token, w)
                  [] OTHER ->
                       /\ adm' = [adm EXCEPT !.boot = net[i].ans.list, !.of = net[i].ans.who,
                                             !.loading = FALSE, !.selected = w]
                       /\ IF adm.page = "context" /\ ~adm.error /\ (~ctx.on \/ w # adm.selected)
                          THEN /\ ctx' = IF ctx.on THEN [ctx EXCEPT !.loading = TRUE]
                                         ELSE [NoCtx EXCEPT !.on = TRUE, !.loading = TRUE]
                               /\ net' = LoadContext(done, w)
                          ELSE net' = done /\ UNCHANGED ctx
                       /\ UNCHANGED <<route, preview, dash>>
    BY <1>2, <1>6 DEF BootstrapArrives
  <2>2. w \in net[i].ans.list /\ w \in Workspace \cup {NoWhere} BY <1>4, <2>1 DEF Chosen
  <2>3. CASE ~net[i].live
    <3>1. net' = done /\ UNCHANGED <<route, preview, adm, ctx, dash>> BY <2>1, <2>3
    <3>2. PagesInv' BY <1>3, <1>4, <3>1, PagesAre, PagesStep
    <3> QED BY <1>2, <1>3, <1>4, <2>1, <2>2, <3>1, <3>2, PagesAre, PageStep
  <2>4. CASE net[i].live /\ route = "landing"
    <3>1. Enter(done, "admin", token, w) BY <2>1, <2>4
    <3>2. "admin" \in SignedIn BY DEF SignedIn
    <3> QED BY <1>2, <1>3, <1>5, <2>1, <2>2, <2>4, <3>1, <3>2, EnterStep
  <2>5. CASE net[i].live /\ route # "landing"
    <3>1. /\ adm' = [adm EXCEPT !.boot = net[i].ans.list, !.of = net[i].ans.who,
                                !.loading = FALSE, !.selected = w]
          /\ UNCHANGED <<route, preview, dash>>
          /\ \/ /\ adm.page = "context" /\ ~adm.error /\ (~ctx.on \/ w # adm.selected)
                /\ ctx' = IF ctx.on THEN [ctx EXCEPT !.loading = TRUE] ELSE [NoCtx EXCEPT !.on = TRUE, !.loading = TRUE]
                /\ net' = LoadContext(done, w)
             \/ net' = done /\ UNCHANGED ctx
      BY <2>1, <2>5
    <3>2. route = "admin" /\ status \in Account /\ net[i].ans.who = status /\ (token # 0 => status = owner[token])
      BY <1>5, <1>6, <2>5
    <3>3. adm' \in Shell /\ adm'.of = status /\ adm'.selected \in adm'.boot /\ adm'.page = adm.page
          /\ adm'.error = adm.error /\ ~adm'.loading
      BY <1>4, <2>2, <3>1, <3>2, PagesAre DEF Shell
    <3>4. /\ net' \in [Slots -> Requests] /\ \A k \in Slots : Follows(net'[k], net[k])
          /\ ctx' \in SharedPage /\ ctx'.of \in {NoOne, ctx.of}
          /\ ctx'.on => adm'.page = "context" /\ ~adm'.error
      <4>1. CASE net' = done /\ UNCHANGED ctx BY <1>2, <3>3, <4>1, PagesAre
      <4>2. CASE /\ adm.page = "context" /\ ~adm.error
                 /\ ctx' = IF ctx.on THEN [ctx EXCEPT !.loading = TRUE] ELSE [NoCtx EXCEPT !.on = TRUE, !.loading = TRUE]
                 /\ net' = LoadContext(done, w)
        <5>1. \E k \in Slots : Aborted(done)[k] = Idle
          <6>1. done[i] = Idle BY <1>2
          <6>2. Aborted(done)[i] = Idle BY <6>1 DEF Aborted
          <6> QED BY <6>2
        <5>2. net' \in [Slots -> Requests] /\ \A k \in Slots : Follows(net'[k], net[k])
          BY <1>2, <2>2, <3>2, <4>2, <5>1, LoadContextFollows
        <5>3. ctx' \in SharedPage /\ ctx'.of \in {NoOne, ctx.of} BY <4>2, PagesAre DEF SharedPage, NoCtx
        <5> QED BY <3>3, <4>2, <5>2, <5>3
      <4> QED BY <3>1, <4>1, <4>2
    <3>5. PagesInv' BY <1>3, <1>4, <3>1, <3>2, <3>3, <3>4, PagesAre, PagesStep DEF SignedIn
    <3> QED BY <1>3, <1>4, <2>1, <2>2, <3>1, <3>2, <3>3, <3>4, <3>5, PagesAre, PageStep
  <2> QED BY <2>3, <2>4, <2>5
<1>7. CASE ~net[i].ans.ok
  <2>1. /\ UNCHANGED stored
        /\ CASE ~net[i].live -> net' = done /\ UNCHANGED <<route, preview, adm, ctx, dash>>
             [] net[i].live /\ route = "landing" -> Enter(done, "dashboard", token, stored)
             [] OTHER -> /\ adm' = [adm EXCEPT !.error = TRUE, !.loading = FALSE]
                         /\ ctx' = NoCtx
                         /\ net' = [k \in Slots |-> LeaveContext(done[k])]
                         /\ UNCHANGED <<route, preview, dash>>
    BY <1>2, <1>7 DEF BootstrapArrives
  <2>2. CASE ~net[i].live
    <3>1. net' = done /\ UNCHANGED <<route, preview, adm, ctx, dash>> BY <2>1, <2>2
    <3>2. PagesInv' BY <1>3, <1>4, <3>1, PagesAre, PagesStep
    <3> QED BY <1>2, <1>3, <1>4, <2>1, <3>1, <3>2, PagesAre, PageStep
  <2>3. CASE net[i].live /\ route = "landing"
    <3>1. PICK ws \in Workspace \cup {NoWhere} : ws = stored BY PagesAre
    <3>2. Enter(done, "dashboard", token, ws) BY <2>1, <2>3, <3>1
    <3>3. "dashboard" \in SignedIn BY DEF SignedIn
    <3> QED BY <1>2, <1>3, <1>5, <2>1, <2>3, <3>1, <3>2, <3>3, EnterStep
  <2>4. CASE net[i].live /\ route # "landing"
    <3>1. /\ adm' = [adm EXCEPT !.error = TRUE, !.loading = FALSE] /\ ctx' = NoCtx
          /\ net' = [k \in Slots |-> LeaveContext(done[k])] /\ UNCHANGED <<route, preview, dash>>
      BY <2>1, <2>4
    <3>2. route = "admin" /\ status \in Account BY <1>5, <2>4
    <3>3. ASSUME NEW k \in Slots PROVE Follows(net'[k], net[k])
      <4>1. Follows(LeaveContext(done[k]), net[k]) BY <1>2, LeaveContextFollows
      <4> QED BY <3>1, <4>1
    <3>4. net' \in [Slots -> Requests] BY <3>1, <3>3 DEF Follows
    <3>5. adm' \in Shell /\ adm'.of = adm.of /\ adm'.error BY <3>1, PagesAre DEF Shell
    <3>6. ctx' \in SharedPage /\ ~ctx'.on /\ ctx'.of = NoOne BY <3>1 DEF NoCtx, SharedPage
    <3>7. PagesInv' BY <1>3, <1>4, <3>1, <3>2, <3>5, <3>6, PagesAre, PagesStep
    <3> QED BY <1>3, <1>4, <2>1, <3>1, <3>3, <3>4, <3>5, <3>6, <3>7, PagesAre, PageStep
  <2> QED BY <2>2, <2>3, <2>4
<1> QED BY <1>6, <1>7

-----------------------------------------------------------------------------
(* What the user does on a page.                                           *)

\* A request sent from a page takes a free place.
LEMMA SendFollows ==
  ASSUME ConsoleInv, NEW q, Send(q), \A x : x.op \notin {"status", "logout"} => Follows(q, x)
  PROVE  net' \in [Slots -> Requests] /\ \A k \in Slots : Follows(net'[k], net[k])
<1> DEFINE f == SomeIdle(net)
<1>1. (\E k \in Slots : net[k] = Idle) /\ net' = [net EXCEPT ![f] = q] BY DEF Send
<1>2. f \in Slots /\ net[f] = Idle BY <1>1, SomeIdleFree
<1> HIDE DEF f
<1>3. Follows(q, net[f]) BY <1>2, RequestsNamed
<1>4. q \in Requests BY <1>3 DEF Follows
<1> QED BY <1>1, <1>2, <1>3, <1>4, RequestsFollow

\* The console with its page.
LEMMA InShellIs ==
  ASSUME ConsoleInv, InShell
  PROVE  /\ route = "admin" /\ status \in Account /\ status # "unknown" /\ ~adm.loading /\ ~adm.error
         /\ token # 0 => status = owner[token]
         /\ adm.selected \in adm.boot /\ adm.selected \in Workspace
<1>1. /\ route = "admin" /\ status \in Account /\ ~adm.loading /\ ~adm.error
      /\ status \notin {"unknown", "offline"}
  BY ConsoleAssumption DEF InShell, ConsoleAssumption
<1>2. adm.selected \in adm.boot BY <1>1, PagesAre DEF PagesInv, Listed
<1>3. token # 0 => status = owner[token] BY <1>1 DEF ConsoleInv, PageToken, SignedIn
<1> QED BY <1>1, <1>2, <1>3, PagesAre DEF Shell

LEMMA WriteSentKeeps ==
  ASSUME ConsoleInv, UNCHANGED serverVars, Write
  PROVE  ConsoleInv'
<1> DEFINE q == Request("write", "stay", token, stored)
<1>1. InShell /\ Send(q) /\ UNCHANGED <<token, stored, status, route, preview, adm, ctx, dash>> BY DEF Write
<1>2. "write" \in PageOps /\ "stay" \in Flows /\ route \in PagesOf("write")
  BY <1>1, InShellIs DEF PageOps, Flows, PagesOf
<1>3. PICK ws \in Workspace \cup {NoWhere} : ws = stored BY PagesAre
<1>4. \A x : x.op \notin {"status", "logout"} => Follows(q, x) BY <1>1, <1>2, <1>3, InShellIs, SentFollows
<1> HIDE DEF q
<1>5. net' \in [Slots -> Requests] /\ \A k \in Slots : Follows(net'[k], net[k]) BY <1>1, <1>4, SendFollows
<1>6. PagesInv' BY <1>1, InShellIs, PagesAre, PagesStep
<1> QED BY <1>1, <1>5, <1>6, InShellIs, PagesAre, PageStep

LEMMA RetryKeeps ==
  ASSUME ConsoleInv, UNCHANGED serverVars, Retry
  PROVE  ConsoleInv'
<1> DEFINE q == Request("bootstrap", "again", token, stored)
<1>1. /\ route = "admin" /\ adm.error /\ adm' = [adm EXCEPT !.loading = TRUE, !.error = FALSE] /\ Send(q)
      /\ UNCHANGED <<token, stored, status, route, preview, ctx, dash>>
  BY DEF Retry
<1>2. status \in Account /\ status # "unknown" /\ (token # 0 => status = owner[token])
  <2>1. status \in Account BY <1>1, PagesAre DEF PagesInv, PagesThere
  <2> QED BY <1>1, <2>1, ConsoleAssumption DEF ConsoleAssumption, ConsoleInv, PageToken, SignedIn
<1>3. "bootstrap" \in PageOps /\ "again" \in Flows /\ route \in PagesOf("bootstrap")
  BY <1>1 DEF PageOps, Flows, PagesOf
<1>4. PICK ws \in Workspace \cup {NoWhere} : ws = stored BY PagesAre
<1>5. \A x : x.op \notin {"status", "logout"} => Follows(q, x) BY <1>2, <1>3, <1>4, SentFollows
<1> HIDE DEF q
<1>6. net' \in [Slots -> Requests] /\ \A k \in Slots : Follows(net'[k], net[k]) BY <1>1, <1>5, SendFollows
<1>7. adm' \in Shell /\ adm'.of = adm.of /\ adm'.loading /\ ~adm'.error BY <1>1, PagesAre DEF Shell
<1>8. ~ctx.on BY <1>1, PagesAre
<1>9. PagesInv' BY <1>1, <1>2, <1>7, PagesAre, PagesStep
<1> QED BY <1>1, <1>2, <1>6, <1>7, <1>8, <1>9, PagesAre, PageStep

\* A share carries the workspace that is shown.
LEMMA ShareSentKeeps ==
  ASSUME ConsoleInv, UNCHANGED serverVars, Share
  PROVE  ConsoleInv'
<1> DEFINE q == Request("share", "form", token, adm.selected)
<1>1. /\ ctx.on /\ ctx' = [ctx EXCEPT !.busy = TRUE] /\ Send(q)
      /\ UNCHANGED <<token, stored, status, route, preview, adm, dash>>
  BY DEF Share
<1>2. route = "admin" /\ status \in Account BY <1>1, PagesAre DEF PagesInv, PagesThere
<1>3. status # "unknown" /\ (token # 0 => status = owner[token])
  BY <1>2, ConsoleAssumption DEF ConsoleAssumption, ConsoleInv, PageToken, SignedIn
<1>4. "share" \in PageOps /\ "share" \in Ops /\ "form" \in Flows /\ route \in PagesOf("share")
  BY <1>2 DEF PageOps, Ops, Flows, PagesOf
<1>5. PICK ws \in Workspace \cup {NoWhere} : ws = adm.selected BY PagesAre DEF Shell
<1>6. \A x : x.op \notin {"status", "logout"} => Follows(q, x) BY <1>2, <1>3, <1>4, <1>5, SentFollows
<1> HIDE DEF q
<1>8. net' \in [Slots -> Requests] /\ \A k \in Slots : Follows(net'[k], net[k]) BY <1>1, <1>6, SendFollows
<1>9. ctx' \in SharedPage /\ ctx'.on = ctx.on /\ ctx'.of = ctx.of BY <1>1, PagesAre DEF SharedPage
<1>10. PagesInv' BY <1>1, <1>3, <1>9, PagesAre, PagesStep
<1> QED BY <1>1, <1>3, <1>8, <1>9, <1>10, PagesAre, PageStep

LEMMA GenerateSentKeeps ==
  ASSUME ConsoleInv, UNCHANGED serverVars, Generate
  PROVE  ConsoleInv'
<1> DEFINE r == Request("generate", "form", token, stored)
           q == [r EXCEPT !.shown = dash.selected]
<1>1. /\ route = "dashboard" /\ status \in Account
      /\ dash' = [dash EXCEPT !.loading = TRUE, !.result = NoWhere, !.by = NoOne] /\ Send(q)
      /\ UNCHANGED <<token, stored, status, route, preview, adm, ctx>>
  BY DEF Generate
<1>2. status # "unknown" /\ (token # 0 => status = owner[token])
  BY <1>1, ConsoleAssumption DEF ConsoleAssumption, ConsoleInv, PageToken, SignedIn
<1>3. "generate" \in PageOps /\ "generate" \in Ops /\ "form" \in Flows /\ route \in PagesOf("generate")
  BY <1>1 DEF PageOps, Ops, Flows, PagesOf
<1>4. owner \in Seq(Account) /\ Len(owner) \in Nat /\ token \in 0..Len(owner)
  BY RequestsFollow DEF ConsoleInv, ConsoleTypes, TabTypes, Tokens
<1>5. r \in Requests /\ r.op = "generate" /\ r.flow = "form" /\ r.tok = token /\ r.live /\ r.ans = NoAnswer
  BY <1>3, <1>4, PagesAre, RequestSent
<1> HIDE DEF r
<1>6. q \in Requests /\ q.op = "generate" /\ q.flow = "form" /\ q.tok = token /\ q.live /\ q.ans = NoAnswer
  BY <1>5, PagesAre DEF Requests, Board
<1> HIDE DEF q
<1>7. ~Signing(q) BY <1>6 DEF Signing, SigningIn
<1>8. Fits(q, owner, token, status, route) BY <1>1, <1>2, <1>3, <1>4, <1>6, <1>7, SentFits
<1>9. \A x : x.op \notin {"status", "logout"} => Follows(q, x) BY <1>6, <1>7, <1>8 DEF Follows
<1>10. net' \in [Slots -> Requests] /\ \A k \in Slots : Follows(net'[k], net[k]) BY <1>1, <1>9, SendFollows
<1>11. dash' \in Board /\ dash'.of = dash.of /\ dash'.by = NoOne BY <1>1, PagesAre DEF Board
<1>12. PagesInv' BY <1>1, <1>2, <1>11, PagesAre, PagesStep
<1> QED BY <1>1, <1>2, <1>10, <1>11, <1>12, PagesAre, PageStep

LEMMA ChangeKeeps ==
  ASSUME ConsoleInv, UNCHANGED serverVars, NEW w \in Workspace, ChangeWorkspace(w)
  PROVE  ConsoleInv'
<1>1. /\ status \in Account /\ stored' = w /\ dash' = [dash EXCEPT !.selected = w, !.result = NoWhere, !.by = NoOne]
      /\ UNCHANGED <<token, status, route, preview, adm, ctx, net>>
  BY DEF ChangeWorkspace
<1>2. status # "unknown" BY <1>1, ConsoleAssumption DEF ConsoleAssumption
<1>3. dash' \in Board /\ dash'.of = dash.of /\ dash'.by = NoOne BY <1>1, PagesAre DEF Board
<1>4. PagesInv' BY <1>1, <1>2, <1>3, PagesAre, PagesStep
<1>5. net' \in [Slots -> Requests] /\ \A k \in Slots : Follows(net'[k], net[k]) BY <1>1, RequestsFollow
<1> QED BY <1>1, <1>2, <1>3, <1>4, <1>5, PagesAre, PageStep

LEMMA SelectKeeps ==
  ASSUME ConsoleInv, UNCHANGED serverVars, NEW w \in Workspace, SelectWorkspace(w)
  PROVE  ConsoleInv'
<1>1. /\ InShell /\ w \in adm.boot /\ stored' = w /\ adm' = [adm EXCEPT !.selected = w]
      /\ UNCHANGED <<token, status, route, preview, dash>>
  BY DEF SelectWorkspace
<1>2. adm' \in Shell /\ adm'.of = adm.of /\ adm'.selected \in adm'.boot /\ adm'.page = adm.page
      /\ adm'.loading = adm.loading /\ adm'.error = adm.error
  BY <1>1, PagesAre DEF Shell
<1>3. /\ net' \in [Slots -> Requests] /\ \A k \in Slots : Follows(net'[k], net[k])
      /\ ctx' \in SharedPage /\ ctx'.on = ctx.on /\ ctx'.of = ctx.of
  <2>1. CASE ctx.on
    <3>1. PICK nets \in [Slots -> Requests] : nets = net BY RequestsFollow
    <3>2. /\ \E k \in Slots : Aborted(nets)[k] = Idle
          /\ ctx' = [ctx EXCEPT !.loading = TRUE]
          /\ net' = LoadContext(nets, w)
      BY <2>1, <3>1 DEF SelectWorkspace
    <3>3. \A k \in Slots : Follows(nets[k], net[k]) BY <3>1, RequestsFollow
    <3>4. net' \in [Slots -> Requests] /\ \A k \in Slots : Follows(net'[k], net[k])
      BY <1>1, <3>2, <3>3, InShellIs, LoadContextFollows
    <3> QED BY <3>2, <3>4, PagesAre DEF SharedPage
  <2>2. CASE ~ctx.on BY <2>2, PagesAre, RequestsFollow DEF SelectWorkspace
  <2> QED BY <2>1, <2>2
<1>4. PagesInv' BY <1>1, <1>2, <1>3, InShellIs, PagesAre, PagesStep
<1> QED BY <1>1, <1>2, <1>3, <1>4, InShellIs, PagesAre, PageStep

LEMMA OpenContextKeeps ==
  ASSUME ConsoleInv, UNCHANGED serverVars, OpenContext
  PROVE  ConsoleInv'
<1>1. /\ InShell /\ adm' = [adm EXCEPT !.page = "context"] /\ ctx' = [NoCtx EXCEPT !.on = TRUE, !.loading = TRUE]
      /\ UNCHANGED <<token, stored, status, route, preview, dash>>
  BY DEF OpenContext
<1>2. PICK nets \in [Slots -> Requests] : nets = net BY RequestsFollow
<1>3. PICK ws \in Workspace \cup {NoWhere} : ws = adm.selected BY PagesAre DEF Shell
<1>4. net' = LoadContext(nets, ws) /\ \A k \in Slots : Follows(nets[k], net[k])
  BY <1>2, <1>3, RequestsFollow DEF OpenContext
<1>5. \E k \in Slots : Aborted(nets)[k] = Idle
  <2>1. PICK k \in Slots : nets[k] = Idle BY <1>2 DEF OpenContext
  <2>2. Aborted(nets)[k] = Idle BY <2>1 DEF Aborted
  <2> QED BY <2>2
<1>6. net' \in [Slots -> Requests] /\ \A k \in Slots : Follows(net'[k], net[k])
  BY <1>1, <1>4, <1>5, InShellIs, LoadContextFollows
<1>7. adm' \in Shell /\ adm'.of = adm.of /\ adm'.selected = adm.selected /\ adm'.boot = adm.boot
      /\ adm'.loading = adm.loading /\ adm'.error = adm.error /\ adm'.page = "context"
  BY <1>1, PagesAre DEF Shell
<1>8. ctx' \in SharedPage /\ ctx'.of = NoOne BY <1>1 DEF NoCtx, SharedPage
<1>9. PagesInv' BY <1>1, <1>7, <1>8, InShellIs, PagesAre, PagesStep
<1> QED BY <1>1, <1>6, <1>7, <1>8, <1>9, InShellIs, PagesAre, PageStep

LEMMA OpenManageKeeps ==
  ASSUME ConsoleInv, UNCHANGED serverVars, OpenManage
  PROVE  ConsoleInv'
<1>1. /\ InShell /\ adm' = [adm EXCEPT !.page = "manage"] /\ ctx' = NoCtx
      /\ net' = [k \in Slots |-> LeaveContext(net[k])]
      /\ UNCHANGED <<token, stored, status, route, preview, dash>>
  BY DEF OpenManage
<1>2. ASSUME NEW k \in Slots PROVE Follows(net'[k], net[k])
  <2>1. Follows(LeaveContext(net[k]), net[k]) BY RequestsFollow, LeaveContextFollows
  <2> QED BY <1>1, <2>1
<1>3. net' \in [Slots -> Requests] BY <1>1, <1>2 DEF Follows
<1>4. adm' \in Shell /\ adm'.of = adm.of /\ adm'.selected = adm.selected /\ adm'.boot = adm.boot
      /\ adm'.loading = adm.loading /\ adm'.error = adm.error
  BY <1>1, PagesAre DEF Shell
<1>5. ctx' \in SharedPage /\ ~ctx'.on /\ ctx'.of = NoOne BY <1>1 DEF NoCtx, SharedPage
<1>6. PagesInv' BY <1>1, <1>4, <1>5, InShellIs, PagesAre, PagesStep
<1> QED BY <1>1, <1>2, <1>3, <1>4, <1>5, <1>6, InShellIs, PagesAre, PageStep

LEMMA VisitKeeps ==
  ASSUME ConsoleInv, UNCHANGED serverVars, NEW to \in {"admin", "dashboard"}, Visit(to)
  PROVE  ConsoleInv'
<1>1. status \in Account /\ route \in SignedIn /\ to \in SignedIn /\ UNCHANGED <<token, stored, status>>
  BY DEF Visit, SignedIn
<1>2. token # 0 => status = owner[token] BY <1>1 DEF ConsoleInv, PageToken
<1>3. PICK nets \in [Slots -> Requests] : nets = net BY RequestsFollow
<1>4. PICK ws \in Workspace \cup {NoWhere} : ws = stored BY PagesAre
<1>5. Enter(nets, to, token, ws) /\ \A k \in Slots : Follows(nets[k], net[k])
  BY <1>3, <1>4, RequestsFollow DEF Visit
<1> QED BY <1>1, <1>2, <1>4, <1>5, EnterStep

-----------------------------------------------------------------------------
(* Sign-in, sign-out and the acceptance of an invitation.                  *)

\* A step of the session that leaves the page as it is: at most one more sign-in.
LEMMA SessionStep ==
  ASSUME ConsoleInv, UNCHANGED serverVars, UNCHANGED <<status, route, preview, adm, ctx, dash>>,
         status # "unknown", stored' \in Workspace \cup {NoWhere}, token' \in 0..Len(owner),
         NEW i \in Slots, NEW q, net' = [net EXCEPT ![i] = q], q \in Requests,
         Fits(q, owner, token', status, route),
         Signing(q) => \A k \in Slots \ {i} : ~Signing(net[k]),
         \A k \in Slots \ {i} : net[k].op = "status" /\ net[k].tok # 0 => token' \in {0, net[k].tok},
         TokenSettled', PageToken'
  PROVE  ConsoleInv'
<1>1. UNCHANGED <<owner, status, route>> BY DEF serverVars
<1>2. net \in [Slots -> Requests] /\ \A k \in Slots : Fits(net[k], owner, token, status, route)
  BY RequestsFollow
<1>3. net' \in [Slots -> Requests] /\ net'[i] = q /\ \A k \in Slots \ {i} : net'[k] = net[k] BY <1>2
<1>4. ASSUME NEW k \in Slots PROVE Fits(net'[k], owner', token', status', route')
  <2>1. CASE k = i BY <1>1, <1>3, <2>1
  <2>2. CASE k # i
    <3>1. Provided(net[k], token', status, route) BY <1>2, <2>2 DEF Fits, Provided
    <3> QED BY <1>1, <1>2, <1>3, <2>2, <3>1 DEF Fits
  <2> QED BY <2>1, <2>2
<1>5. OneSigning' BY <1>3 DEF ConsoleInv, NetInv, OneSigning
<1>6. UnknownAlone' BY DEF UnknownAlone
<1>7. ConsoleTypes'
  <2>1. ConsoleTypes /\ status' \in Account \cup {"unknown", "offline", "out"} /\ route' \in Routes
        /\ (ctx'.on => route' = "admin" /\ adm'.page = "context" /\ ~adm'.loading /\ ~adm'.error)
    BY PagesAre DEF ConsoleInv
  <2> QED BY <1>3, <1>4, <2>1, PagesAre, TabTypesKept
<1>8. PagesInv' BY PagesAre DEF PagesInv, OwnDataAlwaysShown, Blank, Listed, PagesThere
<1> QED BY <1>4, <1>5, <1>6, <1>7, <1>8 DEF ConsoleInv, NetInv

\* A request of the session is sent from a page.
LEMMA SessionSend ==
  ASSUME ConsoleInv, UNCHANGED serverVars,
         UNCHANGED <<token, stored, status, route, preview, adm, ctx, dash>>, status # "unknown",
         NEW q, q \in Requests, Fits(q, owner, token, status, route), Signing(q) => ~\E k \in Slots : SigningIn(net[k]), Send(q)
  PROVE  ConsoleInv'
<1>1. PICK f \in Slots : f = SomeIdle(net) /\ net[f] = Idle /\ net' = [net EXCEPT ![f] = q]
  BY SomeIdleFree DEF Send
<1>2. net \in [Slots -> Requests] /\ \A k \in Slots : Fits(net[k], owner, token, status, route)
  BY RequestsFollow
<1>3. UNCHANGED owner BY DEF serverVars
<1>4. Signing(q) => \A k \in Slots \ {f} : ~Signing(net[k])
  BY <1>2 DEF Signing, SigningIn, Fits, Provided
<1>5. \A k \in Slots : net[k].op = "status" /\ net[k].tok # 0 => token \in {0, net[k].tok}
  BY <1>2 DEF Fits, Provided
<1>6. \A k \in Slots : net[k].op \in {"status", "logout"} => net'[k] = net[k]
  BY <1>1, <1>2, RequestsNamed
<1>7. TokenSettled' BY <1>3, <1>6 DEF ConsoleInv, TokenSettled
<1>8. PageToken' BY <1>3 DEF ConsoleInv, PageToken
<1>9. token' \in 0..Len(owner) /\ stored' \in Workspace \cup {NoWhere}
  BY PagesAre DEF ConsoleInv, ConsoleTypes, TabTypes, Tokens
<1>10. Fits(q, owner, token', status, route) /\ \A k \in Slots \ {f} : net[k].op = "status" /\ net[k].tok # 0 => token' \in {0, net[k].tok}
  BY <1>5
<1> QED BY <1>1, <1>4, <1>7, <1>8, <1>9, <1>10, SessionStep

LEMMA SignOutKeeps ==
  ASSUME ConsoleInv, UNCHANGED serverVars, SignOut
  PROVE  ConsoleInv'
<1> DEFINE q == Request("logout", "stay", token, stored)
<1>1. status \in Account /\ Send(q) /\ UNCHANGED <<token, stored, status, route, preview, adm, ctx, dash>>
  BY DEF SignOut
<1>2. status # "unknown" BY <1>1, ConsoleAssumption DEF ConsoleAssumption
<1>3. owner \in Seq(Account) /\ Len(owner) \in Nat /\ token \in 0..Len(owner)
  BY RequestsFollow DEF ConsoleInv, ConsoleTypes, TabTypes, Tokens
<1>4. "logout" \in Ops /\ "stay" \in Flows BY DEF Ops, AuthOps, Flows
<1>5. q \in Requests /\ q.op = "logout" /\ q.flow = "stay" /\ q.tok = token /\ q.ans = NoAnswer
  BY <1>3, <1>4, PagesAre, RequestSent
<1> HIDE DEF q
<1>6. ~Signing(q) BY <1>5 DEF Signing, SigningIn
<1>7. Fits(q, owner, token, status, route)
  BY <1>2, <1>3, <1>5, <1>6, RequestsNamed DEF Fits, Honest, Waited, Provided, PageOps
<1> QED BY <1>1, <1>2, <1>5, <1>6, <1>7, SessionSend

\* A sign-in, or an acceptance, as it is sent.
LEMMA SigningFits ==
  ASSUME NEW own \in Seq(Account), NEW tok \in 0..Len(own), NEW st, NEW rt, st # "unknown",
         NEW r \in Requests, r.ans = NoAnswer, r.tok \in 0..Len(own), r.op = "login" => r.who \in Account,
         \/ r.op = "login" /\ r.flow = "stay" /\ rt = "signin"
         \/ r.op = "login" /\ r.flow = "join" /\ rt = "invite"
         \/ r.op = "accept" /\ r.flow = "enter" /\ rt = "invite"
  PROVE  Fits(r, own, tok, st, rt)
<1>1. Len(own) \in Nat BY LenProperties
<1>2. Honest(r, own) BY <1>1, RequestsNamed DEF Honest
<1>3. Waited(r, own, st, rt) BY DEF Waited, PageOps
<1>4. Provided(r, tok, st, rt) BY DEF Provided, AuthOps
<1> QED BY <1>2, <1>3, <1>4 DEF Fits

LEMMA SignInKeeps ==
  ASSUME ConsoleInv, UNCHANGED serverVars, SignIn, ~overlapped'
  PROVE  ConsoleInv'
<1>1. PICK a \in registered : Send([Request("login", "stay", 0, NoWhere) EXCEPT !.who = a]) BY DEF SignIn
<1> DEFINE r == Request("login", "stay", 0, NoWhere)
           q == [r EXCEPT !.who = a]
<1>2. /\ route = "signin" /\ status = "out" /\ ~\E k \in Slots : SigningIn(net[k])
      /\ UNCHANGED <<token, stored, status, route, preview, adm, ctx, dash>>
  BY DEF SignIn, Overlaps
<1>3. a \in Account /\ owner \in Seq(Account) /\ Len(owner) \in Nat /\ token \in 0..Len(owner)
  BY RequestsFollow DEF ConsoleInv, ConsoleTypes, TabTypes, Tokens
<1>4. "login" \in Ops /\ "stay" \in Flows BY DEF Ops, AuthOps, Flows
<1>5. r \in Requests /\ r.op = "login" /\ r.flow = "stay" /\ r.tok = 0 /\ r.ans = NoAnswer BY <1>4, RequestSent
<1>6. Send(q) BY <1>1
<1> HIDE DEF r
<1>7. q \in Requests /\ q.op = "login" /\ q.flow = "stay" /\ q.tok = 0 /\ q.ans = NoAnswer /\ q.who = a
  BY <1>3, <1>5 DEF Requests
<1> HIDE DEF q
<1>8. Fits(q, owner, token, status, route) BY <1>2, <1>3, <1>7, SigningFits
<1>9. status # "unknown" /\ (Signing(q) => ~\E k \in Slots : SigningIn(net[k])) BY <1>2
<1>10. UNCHANGED <<token, stored, status, route, preview, adm, ctx, dash>> /\ q \in Requests BY <1>2, <1>7
<1> HIDE DEF SignIn
<1> QED BY <1>6, <1>8, <1>9, <1>10, SessionSend

LEMMA JoinKeeps ==
  ASSUME ConsoleInv, UNCHANGED serverVars, Join, ~overlapped'
  PROVE  ConsoleInv'
<1>1. /\ route = "invite" /\ preview \in {"new", "existing"} /\ ~\E k \in Slots : SigningIn(net[k])
      /\ UNCHANGED <<token, stored, status, route, preview, adm, ctx, dash>>
  BY DEF Join, Overlaps
<1>2. status # "unknown" BY <1>1, PagesAre DEF PagesInv, PagesThere
<1>3. owner \in Seq(Account) /\ Len(owner) \in Nat /\ token \in 0..Len(owner)
  BY RequestsFollow DEF ConsoleInv, ConsoleTypes, TabTypes, Tokens
<1>4. {"login", "accept"} \subseteq Ops /\ {"join", "enter"} \subseteq Flows BY DEF Ops, AuthOps, Flows
<1> DEFINE l == Request("login", "join", 0, NoWhere)
           b == [l EXCEPT !.who = Invited]
           a == Request("accept", "enter", token, stored)
<1>5. l \in Requests /\ l.op = "login" /\ l.flow = "join" /\ l.tok = 0 /\ l.ans = NoAnswer BY <1>4, RequestSent
<1>6. a \in Requests /\ a.op = "accept" /\ a.flow = "enter" /\ a.tok = token /\ a.ans = NoAnswer
  BY <1>3, <1>4, PagesAre, RequestSent
<1>7. Send(b) \/ Send(a)
  <2>1. CASE preview = "existing" /\ status \notin Account BY <2>1 DEF Join
  <2>2. CASE ~(preview = "existing" /\ status \notin Account) BY <2>2 DEF Join
  <2> QED BY <2>1, <2>2
<1> HIDE DEF l, a
<1>8. b \in Requests /\ b.op = "login" /\ b.flow = "join" /\ b.tok = 0 /\ b.ans = NoAnswer /\ b.who \in Account
  BY <1>5, ConsoleAssumption DEF Requests, ConsoleAssumption
<1> HIDE DEF b
<1>9. Fits(b, owner, token, status, route) /\ Fits(a, owner, token, status, route)
  <2>1. Fits(b, owner, token, status, route) BY <1>1, <1>2, <1>3, <1>8, SigningFits
  <2>2. Fits(a, owner, token, status, route) BY <1>1, <1>2, <1>3, <1>6, SigningFits
  <2> QED BY <2>1, <2>2
<1>10. CASE Send(b) BY <1>1, <1>2, <1>8, <1>9, <1>10, SessionSend
<1>11. CASE Send(a) BY <1>1, <1>2, <1>6, <1>9, <1>11, SessionSend
<1> QED BY <1>7, <1>10, <1>11

\* A form that is left and opened again changes nothing of what it submitted.
LEMMA ReturnKeeps ==
  ASSUME ConsoleInv, UNCHANGED serverVars, ReturnToForm
  PROVE  ConsoleInv'
<1>1. /\ status = "out" /\ net' = Left(net)
      /\ UNCHANGED <<token, stored, status, route, preview, adm, ctx, dash>>
  BY DEF ReturnToForm
<1>2. status # "unknown" BY <1>1
<1>3. ASSUME NEW k \in Slots PROVE Follows(net'[k], net[k])
  <2>1. net'[k] = Leave(net[k]) BY <1>1 DEF Left
  <2>2. PICK r \in Requests : r = net[k] /\ Fits(r, owner, token, status, route) BY RequestsFollow
  <2>3. r.op = "status" /\ r.tok # 0 => r.flow # "stay" BY <1>2, <2>2 DEF Fits, Provided
  <2>4. PICK own \in Seq(Account) : own = owner BY RequestsFollow
  <2>5. Fits(r, own, token, status, route) BY <2>2, <2>4
  <2>6. /\ Leave(r) \in Requests /\ Fits(Leave(r), own, token, status, route)
        /\ Signing(Leave(r)) => Signing(r)
        /\ r.op \in AuthOps => Leave(r).op = r.op
    BY <1>2, <2>3, <2>5, LeaveFits
  <2> QED BY <2>1, <2>2, <2>4, <2>6 DEF Follows, AuthOps
<1>4. net' \in [Slots -> Requests] BY <1>1, <1>3 DEF Left, Follows
<1>5. PagesInv' BY <1>1, <1>2, PagesAre, PagesStep
<1> QED BY <1>1, <1>2, <1>3, <1>4, <1>5, PagesAre, PageStep

\* The status that is asked for after the session has changed.
LEMMA StatusSent ==
  ASSUME ConsoleInv, NEW tok \in 0..Len(owner), NEW q \in Requests, q.op = "status", q.tok = tok, q.ans = NoAnswer,
         NEW flow \in {"stay", "enter", "joined"}, q.flow = flow, status # "unknown",
         flow = "stay" => tok = 0, flow # "stay" => route \in {"signin", "invite"},
         flow = "joined" => route = "invite"
  PROVE  Fits(q, owner, tok, status, route) /\ (Signing(q) => flow # "stay")
<1>1. owner \in Seq(Account) /\ Len(owner) \in Nat BY RequestsFollow
<1>4. Honest(q, owner) BY <1>1, RequestsNamed DEF Honest, PageOps
<1>5. Waited(q, owner, status, route) BY DEF Waited, PageOps
<1>6. Provided(q, tok, status, route) BY DEF Provided, Signing, SigningIn, AuthOps
<1>7. Signing(q) => flow # "stay" BY DEF Signing, SigningIn
<1> QED BY <1>4, <1>5, <1>6, <1>7 DEF Fits

\* The answers of the session: nobody else signs in, and the status requests of
\* the others carry no token.
LEMMA SigningAnswer ==
  ASSUME ConsoleInv, NEW i \in Slots, net[i].op \in {"login", "accept", "logout"}
  PROVE  /\ status # "unknown" /\ net[i] \in Requests /\ net[i].ans.tok \in 0..Len(owner)
         /\ token \in 0..Len(owner) /\ owner \in Seq(Account) /\ Len(owner) \in Nat
         /\ net[i].op # "logout" =>
              /\ route \in {"signin", "invite"} /\ route \notin SignedIn
              /\ \A k \in Slots \ {i} : ~Signing(net[k])
              /\ \A k \in Slots \ {i} : ~(net[k].op = "status" /\ net[k].tok # 0)
         /\ net[i].op = "accept" \/ net[i].flow = "join" => route = "invite"
<1>1. /\ net \in [Slots -> Requests] /\ owner \in Seq(Account) /\ Len(owner) \in Nat
      /\ \A k \in Slots : Fits(net[k], owner, token, status, route)
  BY RequestsFollow
<1>2. token \in 0..Len(owner) BY DEF ConsoleInv, ConsoleTypes, TabTypes, Tokens
<1>3. net[i].ans.tok \in 0..Len(owner) BY <1>1 DEF Fits, Honest
<1>4. status # "unknown"
  <2>1. status = "unknown" => net[i] = Idle \/ net[i].op = "status" BY <1>1 DEF Fits, Provided
  <2> QED BY <2>1, RequestsNamed
<1>5. ASSUME net[i].op # "logout"
      PROVE  /\ route \in {"signin", "invite"} /\ route \notin SignedIn
             /\ \A k \in Slots \ {i} : ~Signing(net[k])
             /\ \A k \in Slots \ {i} : ~(net[k].op = "status" /\ net[k].tok # 0)
  <2>1. Signing(net[i]) BY <1>5 DEF Signing, SigningIn
  <2>2. route \in {"signin", "invite"} /\ route \notin SignedIn BY <1>1, <2>1 DEF Fits, Provided, SignedIn
  <2>3. \A k \in Slots \ {i} : ~Signing(net[k]) BY <2>1 DEF ConsoleInv, NetInv, OneSigning
  <2>4. ASSUME NEW k \in Slots \ {i}, net[k].op = "status", net[k].tok # 0 PROVE FALSE
    <3>1. net[k].flow \in {"stay", "enter", "joined"} /\ (net[k].flow = "stay" => status = "unknown")
      BY <1>1, <2>4 DEF Fits, Provided
    <3> QED BY <1>4, <2>3, <3>1 DEF Signing, SigningIn
  <2> QED BY <2>2, <2>3, <2>4
<1>6. net[i].op = "accept" \/ net[i].flow = "join" => route = "invite" BY <1>1 DEF Fits, Provided
<1> QED BY <1>1, <1>2, <1>3, <1>4, <1>5, <1>6

LEMMA LogoutKeeps ==
  ASSUME ConsoleInv, NEW i \in Slots, UNCHANGED serverVars, LogoutArrives(i)
  PROVE  ConsoleInv'
<1>1. net[i].op = "logout" BY DEF LogoutArrives
<1>2. PICK q \in Requests : q = Request("status", "stay", 0, NoWhere) /\ Fits(q, owner, 0, status, route) /\ ~Signing(q)
  <2> DEFINE r == Request("status", "stay", 0, NoWhere)
  <2>1. "status" \in Ops /\ "stay" \in Flows BY DEF Ops, AuthOps, Flows
  <2>2. r \in Requests /\ r.op = "status" /\ r.flow = "stay" /\ r.tok = 0 /\ r.ans = NoAnswer BY <2>1, RequestSent
  <2> HIDE DEF r
  <2>3. 0 \in 0..Len(owner) /\ status # "unknown" BY <1>1, SigningAnswer
  <2>4. Fits(r, owner, 0, status, route) /\ ~Signing(r) BY <2>2, <2>3, StatusSent
  <2> QED BY <2>2, <2>4 DEF r
<1>3. /\ token' = 0 /\ stored' = NoWhere /\ net' = [net EXCEPT ![i] = q]
      /\ UNCHANGED <<status, route, preview, adm, ctx, dash>>
  BY <1>2 DEF LogoutArrives
<1>4. TokenSettled' /\ PageToken' BY <1>3 DEF TokenSettled, PageToken
<1>5. token' \in 0..Len(owner) /\ Fits(q, owner, token', status, route)
      /\ \A k \in Slots \ {i} : net[k].op = "status" /\ net[k].tok # 0 => token' \in {0, net[k].tok}
  BY <1>1, <1>2, <1>3, SigningAnswer
<1> QED BY <1>1, <1>2, <1>3, <1>4, <1>5, SigningAnswer, SessionStep

\* A new session, or the one there is, is asked about.
LEMMA NewSessionKeeps ==
  ASSUME ConsoleInv, UNCHANGED serverVars, NEW i \in Slots, net[i].op \in {"login", "accept"},
         UNCHANGED <<stored, status, route, preview, adm, ctx, dash>>, NEW tok \in 0..Len(owner), token' = tok,
         NEW flow \in {"enter", "joined"}, flow = "joined" => route = "invite",
         net' = [net EXCEPT ![i] = [Request("status", flow, tok, stored) EXCEPT !.live = net[i].live]]
  PROVE  ConsoleInv'
<1>1. PICK ws \in Workspace \cup {NoWhere} : ws = stored BY PagesAre
<1>2. PICK q \in Requests : /\ q = [Request("status", flow, tok, ws) EXCEPT !.live = net[i].live]
                           /\ q.op = "status" /\ Fits(q, owner, tok, status, route)
  <2> DEFINE r == [Request("status", flow, tok, ws) EXCEPT !.live = net[i].live]
  <2>1. "status" \in Ops /\ flow \in Flows /\ tok \in Nat /\ net[i].live \in BOOLEAN
    BY SigningAnswer DEF Ops, AuthOps, Flows, Requests
  <2>2. r \in Requests /\ r.op = "status" /\ r.flow = flow /\ r.tok = tok /\ r.ans = NoAnswer BY <2>1, RequestLeft
  <2> HIDE DEF r
  <2>3. Fits(r, owner, tok, status, route) BY <2>2, SigningAnswer, StatusSent
  <2> QED BY <2>2, <2>3 DEF r
<1>3. net' = [net EXCEPT ![i] = q] BY <1>1, <1>2
<1>4. TokenSettled'
  <2>1. net'[i].op = "status" BY <1>2, <1>3, RequestsFollow
  <2> QED BY <2>1 DEF TokenSettled
<1>5. PageToken' BY SigningAnswer DEF PageToken
<1>6. token' \in 0..Len(owner) /\ stored' \in Workspace \cup {NoWhere} /\ Fits(q, owner, token', status, route)
      /\ UNCHANGED <<status, route, preview, adm, ctx, dash>> /\ status # "unknown"
  BY <1>2, PagesAre, SigningAnswer
<1>7. /\ Signing(q) => \A k \in Slots \ {i} : ~Signing(net[k])
      /\ \A k \in Slots \ {i} : net[k].op = "status" /\ net[k].tok # 0 => token' \in {0, net[k].tok}
  BY SigningAnswer
<1> QED BY <1>2, <1>3, <1>4, <1>5, <1>6, <1>7, SessionStep

\* An answer that changes nothing.
LEMMA NothingKeeps ==
  ASSUME ConsoleInv, UNCHANGED serverVars, NEW i \in Slots, net[i].op \in {"login", "accept"},
         UNCHANGED <<token, stored, status, route, preview, adm, ctx, dash>>, net' = [net EXCEPT ![i] = Idle]
  PROVE  ConsoleInv'
<1>1. /\ net \in [Slots -> Requests] /\ \A k \in Slots : Follows(net[k], net[k]) BY RequestsFollow
<1>2. Follows(Idle, net[i]) BY IdleFollows
<1>3. net' \in [Slots -> Requests] /\ \A k \in Slots : Follows(net'[k], net[k]) BY <1>1, <1>2, RequestsNamed
<1>4. status # "unknown" BY SigningAnswer
<1>5. PagesInv' BY <1>4, PagesAre, PagesStep
<1> QED BY <1>3, <1>4, <1>5, PagesAre, PageStep

LEMMA LoginKeeps ==
  ASSUME ConsoleInv, NEW i \in Slots, UNCHANGED serverVars, LoginArrives(i)
  PROVE  ConsoleInv'
<1>1. net[i].op \in {"login", "accept"} /\ UNCHANGED <<stored, status, route, preview, adm, ctx, dash>>
  BY DEF LoginArrives
<1>2. CASE net[i].ans.ok
  <2>1. PICK tok \in 0..Len(owner) : tok = net[i].ans.tok BY <1>1, SigningAnswer
  <2>2. PICK flow \in {"enter", "joined"} : flow = IF net[i].flow = "join" THEN "joined" ELSE "enter" OBVIOUS
  <2>3. token' = tok /\ net' = [net EXCEPT ![i] = [Request("status", flow, tok, stored) EXCEPT !.live = net[i].live]]
    BY <1>2, <2>1, <2>2 DEF LoginArrives
  <2>4. flow = "joined" => route = "invite" BY <1>1, <2>2, SigningAnswer
  <2> QED BY <1>1, <2>3, <2>4, NewSessionKeeps
<1>3. CASE ~net[i].ans.ok
  <2>1. token' = token /\ net' = [net EXCEPT ![i] = Idle] BY <1>3 DEF LoginArrives
  <2> QED BY <1>1, <2>1, NothingKeeps
<1> QED BY <1>2, <1>3

LEMMA AcceptKeeps ==
  ASSUME ConsoleInv, NEW i \in Slots, UNCHANGED serverVars, AcceptArrives(i)
  PROVE  ConsoleInv'
<1>1. net[i].op \in {"login", "accept"} /\ UNCHANGED <<stored, status, route, preview, adm, ctx, dash>>
  BY DEF AcceptArrives
<1>2. CASE net[i].ans.ok
  <2>1. PICK tok \in 0..Len(owner) : tok = IF net[i].ans.tok # 0 THEN net[i].ans.tok ELSE token
    BY <1>1, SigningAnswer
  <2>2. token' = tok /\ net' = [net EXCEPT ![i] = [Request("status", "enter", tok, stored) EXCEPT !.live = net[i].live]]
    BY <1>2, <2>1 DEF AcceptArrives
  <2>3. "enter" \in {"enter", "joined"} /\ "enter" # "joined" OBVIOUS
  <2> QED BY <1>1, <2>2, <2>3, NewSessionKeeps
<1>3. CASE ~net[i].ans.ok
  <2>1. token' = token /\ net' = [net EXCEPT ![i] = Idle] BY <1>3 DEF AcceptArrives
  <2> QED BY <1>1, <2>1, NothingKeeps
<1> QED BY <1>2, <1>3

-----------------------------------------------------------------------------
(* The status of the session.                                              *)

\* What the others wait for when a status arrives, and what takes its place.
StatusOf(r) == IF ~r.ans.ok THEN "offline" ELSE IF r.ans.who = NoOne THEN "out" ELSE r.ans.who

LEMMA StatusAnswer ==
  ASSUME ConsoleInv, NEW i \in Slots, net[i].op = "status"
  PROVE  /\ owner \in Seq(Account) /\ Len(owner) \in Nat /\ token \in 0..Len(owner)
         /\ net[i] \in Requests /\ net[i] # Idle /\ net[i].flow \in {"stay", "enter", "joined"}
         /\ StatusOf(net[i]) \in Account \cup {"offline", "out"}
         /\ StatusOf(net[i]) \in Account =>
              /\ net[i].tok # 0 /\ token \in {0, net[i].tok} /\ StatusOf(net[i]) = owner[net[i].tok]
              /\ net[i].flow = "stay" => status = "unknown"
         /\ net[i].flow = "joined" => route = "invite"
         /\ net[i].flow # "stay" => /\ route \in {"signin", "invite"} /\ status # "unknown"
                                    /\ \A k \in Slots \ {i} : ~Signing(net[k])
         /\ status = "unknown" => \A k \in Slots \ {i} : net[k] = Idle
         /\ \A k \in Slots \ {i} : net[k].op = "status" /\ net[k].tok # 0 => net[k].flow # "stay"
<1>1. /\ net \in [Slots -> Requests] /\ owner \in Seq(Account) /\ Len(owner) \in Nat
      /\ \A k \in Slots : Fits(net[k], owner, token, status, route)
  BY RequestsFollow
<1>2. token \in 0..Len(owner) BY DEF ConsoleInv, ConsoleTypes, TabTypes, Tokens
<1>3. net[i] # Idle BY RequestsNamed
<1>4. net[i].flow \in {"stay", "enter", "joined"} BY <1>1 DEF Fits, Provided
<1>5. PICK x \in Requests : x = net[i] BY <1>1
<1>6. x.op = "status" /\ x.ans.who \in Account \cup {NoOne} /\ Honest(x, owner) /\ Provided(x, token, status, route)
  BY <1>1, <1>5 DEF Requests, Answered, Fits
<1>7. StatusOf(x) \in Account \cup {"offline", "out"} BY <1>6 DEF StatusOf
<1>8. ASSUME StatusOf(x) \in Account
      PROVE  /\ x.tok # 0 /\ token \in {0, x.tok} /\ StatusOf(x) = owner[x.tok]
             /\ x.flow = "stay" => status = "unknown"
  <2>1. x.ans.ok /\ x.ans.who # NoOne /\ StatusOf(x) = x.ans.who
    BY <1>8, ConsoleAssumption DEF StatusOf, ConsoleAssumption
  <2>2. x.tok # 0 /\ x.ans.who = owner[x.tok] BY <1>6, <2>1 DEF Honest
  <2> QED BY <1>6, <2>1, <2>2 DEF Provided
<1>9. net[i].flow = "joined" => route = "invite" BY <1>5, <1>6 DEF Provided
<1>10. status = "unknown" => net[i].flow = "stay" BY <1>3, <1>5, <1>6 DEF Provided
<1>11. ASSUME net[i].flow # "stay"
       PROVE  /\ route \in {"signin", "invite"} /\ status # "unknown"
              /\ \A k \in Slots \ {i} : ~Signing(net[k])
  <2>1. Signing(net[i]) BY <1>4, <1>11 DEF Signing, SigningIn
  <2>2. route \in {"signin", "invite"} BY <1>5, <1>6, <2>1 DEF Provided
  <2>3. \A k \in Slots \ {i} : ~Signing(net[k]) BY <2>1 DEF ConsoleInv, NetInv, OneSigning
  <2> QED BY <1>10, <1>11, <2>2, <2>3
<1>12. status = "unknown" => \A k \in Slots \ {i} : net[k] = Idle BY <1>3 DEF ConsoleInv, NetInv, UnknownAlone
<1>13. ASSUME NEW k \in Slots \ {i}, net[k].op = "status", net[k].tok # 0 PROVE net[k].flow # "stay"
  <2>1. net[k].flow = "stay" => status = "unknown" BY <1>1, <1>13 DEF Fits, Provided
  <2> QED BY <1>12, <1>13, <2>1, RequestsNamed
<1> QED BY <1>1, <1>2, <1>3, <1>4, <1>5, <1>7, <1>8, <1>9, <1>11, <1>12, <1>13

\* An answer of the status gives its place up, or to the acceptance it was for.
LEMMA StatusNext ==
  ASSUME ConsoleInv, NEW i \in Slots, net[i].op = "status", NEW tok \in {0, token},
         NEW ws \in Workspace \cup {NoWhere}, NEW after,
         after = IF net[i].flow = "joined" THEN [Request("accept", "enter", tok, ws) EXCEPT !.live = net[i].live]
                 ELSE Idle
  PROVE  /\ [net EXCEPT ![i] = after] \in [Slots -> Requests]
         /\ after \in Requests /\ after.op # "status"
         /\ net[i].flow = "joined" => after.op = "accept"
         /\ net[i].flow # "joined" => after = Idle
         /\ \A tok2, st : st # "unknown" \/ after = Idle => Fits(after, owner, tok2, st, route)
<1>1. tok \in 0..Len(owner) /\ owner \in Seq(Account) /\ Len(owner) \in Nat BY StatusAnswer
<1>2. CASE net[i].flow = "joined"
  <2>1. after = [Request("accept", "enter", tok, ws) EXCEPT !.live = net[i].live] /\ route = "invite" BY <1>2, StatusAnswer
  <2>2. "accept" \in Ops /\ "enter" \in Flows BY DEF Ops, AuthOps, Flows
  <2>3. after \in Requests /\ after.op = "accept" /\ after.flow = "enter" /\ after.tok = tok /\ after.ans = NoAnswer
    <3> DEFINE q == [Request("accept", "enter", tok, ws) EXCEPT !.live = net[i].live]
    <3>1. tok \in Nat /\ net[i].live \in BOOLEAN BY <1>1, StatusAnswer DEF Requests
    <3>2. q \in Requests /\ q.op = "accept" /\ q.flow = "enter" /\ q.tok = tok /\ q.ans = NoAnswer
      BY <2>2, <3>1, RequestLeft
    <3>3. after = q BY <2>1
    <3> HIDE DEF q
    <3> QED BY <3>2, <3>3
  <2>4. ASSUME NEW tok2, NEW st, st # "unknown" PROVE Fits(after, owner, tok2, st, route)
    <3>1. Honest(after, owner) BY <1>1, <2>3, RequestsNamed DEF Honest
    <3>2. Waited(after, owner, st, route) BY <2>3 DEF Waited, PageOps
    <3>3. Provided(after, tok2, st, route) BY <2>1, <2>3, <2>4 DEF Provided, AuthOps
    <3> QED BY <3>1, <3>2, <3>3 DEF Fits
  <2>5. after # Idle BY <2>3, RequestsNamed
  <2>6. [net EXCEPT ![i] = after] \in [Slots -> Requests] BY <2>3, RequestsFollow
  <2> QED BY <1>2, <2>3, <2>4, <2>5, <2>6
<1>3. CASE net[i].flow # "joined"
  <2>1. after = Idle BY <1>3
  <2>2. \A tok2, st : Fits(Idle, owner, tok2, st, route) BY <1>1, IdleFits
  <2> QED BY <1>3, <2>1, <2>2, RequestsFollow, RequestsNamed
<1> QED BY <1>2, <1>3

\* What SetStatus starts from.
Started(nets, i, to) ==
  /\ nets \in [Slots -> Requests]
  /\ \A k \in Slots : /\ nets[k].op = "status" /\ nets[k].tok # 0 => nets[k].flow # "stay"
                      /\ Signing(nets[k]) => to = route
                      /\ Fits(nets[k], owner, token, status, route)
  /\ \A k, l \in Slots : Signing(nets[k]) /\ Signing(nets[l]) => k = l
  /\ \A k \in Slots \ {i} : nets[k] = net[k]

LEMMA StatusStarts ==
  ASSUME ConsoleInv, NEW i \in Slots, net[i].op = "status", NEW tok \in {0, token},
         NEW ws \in Workspace \cup {NoWhere}, NEW after,
         after = IF net[i].flow = "joined" THEN [Request("accept", "enter", tok, ws) EXCEPT !.live = net[i].live]
                 ELSE Idle,
         NEW to, to = IF net[i].flow = "enter" THEN "landing" ELSE route
  PROVE  Started([net EXCEPT ![i] = after], i, to)
<1>1. PICK nets \in [Slots -> Requests] : nets = [net EXCEPT ![i] = after] BY StatusNext
<1>2. nets[i] = after /\ \A k \in Slots \ {i} : nets[k] = net[k] BY <1>1, RequestsFollow
<1>3. /\ after.op # "status" /\ Fits(after, owner, token, status, route)
      /\ net[i].flow # "joined" => after = Idle
  BY StatusNext, StatusAnswer
<1>4. ~Signing(Idle) BY RequestsNamed DEF Signing, SigningIn
<1>5. \A k \in Slots : Fits(nets[k], owner, token, status, route) BY <1>2, <1>3, RequestsFollow
<1>6. \A k \in Slots : nets[k].op = "status" /\ nets[k].tok # 0 => nets[k].flow # "stay"
  BY <1>2, <1>3, StatusAnswer
<1>7. ASSUME NEW k \in Slots, Signing(nets[k]) PROVE to = route
  <2>1. CASE k = i BY <1>2, <1>3, <1>4, <1>7, <2>1
  <2>2. CASE k # i
    <3>1. net[i].flow = "stay" BY <1>2, <1>7, <2>2, StatusAnswer
    <3> QED BY <3>1
  <2> QED BY <2>1, <2>2
<1>8. ASSUME NEW k \in Slots, NEW l \in Slots, Signing(nets[k]), Signing(nets[l]) PROVE k = l
  <2>1. CASE k # i /\ l # i BY <1>2, <1>8, <2>1 DEF ConsoleInv, NetInv, OneSigning
  <2>2. CASE k = i /\ l # i
    <3>1. net[i].flow = "joined" BY <1>2, <1>3, <1>4, <1>8, <2>2
    <3> QED BY <1>2, <1>8, <2>2, <3>1, StatusAnswer
  <2>3. CASE k # i /\ l = i
    <3>1. net[i].flow = "joined" BY <1>2, <1>3, <1>4, <1>8, <2>3
    <3> QED BY <1>2, <1>8, <2>3, <3>1, StatusAnswer
  <2> QED BY <2>1, <2>2, <2>3
<1> QED BY <1>1, <1>2, <1>5, <1>6, <1>7, <1>8 DEF Started

\* The rest of the handler, for each of its outcomes.
LEMMA OfflineKeeps ==
  ASSUME ConsoleInv, UNCHANGED serverVars, NEW i \in Slots, NEW nets, NEW to \in Routes, Started(nets, i, to),
         token' = 0, stored' = NoWhere, status' = "offline", route' = to,
         net' = Left(nets), preview' = "none", adm' = NoAdm, ctx' = NoCtx, dash' = NoDash
  PROVE  ConsoleInv'
<1>1. UNCHANGED owner BY DEF serverVars
<1>2. ASSUME NEW k \in Slots
      PROVE  /\ net'[k] \in Requests /\ Fits(net'[k], owner, token', status', route')
             /\ Signing(net'[k]) => Signing(nets[k])
  <2>1. PICK x \in Requests : x = nets[k] BY DEF Started
  <2>2. /\ Fits(x, owner, token, status, route) /\ (Signing(x) => to = route)
        /\ (x.op = "status" /\ x.tok # 0 => x.flow # "stay")
    BY <2>1 DEF Started
  <2>3. PICK own \in Seq(Account) : own = owner BY RequestsFollow
  <2>4. Fits(x, own, token, status, route) /\ "offline" # "unknown" /\ 0 \in {0, token} BY <2>2, <2>3
  <2>5. Leave(x) \in Requests /\ Fits(Leave(x), own, 0, "offline", to) BY <2>2, <2>4, LeaveFits
  <2>6. Signing(Leave(x)) => Signing(x) BY <2>2, <2>4, LeaveFits
  <2>7. net'[k] = Leave(x) BY <2>1 DEF Left
  <2> QED BY <1>1, <2>1, <2>3, <2>5, <2>6, <2>7
<1>3. net' \in [Slots -> Requests] BY <1>2 DEF Left
<1>4. NetInv'
  <2>1. OneSigning' BY <1>2 DEF OneSigning, Started
  <2>2. UnknownAlone' BY DEF UnknownAlone
  <2> QED BY <1>1, <1>2, <2>1, <2>2 DEF NetInv
<1>5. adm' \in Shell /\ adm'.of = NoOne /\ ~adm'.error /\ ctx' \in SharedPage /\ ctx'.of = NoOne /\ ~ctx'.on
      /\ dash' \in Board /\ dash'.of = NoOne /\ dash'.by = NoOne
  BY DEF NoAdm, Shell, NoCtx, SharedPage, NoDash, Board
<1>6. PagesInv'
  <2>1. OwnDataAlwaysShown' BY <1>5 DEF OwnDataAlwaysShown
  <2>2. Blank' BY <1>5 DEF Blank
  <2>3. Listed' BY DEF Listed
  <2>4. PagesThere' BY <1>5 DEF PagesThere
  <2> QED BY <2>1, <2>2, <2>3, <2>4 DEF PagesInv
<1>7. ConsoleTypes'
  <2>1. ConsoleTypes /\ token' \in 0..Len(owner) BY RequestsFollow DEF ConsoleInv
  <2>2. \A k \in Slots : Fits(net'[k], owner', token', status', route') BY <1>1, <1>2
  <2> QED BY <1>3, <1>5, <2>1, <2>2, TabTypesKept
<1>8. TokenSettled' /\ PageToken' BY DEF TokenSettled, PageToken
<1> QED BY <1>4, <1>6, <1>7, <1>8 DEF ConsoleInv

LEMMA SameStatusPageKeeps ==
  ASSUME ConsoleInv, UNCHANGED serverVars, NEW i \in Slots, NEW nets, NEW to, Started(nets, i, to),
         token' \in {0, token}, stored' \in Workspace \cup {NoWhere}, status' \in Account \cup {"out"},
         route \in {"signin", "invite"}, \A tok, st : st # "unknown" => Fits(nets[i], owner, tok, st, route),
         token' # 0 => status' = owner[token'],
         net' = nets, UNCHANGED <<route, preview, adm, ctx, dash>>
  PROVE  ConsoleInv'
<1>1. UNCHANGED owner /\ status' # "unknown" /\ token \in 0..Len(owner) /\ Len(owner) \in Nat
  BY RequestsFollow, ConsoleAssumption
  DEF serverVars, ConsoleAssumption, ConsoleInv, ConsoleTypes, TabTypes, Tokens
<1>2. ASSUME NEW k \in Slots PROVE Fits(net'[k], owner, token', status', route)
  <2>1. CASE k = i
    <3>1. \A tok, st : st # "unknown" => Fits(nets[k], owner, tok, st, route) BY <2>1
    <3> QED BY <1>1, <3>1
  <2>2. CASE k # i
    <3>1. Honest(nets[k], owner) /\ Waited(nets[k], owner, status, route) /\ Provided(nets[k], token, status, route)
          /\ (nets[k].op = "status" /\ nets[k].tok # 0 => nets[k].flow # "stay")
      BY DEF Started, Fits
    <3>2. ~(nets[k].op \in PageOps /\ nets[k].live) BY <3>1 DEF Waited, PagesOf
    <3>3. Waited(nets[k], owner, status', route) BY <3>1, <3>2 DEF Waited
    <3>4. Provided(nets[k], token', status', route) BY <1>1, <3>1 DEF Provided
    <3> QED BY <3>1, <3>3, <3>4 DEF Fits
  <2> QED BY <2>1, <2>2
<1>3. NetInv'
  <2>1. OneSigning' BY DEF OneSigning, Started
  <2>2. UnknownAlone' BY <1>1 DEF UnknownAlone
  <2> QED BY <1>1, <1>2, <2>1, <2>2 DEF NetInv
<1>4. PagesInv'
  <2>1. {adm.of, ctx.of, dash.of, dash.by} = {NoOne} BY PagesAre DEF PagesInv, Blank
  <2>2. OwnDataAlwaysShown' BY <2>1 DEF OwnDataAlwaysShown
  <2>3. Blank' BY <2>1 DEF Blank
  <2>4. Listed' BY DEF Listed
  <2>5. PagesThere' BY <1>1, PagesAre DEF PagesInv, PagesThere
  <2> QED BY <2>2, <2>3, <2>4, <2>5 DEF PagesInv
<1>5. ConsoleTypes'
  <2>1. /\ ConsoleTypes /\ token' \in 0..Len(owner) /\ net' \in [Slots -> Requests]
        /\ status' \in Account \cup {"unknown", "offline", "out"} /\ route' \in Routes
        /\ ctx'.on => route' = "admin" /\ adm'.page = "context" /\ ~adm'.loading /\ ~adm'.error
    BY <1>1, PagesAre DEF ConsoleInv, Started
  <2>2. \A k \in Slots : Fits(net'[k], owner', token', status', route') BY <1>1, <1>2
  <2> QED BY <2>1, <2>2, PagesAre, TabTypesKept
<1>6. TokenSettled' /\ PageToken' BY <1>1 DEF TokenSettled, PageToken
<1> QED BY <1>3, <1>4, <1>5, <1>6 DEF ConsoleInv

LEMMA NewPageKeeps ==
  ASSUME ConsoleInv, UNCHANGED serverVars, NEW i \in Slots, NEW nets, NEW to \in Routes, Started(nets, i, to),
         token' \in {0, token}, stored' \in Workspace \cup {NoWhere}, status' \in Account \cup {"out"},
         to \in SignedIn => status' \in Account,
         token' # 0 => status' = owner[token'], NEW ws \in Workspace \cup {NoWhere}, Enter(nets, to, token', ws)
  PROVE  ConsoleInv'
<1>1. UNCHANGED owner /\ status' # "unknown" /\ token \in 0..Len(owner) /\ Len(owner) \in Nat /\ owner \in Seq(Account)
  BY RequestsFollow, ConsoleAssumption
  DEF serverVars, ConsoleAssumption, ConsoleInv, ConsoleTypes, TabTypes, Tokens
<1>2. /\ nets \in [Slots -> Requests]
      /\ \A k \in Slots : /\ Fits(nets[k], owner, token, status, route)
                          /\ nets[k].op = "status" /\ nets[k].tok # 0 => nets[k].flow # "stay"
                          /\ Signing(nets[k]) => to = route
      /\ \A k, l \in Slots : Signing(nets[k]) /\ Signing(nets[l]) => k = l
  BY DEF Started
<1>3. /\ route' = to /\ net' \in [Slots -> Requests] /\ NetInv'
      /\ adm' \in Shell /\ ctx' \in SharedPage /\ dash' \in Board /\ preview' \in {"none", "loading"}
      /\ PagesInv' /\ ~ctx'.on
  BY <1>1, <1>2, EnterKeeps
<1>4. ConsoleTypes'
  <2>1. /\ ConsoleTypes /\ token' \in 0..Len(owner)
        /\ status' \in Account \cup {"unknown", "offline", "out"}
    BY <1>1 DEF ConsoleInv
  <2>2. \A k \in Slots : Fits(net'[k], owner', token', status', route') BY <1>3 DEF NetInv
  <2> QED BY <1>3, <2>1, <2>2, TabTypesKept
<1>5. TokenSettled' /\ PageToken' BY <1>1 DEF TokenSettled, PageToken
<1> QED BY <1>3, <1>4, <1>5 DEF ConsoleInv

LEMMA StatusKeeps ==
  ASSUME ConsoleInv, NEW i \in Slots, UNCHANGED serverVars, StatusArrives(i)
  PROVE  ConsoleInv'
<1>1. net[i].op = "status" BY DEF StatusArrives
<1>2. PICK s \in Account \cup {"offline", "out"} : s = StatusOf(net[i]) BY <1>1, StatusAnswer
<1>3. PICK tok \in {0, token} : tok = IF Clears(s) THEN 0 ELSE token OBVIOUS
<1>4. PICK ws \in Workspace \cup {NoWhere} :
        ws = IF Clears(s) /\ (token # 0 \/ s = "offline") THEN NoWhere ELSE stored
  BY PagesAre
<1>5. PICK after : after = IF net[i].flow = "joined" THEN [Request("accept", "enter", tok, ws) EXCEPT !.live = net[i].live]
                 ELSE Idle OBVIOUS
<1>6. PICK to \in Routes : to = IF net[i].flow = "enter" THEN "landing" ELSE route BY PagesAre DEF Routes
<1>7. PICK nets \in [Slots -> Requests] : nets = [net EXCEPT ![i] = after] BY <1>1, <1>5, StatusNext
<1>8. token' = tok /\ stored' = ws /\ SetStatus(nets, s, to, tok, ws)
  BY <1>2, <1>3, <1>4, <1>5, <1>6, <1>7 DEF StatusArrives, StatusOf
<1>9. Started(nets, i, to) BY <1>1, <1>5, <1>6, <1>7, StatusStarts
<1>10. s \in Account => s \notin {"offline", "out", "unknown"} /\ tok = token
  BY <1>3, ConsoleAssumption DEF ConsoleAssumption, Clears
<1>11. s \notin Account => tok = 0 BY <1>2, <1>3 DEF Clears
<1>12. tok # 0 => s \in Account /\ s = owner[tok] BY <1>1, <1>2, <1>10, <1>11, StatusAnswer
<1>13. UNCHANGED owner BY DEF serverVars
<1>14. CASE s = "offline"
  <2>1. /\ status' = "offline" /\ net' = Left(nets) /\ route' = to
        /\ preview' = "none" /\ adm' = NoAdm /\ ctx' = NoCtx /\ dash' = NoDash
    BY <1>8, <1>14 DEF SetStatus
  <2>2. token' = 0 /\ stored' = NoWhere BY <1>4, <1>8, <1>10, <1>11, <1>14 DEF Clears
  <2> QED BY <1>9, <2>1, <2>2, OfflineKeeps
<1>15. CASE s # "offline" /\ status \notin {"unknown", "offline"} /\ Redirect(s, to) = route
  <2>1. status' = s /\ net' = nets /\ UNCHANGED <<route, preview, adm, ctx, dash>> BY <1>8, <1>15 DEF SetStatus
  <2>2. route \in {"signin", "invite"}
    <3>1. CASE s = "out"
      <4>1. route \in Routes BY PagesAre
      <4> QED BY <1>15, <3>1, <4>1, ConsoleAssumption DEF Redirect, Routes, ConsoleAssumption
    <3>2. CASE s \in Account
      <4>1. net[i].flow # "stay" BY <1>1, <1>2, <1>15, <3>2, StatusAnswer
      <4> QED BY <1>1, <4>1, StatusAnswer
    <3> QED BY <1>15, <3>1, <3>2
  <2>3. nets[i] = after BY <1>7
  <2>4. \A tok2, st : st # "unknown" => Fits(nets[i], owner, tok2, st, route) BY <1>1, <1>5, <2>3, StatusNext
  <2>5. token' \in {0, token} /\ stored' \in Workspace \cup {NoWhere} /\ status' \in Account \cup {"out"}
        /\ (token' # 0 => status' = owner[token'])
    BY <1>8, <1>12, <1>13, <1>15, <2>1
  <2> QED BY <1>9, <2>1, <2>2, <2>4, <2>5, SameStatusPageKeeps
<1>16. CASE s # "offline" /\ ~(status \notin {"unknown", "offline"} /\ Redirect(s, to) = route)
  <2>1. PICK page \in Routes : page = Redirect(s, to) BY DEF Redirect, Routes
  <2>2. status' = s /\ Enter(nets, page, tok, ws) BY <1>8, <1>16, <2>1 DEF SetStatus
  <2>3. page \in SignedIn => s \in Account BY <1>16, <2>1 DEF Redirect, SignedIn
  <2>4. Started(nets, i, page)
    <3>1. ASSUME NEW k \in Slots, Signing(nets[k]) PROVE page = route
      <4>1. to = route /\ route \in {"signin", "invite"}
        <5>1. Fits(nets[k], owner, token, status, route) BY <1>9 DEF Started
        <5>2. route \in {"signin", "invite"} BY <3>1, <5>1 DEF Fits, Provided
        <5> QED BY <1>9, <3>1, <5>2 DEF Started
      <4>2. CASE s \in Account /\ route = "signin"
        <5>1. net[i].flow \notin {"enter", "joined"} BY <1>1, <1>6, <4>1, <4>2, StatusAnswer
        <5>2. status = "unknown" BY <1>1, <1>2, <4>2, <5>1, StatusAnswer
        <5>3. nets[k] = Idle
          <6>1. after = Idle BY <1>5, <5>1
          <6>2. \A l \in Slots \ {i} : net[l] = Idle BY <1>1, <5>2, StatusAnswer
          <6> QED BY <1>7, <6>1, <6>2
        <5> QED BY <3>1, <5>3, RequestsNamed DEF Signing, SigningIn
      <4>3. CASE ~(s \in Account /\ route = "signin") BY <2>1, <4>1, <4>3 DEF Redirect
      <4> QED BY <4>2, <4>3
    <3> QED BY <1>9, <3>1 DEF Started
  <2>5. token' \in {0, token} /\ stored' \in Workspace \cup {NoWhere} /\ status' \in Account \cup {"out"}
        /\ (token' # 0 => status' = owner[token']) /\ Enter(nets, page, token', ws)
        /\ (page \in SignedIn => status' \in Account)
    BY <1>8, <1>12, <1>13, <1>16, <2>2, <2>3
  <2> QED BY <2>4, <2>5, NewPageKeeps
<1> QED BY <1>14, <1>15, <1>16

\* The tab is loaded anew.
LEMMA FirstStatusFits ==
  ASSUME NEW own \in Seq(Account), NEW tok \in 0..Len(own), NEW ws \in Workspace \cup {NoWhere}, NEW rt
  PROVE  LET q == Request("status", "stay", tok, ws) IN
         q \in Requests /\ q.op = "status" /\ ~Signing(q) /\ Fits(q, own, tok, "unknown", rt)
<1> DEFINE q == Request("status", "stay", tok, ws)
<1>1. Len(own) \in Nat /\ "status" \in Ops /\ "stay" \in Flows BY LenProperties DEF Ops, AuthOps, Flows
<1>2. q \in Requests /\ q.op = "status" /\ q.flow = "stay" /\ q.tok = tok /\ q.ans = NoAnswer
  <2>1. tok \in Nat BY <1>1
  <2> QED BY <1>1, <2>1, RequestSent
<1> HIDE DEF q
<1>3. ~Signing(q) BY <1>2 DEF Signing, SigningIn
<1>4. Honest(q, own) BY <1>1, <1>2, RequestsNamed DEF Honest, PageOps
<1>5. Waited(q, own, "unknown", rt) BY <1>2 DEF Waited, PageOps
<1>6. Provided(q, tok, "unknown", rt) BY <1>2, <1>3 DEF Provided
<1> QED BY <1>2, <1>3, <1>4, <1>5, <1>6 DEF Fits, q

\* Alone with the first request, nothing is shown.
LEMMA FirstNet ==
  ASSUME NEW own \in Seq(Account), NEW tok \in 0..Len(own), NEW ws \in Workspace \cup {NoWhere}, NEW rt,
         NEW nets, nets = Mount(tok, ws)
  PROVE  /\ nets \in [Slots -> Requests] /\ \E k \in Slots : nets[k].op = "status"
         /\ \A k \in Slots : Fits(nets[k], own, tok, "unknown", rt)
         /\ \A k \in Slots : ~Signing(nets[k])
         /\ \A k, l \in Slots : nets[k] # Idle /\ nets[l] # Idle => k = l
<1> DEFINE q == Request("status", "stay", tok, ws)
           none == [k \in Slots |-> Idle]
           f == SomeIdle(none)
<1>1. q \in Requests /\ q.op = "status" /\ ~Signing(q) /\ Fits(q, own, tok, "unknown", rt) BY FirstStatusFits
<1>2. f \in Slots
  <2>1. \E k \in Slots : none[k] = Idle BY ConsoleAssumption DEF ConsoleAssumption
  <2> QED BY <2>1, SomeIdleFree
<1>3. nets = [none EXCEPT ![f] = q] BY DEF Mount
<1> HIDE DEF q, f
<1>4. Idle \in Requests /\ ~Signing(Idle) /\ Fits(Idle, own, tok, "unknown", rt)
  BY RequestsNamed, IdleFits DEF Signing, SigningIn
<1>5. nets \in [Slots -> Requests] /\ nets[f] = q /\ \A k \in Slots \ {f} : nets[k] = Idle BY <1>1, <1>2, <1>3, <1>4
<1> QED BY <1>1, <1>2, <1>4, <1>5

LEMMA LoadPageKeeps ==
  ASSUME TabTypes, UNCHANGED serverVars, NEW to \in Routes, LoadPage(to)
  PROVE  ConsoleInv'
<1>1. /\ status' = "unknown" /\ route' = to /\ preview' = "none" /\ adm' = NoAdm /\ ctx' = NoCtx /\ dash' = NoDash
      /\ net' = Mount(token, stored)
      /\ UNCHANGED <<token, stored>>
  BY DEF LoadPage
<1>2. UNCHANGED owner BY DEF serverVars
<1>3. PICK own \in Seq(Account) : own = owner BY DEF TabTypes
<1>4. PICK tok \in 0..Len(own) : tok = token BY <1>3 DEF TabTypes, Tokens
<1>5. PICK ws \in Workspace \cup {NoWhere} : ws = stored BY DEF TabTypes
<1>6. PICK nets : nets = Mount(tok, ws) OBVIOUS
<1>7. /\ nets \in [Slots -> Requests] /\ \E k \in Slots : nets[k].op = "status"
      /\ \A k \in Slots : Fits(nets[k], own, tok, "unknown", to)
      /\ \A k \in Slots : ~Signing(nets[k])
      /\ \A k, l \in Slots : nets[k] # Idle /\ nets[l] # Idle => k = l
  <2>1. nets \in [Slots -> Requests] BY <1>6, FirstNet
  <2>5. \E k \in Slots : nets[k].op = "status" BY <1>6, FirstNet
  <2>2. \A k \in Slots : Fits(nets[k], own, tok, "unknown", to) BY <1>6, FirstNet
  <2>3. \A k \in Slots : ~Signing(nets[k]) BY <1>6, FirstNet
  <2>4. \A k, l \in Slots : nets[k] # Idle /\ nets[l] # Idle => k = l BY <1>6, FirstNet
  <2> QED BY <2>1, <2>2, <2>3, <2>4, <2>5
<1>8. net' = nets BY <1>1, <1>4, <1>5, <1>6
<1>9. \A k \in Slots : Fits(net'[k], owner', token', status', route') BY <1>1, <1>2, <1>3, <1>4, <1>7, <1>8
<1>10. NetInv'
  <2>1. OneSigning' BY <1>7, <1>8 DEF OneSigning
  <2>2. UnknownAlone' BY <1>7, <1>8 DEF UnknownAlone
  <2> QED BY <1>9, <2>1, <2>2 DEF NetInv
<1>11. adm' \in Shell /\ adm'.of = NoOne /\ ~adm'.error /\ ctx' \in SharedPage /\ ctx'.of = NoOne /\ ~ctx'.on
      /\ dash' \in Board /\ dash'.of = NoOne /\ dash'.by = NoOne
  BY <1>1 DEF NoAdm, Shell, NoCtx, SharedPage, NoDash, Board
<1>12. PagesInv'
  <2>1. OwnDataAlwaysShown' BY <1>11 DEF OwnDataAlwaysShown
  <2>2. Blank' BY <1>11 DEF Blank
  <2>3. Listed' BY <1>1 DEF Listed
  <2>4. PagesThere' BY <1>1, <1>11 DEF PagesThere
  <2> QED BY <2>1, <2>2, <2>3, <2>4 DEF PagesInv
<1>13. ConsoleTypes'
  <2>1. UNCHANGED <<owner, revoked, registered, members, admins>> BY DEF serverVars
  <2>2. TabTypes' BY <1>1, <1>7, <1>8, <1>11, <2>1 DEF TabTypes, Tokens
  <2> QED BY <1>11, <2>2 DEF ConsoleTypes
<1>14. TokenSettled' BY <1>7, <1>8 DEF TokenSettled
<1>15. PageToken' BY <1>1, ConsoleAssumption DEF PageToken, ConsoleAssumption
<1> QED BY <1>10, <1>12, <1>13, <1>14, <1>15 DEF ConsoleInv

-----------------------------------------------------------------------------
(* The server, and the network.                                            *)

\* A session that is issued changes nothing for the tokens there are.
LEMMA MoreSessions ==
  ASSUME NEW own \in Seq(Account), NEW to \in Account, NEW r, NEW tok, NEW st, NEW rt,
         r.tok \in Nat, Fits(r, own, tok, st, rt)
  PROVE  Fits(r, Append(own, to), tok, st, rt)
<1> DEFINE more == Append(own, to)
<1>1. Len(own) \in Nat /\ Len(more) = Len(own) + 1 /\ \A k \in 1..Len(own) : more[k] = own[k]
  BY AppendProperties, LenProperties
<1>2. {r.tok, r.ans.tok} \subseteq 0..Len(own) BY DEF Fits, Honest
<1>3. r.tok # 0 => more[r.tok] = own[r.tok] BY <1>1, <1>2
<1> HIDE DEF more
<1>4. {r.tok, r.ans.tok} \subseteq 0..Len(more) BY <1>1, <1>2
<1>5. Honest(r, more) BY <1>3, <1>4 DEF Fits, Honest
<1>6. Waited(r, more, st, rt) BY <1>3 DEF Fits, Waited
<1>7. Fits(r, more, tok, st, rt) BY <1>5, <1>6 DEF Fits
<1> QED BY <1>7 DEF more

\* The answer to a request, or its loss.
LEMMA AnswerKeeps ==
  ASSUME ConsoleInv, NEW i \in Slots, net[i].op # "none", NEW ans \in Answered,
         net' = [net EXCEPT ![i].ans = ans], NEW own \in Seq(Account), owner' = own,
         Len(own) \in {Len(owner), Len(owner) + 1},
         \A k \in Slots : Fits(net[k], own, token, status, route),
         \A t \in 1..Len(owner) : own[t] = owner[t],
         ans.tok \in 0..Len(own),
         ans.ok /\ net[i].op \in PageOps => net[i].tok # 0 /\ ans.who = own[net[i].tok],
         ans.ok /\ net[i].op = "status" /\ ans.who # NoOne => net[i].tok # 0 /\ ans.who = own[net[i].tok],
         revoked' \subseteq 1..Len(own), registered' \subseteq Account,
         UNCHANGED <<members, admins, token, stored, status, route, preview, adm, ctx, dash>>
  PROVE  ConsoleInv'
<1>1. net \in [Slots -> Requests] /\ Len(owner) \in Nat /\ token \in 0..Len(owner)
  BY RequestsFollow DEF ConsoleInv, ConsoleTypes, TabTypes, Tokens
<1> DEFINE r == net[i]
           q == [r EXCEPT !.ans = ans]
<1>2. net' = [net EXCEPT ![i] = q] BY <1>1
<1>3. /\ q \in Requests /\ q.op = r.op /\ q.flow = r.flow /\ q.tok = r.tok /\ q.ws = r.ws /\ q.shown = r.shown
      /\ q.live = r.live /\ q.who = r.who /\ q.ans = ans
  BY <1>1 DEF Requests
<1>4. /\ r = net[i] /\ r.op # "none" OBVIOUS
<1> HIDE DEF q, r
<1>5. net' \in [Slots -> Requests] /\ net'[i] = q /\ \A k \in Slots \ {i} : net'[k] = net[k] BY <1>1, <1>2, <1>3
<1>6. Fits(q, own, token, status, route)
  <2>1. Fits(r, own, token, status, route) BY <1>4
  <2>2. Honest(q, own) BY <1>3, <1>4, <2>1 DEF Fits, Honest
  <2>3. Waited(q, own, status, route) BY <1>3, <2>1 DEF Fits, Waited
  <2>4. Provided(q, token, status, route)
    <3>1. Provided(r, token, status, route) /\ r # Idle BY <1>4, <2>1, RequestsNamed DEF Fits
    <3>2. Signing(q) => Signing(r) BY <1>3 DEF Signing, SigningIn
    <3> QED BY <1>3, <3>1, <3>2 DEF Provided
  <2> QED BY <2>2, <2>3, <2>4 DEF Fits
<1>7. \A k \in Slots : Fits(net'[k], own, token, status, route) BY <1>5, <1>6
<1>8. NetInv'
  <2>1. \A k \in Slots : Signing(net'[k]) => Signing(net[k]) BY <1>3, <1>4, <1>5 DEF Signing, SigningIn
  <2>2. OneSigning' BY <2>1 DEF ConsoleInv, NetInv, OneSigning
  <2>3. \A k \in Slots : net'[k] # Idle => net[k] # Idle BY <1>4, <1>5, RequestsNamed
  <2>4. UnknownAlone' BY <2>3 DEF ConsoleInv, NetInv, UnknownAlone
  <2> QED BY <1>7, <2>2, <2>4 DEF NetInv
<1>9. TokenSettled'
  <2>1. \A k \in Slots : net'[k].op = net[k].op BY <1>3, <1>4, <1>5
  <2> QED BY <1>1, <2>1 DEF ConsoleInv, TokenSettled
<1>10. PageToken' BY <1>1 DEF ConsoleInv, PageToken
<1>11. PagesInv' BY PagesAre DEF PagesInv, OwnDataAlwaysShown, Blank, Listed, PagesThere
<1>12. ConsoleTypes'
  <2>2. token' \in 0..Len(own) BY <1>1
  <2>3. TabTypes' BY <1>5, <2>2 DEF ConsoleInv, ConsoleTypes, TabTypes, Tokens
  <2> QED BY <2>3, PagesAre DEF ConsoleTypes
<1> QED BY <1>8, <1>9, <1>10, <1>11, <1>12 DEF ConsoleInv

LEMMA FailKeeps ==
  ASSUME ConsoleInv, NEW i \in Slots, Fail(i)
  PROVE  ConsoleInv'
<1>1. PICK ans \in Answered : ans = [NoAnswer EXCEPT !.got = TRUE] /\ ans.tok = 0 /\ ~ans.ok
  <2>1. [NoAnswer EXCEPT !.got = TRUE] \in Answered BY RequestsNamed DEF Answered
  <2>2. [NoAnswer EXCEPT !.got = TRUE].tok = 0 /\ ~[NoAnswer EXCEPT !.got = TRUE].ok BY RequestsNamed DEF NoAnswer
  <2> QED BY <2>1, <2>2
<1>2. PICK own \in Seq(Account) : own = owner BY RequestsFollow
<1>3. /\ net[i].op # "none" /\ net' = [net EXCEPT ![i].ans = ans] /\ owner' = own
      /\ UNCHANGED <<revoked, registered, members, admins, token, stored, status, route, preview, adm, ctx, dash>>
  BY <1>1, <1>2 DEF Fail, Answer
<1>4. /\ Len(own) = Len(owner) /\ Len(own) \in Nat /\ revoked' \subseteq 1..Len(own)
      /\ registered' \subseteq Account /\ \A k \in Slots : Fits(net[k], own, token, status, route)
  BY <1>2, <1>3, RequestsFollow DEF ConsoleInv, ConsoleTypes, TabTypes
<1>5. ans.tok \in 0..Len(own) BY <1>1, <1>4
<1> QED BY <1>1, <1>2, <1>3, <1>4, <1>5, AnswerKeeps

\* The account behind a token is the one it was issued to.
LEMMA OwnerIs ==
  ASSUME ConsoleInv, NEW t \in 0..Len(owner)
  PROVE  Owner(t) \in Account \cup {NoOne} /\ (Owner(t) # NoOne => t # 0 /\ Owner(t) = owner[t])
<1>1. owner \in Seq(Account) /\ Len(owner) \in Nat BY RequestsFollow
<1>2. t # 0 => owner[t] \in Account BY <1>1, ElementOfSeq
<1> QED BY <1>2 DEF Owner

LEMMA ServeKeeps ==
  ASSUME ConsoleInv, NEW i \in Slots, Serve(i)
  PROVE  ConsoleInv'
<1>1. PICK r \in Requests : r = net[i] /\ Honest(r, owner) /\ r.tok \in 0..Len(owner)
  BY RequestsFollow DEF Fits, Honest
<1>2. PICK who \in Account \cup {NoOne} : who = Owner(r.tok) /\ (who # NoOne => r.tok # 0 /\ who = owner[r.tok])
  BY <1>1, OwnerIs
<1>3. owner \in Seq(Account) /\ Len(owner) \in Nat /\ revoked \subseteq 1..Len(owner)
      /\ registered \subseteq Account /\ members \in [Account -> SUBSET Workspace] /\ admins \in [Account -> SUBSET Workspace]
      /\ \A k \in Slots : Fits(net[k], owner, token, status, route) /\ net[k].tok \in Nat
  BY RequestsFollow DEF ConsoleInv, ConsoleTypes, TabTypes, Requests
<1>4. /\ r.op # "none" /\ revoked' = RevokedBy(r)
      /\ UNCHANGED <<members, admins, token, stored, status, route, preview, adm, ctx, dash>>
  BY <1>1 DEF Serve, Pending
<1>5. revoked' \subseteq 1..Len(owner)
  <2>1. {r.tok} \ {0} \subseteq 1..Len(owner) BY <1>1, <1>3
  <2>2. revoked' \subseteq revoked \cup ({r.tok} \ {0}) BY <1>4 DEF RevokedBy
  <2> QED BY <1>3, <2>1, <2>2
<1>6. CASE Starts(r)
  <2>1. PICK to \in Account : to = IF r.op = "login" THEN r.who ELSE Invited
    BY <1>1, ConsoleAssumption DEF Honest, ConsoleAssumption
  <2> DEFINE a == [NoAnswer EXCEPT !.ok = TRUE, !.who = to, !.tok = Len(owner) + 1]
  <2>2. a \in Answered /\ a.tok = Len(owner) + 1
    <3>1. Len(owner) + 1 \in Nat BY <1>3
    <3> QED BY <3>1 DEF NoAnswer, Answered
  <2>3. PICK ans \in Answered : ans = [a EXCEPT !.got = TRUE] /\ ans.tok = Len(owner) + 1
    <3> HIDE DEF a
    <3>1. [a EXCEPT !.got = TRUE] \in Answered /\ [a EXCEPT !.got = TRUE].tok = a.tok BY <2>2 DEF Answered
    <3> QED BY <2>2, <3>1
  <2>4. PICK own \in Seq(Account) : own = Append(owner, to)
    <3>1. Append(owner, to) \in Seq(Account) BY <1>3, AppendProperties
    <3> QED BY <3>1
  <2>5. /\ owner' = own /\ registered' = registered \cup {to}
        /\ net' = [net EXCEPT ![i].ans = ans]
    BY <1>1, <1>2, <1>6, <2>1, <2>3, <2>4 DEF Serve, Answer
  <2>6. r.op \in {"login", "accept"} BY <1>6 DEF Starts
  <2>7. Len(own) = Len(owner) + 1 /\ \A t \in 1..Len(owner) : own[t] = owner[t]
    BY <1>3, <2>4, AppendProperties
  <2>8. \A k \in Slots : Fits(net[k], own, token, status, route) BY <1>3, <2>4, MoreSessions
  <2>9. /\ ans.tok \in 0..Len(own) /\ revoked' \subseteq 1..Len(own)
        /\ registered' \subseteq Account
    BY <1>3, <1>5, <2>3, <2>5, <2>7
  <2>10. net[i].op \notin PageOps /\ net[i].op # "status" /\ net[i].op # "none" BY <1>1, <2>6 DEF PageOps
  <2> HIDE DEF a
  <2> QED BY <1>4, <2>3, <2>4, <2>5, <2>7, <2>8, <2>9, <2>10, AnswerKeeps
<1>7. CASE ~Starts(r)
  <2>1. r.op \in Ops /\ r.op # "login" BY <1>4, <1>7 DEF Starts, Requests
  <2>2. PICK ok \in BOOLEAN : ok = Granted(r.op, who, r.ws) /\ (ok /\ r.op \in PageOps => who # NoOne)
    <3>1. Granted(r.op, who, r.ws) \in BOOLEAN
      BY <2>1 DEF Granted, AdminScope, Authenticated, ContextListed, Manages, MemberOf, Ops, AuthOps
    <3>2. Granted(r.op, who, r.ws) /\ r.op \in PageOps => who # NoOne
      BY DEF Granted, AdminScope, Authenticated, ContextListed, Manages, MemberOf, PageOps
    <3> QED BY <3>1, <3>2
  <2>3. PICK named \in Account \cup {NoOne} : named = Named(r.op, who) /\ (r.op # "preview" => named = who)
    BY ConsoleAssumption DEF Named, ConsoleAssumption
  <2>4. PICK list \in SUBSET Workspace : list = Listing(r.op, who)
    BY <1>3 DEF Listing, VisibleWorkspaces, WorkspaceMemberships, Authenticated
  <2> DEFINE a == IF ok THEN [NoAnswer EXCEPT !.ok = TRUE, !.who = named, !.list = list] ELSE NoAnswer
  <2>5. a \in Answered /\ a.tok = 0 /\ a.ok = ok /\ (ok => a.who = named) BY RequestsNamed DEF Answered
  <2>6. PICK ans \in Answered : ans = [a EXCEPT !.got = TRUE] /\ ans.tok = 0 /\ ans.ok = ok /\ (ok => ans.who = named)
    <3> HIDE DEF a
    <3>1. /\ [a EXCEPT !.got = TRUE] \in Answered /\ [a EXCEPT !.got = TRUE].tok = a.tok
          /\ [a EXCEPT !.got = TRUE].ok = a.ok /\ [a EXCEPT !.got = TRUE].who = a.who
      BY <2>5 DEF Answered
    <3> QED BY <2>5, <3>1
  <2>7. PICK own \in Seq(Account) : own = owner BY <1>3
  <2>8. owner' = own /\ registered' = registered /\ net' = [net EXCEPT ![i].ans = ans]
    BY <1>1, <1>2, <1>7, <2>2, <2>3, <2>4, <2>6, <2>7 DEF Serve, Answer
  <2>9. /\ Len(own) = Len(owner) /\ ans.tok \in 0..Len(own) /\ revoked' \subseteq 1..Len(own)
        /\ registered' \subseteq Account /\ \A k \in Slots : Fits(net[k], own, token, status, route)
    BY <1>3, <1>5, <2>6, <2>7, <2>8
  <2>10. /\ ans.ok /\ net[i].op \in PageOps => net[i].tok # 0 /\ ans.who = own[net[i].tok]
         /\ ans.ok /\ net[i].op = "status" /\ ans.who # NoOne => net[i].tok # 0 /\ ans.who = own[net[i].tok]
    <3>1. "preview" \notin PageOps BY DEF PageOps
    <3> QED BY <1>1, <1>2, <2>2, <2>3, <2>6, <2>7, <3>1
  <2> HIDE DEF a
  <2> QED BY <1>1, <1>4, <2>6, <2>7, <2>8, <2>9, <2>10, AnswerKeeps
<1> QED BY <1>6, <1>7

\* A session that ends, and an account that loses a workspace, only change what
\* the server answers from then on.
LEMMA ServerKeeps ==
  ASSUME ConsoleInv, revoked' \subseteq 1..Len(owner),
         members' \in [Account -> SUBSET Workspace], admins' \in [Account -> SUBSET Workspace],
         UNCHANGED <<owner, registered, token, stored, status, route, preview, adm, ctx, dash, net>>
  PROVE  ConsoleInv'
<1>1. ConsoleTypes' BY DEF ConsoleInv, ConsoleTypes, TabTypes, Tokens
<1>2. NetInv' BY DEF ConsoleInv, NetInv, OneSigning, UnknownAlone
<1>3. TokenSettled' BY DEF ConsoleInv, TokenSettled
<1>4. PageToken' BY DEF ConsoleInv, PageToken
<1>5. PagesInv' BY PagesAre DEF PagesInv, OwnDataAlwaysShown, Blank, Listed, PagesThere
<1> QED BY <1>1, <1>2, <1>3, <1>4, <1>5 DEF ConsoleInv

LEMMA SessionEndsKeeps ==
  ASSUME ConsoleInv, NEW t, SessionEnds(t)
  PROVE  ConsoleInv'
<1>1. /\ revoked' \subseteq 1..Len(owner) /\ members' \in [Account -> SUBSET Workspace] /\ admins' \in [Account -> SUBSET Workspace]
      /\ UNCHANGED <<owner, registered, token, stored, status, route, preview, adm, ctx, dash, net>>
  BY DEF SessionEnds, ConsoleInv, ConsoleTypes, TabTypes
<1> QED BY <1>1, ServerKeeps

LEMMA UnassignKeeps ==
  ASSUME ConsoleInv, NEW a, NEW w, Unassign(a, w)
  PROVE  ConsoleInv'
<1>1. /\ revoked' \subseteq 1..Len(owner) /\ members' \in [Account -> SUBSET Workspace] /\ admins' \in [Account -> SUBSET Workspace]
      /\ UNCHANGED <<owner, registered, token, stored, status, route, preview, adm, ctx, dash, net>>
  BY DEF Unassign, ConsoleInv, ConsoleTypes, TabTypes
<1> QED BY <1>1, ServerKeeps
-----------------------------------------------------------------------------
(* The steps together, until two sign-ins overlap.                          *)

LEMMA ConsoleStarts == ConsoleInit => ConsoleInv
<1> SUFFICES ASSUME ConsoleInit PROVE ConsoleInv OBVIOUS
<1>1. /\ owner = <<>> /\ owner \in Seq(Account) /\ Len(owner) = 0 /\ token = 0 /\ stored = NoWhere
      /\ status = "unknown" /\ route \in {"landing", "invite"}
      /\ preview = "none" /\ adm = NoAdm /\ ctx = NoCtx /\ dash = NoDash
  BY EmptySeq DEF ConsoleInit
<1>2. PICK nets : nets = Mount(0, NoWhere) OBVIOUS
<1>3. PICK own \in Seq(Account) : own = owner /\ Len(own) = 0 BY <1>1
<1>4. /\ nets \in [Slots -> Requests]
      /\ \A k \in Slots : ~Signing(nets[k])
      /\ \A k, l \in Slots : nets[k] # Idle /\ nets[l] # Idle => k = l
  <2>1. 0 \in 0..Len(own) BY <1>3
  <2>2. nets \in [Slots -> Requests] BY <1>2, <2>1, FirstNet
  <2>3. \A k \in Slots : ~Signing(nets[k]) BY <1>2, <2>1, FirstNet
  <2>4. \A k, l \in Slots : nets[k] # Idle /\ nets[l] # Idle => k = l BY <1>2, <2>1, FirstNet
  <2> QED BY <2>2, <2>3, <2>4
<1>5. net = nets BY <1>2 DEF ConsoleInit
<1>6. \A k \in Slots : Fits(net[k], owner, token, status, route)
  <2>1. 0 \in 0..Len(own) BY <1>3
  <2>2. PICK rt : rt = route OBVIOUS
  <2>3. \A k \in Slots : Fits(nets[k], own, 0, "unknown", rt) BY <1>2, <2>1, FirstNet
  <2> QED BY <1>1, <1>3, <1>5, <2>2, <2>3
<1>7. NetInv
  <2>1. OneSigning BY <1>4, <1>5 DEF OneSigning
  <2>2. UnknownAlone BY <1>4, <1>5 DEF UnknownAlone
  <2> QED BY <1>6, <2>1, <2>2 DEF NetInv
<1>8. adm \in Shell /\ adm.of = NoOne /\ ~adm.error /\ ctx \in SharedPage /\ ctx.of = NoOne /\ ~ctx.on
      /\ dash \in Board /\ dash.of = NoOne /\ dash.by = NoOne
  BY <1>1 DEF NoAdm, Shell, NoCtx, SharedPage, NoDash, Board
<1>9. PagesInv
  <2>1. OwnDataAlwaysShown BY <1>8 DEF OwnDataAlwaysShown
  <2>2. Blank BY <1>8 DEF Blank
  <2>3. Listed BY <1>1 DEF Listed
  <2>4. PagesThere BY <1>1, <1>8 DEF PagesThere
  <2> QED BY <2>1, <2>2, <2>3, <2>4 DEF PagesInv
<1>10. ConsoleTypes
  <2>1. /\ revoked \subseteq 1..Len(owner) /\ registered \subseteq Account
        /\ members \in [Account -> SUBSET Workspace] /\ admins \in [Account -> SUBSET Workspace]
    BY <1>1 DEF ConsoleInit
  <2>2. token \in Tokens /\ stored \in Workspace \cup {NoWhere} /\ route \in Routes
        /\ status \in Account \cup {"unknown", "offline", "out"}
    BY <1>1 DEF Tokens, Routes
  <2>3. TabTypes BY <1>1, <1>4, <1>5, <1>8, <2>1, <2>2 DEF TabTypes
  <2> QED BY <1>8, <2>3 DEF ConsoleTypes
<1>11. TokenSettled /\ PageToken BY <1>1 DEF TokenSettled, PageToken
<1> QED BY <1>7, <1>9, <1>10, <1>11 DEF ConsoleInv

LEMMA ArriveKeeps ==
  ASSUME ConsoleInv, NEW i \in Slots, Arrive(i)
  PROVE  ConsoleInv'
<1>1. UNCHANGED serverVars BY DEF Arrive
<1>2. CASE StatusArrives(i) BY <1>1, <1>2, StatusKeeps
<1>3. CASE LoginArrives(i) BY <1>1, <1>3, LoginKeeps
<1>4. CASE LogoutArrives(i) BY <1>1, <1>4, LogoutKeeps
<1>5. CASE AcceptArrives(i) BY <1>1, <1>5, AcceptKeeps
<1>6. CASE BootstrapArrives(i) BY <1>1, <1>6, BootstrapKeeps
<1>7. CASE WriteArrives(i) BY <1>1, <1>7, WriteKeeps
<1>8. CASE ContextArrives(i) BY <1>1, <1>8, ContextKeeps
<1>9. CASE ShareArrives(i) BY <1>1, <1>9, ShareKeeps
<1>10. CASE ListArrives(i) BY <1>1, <1>10, ListKeeps
<1>11. CASE GenerateArrives(i) BY <1>1, <1>11, GenerateKeeps
<1>12. CASE PreviewArrives(i) BY <1>1, <1>12, PreviewKeeps
<1> QED BY <1>2, <1>3, <1>4, <1>5, <1>6, <1>7, <1>8, <1>9, <1>10, <1>11, <1>12 DEF Arrive

LEMMA UserKeeps ==
  ASSUME ConsoleInv, UserActs, ~overlapped'
  PROVE  ConsoleInv'
<1>1. UNCHANGED serverVars BY DEF UserActs
<1>2. CASE SignIn BY <1>1, <1>2, SignInKeeps
<1>3. CASE Join BY <1>1, <1>3, JoinKeeps
<1>4. CASE SignOut BY <1>1, <1>4, SignOutKeeps
<1>5. CASE OpenContext BY <1>1, <1>5, OpenContextKeeps
<1>6. CASE OpenManage BY <1>1, <1>6, OpenManageKeeps
<1>7. CASE Write BY <1>1, <1>7, WriteSentKeeps
<1>8. CASE Retry BY <1>1, <1>8, RetryKeeps
<1>9. CASE Share BY <1>1, <1>9, ShareSentKeeps
<1>10. CASE Generate BY <1>1, <1>10, GenerateSentKeeps
<1>11. ASSUME NEW w \in Workspace, SelectWorkspace(w) PROVE ConsoleInv' BY <1>1, <1>11, SelectKeeps
<1>12. ASSUME NEW w \in Workspace, ChangeWorkspace(w) PROVE ConsoleInv' BY <1>1, <1>12, ChangeKeeps
<1>13. ASSUME NEW to \in {"admin", "dashboard"}, Visit(to) PROVE ConsoleInv' BY <1>1, <1>13, VisitKeeps
<1>14. ASSUME NEW to \in Routes, LoadPage(to) PROVE ConsoleInv'
  BY <1>1, <1>14, LoadPageKeeps DEF ConsoleInv, ConsoleTypes
<1>15. CASE ReturnToForm BY <1>1, <1>15, ReturnKeeps
<1> QED BY <1>2, <1>3, <1>4, <1>5, <1>6, <1>7, <1>8, <1>9, <1>10, <1>11, <1>12, <1>13, <1>14, <1>15 DEF UserActs

LEMMA StrongKeeps == ConsoleInv /\ [ConsoleNext]_consoleVars /\ ~overlapped' => ConsoleInv'
<1> SUFFICES ASSUME ConsoleInv, [ConsoleNext]_consoleVars, ~overlapped' PROVE ConsoleInv' OBVIOUS
<1>1. ASSUME NEW i \in Slots, Arrive(i) PROVE ConsoleInv' BY <1>1, ArriveKeeps
<1>2. ASSUME NEW i \in Slots, Serve(i) PROVE ConsoleInv' BY <1>2, ServeKeeps
<1>3. ASSUME NEW i \in Slots, Fail(i) PROVE ConsoleInv' BY <1>3, FailKeeps
<1>4. CASE UserActs BY <1>4, UserKeeps
<1>5. ASSUME NEW t \in 1..Len(owner), SessionEnds(t) PROVE ConsoleInv' BY <1>5, SessionEndsKeeps
<1>6. ASSUME NEW a \in Reassigned, NEW w \in Workspace, Unassign(a, w) PROVE ConsoleInv' BY <1>6, UnassignKeeps
<1>7. CASE UNCHANGED consoleVars
  <2>1. /\ UNCHANGED <<owner, registered, token, stored, status, route, preview, adm, ctx, dash, net>>
        /\ revoked' \subseteq 1..Len(owner)
        /\ members' \in [Account -> SUBSET Workspace] /\ admins' \in [Account -> SUBSET Workspace]
    BY <1>7 DEF consoleVars, ConsoleInv, ConsoleTypes, TabTypes
  <2> QED BY <2>1, ServerKeeps
<1> QED BY <1>1, <1>2, <1>3, <1>4, <1>5, <1>6, <1>7 DEF ConsoleNext

-----------------------------------------------------------------------------
(* What holds whatever overlaps: types, and the list of the console.       *)

\* The requests and answers the handlers and the server put on their way.
Requested(own) ==
  {r \in Requests : /\ {r.tok, r.ans.tok} \subseteq 0..Len(own)
                    /\ r.op = "login" => r.who \in Account
                    /\ r.op = "none" => r = Idle}
PageTypes ==
  /\ stored \in Workspace \cup {NoWhere} /\ status \in Account \cup {"unknown", "offline", "out"} /\ route \in Routes
  /\ preview \in {"none", "loading", "new", "existing", "error"}
  /\ adm \in Shell /\ ctx \in SharedPage /\ dash \in Board
Typed == TabTypes /\ net \in [Slots -> Requested(owner)] /\ Listed /\ overlapped \in BOOLEAN

LEMMA TypedIs ==
  ASSUME Typed
  PROVE  /\ owner \in Seq(Account) /\ Len(owner) \in Nat /\ token \in 0..Len(owner)
         /\ net \in [Slots -> Requested(owner)] /\ PageTypes
         /\ \A k \in Slots : /\ net[k] \in Requests /\ net[k].ans \in Answered
                             /\ net[k].tok \in 0..Len(owner) /\ net[k].ans.tok \in 0..Len(owner)
                             /\ net[k].op = "login" => net[k].who \in Account
<1>1. owner \in Seq(Account) /\ Len(owner) \in Nat BY LenProperties DEF Typed, TabTypes
<1>2. token \in 0..Len(owner) /\ PageTypes BY DEF Typed, TabTypes, Tokens, PageTypes
<1>3. net \in [Slots -> Requested(owner)] BY DEF Typed
<1>4. ASSUME NEW k \in Slots
      PROVE  /\ net[k] \in Requests /\ net[k].ans \in Answered
             /\ net[k].tok \in 0..Len(owner) /\ net[k].ans.tok \in 0..Len(owner)
             /\ net[k].op = "login" => net[k].who \in Account
  <2>1. net[k] \in Requested(owner) BY <1>3
  <2> QED BY <2>1 DEF Requested, Requests
<1> QED BY <1>1, <1>2, <1>3, <1>4

LEMMA TypedStep ==
  ASSUME Typed, UNCHANGED serverVars, token' \in 0..Len(owner), PageTypes', Listed', overlapped' \in BOOLEAN,
         net' \in [Slots -> Requested(owner)]
  PROVE  Typed'
<1>1. UNCHANGED <<owner, revoked, registered, members, admins>> BY DEF serverVars
<1>2. net' \in [Slots -> Requests] BY DEF Requested
<1>3. TabTypes' BY <1>1, <1>2 DEF Typed, TabTypes, PageTypes, Tokens
<1> QED BY <1>1, <1>3 DEF Typed

LEMMA IdleRequested ==
  ASSUME NEW own \in Seq(Account)
  PROVE  Idle \in Requested(own)
<1>1. Len(own) \in Nat BY LenProperties
<1> QED BY <1>1, RequestsNamed DEF Requested

LEMMA RequestedSent ==
  ASSUME NEW own \in Seq(Account), NEW op \in Ops, op # "login", NEW flow \in Flows, NEW tok \in 0..Len(own),
         NEW ws \in Workspace \cup {NoWhere}
  PROVE  Request(op, flow, tok, ws) \in Requested(own) /\ Request(op, flow, tok, ws).op # "none"
<1> DEFINE r == Request(op, flow, tok, ws)
<1>1. Len(own) \in Nat BY LenProperties
<1>2. tok \in Nat BY <1>1
<1>3. r \in Requests /\ r.op = op /\ r.tok = tok /\ r.ans = NoAnswer BY <1>2, RequestSent
<1>4. op # "none" BY DEF Ops, AuthOps
<1> HIDE DEF r
<1>5. r \in Requested(own) /\ r.op # "none" BY <1>1, <1>3, <1>4, RequestsNamed DEF Requested
<1> QED BY <1>5 DEF r

\* A request whose page has gone, or that shows another workspace.
LEMMA RequestedChanged ==
  ASSUME NEW own, NEW r \in Requested(own), r.op # "none", NEW live \in BOOLEAN,
         NEW ws \in Workspace \cup {NoWhere}
  PROVE  [r EXCEPT !.live = live] \in Requested(own) /\ [r EXCEPT !.shown = ws] \in Requested(own)
BY DEF Requested, Requests

LEMMA LeaveRequested ==
  ASSUME NEW own \in Seq(Account), NEW r \in Requested(own)
  PROVE  Leave(r) \in Requested(own) /\ LeaveContext(r) \in Requested(own)
<1>1. Idle \in Requested(own) BY IdleRequested
<1>2. r.op # "none" => [r EXCEPT !.live = FALSE] \in Requested(own)
  <2>1. NoWhere \in Workspace \cup {NoWhere} OBVIOUS
  <2> QED BY <2>1, RequestedChanged
<1>3. r.op = "none" => r = Idle /\ ~SigningIn(r)
  <2>1. r.op = "none" => r = Idle BY DEF Requested
  <2> QED BY <2>1, RequestsNamed DEF SigningIn
<1>4. Leave(r) \in {r, Idle} \/ (r.op # "none" /\ Leave(r) = [r EXCEPT !.live = FALSE]) BY <1>3 DEF Leave
<1>5. LeaveContext(r) \in {r, Idle} \/ (r.op # "none" /\ LeaveContext(r) = [r EXCEPT !.live = FALSE])
  BY DEF LeaveContext
<1> QED BY <1>1, <1>2, <1>4, <1>5

LEMMA LeftRequested ==
  ASSUME NEW own \in Seq(Account), NEW nets \in [Slots -> Requested(own)]
  PROVE  Left(nets) \in [Slots -> Requested(own)] /\ [k \in Slots |-> LeaveContext(nets[k])] \in [Slots -> Requested(own)]
BY LeaveRequested DEF Left

LEMMA LoadRequested ==
  ASSUME Typed, NEW nets \in [Slots -> Requested(owner)], NEW ws \in Workspace \cup {NoWhere}
  PROVE  LoadContext(nets, ws) \in [Slots -> Requested(owner)]
<1> DEFINE q == Request("context", "load", token, ws)
           ab == Aborted(nets)
<1>1. Idle \in Requested(owner) BY TypedIs, IdleRequested
<1>2. q \in Requested(owner)
  <2>1. "context" \in Ops /\ "load" \in Flows BY DEF Ops, Flows
  <2> QED BY <2>1, TypedIs, RequestedSent
<1>3. ab \in [Slots -> Requested(owner)] BY <1>1 DEF Aborted
<1>4. LoadContext(nets, ws) = [ab EXCEPT ![SomeIdle(ab)] = q] BY DEF LoadContext
<1> HIDE DEF q, ab
<1> QED BY <1>2, <1>3, <1>4

\* A page that comes.
LEMMA EnterTyped ==
  ASSUME Typed, NEW nets \in [Slots -> Requested(owner)], NEW to \in Routes, NEW tok \in 0..Len(owner),
         NEW ws \in Workspace \cup {NoWhere}, Enter(nets, to, tok, ws), stored' \in Workspace \cup {NoWhere},
         status' \in Account \cup {"unknown", "offline", "out"}
  PROVE  PageTypes' /\ Listed' /\ net' \in [Slots -> Requested(owner)]
<1> DEFINE left == Left(nets)
           op == CASE to = "dashboard" -> "list" [] to = "invite" -> "preview" [] OTHER -> "bootstrap"
           t == IF to = "invite" THEN 0 ELSE tok
           q == Request(op, "load", t, ws)
<1>1. left \in [Slots -> Requested(owner)] BY TypedIs, LeftRequested
<1>2. q \in Requested(owner)
  <2>1. op \in Ops /\ op # "login" /\ "load" \in Flows BY DEF Ops, Flows
  <2>2. t \in 0..Len(owner) /\ owner \in Seq(Account) BY TypedIs
  <2> HIDE DEF op, t
  <2> QED BY <2>1, <2>2, RequestedSent
<1>3. net' = left \/ net' = [left EXCEPT ![SomeIdle(left)] = q] BY DEF Enter
<1> HIDE DEF left, q
<1>4. net' \in [Slots -> Requested(owner)] BY <1>1, <1>2, <1>3
<1>5. /\ route' = to /\ ctx' = NoCtx /\ preview' \in {"loading", "none"} /\ dash' = NoDash
      /\ adm' = IF to \in {"landing", "admin"} THEN [NoAdm EXCEPT !.loading = TRUE, !.selected = ws] ELSE NoAdm
  BY DEF Enter
<1>6. adm' \in Shell /\ (to = "admin" => adm'.loading) BY <1>5 DEF NoAdm, Shell
<1>7. ctx' \in SharedPage /\ dash' \in Board BY <1>5 DEF NoCtx, SharedPage, NoDash, Board
<1>8. Listed' BY <1>5, <1>6 DEF Listed
<1>9. PageTypes' BY <1>5, <1>6, <1>7 DEF PageTypes
<1> QED BY <1>4, <1>8, <1>9

LEMMA SetStatusTyped ==
  ASSUME Typed, NEW nets \in [Slots -> Requested(owner)], NEW s \in Account \cup {"offline", "out"}, NEW to \in Routes,
         NEW tok \in 0..Len(owner), NEW ws \in Workspace \cup {NoWhere}, SetStatus(nets, s, to, tok, ws),
         stored' = ws
  PROVE  PageTypes' /\ Listed' /\ net' \in [Slots -> Requested(owner)]
<1>1. status' = s /\ PageTypes BY TypedIs DEF SetStatus
<1>2. CASE s = "offline"
  <2>1. net' = Left(nets) /\ route' = to /\ preview' = "none" /\ adm' = NoAdm /\ ctx' = NoCtx /\ dash' = NoDash
    BY <1>2 DEF SetStatus
  <2>2. adm' \in Shell /\ ctx' \in SharedPage /\ dash' \in Board
    BY <2>1 DEF NoAdm, Shell, NoCtx, SharedPage, NoDash, Board
  <2>3. PageTypes' BY <1>1, <2>1, <2>2 DEF PageTypes
  <2>4. Listed' BY <1>1, <1>2 DEF Listed
  <2>5. net' \in [Slots -> Requested(owner)] BY <2>1, TypedIs, LeftRequested
  <2> QED BY <2>3, <2>4, <2>5
<1>3. CASE s # "offline" /\ status \notin {"unknown", "offline"} /\ Redirect(s, to) = route
  <2>1. net' = nets /\ UNCHANGED <<route, preview, adm, ctx, dash>> BY <1>3 DEF SetStatus
  <2>2. PageTypes' BY <1>1, <2>1 DEF PageTypes
  <2>3. Listed' BY <1>3, <2>1 DEF Typed, Listed
  <2> QED BY <2>1, <2>2, <2>3
<1>4. CASE s # "offline" /\ ~(status \notin {"unknown", "offline"} /\ Redirect(s, to) = route)
  <2>1. PICK page \in Routes : page = Redirect(s, to) BY DEF Redirect, Routes
  <2>2. Enter(nets, page, tok, ws) BY <1>4, <2>1 DEF SetStatus
  <2>3. stored' \in Workspace \cup {NoWhere} /\ status' \in Account \cup {"unknown", "offline", "out"} BY <1>1
  <2> QED BY <2>2, <2>3, EnterTyped
<1> QED BY <1>2, <1>3, <1>4

-----------------------------------------------------------------------------
(* Each step keeps the types.                                              *)

\* An answer that leaves the pages and the session as they are, but for the token.
LEMMA SessionTyped ==
  ASSUME Typed, UNCHANGED serverVars, UNCHANGED <<stored, status, route, preview, adm, ctx, dash>>,
         overlapped' \in BOOLEAN, token' \in 0..Len(owner), net' \in [Slots -> Requested(owner)]
  PROVE  Typed'
<1>1. PageTypes' BY TypedIs DEF PageTypes
<1>2. Listed' BY DEF Typed, Listed
<1> QED BY <1>1, <1>2, TypedStep

\* The status requests, and the acceptance, that follow an answer.
LEMMA FollowUp ==
  ASSUME Typed, NEW tok \in 0..Len(owner), NEW ws \in Workspace \cup {NoWhere}, NEW live \in BOOLEAN,
         NEW op \in {"status", "accept", "bootstrap"}, NEW flow \in Flows
  PROVE  [Request(op, flow, tok, ws) EXCEPT !.live = live] \in Requested(owner)
<1>1. op \in Ops /\ op # "login" BY DEF Ops, AuthOps
<1>2. Request(op, flow, tok, ws) \in Requested(owner) /\ Request(op, flow, tok, ws).op # "none"
  BY <1>1, TypedIs, RequestedSent
<1> QED BY <1>2, RequestedChanged

LEMMA StatusTyped ==
  ASSUME Typed, NEW i \in Slots, UNCHANGED <<serverVars, overlapped>>, StatusArrives(i)
  PROVE  Typed'
<1>1. PICK s \in Account \cup {"offline", "out"} :
        s = IF ~net[i].ans.ok THEN "offline" ELSE IF net[i].ans.who = NoOne THEN "out" ELSE net[i].ans.who
  BY TypedIs DEF Answered
<1>2. PICK tok \in 0..Len(owner) : tok = IF Clears(s) THEN 0 ELSE token BY TypedIs
<1>3. PICK ws \in Workspace \cup {NoWhere} :
        ws = IF Clears(s) /\ (token # 0 \/ s = "offline") THEN NoWhere ELSE stored
  BY TypedIs DEF PageTypes
<1>4. PICK follow \in Requested(owner) :
        follow = IF net[i].flow = "joined" THEN [Request("accept", "enter", tok, ws) EXCEPT !.live = net[i].live] ELSE Idle
  <2>1. net[i].live \in BOOLEAN /\ "enter" \in Flows BY TypedIs DEF Requests, Flows
  <2>2. [Request("accept", "enter", tok, ws) EXCEPT !.live = net[i].live] \in Requested(owner) BY <2>1, FollowUp
  <2>3. Idle \in Requested(owner) BY TypedIs, IdleRequested
  <2> QED BY <2>2, <2>3
<1>5. PICK to \in Routes : to = IF net[i].flow = "enter" THEN "landing" ELSE route BY TypedIs DEF PageTypes, Routes
<1>6. PICK nets \in [Slots -> Requested(owner)] : nets = [net EXCEPT ![i] = follow] BY TypedIs
<1>7. token' = tok /\ stored' = ws /\ SetStatus(nets, s, to, tok, ws)
  BY <1>1, <1>2, <1>3, <1>4, <1>5, <1>6 DEF StatusArrives
<1>8. PageTypes' /\ Listed' /\ net' \in [Slots -> Requested(owner)] BY <1>7, SetStatusTyped
<1> QED BY <1>7, <1>8, TypedStep DEF Typed

LEMMA SessionAnswersTyped ==
  ASSUME Typed, NEW i \in Slots, UNCHANGED <<serverVars, overlapped>>,
         LoginArrives(i) \/ AcceptArrives(i) \/ LogoutArrives(i)
  PROVE  Typed'
<1>1. Idle \in Requested(owner) /\ net[i].live \in BOOLEAN /\ stored \in Workspace \cup {NoWhere}
      /\ {"enter", "joined", "stay"} \subseteq Flows
  BY TypedIs, IdleRequested DEF PageTypes, Requests, Flows
<1>2. CASE LoginArrives(i) \/ AcceptArrives(i)
  <2>1. PICK tok \in 0..Len(owner) : tok = token' BY <1>2, TypedIs DEF LoginArrives, AcceptArrives
  <2>2. PICK flow \in {"enter", "joined"} :
          net' = [net EXCEPT ![i] =
            IF net[i].ans.ok THEN [Request("status", flow, tok, stored) EXCEPT !.live = net[i].live] ELSE Idle]
    BY <1>2, <2>1 DEF LoginArrives, AcceptArrives
  <2>3. [Request("status", flow, tok, stored) EXCEPT !.live = net[i].live] \in Requested(owner) BY <1>1, FollowUp
  <2>4. net' \in [Slots -> Requested(owner)] BY <1>1, <2>2, <2>3, TypedIs
  <2>5. UNCHANGED <<stored, status, route, preview, adm, ctx, dash>> BY <1>2 DEF LoginArrives, AcceptArrives
  <2> QED BY <2>1, <2>4, <2>5, SessionTyped DEF Typed
<1>3. CASE LogoutArrives(i)
  <2>1. /\ token' = 0 /\ stored' = NoWhere /\ UNCHANGED <<status, route, preview, adm, ctx, dash>>
        /\ net' = [net EXCEPT ![i] = Request("status", "stay", 0, NoWhere)]
    BY <1>3 DEF LogoutArrives
  <2>2. Request("status", "stay", 0, NoWhere) \in Requested(owner)
    <3>1. "status" \in Ops /\ "stay" \in Flows BY DEF Ops, AuthOps, Flows
    <3>2. 0 \in 0..Len(owner) BY TypedIs
    <3> QED BY <3>1, <3>2, TypedIs, RequestedSent
  <2>3. net' \in [Slots -> Requested(owner)] BY <2>1, <2>2, TypedIs
  <2>4. PageTypes' BY <2>1, TypedIs DEF PageTypes
  <2>5. Listed' BY <2>1 DEF Typed, Listed
  <2>6. token' \in 0..Len(owner) /\ overlapped' \in BOOLEAN BY <2>1, TypedIs DEF Typed
  <2> QED BY <2>3, <2>4, <2>5, <2>6, TypedStep
<1> QED BY <1>2, <1>3

LEMMA BootstrapTyped ==
  ASSUME Typed, NEW i \in Slots, UNCHANGED <<serverVars, overlapped>>, BootstrapArrives(i)
  PROVE  Typed'
<1>1. PICK done \in [Slots -> Requested(owner)] : done = [net EXCEPT ![i] = Idle] BY TypedIs, IdleRequested
<1>2. UNCHANGED <<token, status>> /\ token' \in 0..Len(owner) /\ overlapped' \in BOOLEAN
  BY TypedIs DEF BootstrapArrives, Typed
<1>3. net[i].ans.list \in SUBSET Workspace /\ net[i].ans.who \in Account \cup {NoOne} /\ stored \in Workspace \cup {NoWhere}
      /\ status' \in Account \cup {"unknown", "offline", "out"}
  BY <1>2, TypedIs DEF Answered, PageTypes
<1>4. {"admin", "dashboard"} \subseteq Routes BY DEF Routes
<1>5. CASE net[i].ans.ok
  <2>1. PICK w \in Chosen(net[i].ans.list) :
          /\ stored' = w
          /\ CASE ~net[i].live -> net' = done /\ UNCHANGED <<route, preview, adm, ctx, dash>>
               [] net[i].live /\ route = "landing" -> Enter(done, "admin", token, w)
               [] OTHER ->
                    /\ adm' = [adm EXCEPT !.boot = net[i].ans.list, !.of = net[i].ans.who,
                                          !.loading = FALSE, !.selected = w]
                    /\ IF adm.page = "context" /\ ~adm.error /\ (~ctx.on \/ w # adm.selected)
                       THEN /\ ctx' = IF ctx.on THEN [ctx EXCEPT !.loading = TRUE]
                                      ELSE [NoCtx EXCEPT !.on = TRUE, !.loading = TRUE]
                            /\ net' = LoadContext(done, w)
                       ELSE net' = done /\ UNCHANGED ctx
                    /\ UNCHANGED <<route, preview, dash>>
    BY <1>1, <1>5 DEF BootstrapArrives
  <2>2. w \in net[i].ans.list /\ w \in Workspace BY <1>3 DEF Chosen
  <2>3. CASE ~net[i].live
    <3>1. net' = done /\ UNCHANGED <<route, preview, adm, ctx, dash>> BY <2>1, <2>3
    <3>2. PageTypes' BY <1>2, <2>1, <2>2, <3>1, TypedIs DEF PageTypes
    <3>3. Listed' BY <1>2, <3>1 DEF Typed, Listed
    <3> QED BY <1>2, <3>1, <3>2, <3>3, TypedStep
  <2>4. CASE net[i].live /\ route = "landing"
    <3>1. Enter(done, "admin", token, w) BY <2>1, <2>4
    <3>2. PageTypes' /\ Listed' /\ net' \in [Slots -> Requested(owner)]
      BY <1>3, <1>4, <2>1, <2>2, <3>1, TypedIs, EnterTyped
    <3> QED BY <1>2, <3>2, TypedStep
  <2>5. CASE net[i].live /\ route # "landing"
    <3>1. /\ adm' = [adm EXCEPT !.boot = net[i].ans.list, !.of = net[i].ans.who, !.loading = FALSE, !.selected = w]
          /\ UNCHANGED <<route, preview, dash>>
          /\ ctx' \in {ctx, [ctx EXCEPT !.loading = TRUE], [NoCtx EXCEPT !.on = TRUE, !.loading = TRUE]}
          /\ net' \in {done, LoadContext(done, w)}
      BY <2>1, <2>5
    <3>2. adm' \in Shell /\ adm'.selected \in adm'.boot BY <1>3, <2>2, <3>1, TypedIs DEF PageTypes, Shell
    <3>3. ctx' \in SharedPage BY <3>1, TypedIs DEF PageTypes, SharedPage, NoCtx
    <3>4. LoadContext(done, w) \in [Slots -> Requested(owner)] BY <2>2, LoadRequested
    <3>5. PageTypes' BY <1>2, <2>1, <2>2, <3>1, <3>2, <3>3, TypedIs DEF PageTypes
    <3>6. Listed' BY <3>2 DEF Listed
    <3> QED BY <1>2, <3>1, <3>4, <3>5, <3>6, TypedStep
  <2> QED BY <2>3, <2>4, <2>5
<1>6. CASE ~net[i].ans.ok
  <2>1. /\ UNCHANGED stored
        /\ CASE ~net[i].live -> net' = done /\ UNCHANGED <<route, preview, adm, ctx, dash>>
             [] net[i].live /\ route = "landing" -> Enter(done, "dashboard", token, stored)
             [] OTHER -> /\ adm' = [adm EXCEPT !.error = TRUE, !.loading = FALSE]
                         /\ ctx' = NoCtx
                         /\ net' = [k \in Slots |-> LeaveContext(done[k])]
                         /\ UNCHANGED <<route, preview, dash>>
    BY <1>1, <1>6 DEF BootstrapArrives
  <2>2. CASE ~net[i].live
    <3>1. net' = done /\ UNCHANGED <<route, preview, adm, ctx, dash>> BY <2>1, <2>2
    <3>2. PageTypes' BY <1>2, <2>1, <3>1, TypedIs DEF PageTypes
    <3>3. Listed' BY <1>2, <3>1 DEF Typed, Listed
    <3> QED BY <1>2, <3>1, <3>2, <3>3, TypedStep
  <2>3. CASE net[i].live /\ route = "landing"
    <3>1. Enter(done, "dashboard", token, stored) BY <2>1, <2>3
    <3>2. PageTypes' /\ Listed' /\ net' \in [Slots -> Requested(owner)]
      BY <1>3, <1>4, <2>1, <3>1, TypedIs, EnterTyped
    <3> QED BY <1>2, <3>2, TypedStep
  <2>4. CASE net[i].live /\ route # "landing"
    <3>1. /\ adm' = [adm EXCEPT !.error = TRUE, !.loading = FALSE] /\ ctx' = NoCtx
          /\ net' = [k \in Slots |-> LeaveContext(done[k])] /\ UNCHANGED <<route, preview, dash>>
      BY <2>1, <2>4
    <3>2. adm' \in Shell /\ adm'.error BY <3>1, TypedIs DEF PageTypes, Shell
    <3>3. ctx' \in SharedPage BY <3>1 DEF NoCtx, SharedPage
    <3>4. PageTypes' BY <1>2, <2>1, <3>1, <3>2, <3>3, TypedIs DEF PageTypes
    <3>5. Listed' BY <3>2 DEF Listed
    <3>6. net' \in [Slots -> Requested(owner)] BY <3>1, TypedIs, LeftRequested
    <3> QED BY <1>2, <3>4, <3>5, <3>6, TypedStep
  <2> QED BY <2>2, <2>3, <2>4
<1> QED BY <1>5, <1>6

LEMMA WriteTyped ==
  ASSUME Typed, NEW i \in Slots, UNCHANGED <<serverVars, overlapped>>, WriteArrives(i)
  PROVE  Typed'
<1>1. UNCHANGED <<token, stored, status, route, preview, dash>> BY DEF WriteArrives
<1>2. token' \in 0..Len(owner) /\ overlapped' \in BOOLEAN /\ PageTypes BY <1>1, TypedIs DEF Typed
<1>3. PICK follow \in Requested(owner) :
        follow = IF net[i].ans.ok THEN [Request("bootstrap", "again", token, stored) EXCEPT !.live = net[i].live] ELSE Idle
  <2>1. net[i].live \in BOOLEAN /\ "again" \in Flows /\ stored \in Workspace \cup {NoWhere}
    BY TypedIs DEF Requests, Flows, PageTypes
  <2>2. [Request("bootstrap", "again", token, stored) EXCEPT !.live = net[i].live] \in Requested(owner)
    BY <2>1, TypedIs, FollowUp
  <2>3. Idle \in Requested(owner) BY TypedIs, IdleRequested
  <2> QED BY <2>2, <2>3
<1>4. CASE net[i].ans.ok /\ net[i].live
  <2>1. /\ adm' = [adm EXCEPT !.loading = TRUE, !.error = FALSE] /\ ctx' = NoCtx
        /\ net' = [k \in Slots |-> IF k = i THEN follow ELSE LeaveContext(net[k])]
    BY <1>3, <1>4 DEF WriteArrives, ContextAfterRefresh
  <2>2. \A k \in Slots : LeaveContext(net[k]) \in Requested(owner) BY TypedIs, LeaveRequested
  <2>3. net' \in [Slots -> Requested(owner)] BY <2>1, <2>2
  <2>4. adm' \in Shell /\ adm'.loading /\ ctx' \in SharedPage BY <1>2, <2>1 DEF PageTypes, Shell, NoCtx, SharedPage
  <2>5. PageTypes' BY <1>1, <1>2, <2>4 DEF PageTypes
  <2>6. Listed' BY <2>4 DEF Listed
  <2> QED BY <1>2, <2>3, <2>5, <2>6, TypedStep
<1>5. CASE ~(net[i].ans.ok /\ net[i].live)
  <2>1. net' = [net EXCEPT ![i] = follow] /\ UNCHANGED <<adm, ctx>> BY <1>3, <1>5 DEF WriteArrives
  <2>2. net' \in [Slots -> Requested(owner)] BY <2>1, TypedIs
  <2> QED BY <1>1, <1>2, <2>1, <2>2, SessionTyped
<1> QED BY <1>4, <1>5

\* A step of a page that leaves the console's list alone.
LEMMA PageTyped ==
  ASSUME Typed, UNCHANGED serverVars, UNCHANGED <<token, status, route, adm, overlapped>>,
         stored' \in Workspace \cup {NoWhere}, preview' \in {"none", "loading", "new", "existing", "error"},
         ctx' \in SharedPage, dash' \in Board, net' \in [Slots -> Requested(owner)]
  PROVE  Typed'
<1>1. PageTypes' BY TypedIs DEF PageTypes
<1>2. Listed' BY DEF Typed, Listed
<1>3. token' \in 0..Len(owner) /\ overlapped' \in BOOLEAN BY TypedIs DEF Typed
<1> QED BY <1>1, <1>2, <1>3, TypedStep

LEMMA PageAnswersTyped ==
  ASSUME Typed, NEW i \in Slots, UNCHANGED <<serverVars, overlapped>>,
         ContextArrives(i) \/ ShareArrives(i) \/ ListArrives(i) \/ GenerateArrives(i) \/ PreviewArrives(i)
  PROVE  Typed'
<1>1. /\ net[i].ws \in Workspace \cup {NoWhere} /\ net[i].ans.who \in Account \cup {NoOne}
      /\ net[i].ans.list \in SUBSET Workspace
  BY TypedIs DEF Requests, Answered
<1>2. /\ stored \in Workspace \cup {NoWhere} /\ preview \in {"none", "loading", "new", "existing", "error"}
      /\ ctx \in SharedPage /\ dash \in Board
  BY TypedIs DEF PageTypes
<1>3. PICK done \in [Slots -> Requested(owner)] : done = [net EXCEPT ![i] = Idle] BY TypedIs, IdleRequested
<1>4. CASE ContextArrives(i)
  <2>1. /\ net' = done /\ UNCHANGED <<token, stored, status, route, preview, adm, dash>>
        /\ ctx' = [ctx EXCEPT !.at = IF net[i].ans.ok THEN net[i].ws ELSE @,
                              !.of = IF net[i].ans.ok THEN net[i].ans.who ELSE @,
                              !.loading = FALSE,
                              !.busy = IF net[i].flow = "form" THEN FALSE ELSE @]
    BY <1>3, <1>4 DEF ContextArrives
  <2>2. ctx' \in SharedPage BY <1>1, <1>2, <2>1 DEF SharedPage
  <2> QED BY <1>2, <2>1, <2>2, PageTyped
<1>5. CASE ShareArrives(i)
  <2>1. Request("context", "form", token, net[i].ws) \in Requested(owner)
    <3>1. "context" \in Ops /\ "form" \in Flows BY DEF Ops, Flows
    <3> QED BY <1>1, <3>1, TypedIs, RequestedSent
  <2>2. UNCHANGED <<token, stored, status, route, preview, adm, dash>> BY <1>5 DEF ShareArrives
  <2>3. ctx' \in {ctx, [ctx EXCEPT !.loading = TRUE], [ctx EXCEPT !.busy = FALSE]} BY <1>5 DEF ShareArrives
  <2>4. net' \in {done, [net EXCEPT ![i] = Request("context", "form", token, net[i].ws)]}
    BY <1>3, <1>5 DEF ShareArrives
  <2>5. ctx' \in SharedPage BY <1>2, <2>3 DEF SharedPage
  <2>6. net' \in [Slots -> Requested(owner)] BY <2>1, <2>4, TypedIs
  <2> QED BY <1>2, <2>2, <2>5, <2>6, PageTyped
<1>6. CASE ListArrives(i)
  <2>1. net' = done /\ UNCHANGED <<token, status, route, preview, adm, ctx>> BY <1>3, <1>6 DEF ListArrives
  <2>2. PICK w \in Workspace \cup {NoWhere} :
          /\ stored' = w
          /\ dash' \in {dash, [dash EXCEPT !.loaded = TRUE],
                        [dash EXCEPT !.list = net[i].ans.list, !.of = net[i].ans.who, !.selected = w, !.loaded = TRUE]}
    <3>1. CASE net[i].ans.ok
      <4>1. PICK w \in IF net[i].ans.list = {} THEN {NoWhere} ELSE Chosen(net[i].ans.list) :
              /\ stored' = w
              /\ dash' = IF net[i].live THEN [dash EXCEPT !.list = net[i].ans.list, !.of = net[i].ans.who,
                                                      !.selected = w, !.loaded = TRUE] ELSE dash
        BY <1>6, <3>1 DEF ListArrives
      <4>2. w \in Workspace \cup {NoWhere} BY <1>1, <1>2, <4>1 DEF Chosen
      <4> QED BY <4>1, <4>2
    <3>2. CASE ~net[i].ans.ok BY <1>2, <1>6, <3>2 DEF ListArrives
    <3> QED BY <3>1, <3>2
  <2>3. dash' \in Board BY <1>1, <1>2, <2>2 DEF Board
  <2> QED BY <1>2, <2>1, <2>2, <2>3, PageTyped
<1>7. CASE GenerateArrives(i)
  <2>1. /\ net' = done /\ UNCHANGED <<token, stored, status, route, preview, adm, ctx>>
        /\ dash' = IF ~net[i].live THEN dash
             ELSE [dash EXCEPT !.loading = FALSE,
                               !.result = IF net[i].ans.ok THEN net[i].ws ELSE @,
                               !.by = IF net[i].ans.ok THEN net[i].ans.who ELSE @]
    BY <1>3, <1>7 DEF GenerateArrives
  <2>2. dash' \in Board BY <1>1, <1>2, <2>1 DEF Board
  <2> QED BY <1>2, <2>1, <2>2, PageTyped
<1>8. CASE PreviewArrives(i)
  <2>1. net' = done /\ UNCHANGED <<token, stored, status, route, adm, ctx, dash>> /\ preview' \in {"error", "existing", "new"}
    BY <1>3, <1>8 DEF PreviewArrives
  <2> QED BY <1>2, <2>1, PageTyped
<1> QED BY <1>4, <1>5, <1>6, <1>7, <1>8

\* What the user sends.
LEMMA SendTyped ==
  ASSUME Typed, NEW q \in Requested(owner), Send(q)
  PROVE  net' \in [Slots -> Requested(owner)]
BY TypedIs DEF Send

LEMMA SentFromPage ==
  ASSUME Typed, NEW op \in {"logout", "write", "share", "generate", "bootstrap", "accept"},
         NEW flow \in {"stay", "form", "again", "enter"}, NEW ws \in Workspace \cup {NoWhere}
  PROVE  Request(op, flow, token, ws) \in Requested(owner) /\ Request(op, flow, token, ws).op # "none"
<1>1. op \in Ops /\ op # "login" /\ flow \in Flows BY DEF Ops, AuthOps, Flows
<1> QED BY <1>1, TypedIs, RequestedSent

LEMMA LoginRequested ==
  ASSUME Typed, NEW a \in Account, NEW flow \in {"stay", "join"}
  PROVE  [Request("login", flow, 0, NoWhere) EXCEPT !.who = a] \in Requested(owner)
<1> DEFINE r == Request("login", flow, 0, NoWhere)
<1>1. "login" \in Ops /\ flow \in Flows /\ Len(owner) \in Nat BY TypedIs DEF Ops, AuthOps, Flows
<1>2. r \in Requests /\ r.op = "login" /\ r.tok = 0 /\ r.ans = NoAnswer BY <1>1, RequestSent
<1> HIDE DEF r
<1>3. [r EXCEPT !.who = a] \in Requested(owner) BY <1>1, <1>2, RequestsNamed DEF Requested, Requests
<1> QED BY <1>3 DEF r

LEMMA FormsTyped ==
  ASSUME Typed, UNCHANGED serverVars, SignIn \/ Join \/ (UNCHANGED overlapped /\ (SignOut \/ Write \/ ReturnToForm))
  PROVE  Typed'
<1>1. UNCHANGED <<token, stored, status, route, preview, adm, ctx, dash>> /\ overlapped' \in BOOLEAN
  BY DEF Typed, SignIn, Join, SignOut, Write, ReturnToForm, Overlaps
<1>2. net' \in [Slots -> Requested(owner)]
  <2>1. CASE SignIn
    <3>1. PICK a \in registered : Send([Request("login", "stay", 0, NoWhere) EXCEPT !.who = a]) BY <2>1 DEF SignIn
    <3>2. a \in Account BY DEF Typed, TabTypes
    <3>3. [Request("login", "stay", 0, NoWhere) EXCEPT !.who = a] \in Requested(owner) BY <3>2, LoginRequested
    <3> QED BY <3>1, <3>3, SendTyped
  <2>2. CASE Join
    <3>1. Invited \in Account /\ stored \in Workspace \cup {NoWhere}
      BY TypedIs, ConsoleAssumption DEF ConsoleAssumption, PageTypes
    <3>2. [Request("login", "join", 0, NoWhere) EXCEPT !.who = Invited] \in Requested(owner) BY <3>1, LoginRequested
    <3>3. Request("accept", "enter", token, stored) \in Requested(owner) BY <3>1, SentFromPage
    <3>4. \/ Send([Request("login", "join", 0, NoWhere) EXCEPT !.who = Invited])
          \/ Send(Request("accept", "enter", token, stored))
      <4>1. CASE preview = "existing" /\ status \notin Account BY <2>2, <4>1 DEF Join
      <4>2. CASE ~(preview = "existing" /\ status \notin Account) BY <2>2, <4>2 DEF Join
      <4> QED BY <4>1, <4>2
    <3> QED BY <3>2, <3>3, <3>4, SendTyped
  <2>3. CASE SignOut \/ Write
    <3>1. PICK op \in {"logout", "write"} : Send(Request(op, "stay", token, stored)) BY <2>3 DEF SignOut, Write
    <3>2. Request(op, "stay", token, stored) \in Requested(owner) BY TypedIs, SentFromPage DEF PageTypes
    <3> QED BY <3>1, <3>2, SendTyped
  <2>4. CASE ReturnToForm BY <2>4, TypedIs, LeftRequested DEF ReturnToForm
  <2> QED BY <2>1, <2>2, <2>3, <2>4
<1>3. token' \in 0..Len(owner) BY <1>1, TypedIs
<1> QED BY <1>1, <1>2, <1>3, SessionTyped

LEMMA ConsoleActsTyped ==
  ASSUME Typed, UNCHANGED serverVars, UNCHANGED overlapped, NEW w,
         (w \in Workspace /\ SelectWorkspace(w)) \/ OpenContext \/ OpenManage \/ Retry
  PROVE  Typed'
<1>1. UNCHANGED <<token, status, route, preview, dash>> /\ token' \in 0..Len(owner) /\ overlapped' \in BOOLEAN /\ PageTypes
  BY TypedIs DEF Typed, SelectWorkspace, OpenContext, OpenManage, Retry
<1>2. adm \in Shell /\ ctx \in SharedPage /\ stored \in Workspace \cup {NoWhere} BY <1>1 DEF PageTypes
<1>3. CASE w \in Workspace /\ SelectWorkspace(w)
  <2>1. /\ w \in adm.boot /\ w \in Workspace /\ stored' = w /\ adm' = [adm EXCEPT !.selected = w]
        /\ ctx' \in {ctx, [ctx EXCEPT !.loading = TRUE]} /\ net' \in {net, LoadContext(net, w)}
    BY <1>3 DEF SelectWorkspace
  <2>2. adm' \in Shell /\ adm'.selected \in adm'.boot /\ ctx' \in SharedPage BY <1>2, <2>1 DEF Shell, SharedPage
  <2>3. PageTypes' BY <1>1, <2>1, <2>2 DEF PageTypes
  <2>4. Listed' BY <2>2 DEF Listed
  <2>5. net' \in [Slots -> Requested(owner)] BY <1>3, <2>1, TypedIs, LoadRequested
  <2> QED BY <1>1, <2>3, <2>4, <2>5, TypedStep
<1>4. CASE OpenContext
  <2>1. /\ UNCHANGED stored /\ adm' = [adm EXCEPT !.page = "context"] /\ ctx' = [NoCtx EXCEPT !.on = TRUE, !.loading = TRUE]
        /\ net' = LoadContext(net, adm.selected)
    BY <1>4 DEF OpenContext
  <2>2. adm' \in Shell /\ adm'.selected = adm.selected /\ adm'.boot = adm.boot /\ adm'.loading = adm.loading
        /\ adm'.error = adm.error /\ ctx' \in SharedPage
    BY <1>2, <2>1 DEF Shell, NoCtx, SharedPage
  <2>3. PageTypes' BY <1>1, <1>2, <2>1, <2>2 DEF PageTypes
  <2>4. Listed' BY <1>1, <2>2 DEF Typed, Listed
  <2>5. adm.selected \in Workspace \cup {NoWhere} BY <1>2 DEF Shell
  <2>6. net' \in [Slots -> Requested(owner)] BY <2>1, <2>5, TypedIs, LoadRequested
  <2> QED BY <1>1, <2>3, <2>4, <2>6, TypedStep
<1>5. CASE OpenManage
  <2>1. /\ UNCHANGED stored /\ adm' = [adm EXCEPT !.page = "manage"] /\ ctx' = NoCtx
        /\ net' = [k \in Slots |-> LeaveContext(net[k])]
    BY <1>5 DEF OpenManage
  <2>2. adm' \in Shell /\ adm'.selected = adm.selected /\ adm'.boot = adm.boot /\ adm'.loading = adm.loading
        /\ adm'.error = adm.error /\ ctx' \in SharedPage
    BY <1>2, <2>1 DEF Shell, NoCtx, SharedPage
  <2>3. PageTypes' BY <1>1, <1>2, <2>1, <2>2 DEF PageTypes
  <2>4. Listed' BY <1>1, <2>2 DEF Typed, Listed
  <2>5. net' \in [Slots -> Requested(owner)] BY <2>1, TypedIs, LeftRequested
  <2> QED BY <1>1, <2>3, <2>4, <2>5, TypedStep
<1>6. CASE Retry
  <2>1. /\ UNCHANGED <<stored, ctx>> /\ adm' = [adm EXCEPT !.loading = TRUE, !.error = FALSE]
        /\ Send(Request("bootstrap", "again", token, stored))
    BY <1>6 DEF Retry
  <2>2. adm' \in Shell /\ adm'.loading BY <1>2, <2>1 DEF Shell
  <2>3. PageTypes' BY <1>1, <1>2, <2>1, <2>2 DEF PageTypes
  <2>4. Listed' BY <2>2 DEF Listed
  <2>5. Request("bootstrap", "again", token, stored) \in Requested(owner) BY <1>2, SentFromPage
  <2>6. net' \in [Slots -> Requested(owner)] BY <2>1, <2>5, SendTyped
  <2> QED BY <1>1, <2>3, <2>4, <2>6, TypedStep
<1> QED BY <1>3, <1>4, <1>5, <1>6

LEMMA PageActsTyped ==
  ASSUME Typed, UNCHANGED serverVars, UNCHANGED overlapped, NEW w,
         Share \/ Generate \/ (w \in Workspace /\ ChangeWorkspace(w))
  PROVE  Typed'
<1>1. UNCHANGED <<token, status, route, preview, adm>> BY DEF Share, Generate, ChangeWorkspace
<1>2. /\ stored \in Workspace \cup {NoWhere} /\ preview \in {"none", "loading", "new", "existing", "error"}
      /\ adm \in Shell /\ ctx \in SharedPage /\ dash \in Board
  BY TypedIs DEF PageTypes
<1>3. CASE Share
  <2>1. UNCHANGED <<stored, dash>> /\ ctx' = [ctx EXCEPT !.busy = TRUE] /\ Send(Request("share", "form", token, adm.selected))
    BY <1>3 DEF Share
  <2>2. adm.selected \in Workspace \cup {NoWhere} /\ ctx' \in SharedPage BY <1>2, <2>1 DEF Shell, SharedPage
  <2>3. Request("share", "form", token, adm.selected) \in Requested(owner) BY <2>2, SentFromPage
  <2>4. net' \in [Slots -> Requested(owner)] BY <2>1, <2>3, SendTyped
  <2> QED BY <1>1, <1>2, <2>1, <2>2, <2>4, PageTyped
<1>4. CASE Generate
  <2>1. /\ UNCHANGED <<stored, ctx>> /\ dash' = [dash EXCEPT !.loading = TRUE, !.result = NoWhere, !.by = NoOne]
        /\ Send([Request("generate", "form", token, stored) EXCEPT !.shown = dash.selected])
    BY <1>4 DEF Generate
  <2>2. dash.selected \in Workspace \cup {NoWhere} /\ dash' \in Board BY <1>2, <2>1 DEF Board
  <2>3. Request("generate", "form", token, stored) \in Requested(owner)
        /\ Request("generate", "form", token, stored).op # "none"
    BY <1>2, SentFromPage
  <2>4. [Request("generate", "form", token, stored) EXCEPT !.shown = dash.selected] \in Requested(owner)
    BY <2>2, <2>3, RequestedChanged
  <2>5. net' \in [Slots -> Requested(owner)] BY <2>1, <2>4, SendTyped
  <2> QED BY <1>1, <1>2, <2>1, <2>2, <2>5, PageTyped
<1>5. CASE w \in Workspace /\ ChangeWorkspace(w)
  <2>1. /\ stored' = w /\ dash' = [dash EXCEPT !.selected = w, !.result = NoWhere, !.by = NoOne] /\ UNCHANGED <<ctx, net>>
        /\ w \in Workspace
    BY <1>5 DEF ChangeWorkspace
  <2>2. dash' \in Board /\ stored' \in Workspace \cup {NoWhere} BY <1>2, <2>1 DEF Board
  <2> QED BY <1>1, <1>2, <2>1, <2>2, TypedIs, PageTyped
<1> QED BY <1>3, <1>4, <1>5

LEMMA VisitTyped ==
  ASSUME Typed, UNCHANGED serverVars, UNCHANGED overlapped, NEW to \in {"admin", "dashboard"}, Visit(to)
  PROVE  Typed'
<1>1. Enter(net, to, token, stored) /\ UNCHANGED <<token, stored, status>> /\ to \in Routes BY DEF Visit, Routes
<1>2. stored' \in Workspace \cup {NoWhere} /\ status' \in Account \cup {"unknown", "offline", "out"}
      /\ stored \in Workspace \cup {NoWhere}
  BY <1>1, TypedIs DEF PageTypes
<1>3. PageTypes' /\ Listed' /\ net' \in [Slots -> Requested(owner)] BY <1>1, <1>2, TypedIs, EnterTyped
<1>4. token' \in 0..Len(owner) /\ overlapped' \in BOOLEAN BY <1>1, TypedIs DEF Typed
<1> QED BY <1>3, <1>4, TypedStep

\* A tab that is loaded waits for one status only.
LEMMA MountRequested ==
  ASSUME NEW own \in Seq(Account), NEW tok \in 0..Len(own), NEW ws \in Workspace \cup {NoWhere}
  PROVE  Mount(tok, ws) \in [Slots -> Requested(own)]
<1> DEFINE none == [k \in Slots |-> Idle]
           q == Request("status", "stay", tok, ws)
<1>1. none \in [Slots -> Requested(own)] BY IdleRequested
<1>2. q \in Requested(own)
  <2>1. "status" \in Ops /\ "stay" \in Flows BY DEF Ops, AuthOps, Flows
  <2> QED BY <2>1, RequestedSent
<1>3. Mount(tok, ws) = [none EXCEPT ![SomeIdle(none)] = q] BY DEF Mount
<1> HIDE DEF none, q
<1> QED BY <1>1, <1>2, <1>3

LEMMA LoadPageTyped ==
  ASSUME Typed, UNCHANGED serverVars, NEW to \in Routes, LoadPage(to)
  PROVE  Typed'
<1>1. /\ status' = "unknown" /\ route' = to /\ preview' = "none" /\ adm' = NoAdm /\ ctx' = NoCtx /\ dash' = NoDash
      /\ net' = Mount(token, stored) /\ ~overlapped' /\ overlapped' \in BOOLEAN
      /\ UNCHANGED <<token, stored>>
  BY DEF LoadPage
<1>2. adm' \in Shell /\ ctx' \in SharedPage /\ dash' \in Board
  BY <1>1 DEF NoAdm, Shell, NoCtx, SharedPage, NoDash, Board
<1>3. PageTypes' BY <1>1, <1>2, TypedIs DEF PageTypes
<1>4. Listed' BY <1>1 DEF Listed
<1>5. net' \in [Slots -> Requested(owner)] BY <1>1, TypedIs, MountRequested DEF PageTypes
<1>6. token' \in 0..Len(owner) BY <1>1, TypedIs
<1> QED BY <1>1, <1>3, <1>4, <1>5, <1>6, TypedStep

\* A session that is issued: the requests and the tokens there are stay good.
LEMMA AnswerTyped ==
  ASSUME Typed, NEW i \in Slots, net[i].op # "none", NEW ans \in Answered,
         net' = [net EXCEPT ![i].ans = ans], NEW own \in Seq(Account), owner' = own,
         Len(own) \in {Len(owner), Len(owner) + 1}, ans.tok \in 0..Len(own),
         revoked' \subseteq 1..Len(own), registered' \subseteq Account,
         UNCHANGED <<members, admins, token, stored, status, route, preview, adm, ctx, dash, overlapped>>
  PROVE  Typed'
<1>1. Len(owner) \in Nat /\ token \in 0..Len(owner) /\ net \in [Slots -> Requested(owner)] BY TypedIs
<1>2. Requested(owner) \subseteq Requested(own) BY <1>1 DEF Requested
<1>3. [net[i] EXCEPT !.ans = ans] \in Requested(own)
  <2>1. PICK r \in Requested(own) : r = net[i] BY <1>1, <1>2
  <2>2. [r EXCEPT !.ans = ans] \in Requested(own) BY <2>1 DEF Requested, Requests
  <2> QED BY <2>1, <2>2
<1>4. net' \in [Slots -> Requested(own)]
  <2>1. PICK q \in Requested(own) : q = [net[i] EXCEPT !.ans = ans] BY <1>3
  <2>2. net' = [net EXCEPT ![i] = q] BY <1>1, <2>1
  <2> QED BY <1>1, <1>2, <2>2
<1>5. net' \in [Slots -> Requests] BY <1>4 DEF Requested
<1>6. token' \in 0..Len(own) BY <1>1
<1>7. TabTypes' BY <1>5, <1>6 DEF Typed, TabTypes, Tokens
<1>8. Listed' /\ overlapped' \in BOOLEAN BY DEF Typed, Listed
<1> QED BY <1>4, <1>7, <1>8 DEF Typed

LEMMA FailTyped ==
  ASSUME Typed, NEW i \in Slots, Fail(i)
  PROVE  Typed'
<1>1. PICK ans \in Answered : ans = [NoAnswer EXCEPT !.got = TRUE] /\ ans.tok = 0
  <2>1. [NoAnswer EXCEPT !.got = TRUE] \in Answered BY RequestsNamed DEF Answered
  <2>2. [NoAnswer EXCEPT !.got = TRUE].tok = 0 BY RequestsNamed DEF NoAnswer
  <2> QED BY <2>1, <2>2
<1>2. PICK own \in Seq(Account) : own = owner BY TypedIs
<1>3. /\ net[i].op # "none" /\ net' = [net EXCEPT ![i].ans = ans] /\ owner' = own
      /\ UNCHANGED <<revoked, registered, members, admins, token, stored, status, route, preview, adm, ctx, dash,
                     overlapped>>
  BY <1>1, <1>2 DEF Fail, Answer
<1>4. Len(own) = Len(owner) /\ Len(own) \in Nat /\ revoked' \subseteq 1..Len(own)
      /\ registered' \subseteq Account
  BY <1>2, <1>3, TypedIs DEF Typed, TabTypes
<1>5. ans.tok \in 0..Len(own) BY <1>1, <1>4
<1> QED BY <1>1, <1>2, <1>3, <1>4, <1>5, AnswerTyped

LEMMA ServeTyped ==
  ASSUME Typed, NEW i \in Slots, Serve(i)
  PROVE  Typed'
<1>1. PICK r \in Requests : r = net[i] /\ r.tok \in 0..Len(owner) /\ (r.op = "login" => r.who \in Account)
  BY TypedIs
<1>2. owner \in Seq(Account) /\ Len(owner) \in Nat /\ revoked \subseteq 1..Len(owner)
      /\ registered \subseteq Account /\ admins \in [Account -> SUBSET Workspace]
      /\ members \in [Account -> SUBSET Workspace]
  BY TypedIs DEF Typed, TabTypes
<1>3. /\ r.op # "none" /\ revoked' = RevokedBy(r)
      /\ UNCHANGED <<members, admins, token, stored, status, route, preview, adm, ctx, dash, overlapped>>
  BY <1>1 DEF Serve, Pending
<1>4. revoked' \subseteq 1..Len(owner)
  <2>1. {r.tok} \ {0} \subseteq 1..Len(owner) BY <1>1, <1>2
  <2>2. revoked' \subseteq revoked \cup ({r.tok} \ {0}) BY <1>3 DEF RevokedBy
  <2> QED BY <1>2, <2>1, <2>2
<1>5. CASE Starts(r)
  <2>1. PICK to \in Account : to = IF r.op = "login" THEN r.who ELSE Invited
    BY <1>1, ConsoleAssumption DEF ConsoleAssumption
  <2>2. PICK n \in Nat : n = Len(owner) + 1 BY <1>2
  <2> DEFINE a == [NoAnswer EXCEPT !.ok = TRUE, !.who = to, !.tok = n]
  <2>3. PICK ans \in Answered : ans = [a EXCEPT !.got = TRUE] /\ ans.tok = n
    <3>1. a \in Answered /\ a.tok = n BY RequestsNamed DEF Answered
    <3> HIDE DEF a
    <3>2. [a EXCEPT !.got = TRUE] \in Answered /\ [a EXCEPT !.got = TRUE].tok = n BY <3>1 DEF Answered
    <3> QED BY <3>2
  <2>4. PICK own \in Seq(Account) : own = Append(owner, to) /\ Len(own) = n
    <3>1. Append(owner, to) \in Seq(Account) /\ Len(Append(owner, to)) = Len(owner) + 1 BY <1>2, AppendProperties
    <3> QED BY <2>2, <3>1
  <2>5. /\ owner' = own /\ registered' = registered \cup {to}
        /\ net' = [net EXCEPT ![i].ans = ans]
    BY <1>1, <1>5, <2>1, <2>2, <2>3, <2>4 DEF Serve, Answer
  <2>6. ans.tok \in 0..Len(own) /\ revoked' \subseteq 1..Len(own) /\ registered' \subseteq Account
    BY <1>2, <1>4, <2>2, <2>3, <2>4, <2>5
  <2> HIDE DEF a
  <2> QED BY <1>1, <1>3, <2>2, <2>4, <2>5, <2>6, AnswerTyped
<1>6. CASE ~Starts(r)
  <2>1. PICK who \in Account \cup {NoOne} : who = Owner(r.tok)
    <3>1. r.tok # 0 => owner[r.tok] \in Account BY <1>1, <1>2, ElementOfSeq
    <3> QED BY <3>1 DEF Owner
  <2>2. PICK named \in Account \cup {NoOne} : named = Named(r.op, who)
    BY ConsoleAssumption DEF Named, ConsoleAssumption
  <2>3. PICK list \in SUBSET Workspace : list = Listing(r.op, who)
    BY <1>2 DEF Listing, VisibleWorkspaces, WorkspaceMemberships, Authenticated
  <2> DEFINE a == IF Granted(r.op, who, r.ws)
                  THEN [NoAnswer EXCEPT !.ok = TRUE, !.who = named, !.list = list] ELSE NoAnswer
  <2>4. PICK ans \in Answered : ans = [a EXCEPT !.got = TRUE] /\ ans.tok = 0
    <3>1. [NoAnswer EXCEPT !.ok = TRUE, !.who = named, !.list = list] \in Answered
          /\ [NoAnswer EXCEPT !.ok = TRUE, !.who = named, !.list = list].tok = 0
      BY RequestsNamed DEF Answered
    <3>2. a \in Answered /\ a.tok = 0 BY <3>1, RequestsNamed
    <3> HIDE DEF a
    <3>3. [a EXCEPT !.got = TRUE] \in Answered /\ [a EXCEPT !.got = TRUE].tok = 0 BY <3>2 DEF Answered
    <3> QED BY <3>3
  <2>5. PICK own \in Seq(Account) : own = owner BY <1>2
  <2>6. owner' = own /\ registered' = registered /\ net' = [net EXCEPT ![i].ans = ans]
    BY <1>1, <1>6, <2>1, <2>2, <2>3, <2>4, <2>5 DEF Serve, Answer
  <2>7. Len(own) = Len(owner) /\ ans.tok \in 0..Len(own) /\ revoked' \subseteq 1..Len(own)
        /\ registered' \subseteq Account
    BY <1>2, <1>4, <2>4, <2>5, <2>6
  <2> HIDE DEF a
  <2> QED BY <1>1, <1>3, <2>5, <2>6, <2>7, AnswerTyped
<1> QED BY <1>5, <1>6

\* What the server does on its own.
LEMMA ServerTyped ==
  ASSUME Typed, revoked' \subseteq 1..Len(owner),
         members' \in [Account -> SUBSET Workspace], admins' \in [Account -> SUBSET Workspace],
         UNCHANGED <<owner, registered, token, stored, status, route, preview, adm, ctx, dash, net, overlapped>>
  PROVE  Typed'
<1>1. TabTypes' BY DEF Typed, TabTypes, Tokens
<1> QED BY <1>1 DEF Typed, Listed

-----------------------------------------------------------------------------
(* The specification.                                                      *)

\* The invariant: types and the list at any time, the rest until two sign-ins
\* have overlapped.
TabInv == Typed /\ (~overlapped => ConsoleInv)

LEMMA TypedStarts == ConsoleInit => TabInv
<1> SUFFICES ASSUME ConsoleInit PROVE TabInv OBVIOUS
<1>1. ConsoleInv BY ConsoleStarts
<1>2. net \in [Slots -> Requested(owner)]
  <2>1. PICK own \in Seq(Account) : own = owner BY <1>1, RequestsFollow
  <2>2. 0 \in 0..Len(own) /\ NoWhere \in Workspace \cup {NoWhere} BY LenProperties
  <2>3. net = Mount(0, NoWhere) BY DEF ConsoleInit
  <2> QED BY <2>1, <2>2, <2>3, MountRequested
<1>3. overlapped \in BOOLEAN BY DEF ConsoleInit
<1>4. TabTypes /\ Listed BY <1>1 DEF ConsoleInv, ConsoleTypes, PagesInv
<1> QED BY <1>1, <1>2, <1>3, <1>4 DEF TabInv, Typed

LEMMA ArriveTyped ==
  ASSUME Typed, NEW i \in Slots, Arrive(i)
  PROVE  Typed'
<1>1. UNCHANGED <<serverVars, overlapped>> BY DEF Arrive
<1>2. CASE StatusArrives(i) BY <1>1, <1>2, StatusTyped
<1>3. CASE LoginArrives(i) \/ AcceptArrives(i) \/ LogoutArrives(i) BY <1>1, <1>3, SessionAnswersTyped
<1>4. CASE BootstrapArrives(i) BY <1>1, <1>4, BootstrapTyped
<1>5. CASE WriteArrives(i) BY <1>1, <1>5, WriteTyped
<1>6. CASE ContextArrives(i) \/ ShareArrives(i) \/ ListArrives(i) \/ GenerateArrives(i) \/ PreviewArrives(i)
  BY <1>1, <1>6, PageAnswersTyped
<1> QED BY <1>2, <1>3, <1>4, <1>5, <1>6 DEF Arrive

LEMMA UserTyped ==
  ASSUME Typed, UserActs
  PROVE  Typed'
<1>1. UNCHANGED serverVars BY DEF UserActs
<1>2. CASE SignIn \/ Join BY <1>1, <1>2, FormsTyped
<1>3. ASSUME NEW to \in Routes, LoadPage(to) PROVE Typed' BY <1>1, <1>3, LoadPageTyped
<1>4. CASE UNCHANGED overlapped /\ (SignOut \/ Write \/ ReturnToForm) BY <1>1, <1>4, FormsTyped
<1>5. ASSUME UNCHANGED overlapped, NEW w \in Workspace, SelectWorkspace(w) \/ ChangeWorkspace(w) PROVE Typed'
  BY <1>1, <1>5, ConsoleActsTyped, PageActsTyped
<1>6. CASE UNCHANGED overlapped /\ (OpenContext \/ OpenManage \/ Retry \/ Share \/ Generate)
  BY <1>1, <1>6, ConsoleActsTyped, PageActsTyped
<1>7. ASSUME UNCHANGED overlapped, NEW to \in {"admin", "dashboard"}, Visit(to) PROVE Typed'
  BY <1>1, <1>7, VisitTyped
<1> QED BY <1>2, <1>3, <1>4, <1>5, <1>6, <1>7 DEF UserActs

LEMMA TypedKeeps == Typed /\ [ConsoleNext]_consoleVars => Typed'
<1> SUFFICES ASSUME Typed, [ConsoleNext]_consoleVars PROVE Typed' OBVIOUS
<1>1. ASSUME NEW i \in Slots, Arrive(i) PROVE Typed' BY <1>1, ArriveTyped
<1>2. ASSUME NEW i \in Slots, Serve(i) PROVE Typed' BY <1>2, ServeTyped
<1>3. ASSUME NEW i \in Slots, Fail(i) PROVE Typed' BY <1>3, FailTyped
<1>4. CASE UserActs BY <1>4, UserTyped
<1>5. ASSUME NEW t \in 1..Len(owner), SessionEnds(t) PROVE Typed'
  BY <1>5, ServerTyped DEF SessionEnds, Typed, TabTypes
<1>6. ASSUME NEW a \in Reassigned, NEW w \in Workspace, Unassign(a, w) PROVE Typed'
  BY <1>6, ServerTyped DEF Unassign, Typed, TabTypes
<1>7. CASE UNCHANGED consoleVars BY <1>7, ServerTyped DEF consoleVars, Typed, TabTypes
<1> QED BY <1>1, <1>2, <1>3, <1>4, <1>5, <1>6, <1>7 DEF ConsoleNext

\* Once two sign-ins have overlapped only a load of the tab clears that.
LEMMA Overlapping ==
  ASSUME Typed, [ConsoleNext]_consoleVars, overlapped, ~overlapped'
  PROVE  \E to \in Routes : LoadPage(to) /\ UNCHANGED serverVars
<1>1. \A i \in Slots : ~Arrive(i) /\ ~Serve(i) /\ ~Fail(i) BY DEF Arrive, Serve, Fail
<1>2. ~SignIn /\ ~Join BY DEF SignIn, Join, Overlaps
<1>3. \A t : ~SessionEnds(t) BY DEF SessionEnds
<1>4. \A a, w : ~Unassign(a, w) BY DEF Unassign
<1>5. ~UNCHANGED consoleVars BY DEF consoleVars
<1>6. UserActs BY <1>1, <1>3, <1>4, <1>5 DEF ConsoleNext
<1> QED BY <1>2, <1>6 DEF UserActs

LEMMA ConsoleKeeps == TabInv /\ [ConsoleNext]_consoleVars => TabInv'
<1> SUFFICES ASSUME TabInv, [ConsoleNext]_consoleVars PROVE TabInv' OBVIOUS
<1>1. Typed' BY TypedKeeps DEF TabInv
<1>2. ASSUME ~overlapped' PROVE ConsoleInv'
  <2>1. CASE ~overlapped BY <1>2, <2>1, StrongKeeps DEF TabInv
  <2>2. CASE overlapped
    <3>1. PICK to \in Routes : LoadPage(to) /\ UNCHANGED serverVars BY <1>2, <2>2, Overlapping DEF TabInv
    <3> QED BY <3>1, LoadPageKeeps DEF TabInv, Typed
  <2> QED BY <2>1, <2>2 DEF TabInv, Typed
<1> QED BY <1>1, <1>2 DEF TabInv

\* Every state the console and its server can reach, whatever the network does and
\* the user submits, satisfies TabInv.
THEOREM ConsoleInvariant == ConsoleSpec => []TabInv
<1> QED BY TypedStarts, ConsoleKeeps, PTL DEF ConsoleSpec

\* The state of the tab is made of the values its handlers put there, overlapping
\* sign-ins included.
THEOREM ConsoleTyped == ConsoleSpec => []ConsoleTypeOK
<1>1. TabInv => ConsoleTypeOK
  <2> SUFFICES ASSUME TabInv PROVE ConsoleTypeOK OBVIOUS
  <2>1. Typed /\ TabTypes BY DEF TabInv, Typed
  <2>2. adm.boot \subseteq Workspace /\ adm.selected \in Workspace \cup {NoWhere} BY <2>1 DEF TabTypes, Shell
  <2>3. ASSUME NEW i \in Slots, net[i] # Idle
        PROVE  net[i].op \in Ops /\ net[i].flow \in Flows /\ net[i].tok \in Tokens
    <3>1. net[i] \in Requested(owner) BY <2>1, TypedIs
    <3> QED BY <2>3, <3>1 DEF Requested, Requests, Tokens
  <2> QED BY <2>1, <2>2, <2>3 DEF ConsoleTypeOK, TabTypes, Typed
<1> QED BY <1>1, ConsoleInvariant, PTL

\* Until a second sign-in is submitted while one is on its way, the pages show
\* nothing that was answered to an account other than the one signed in: late
\* answers to the account before, sign-outs, sessions that end and requests that
\* fail do not bring its data back (AuthProvider.tsx, App.tsx).
THEOREM OwnDataAlways == ConsoleSpec => []OwnDataShown
<1>1. TabInv => OwnDataShown BY DEF TabInv, ConsoleInv, PagesInv, OwnDataAlwaysShown, OwnDataShown
<1> QED BY <1>1, ConsoleInvariant, PTL

\* The workspace selected in the console is one of those the server listed last,
\* overlapping sign-ins included (AdminContext.tsx).
THEOREM ListedAlways == ConsoleSpec => []SelectionListed
<1>1. TabInv => SelectionListed
  <2> SUFFICES ASSUME TabInv, InShell PROVE adm.selected \in adm.boot BY DEF SelectionListed
  <2>1. route = "admin" /\ ~adm.loading /\ ~adm.error /\ status \notin {"unknown", "offline"}
    BY ConsoleAssumption DEF InShell, ConsoleAssumption
  <2> QED BY <2>1 DEF TabInv, Typed, Listed
<1> QED BY <1>1, ConsoleInvariant, PTL

\* Until a second sign-in is submitted while one is on its way, and with no sign-in
\* or sign-out in flight, a token in sessionStorage is one of the account the tab
\* shows, however many sign-outs there were (session.ts, AuthProvider.tsx).
THEOREM TokenShownAlways == ConsoleSpec => []TokenShown
<1>1. TabInv => TokenShown BY DEF TabInv, ConsoleInv, TokenSettled, TokenShown, AuthOps
<1> QED BY <1>1, ConsoleInvariant, PTL
=============================================================================
