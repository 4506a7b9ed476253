--------------------------- MODULE SchedulesProofs ---------------------------
(***************************************************************************)
(* Proofs about Schedules and the Newsletter it extends, for any           *)
(* templates, schedules, generations and intervals: types, digests and     *)
(* schedules name templates that are there, marked digests keep their      *)
(* distance, and a poll tries all that was due.                            *)
(***************************************************************************)
EXTENDS Schedules, TLAPS

USE NewsletterAssumption DEF NewsletterAssumption
USE SchedulesAssumption DEF SchedulesAssumption

Job == [step : {"idle", "body", "look", "sync", "save"}, seen : SUBSET Keys, ask : Asks, draft : Drafts]

LEMMA PlainAsked == Plain \in Asks
BY DEF Plain, Asks, Topics

LEMMA IdleTyped == IdleJob \in Job
BY PlainAsked DEF IdleJob, Job, NoDraft, Drafts

\* What a text is made from is a draft whatever the search answers.
LEMMA BodyTyped ==
  ASSUME NEW ask \in Asks, NEW key, NEW answer \in NoResults \cup {"results", "unusable", "none"}
  PROVE  LET body == Body(ask.topic, key, ask.mode, answer)
         IN [text |-> body.text, search |-> body.search, llm |-> body.llm, answer |-> answer] \in Drafts
BY DEF Body, EventsBrief, Drafts

\* What the templates are to digests that are on their way.
TemplatesOK == templates \subseteq Keys /\ digests \subseteq Digest
JobsOK == job \in [Jobs -> Job]
Synced == \A j \in Jobs : job[j].step = "save" => Keys \subseteq templates

LEMMA TypeOfNewsletter == NewsletterTypeOK <=> TemplatesOK /\ JobsOK
BY DEF NewsletterTypeOK, TemplatesOK, JobsOK, Job

LEMMA TemplateKnown == ASSUME NEW key PROVE TemplateOf(key) \in Keys
BY DEF TemplateOf

LEMMA DigestSaved ==
  ASSUME TemplatesOK, DigestTemplatesExist, Keys \subseteq templates, NEW key, NEW scheduled \in BOOLEAN,
         SaveDigest(key, scheduled), UNCHANGED templates
  PROVE  TemplatesOK' /\ DigestTemplatesExist'
<1>1. [key |-> TemplateOf(key), schedule |-> scheduled] \in Digest BY TemplateKnown DEF Digest
<1>2. TemplatesOK' BY <1>1 DEF TemplatesOK, SaveDigest
<1>3. DigestTemplatesExist' BY TemplateKnown DEF DigestTemplatesExist, SaveDigest
<1> QED BY <1>2, <1>3

LEMMA TemplatesSynced ==
  ASSUME TemplatesOK, DigestTemplatesExist, NEW seen, Sync(seen), UNCHANGED digests
  PROVE  TemplatesOK' /\ DigestTemplatesExist' /\ Keys \subseteq templates' /\ templates \subseteq templates'
BY DEF TemplatesOK, DigestTemplatesExist, Sync

\* An interactive generation, at whatever step it fails.
LEMMA NewsletterKept ==
  ASSUME TemplatesOK, JobsOK, Synced, DigestTemplatesExist, NEW asks \in SUBSET Asks, NewsletterStep(asks)
  PROVE  /\ TemplatesOK' /\ JobsOK' /\ Synced' /\ DigestTemplatesExist'
         /\ templates \subseteq templates'
<1>1. PICK j \in Jobs :
        \/ \E ask \in asks : Request(j, ask)
        \/ Generated(j) \/ Look(j) \/ SyncTemplates(j)
        \/ \E key \in Keys \cup {OtherKey} : Save(j, key)
  BY DEF NewsletterStep
<1>2. ASSUME NEW new \in Job, job' = [job EXCEPT ![j] = new], new.step = "save" => Keys \subseteq templates',
             templates \subseteq templates'
      PROVE  JobsOK' /\ Synced'
  <2>1. JobsOK' BY <1>2 DEF JobsOK
  <2>2. \A i \in Jobs : job'[i] = IF i = j THEN new ELSE job[i] BY <1>2 DEF JobsOK
  <2>3. Synced' BY <1>2, <2>2 DEF Synced
  <2> QED BY <2>1, <2>3
<1>3. UNCHANGED <<templates, digests>> => TemplatesOK' /\ DigestTemplatesExist'
  BY DEF TemplatesOK, DigestTemplatesExist
<1>4. job[j] \in Job BY DEF JobsOK
<1>5. CASE \E ask \in asks : Request(j, ask)
  <2>1. PICK ask \in asks : Request(j, ask) BY <1>5
  <2> DEFINE new == [step |-> "body", seen |-> {}, ask |-> ask, draft |-> NoDraft]
  <2>2. new \in Job BY DEF Job, NoDraft, Drafts
  <2>3. job' = [job EXCEPT ![j] = new] /\ UNCHANGED <<templates, digests>> /\ new.step # "save"
    BY <2>1 DEF Request
  <2> HIDE DEF new
  <2> QED BY <1>2, <1>3, <2>2, <2>3
<1>6. CASE Generated(j)
  <2>1. UNCHANGED <<templates, digests>> BY <1>6 DEF Generated
  <2>2. PICK new \in Job : job' = [job EXCEPT ![j] = new] /\ new.step # "save"
    <3>1. CASE job' = [job EXCEPT ![j] = IdleJob] BY <3>1, IdleTyped DEF IdleJob
    <3>2. CASE job' # [job EXCEPT ![j] = IdleJob]
      <4>1. PICK answer \in Searched(job[j].ask.mode) :
              LET body == Body(job[j].ask.topic, TemplateOf(job[j].ask.key), job[j].ask.mode, answer)
                  draft == [text |-> body.text, search |-> body.search, llm |-> body.llm, answer |-> answer]
              IN job' = [job EXCEPT ![j] = [step |-> "look", seen |-> {}, ask |-> job[j].ask, draft |-> draft]]
        BY <1>6, <3>2, Zenon DEF Generated
      <4> DEFINE body == Body(job[j].ask.topic, TemplateOf(job[j].ask.key), job[j].ask.mode, answer)
      <4> DEFINE draft == [text |-> body.text, search |-> body.search, llm |-> body.llm, answer |-> answer]
      <4> DEFINE new == [step |-> "look", seen |-> {}, ask |-> job[j].ask, draft |-> draft]
      <4>2. job' = [job EXCEPT ![j] = new] BY <4>1
      <4>3. job[j].ask \in Asks BY <1>4 DEF Job
      <4>4. answer \in NoResults \cup {"results", "unusable", "none"}
        <5>1. job[j].ask.mode \in {"serper", "fallback", "disabled"} BY <4>3 DEF Asks
        <5> QED BY <4>1, <5>1 DEF Searched, NoResults
      <4>5. draft \in Drafts BY <4>3, <4>4, BodyTyped, Zenon
      <4> HIDE DEF draft
      <4>6. new \in Job /\ new.step # "save" BY <4>3, <4>5 DEF Job
      <4> HIDE DEF new
      <4> QED BY <4>2, <4>6
    <3> QED BY <3>1, <3>2
  <2> QED BY <1>2, <1>3, <2>1, <2>2
<1>7. CASE Look(j)
  <2> DEFINE new == [IdleJob EXCEPT !.step = "sync", !.seen = templates]
  <2>1. UNCHANGED <<templates, digests>> /\ job' = [job EXCEPT ![j] = new] BY <1>7 DEF Look
  <2>2. new \in Job /\ new.step # "save" BY IdleTyped DEF IdleJob, Job, TemplatesOK
  <2> HIDE DEF new
  <2> QED BY <1>2, <1>3, <2>1, <2>2
<1>8. CASE SyncTemplates(j)
  <2>1. CASE Sync(job[j].seen) /\ job' = [job EXCEPT ![j].step = "save"]
    <3> DEFINE new == [job[j] EXCEPT !.step = "save"]
    <3>1. job' = [job EXCEPT ![j] = new] BY <2>1
    <3>2. new \in Job BY <1>4 DEF Job
    <3> HIDE DEF new
    <3>3. UNCHANGED digests BY <1>8 DEF SyncTemplates
    <3>4. TemplatesOK' /\ DigestTemplatesExist' /\ Keys \subseteq templates' /\ templates \subseteq templates'
      BY <2>1, <3>3, TemplatesSynced
    <3> QED BY <1>2, <3>1, <3>2, <3>4
  <2>2. CASE UNCHANGED templates /\ job' = [job EXCEPT ![j] = IdleJob]
    <3>1. UNCHANGED digests BY <1>8 DEF SyncTemplates
    <3>2. IdleJob.step # "save" BY DEF IdleJob
    <3> QED BY <1>2, <1>3, <2>2, <3>1, <3>2, IdleTyped
  <2> QED BY <1>8, <2>1, <2>2 DEF SyncTemplates
<1>9. CASE \E key \in Keys \cup {OtherKey} : Save(j, key)
  <2>1. PICK key : Save(j, key) BY <1>9
  <2>2. Keys \subseteq templates /\ UNCHANGED templates /\ job' = [job EXCEPT ![j] = IdleJob]
    BY <2>1 DEF Save, Synced
  <2>3. TemplatesOK' /\ DigestTemplatesExist'
    <3>1. CASE SaveDigest(key, FALSE) BY <2>2, <3>1, DigestSaved
    <3>2. CASE UNCHANGED digests BY <1>3, <2>2, <3>2
    <3> QED BY <2>1, <3>1, <3>2 DEF Save
  <2>4. IdleJob.step # "save" BY DEF IdleJob
  <2> QED BY <1>2, <2>2, <2>3, <2>4, IdleTyped
<1> QED BY <1>1, <1>5, <1>6, <1>7, <1>8, <1>9

-----------------------------------------------------------------------------
(* The schedules and the thread that runs them.                            *)

Cron == [step : Steps, due : SUBSET Ids, id : Ids \cup {NoId}, seen : SUBSET Keys, stop : BOOLEAN]
Busy == {"body", "look", "sync", "save", "mark"}

\* The thread is at a schedule that was due, and past the templates if it saves.
CronOK ==
  /\ cron \in Cron
  /\ cron.step \in Busy => cron.id \in cron.due
  /\ cron.step = "save" => Keys \subseteq templates
  /\ cron.step = "wait" => cron.due = {} \/ cron.stop

RowsOK == row \in [Ids -> Rows \cup {NoRow}] /\ minute \in 0..(DayLength - 1)

\* A schedule was marked after its last digest was made.
MarksOK ==
  /\ last \in [Ids -> 0..Never] /\ made \in [Ids -> [age : 0..Never, marked : BOOLEAN]]
  /\ \A i \in Ids : made[i].marked => last[i] # Never /\ made[i].age >= last[i]

\* What was due stays due while the list is worked off, whatever time it takes.
DueOK == \A i \in cron.due : made[i].marked => made[i].age >= Interval(row[i])

\* The server stores schedules and has no thread that runs them.
SidesOK == app \in {"desktop", "server"} /\ (app = "server" => cron = Resting)

SchedulesInv ==
  /\ TemplatesOK /\ JobsOK /\ Synced /\ DigestTemplatesExist
  /\ CronOK /\ RowsOK /\ MarksOK /\ DueOK /\ SidesOK /\ ScheduleTemplatesExist

LEMMA IntervalBounds == ASSUME NEW r PROVE Interval(r) \in 1..Weekly /\ Interval(r) \in Nat
BY DEF Interval

LEMMA RestingCron == Resting \in Cron /\ Resting.due = {} /\ Resting.step = "off" /\ ~Resting.stop
BY DEF Resting, Cron, Steps

LEMMA SchedulesStart == SchedulesInit => SchedulesInv
<1> SUFFICES ASSUME SchedulesInit PROVE SchedulesInv OBVIOUS
<1>1. TemplatesOK /\ JobsOK /\ Synced /\ DigestTemplatesExist
  <2>1. IdleJob.step = "idle" BY DEF IdleJob
  <2> QED BY <2>1, IdleTyped DEF SchedulesInit, NewsletterInit, TemplatesOK, JobsOK, Synced, DigestTemplatesExist
<1>2. CronOK BY RestingCron DEF SchedulesInit, CronOK, Busy
<1>3. RowsOK BY DEF SchedulesInit, RowsOK
<1>4. MarksOK BY DEF SchedulesInit, MarksOK, Never
<1>5. DueOK BY RestingCron DEF SchedulesInit, DueOK
<1>6. SidesOK BY DEF SchedulesInit, SidesOK
<1>7. ScheduleTemplatesExist
  BY DEF SchedulesInit, NewsletterInit, ScheduleTemplatesExist, Rows
<1> QED BY <1>1, <1>2, <1>3, <1>4, <1>5, <1>6, <1>7 DEF SchedulesInv

\* An age that is capped keeps its order.
LEMMA LaterOrder ==
  ASSUME NEW m \in 0..Never, NEW n \in 0..Never
  PROVE  /\ Later(m) \in 0..Never /\ Later(m) >= m /\ (m # Never => Later(m) # Never)
         /\ Later(m) # 0
         /\ (m >= n /\ n # Never => Later(m) >= Later(n))
BY DEF Later, Never

\* Time passes for what was marked and for what is due.
LEMMA TimePasses ==
  ASSUME MarksOK, DueOK, CronOK, cron'.due \subseteq cron.due, UNCHANGED row,
         last' = [i \in Ids |-> Later(last[i])],
         made' = [i \in Ids |-> [made[i] EXCEPT !.age = Later(@)]]
  PROVE  MarksOK' /\ DueOK'
<1>1. \A i \in Ids : /\ last[i] \in 0..Never /\ made[i].age \in 0..Never /\ made[i].marked \in BOOLEAN
                     /\ made[i] \in [age : 0..Never, marked : BOOLEAN]
  BY DEF MarksOK
<1>2. \A i \in Ids : made'[i] = [age |-> Later(made[i].age), marked |-> made[i].marked] BY <1>1
<1>3. \A i \in Ids : Later(last[i]) \in 0..Never /\ Later(made[i].age) \in 0..Never BY <1>1, LaterOrder
<1>4. last' \in [Ids -> 0..Never] /\ made' \in [Ids -> [age : 0..Never, marked : BOOLEAN]]
  <2>1. \A i \in Ids : made'[i] \in [age : 0..Never, marked : BOOLEAN] BY <1>1, <1>2, <1>3
  <2> QED BY <1>3, <2>1
<1>5. ASSUME NEW i \in Ids, made'[i].marked PROVE last'[i] # Never /\ made'[i].age >= last'[i]
  <2>1. made[i].marked /\ made'[i].age = Later(made[i].age) /\ last'[i] = Later(last[i]) BY <1>2, <1>5
  <2>2. last[i] # Never /\ made[i].age >= last[i] BY <2>1 DEF MarksOK
  <2> QED BY <1>1, <2>1, <2>2, LaterOrder
<1>6. ASSUME NEW i \in cron'.due, made'[i].marked PROVE made'[i].age >= Interval(row'[i])
  <2>1. i \in Ids /\ i \in cron.due BY DEF CronOK, Cron
  <2>2. made[i].marked /\ made'[i].age = Later(made[i].age) BY <1>2, <1>6, <2>1
  <2>3. made[i].age >= Interval(row[i]) BY <2>1, <2>2 DEF DueOK
  <2>4. Later(made[i].age) >= made[i].age /\ Later(made[i].age) \in Nat BY <1>1, <2>1, LaterOrder
  <2> QED BY <1>1, <2>1, <2>2, <2>3, <2>4, IntervalBounds
<1>7. MarksOK' BY <1>4, <1>5 DEF MarksOK, Never
<1>8. DueOK' BY <1>6 DEF DueOK, Interval
<1> QED BY <1>7, <1>8

-----------------------------------------------------------------------------
(* The parts of the invariant that a step leaves alone.                    *)

LEMMA TemplatesKept ==
  ASSUME TemplatesOK, JobsOK, Synced, DigestTemplatesExist, UNCHANGED newsletterVars
  PROVE  TemplatesOK' /\ JobsOK' /\ Synced' /\ DigestTemplatesExist'
BY DEF newsletterVars, TemplatesOK, JobsOK, Synced, DigestTemplatesExist

LEMMA RowsKept ==
  ASSUME RowsOK, ScheduleTemplatesExist, UNCHANGED row, minute' \in 0..(DayLength - 1), templates \subseteq templates'
  PROVE  RowsOK' /\ ScheduleTemplatesExist'
BY DEF RowsOK, ScheduleTemplatesExist

LEMMA MarksKept ==
  ASSUME MarksOK, DueOK, UNCHANGED <<last, made, row>>, cron'.due \subseteq cron.due
  PROVE  MarksOK' /\ DueOK'
BY DEF MarksOK, DueOK, Interval

LEMMA CronKept ==
  ASSUME CronOK, UNCHANGED cron, templates \subseteq templates'
  PROVE  CronOK'
BY DEF CronOK

-----------------------------------------------------------------------------
(* The API of the server.                                                  *)

ApiStep == \E i \in Ids : Delete(i) \/ \E r \in Requested : Create(i, r) \/ Update(i, r)

LEMMA RequestedRows ==
  ASSUME NEW r \in Requested, r.key \in Keys PROVE r \in Rows
BY DEF Requested, Rows

LEMMA ApiKept == ASSUME SchedulesInv, ApiStep PROVE SchedulesInv'
<1> USE DEF SchedulesInv
<1>1. /\ app = "server" /\ UNCHANGED <<digests, job, app, minute, last, made, cron>>
      /\ templates \subseteq templates' /\ templates' \subseteq templates \cup Keys
      /\ row' \in [Ids -> Rows \cup {NoRow}]
      /\ \A i \in Ids : row'[i] # NoRow => row'[i].key \in templates'
  <2>1. PICK i \in Ids : Delete(i) \/ \E r \in Requested : Create(i, r) \/ Update(i, r) BY DEF ApiStep
  <2>2. CASE Delete(i)
    BY <2>2 DEF Delete, newsletterVars, RowsOK, ScheduleTemplatesExist
  <2>3. ASSUME NEW r \in Requested, Create(i, r)
        PROVE  <1>1!:
    <3>1. templates' = templates \cup Keys BY <2>3 DEF Create, Sync
    <3>2. CASE r.key \in templates'
      <4>1. r \in Rows BY <3>1, <3>2, RequestedRows DEF TemplatesOK
      <4> QED BY <2>3, <3>1, <3>2, <4>1 DEF Create, RowsOK, ScheduleTemplatesExist
    <3>3. CASE r.key \notin templates'
      BY <2>3, <3>1, <3>3 DEF Create, RowsOK, ScheduleTemplatesExist
    <3> QED BY <3>2, <3>3
  <2>4. ASSUME NEW r \in Requested, Update(i, r)
        PROVE  <1>1!:
    <3>1. templates' \in {templates, templates \cup Keys} BY <2>4 DEF Update, Sync
    <3>2. CASE r.key \in templates'
      <4>1. r \in Rows BY <3>1, <3>2, RequestedRows DEF TemplatesOK
      <4> QED BY <2>4, <3>1, <3>2, <4>1 DEF Update, RowsOK, ScheduleTemplatesExist
    <3>3. CASE r.key \notin templates'
      BY <2>4, <3>1, <3>3 DEF Update, RowsOK, ScheduleTemplatesExist
    <3> QED BY <3>2, <3>3
  <2> QED BY <2>1, <2>2, <2>3, <2>4
<1>2. TemplatesOK' /\ JobsOK' /\ Synced' /\ DigestTemplatesExist'
  BY <1>1 DEF TemplatesOK, JobsOK, Synced, DigestTemplatesExist
<1>3. CronOK' BY <1>1, CronKept
<1>4. RowsOK' /\ ScheduleTemplatesExist' BY <1>1 DEF RowsOK, ScheduleTemplatesExist
<1>5. MarksOK' BY <1>1 DEF MarksOK
<1>6. DueOK'
  <2>1. cron.due = {} BY <1>1, RestingCron DEF SidesOK
  <2> QED BY <1>1, <2>1 DEF DueOK
<1>7. SidesOK' BY <1>1 DEF SidesOK
<1> QED BY <1>2, <1>3, <1>4, <1>5, <1>6, <1>7

-----------------------------------------------------------------------------
(* The thread of the desktop.                                              *)

LookStep == Start \/ Poll \/ Pick \/ CronBody \/ CronLook \/ Stop

\* A step of the thread that writes nothing.
LEMMA LookKept == ASSUME SchedulesInv, LookStep PROVE SchedulesInv'
<1> USE DEF SchedulesInv
<1>1. UNCHANGED <<newsletterVars, app, row, minute, last, made>> /\ app = "desktop"
  BY DEF LookStep, Start, Poll, Pick, CronBody, CronLook, Stop, At, SidesOK
<1>2. TemplatesOK' /\ JobsOK' /\ Synced' /\ DigestTemplatesExist' BY <1>1, TemplatesKept
<1>3. templates' = templates BY <1>1 DEF newsletterVars
<1>4. RowsOK' /\ ScheduleTemplatesExist' BY <1>1, <1>3, RowsKept DEF RowsOK
<1>5. CronOK'
  <2> USE DEF CronOK, Cron, Steps, Busy, At, Then, Next, Failure
  <2>1. CASE Start BY <2>1 DEF Start
  <2>2. CASE Poll BY <2>2 DEF Poll, Broken
  <2>3. CASE Pick BY <2>3 DEF Pick
  <2>4. CASE CronBody BY <2>4 DEF CronBody
  <2>5. CASE CronLook BY <1>3, <2>5 DEF CronLook, TemplatesOK
  <2>6. CASE Stop BY <1>3, <2>6 DEF Stop
  <2> QED BY <2>1, <2>2, <2>3, <2>4, <2>5, <2>6 DEF LookStep
<1>6. MarksOK' BY <1>1 DEF MarksOK
<1>7. DueOK'
  <2>1. CASE Poll /\ ~Broken
    <3>1. \A i \in cron'.due : i \in Ids /\ Due(i) BY <2>1 DEF Poll, CronOK, Cron
    <3>2. ASSUME NEW i \in cron'.due, made[i].marked PROVE made[i].age >= Interval(row[i])
      <4>1. last[i] # Never /\ made[i].age >= last[i] /\ i \in Ids BY <3>1, <3>2 DEF MarksOK
      <4>2. last[i] >= Interval(row[i]) BY <3>1, <4>1 DEF Due
      <4>3. last[i] \in Nat /\ made[i].age \in Nat BY <4>1 DEF MarksOK, Never
      <4> QED BY <4>1, <4>2, <4>3, IntervalBounds
    <3> QED BY <1>1, <3>2 DEF DueOK, Interval
  <2>2. CASE ~Poll \/ Broken
    <3>1. cron'.due \subseteq cron.due
      <4> USE DEF CronOK, Cron, Then, Next, Failure
      <4>4. CASE Broken BY <4>4 DEF Broken
      <4>1. CASE Start \/ CronBody BY <4>1 DEF Start, CronBody
      <4>2. CASE Pick BY <4>2 DEF Pick
      <4>3. CASE CronLook \/ Stop BY <4>3 DEF CronLook, Stop
      <4> QED BY <2>2, <4>1, <4>2, <4>3, <4>4 DEF LookStep
    <3> QED BY <1>1, <3>1, MarksKept
  <2> QED BY <2>1, <2>2
<1>8. SidesOK' BY <1>1 DEF SidesOK
<1> QED BY <1>2, <1>4, <1>5, <1>6, <1>7, <1>8

WriteStep == CronSync \/ CronSave \/ CronMark

\* A transaction of the thread, or its failure.
LEMMA WriteKept == ASSUME SchedulesInv, WriteStep PROVE SchedulesInv'
<1> USE DEF SchedulesInv
<1>1. UNCHANGED <<job, app, row, minute>> /\ app = "desktop" /\ cron.step \in Busy /\ cron.id \in cron.due /\ cron.id \in Ids
  BY DEF WriteStep, CronSync, CronSave, CronMark, At, newsletterVars, CronOK, Cron, Busy
<1>2. TemplatesOK' /\ DigestTemplatesExist' /\ templates \subseteq templates'
  <2>1. CASE CronSync
    <3>1. CASE Sync(cron.seen) BY <2>1, <3>1, TemplatesSynced DEF CronSync
    <3>2. CASE UNCHANGED templates BY <2>1, <3>2 DEF CronSync, TemplatesOK, DigestTemplatesExist
    <3> QED BY <2>1, <3>1, <3>2 DEF CronSync
  <2>2. CASE CronSave
    <3>1. UNCHANGED templates /\ Keys \subseteq templates BY <2>2 DEF CronSave, At, CronOK
    <3>2. CASE SaveDigest(row[cron.id].key, TRUE) BY <3>1, <3>2, DigestSaved
    <3>3. CASE UNCHANGED digests BY <3>1, <3>3 DEF TemplatesOK, DigestTemplatesExist
    <3> QED BY <2>2, <3>2, <3>3 DEF CronSave
  <2>3. CASE CronMark BY <2>3 DEF CronMark, newsletterVars, TemplatesOK, DigestTemplatesExist
  <2> QED BY <2>1, <2>2, <2>3 DEF WriteStep
<1>3. JobsOK' /\ Synced' BY <1>1, <1>2 DEF JobsOK, Synced
<1>4. RowsOK' /\ ScheduleTemplatesExist' BY <1>1, <1>2, RowsKept DEF RowsOK
<1>5. CronOK'
  <2> USE DEF CronOK, Cron, Steps, Busy, At, Then, Next, Broken
  <2>1. CASE CronSync
    <3>1. CASE Sync(cron.seen) /\ Then("save") BY <2>1, <3>1 DEF CronSync, Sync
    <3>2. CASE Broken BY <2>1, <3>2 DEF CronSync
    <3> QED BY <2>1, <3>1, <3>2 DEF CronSync
  <2>2. CASE CronSave BY <2>2 DEF CronSave
  <2>3. CASE CronMark BY <2>3 DEF CronMark
  <2> QED BY <2>1, <2>2, <2>3 DEF WriteStep
<1>6. cron'.due \subseteq cron.due
  <2> USE DEF CronOK, Cron, Then, Next, Broken
  <2>1. CASE CronSync \/ CronSave BY <2>1 DEF CronSync, CronSave
  <2>2. CASE CronMark BY <2>2 DEF CronMark
  <2> QED BY <2>1, <2>2 DEF WriteStep
<1>7. MarksOK' /\ DueOK'
  <2>1. CASE UNCHANGED <<last, made>> BY <1>1, <1>6, <2>1, MarksKept
  <2>2. CASE CronSave /\ ~UNCHANGED made
    <3>1. made' = [made EXCEPT ![cron.id] = [age |-> 0, marked |-> FALSE]] /\ UNCHANGED last
      BY <2>2 DEF CronSave
    <3>2. MarksOK' BY <1>1, <3>1 DEF MarksOK, Never
    <3>3. \A i \in cron'.due : made'[i].marked => made'[i] = made[i] /\ i \in cron.due
      BY <1>1, <1>6, <3>1 DEF MarksOK, CronOK, Cron
    <3> QED BY <1>1, <3>2, <3>3 DEF DueOK, Interval
  <2>3. CASE CronMark /\ ~UNCHANGED <<last, made>>
    <3>1. /\ last' = [last EXCEPT ![cron.id] = 0] /\ made' = [made EXCEPT ![cron.id].marked = TRUE]
          /\ cron'.due = cron.due \ {cron.id}
      BY <2>3 DEF CronMark, Marked, Next, Broken, Then, CronOK, Cron
    <3>2. \A i \in Ids : i # cron.id => last'[i] = last[i] /\ made'[i] = made[i]
      BY <3>1 DEF MarksOK
    <3>3. last'[cron.id] = 0 /\ made'[cron.id].age = made[cron.id].age /\ made[cron.id].age \in 0..Never
      BY <1>1, <3>1 DEF MarksOK
    <3>4. last' \in [Ids -> 0..Never] /\ made' \in [Ids -> [age : 0..Never, marked : BOOLEAN]]
      <4> DEFINE new == [made[cron.id] EXCEPT !.marked = TRUE]
      <4>1. made' = [made EXCEPT ![cron.id] = new] BY <3>1
      <4>2. new \in [age : 0..Never, marked : BOOLEAN] BY <1>1 DEF MarksOK
      <4> HIDE DEF new
      <4>3. made' \in [Ids -> [age : 0..Never, marked : BOOLEAN]] BY <4>1, <4>2 DEF MarksOK
      <4>4. last \in [Ids -> 0..Never] BY DEF MarksOK
      <4>5. last' = [last EXCEPT ![cron.id] = 0] BY <3>1, Zenon
      <4>6. 0 \in 0..Never BY DEF Never
      <4>7. last' \in [Ids -> 0..Never] BY <4>4, <4>5, <4>6
      <4> QED BY <4>3, <4>7
    <3>5. MarksOK' BY <3>2, <3>3, <3>4 DEF MarksOK, Never
    <3>6. \A i \in cron'.due : i \in cron.due /\ made'[i] = made[i]
      BY <3>1, <3>2 DEF CronOK, Cron
    <3> QED BY <1>1, <3>5, <3>6 DEF DueOK, Interval
  <2> QED BY <2>1, <2>2, <2>3 DEF WriteStep, CronSync, CronSave, CronMark
<1>8. SidesOK' BY <1>1 DEF SidesOK
<1> QED BY <1>2, <1>3, <1>4, <1>5, <1>7, <1>8

\* The clock, and the end of the process.
LEMMA OutsideKept == ASSUME SchedulesInv, Tick \/ CronWait \/ Restart PROVE SchedulesInv'
<1> USE DEF SchedulesInv
<1>1. app = "desktop" /\ UNCHANGED <<templates, digests, app, row>> BY DEF Tick, CronWait, Restart, At, newsletterVars
<1>2. TemplatesOK' /\ DigestTemplatesExist' BY <1>1 DEF TemplatesOK, DigestTemplatesExist
<1>3. JobsOK' /\ Synced'
  <2>1. CASE Restart
    <3>1. IdleJob.step # "save" BY DEF IdleJob
    <3> QED BY <2>1, <3>1, IdleTyped DEF Restart, JobsOK, Synced
  <2>2. CASE Tick \/ CronWait BY <2>2 DEF Tick, CronWait, newsletterVars, JobsOK, Synced
  <2> QED BY <2>1, <2>2
<1>4. RowsOK' /\ ScheduleTemplatesExist'
  <2>1. (minute + 1) % DayLength \in 0..(DayLength - 1) BY DEF RowsOK
  <2>2. minute' \in 0..(DayLength - 1) BY <2>1 DEF Tick, CronWait, Restart, RowsOK
  <2> QED BY <1>1, <2>2, RowsKept
<1>5. CronOK' /\ cron'.due \subseteq cron.due
  <2>1. CASE Restart BY <2>1, RestingCron DEF Restart, CronOK, Busy
  <2>2. CASE Tick BY <1>1, <2>2, CronKept DEF Tick
  <2>3. CASE CronWait BY <2>3 DEF CronWait, CronOK, Cron, Steps, Busy, At, Then
  <2> QED BY <2>1, <2>2, <2>3
<1>6. MarksOK' /\ DueOK'
  <2>1. CASE UNCHANGED <<last, made>> BY <1>1, <1>5, <2>1, MarksKept
  <2>2. CASE ~UNCHANGED <<last, made>> BY <1>1, <1>5, <2>2, TimePasses DEF Tick, CronWait, Restart
  <2> QED BY <2>1, <2>2
<1>7. SidesOK' BY <1>1 DEF SidesOK
<1> QED BY <1>2, <1>3, <1>4, <1>5, <1>6, <1>7

LEMMA GenerationKept ==
  ASSUME SchedulesInv, NewsletterStep(Asked), UNCHANGED scheduleVars PROVE SchedulesInv'
<1> USE DEF SchedulesInv, scheduleVars
<1>1. Asked \in SUBSET Asks BY PlainAsked DEF Asked
<1>2. TemplatesOK' /\ JobsOK' /\ Synced' /\ DigestTemplatesExist' /\ templates \subseteq templates'
  BY <1>1, NewsletterKept
<1>3. CronOK' BY <1>2, CronKept
<1>4. RowsOK' /\ ScheduleTemplatesExist' BY <1>2, RowsKept DEF RowsOK
<1>5. MarksOK' /\ DueOK' BY MarksKept
<1>6. SidesOK' BY DEF SidesOK
<1> QED BY <1>2, <1>3, <1>4, <1>5, <1>6

LEMMA SchedulesKept == SchedulesInv /\ [SchedulesNext]_allVars => SchedulesInv'
<1> SUFFICES ASSUME SchedulesInv, [SchedulesNext]_allVars PROVE SchedulesInv' OBVIOUS
<1>1. CASE UNCHANGED allVars
  BY <1>1, TemplatesKept, CronKept, RowsKept, MarksKept
     DEF allVars, scheduleVars, newsletterVars, SchedulesInv, RowsOK, SidesOK
<1>2. CASE SchedulesNext
  BY <1>2, GenerationKept, ApiKept, LookKept, WriteKept, OutsideKept
     DEF SchedulesNext, ApiStep, LookStep, WriteStep
<1> QED BY <1>1, <1>2

-----------------------------------------------------------------------------
\* The invariant of every behaviour.
THEOREM SchedulesInvariant == SchedulesSpec => []SchedulesInv
<1> QED BY SchedulesStart, SchedulesKept, PTL DEF SchedulesSpec

\* Types, for any set of templates and schedules.
THEOREM SchedulesTypeCorrect == SchedulesSpec => []SchedulesTypeOK
<1>1. SchedulesInv => SchedulesTypeOK
  <2> SUFFICES ASSUME SchedulesInv PROVE SchedulesTypeOK OBVIOUS
  <2>1. NewsletterTypeOK BY TypeOfNewsletter DEF SchedulesInv
  <2>2. cron.step \in Steps /\ cron.due \subseteq Ids /\ cron.seen \subseteq Keys /\ cron.id \in Ids \cup {NoId}
    BY DEF SchedulesInv, CronOK, Cron
  <2>3. cron.step \in Busy => cron.id \in Ids BY <2>2 DEF SchedulesInv, CronOK
  <2> QED BY <2>1, <2>2, <2>3 DEF SchedulesInv, SchedulesTypeOK, RowsOK, MarksOK, Busy
<1> QED BY <1>1, SchedulesInvariant, PTL

\* Digests and schedules name templates that are there (the foreign keys
\* template_key), whoever inserted the templates.
THEOREM TemplatesHold == SchedulesSpec => []TemplatesExist
<1>1. SchedulesInv => TemplatesExist BY DEF SchedulesInv, TemplatesExist
<1> QED BY <1>1, SchedulesInvariant, PTL

LEMMA StepApart ==
  ASSUME SchedulesInv, [SchedulesNext]_allVars, NEW i \in Ids, made'[i] = [age |-> 0, marked |-> FALSE]
  PROVE  ~made[i].marked \/ made[i].age >= Interval(row[i])
<1>1. made[i] \in [age : 0..Never, marked : BOOLEAN] /\ ~made'[i].marked BY DEF SchedulesInv, MarksOK
<1>2. CASE UNCHANGED made BY <1>1, <1>2
<1>3. CASE CronSave /\ made' = [made EXCEPT ![cron.id] = [age |-> 0, marked |-> FALSE]]
  <2>1. cron.id \in cron.due BY <1>3 DEF CronSave, At, SchedulesInv, CronOK, Busy
  <2>2. CASE i = cron.id BY <2>1, <2>2 DEF SchedulesInv, DueOK
  <2>3. CASE i # cron.id BY <1>1, <1>3, <2>3 DEF SchedulesInv, MarksOK
  <2> QED BY <2>2, <2>3
<1>4. CASE CronMark /\ made' = [made EXCEPT ![cron.id].marked = TRUE]
  <2>1. made[i].marked => made'[i].marked BY <1>4 DEF SchedulesInv, MarksOK
  <2> QED BY <1>1, <2>1
<1>5. CASE made' = [j \in Ids |-> [made[j] EXCEPT !.age = Later(@)]]
  <2>1. made[i].marked => made'[i].marked BY <1>1, <1>5
  <2> QED BY <1>1, <2>1
<1>6. \/ UNCHANGED made
      \/ CronSave /\ made' = [made EXCEPT ![cron.id] = [age |-> 0, marked |-> FALSE]]
      \/ CronMark /\ made' = [made EXCEPT ![cron.id].marked = TRUE]
      \/ made' = [j \in Ids |-> [made[j] EXCEPT !.age = Later(@)]]
  BY DEF SchedulesNext, allVars, scheduleVars, Delete, Create, Update, Tick, Start, Poll, Pick, CronBody, CronLook,
         CronSync, CronSave, CronMark, CronWait, Stop, Restart
<1> QED BY <1>2, <1>3, <1>4, <1>5, <1>6

\* Two digests of a schedule are as far apart as its cadence asks, unless the
\* first was not marked (pipeline.py: _schedule_due, mark_schedule_run).
THEOREM DigestsApartHolds == SchedulesSpec => DigestsApart
<1>1. SchedulesInv /\ [SchedulesNext]_allVars =>
        [\A i \in Ids : made'[i] = [age |-> 0, marked |-> FALSE] =>
           ~made[i].marked \/ made[i].age >= IF row[i].cadence = "weekly" THEN Weekly ELSE Daily]_allVars
  BY StepApart DEF Interval
<1> QED BY <1>1, SchedulesInvariant, PTL DEF SchedulesSpec, DigestsApart

\* A poll that ends tried all that was due, or the worker was stopped
\* (cron_digest.py: the try of every schedule of its own).
THEOREM AllTriedHolds == SchedulesSpec => AllTried
<1>1. SchedulesInv' => (cron'.step = "wait" => cron'.due = {} \/ cron'.stop)
  BY DEF SchedulesInv, CronOK
<1>2. SchedulesInv /\ [SchedulesNext]_allVars =>
        [cron'.step = "wait" => cron'.due = {} \/ cron'.stop]_allVars
  BY <1>1, SchedulesKept
<1> QED BY <1>2, SchedulesInvariant, PTL DEF SchedulesSpec, AllTried

-----------------------------------------------------------------------------
(* What a text is made from.                                               *)

\* SourcesRespected of one generation.
Sourced(ask, draft) ==
  /\ ask.topic.clipboard => ~draft.search
  /\ WorldEvents(ask.topic) \/ ask.key = EventsKey => ~draft.llm
  /\ draft.text = "results" => draft.search /\ draft.answer = "results"

LEMMA BodySourced ==
  ASSUME NEW ask \in Asks, NEW answer \in NoResults \cup {"results", "unusable"}
  PROVE  LET body == Body(ask.topic, TemplateOf(ask.key), ask.mode, answer)
         IN Sourced(ask, [text |-> body.text, search |-> body.search, llm |-> body.llm, answer |-> answer])
<1> DEFINE key == TemplateOf(ask.key)
<1> DEFINE body == Body(ask.topic, key, ask.mode, answer)
<1>1. ask.key = EventsKey => key = EventsKey BY DEF TemplateOf
<1>2. ask.topic.clipboard => ~body.search BY DEF Body, EventsBrief
<1>3. WorldEvents(ask.topic) \/ key = EventsKey => ~body.llm BY DEF Body, EventsBrief
<1>4. body.text = "results" => body.search /\ answer = "results" BY DEF Body, EventsBrief, Unavailable
<1>5. Sourced(ask, [text |-> body.text, search |-> body.search, llm |-> body.llm, answer |-> answer])
  <2> HIDE DEF body, key
  <2> QED BY <1>1, <1>2, <1>3, <1>4 DEF Sourced
<1> QED BY <1>5, Zenon

LEMMA SourcesKept ==
  ASSUME JobsOK, SourcesRespected, [SchedulesNext]_allVars PROVE SourcesRespected'
<1> SUFFICES ASSUME NEW j \in Jobs, job'[j].step = "look" PROVE Sourced(job'[j].ask, job'[j].draft)
  BY DEF SourcesRespected, Sourced
<1>1. CASE job'[j] = job[j] BY <1>1 DEF SourcesRespected, Sourced
<1>2. CASE Generated(j) /\ job'[j] # job[j]
  <2>1. job[j] \in Job BY DEF JobsOK
  <2>2. job'[j] # IdleJob BY DEF IdleJob
  <2>3. job' # [job EXCEPT ![j] = IdleJob] BY <2>2 DEF JobsOK
  <2>4. PICK answer \in Searched(job[j].ask.mode) :
          LET body == Body(job[j].ask.topic, TemplateOf(job[j].ask.key), job[j].ask.mode, answer)
              draft == [text |-> body.text, search |-> body.search, llm |-> body.llm, answer |-> answer]
          IN job' = [job EXCEPT ![j] = [step |-> "look", seen |-> {}, ask |-> job[j].ask, draft |-> draft]]
    BY <1>2, <2>3, Zenon DEF Generated
  <2> DEFINE body == Body(job[j].ask.topic, TemplateOf(job[j].ask.key), job[j].ask.mode, answer)
  <2> DEFINE draft == [text |-> body.text, search |-> body.search, llm |-> body.llm, answer |-> answer]
  <2>5. job' = [job EXCEPT ![j] = [step |-> "look", seen |-> {}, ask |-> job[j].ask, draft |-> draft]] BY <2>4
  <2>6. job[j].ask \in Asks /\ answer \in NoResults \cup {"results", "unusable"}
    <3>1. job[j].ask \in Asks BY <2>1 DEF Job
    <3>2. job[j].ask.mode \in {"serper", "fallback", "disabled"} BY <3>1 DEF Asks
    <3> QED BY <2>4, <3>1, <3>2 DEF Searched, NoResults
  <2>7. Sourced(job[j].ask, draft) BY <2>6, BodySourced, Zenon
  <2> HIDE DEF draft
  <2>8. job'[j].ask = job[j].ask /\ job'[j].draft = draft BY <2>5 DEF JobsOK
  <2> QED BY <2>7, <2>8
<1>3. \/ job'[j] = job[j]
      \/ Generated(j) /\ job'[j] # job[j]
  <2>1. CASE NewsletterStep(Asked)
    <3>1. PICK i \in Jobs :
            \/ \E ask \in Asked : Request(i, ask)
            \/ Generated(i) \/ Look(i) \/ SyncTemplates(i)
            \/ \E key \in Keys \cup {OtherKey} : Save(i, key)
      BY <2>1 DEF NewsletterStep
    <3>2. \E new : job' = [job EXCEPT ![i] = new] BY <3>1 DEF Request, Generated, Look, SyncTemplates, Save
    <3>3. i # j => job'[j] = job[j] BY <3>2 DEF JobsOK
    <3>4. CASE i = j
      <4>1. \A ask \in Asked : ~Request(j, ask) BY DEF Request, JobsOK
      <4>2. job' # [job EXCEPT ![j] = IdleJob] BY DEF IdleJob, JobsOK
      <4>3. ~Look(j) BY DEF Look, IdleJob, JobsOK
      <4>4. ~SyncTemplates(j)
        <5> DEFINE saving == [job[j] EXCEPT !.step = "save"]
        <5>1. saving.step = "save" BY DEF JobsOK, Job
        <5>2. job' # [job EXCEPT ![j] = saving]
          <6> HIDE DEF saving
          <6> QED BY <5>1 DEF JobsOK
        <5>3. SyncTemplates(j) => job' = [job EXCEPT ![j] = saving] \/ job' = [job EXCEPT ![j] = IdleJob]
          BY DEF SyncTemplates
        <5> QED BY <4>2, <5>2, <5>3, Zenon
      <4>5. \A key : ~Save(j, key) BY <4>2, Zenon DEF Save
      <4> QED BY <3>1, <3>4, <4>1, <4>3, <4>4, <4>5
    <3> QED BY <3>3, <3>4
  <2>2. CASE Restart
    <3>1. job'[j] = IdleJob BY <2>2 DEF Restart
    <3> QED BY <3>1 DEF IdleJob
  <2>3. CASE ~NewsletterStep(Asked) /\ ~Restart
    <3>1. job' = job
      BY <2>3 DEF SchedulesNext, allVars, newsletterVars, Delete, Create, Update, Tick, Start, Poll, Pick, CronBody,
         CronLook, CronSync, CronSave, CronMark, CronWait, Stop
    <3> QED BY <3>1
  <2> QED BY <2>1, <2>2, <2>3
<1> QED BY <1>1, <1>2, <1>3

\* A question about the clipboard is never searched for, and world events are
\* never left to the model (pipeline.py: _build_body), whatever a search answers.
THEOREM SourcesHold == SchedulesSpec => []SourcesRespected
<1>1. SchedulesInit => SourcesRespected
  BY DEF SchedulesInit, NewsletterInit, SourcesRespected, IdleJob
<1>2. SchedulesInv /\ SourcesRespected /\ [SchedulesNext]_allVars => SourcesRespected'
  BY SourcesKept DEF SchedulesInv
<1> QED BY <1>1, <1>2, SchedulesInvariant, PTL DEF SchedulesSpec
=============================================================================
