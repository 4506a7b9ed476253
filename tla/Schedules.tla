------------------------------ MODULE Schedules ------------------------------
(***************************************************************************)
(* Newsletter schedules: the rows that the server's API edits, and the     *)
(* thread of the desktop that generates what is due.                       *)
(*                                                                         *)
(* The clock has DayLength ticks a day, one per poll.  A schedule is due   *)
(* in one tick of the day, if enough time has passed since it was marked.  *)
(* The thread computes what is due once and then generates one after the   *)
(* other, in any order, while the clock goes on; the process may end at    *)
(* any moment.                                                             *)
(***************************************************************************)
EXTENDS Newsletter

CONSTANTS
  Ids, NoId,        \* primary keys of newsletterschedule
  DayLength,        \* ticks of a day
  Daily, Weekly     \* 23 hours, and 6 days and 23 hours, in ticks

ASSUME SchedulesAssumption == NoId \notin Ids /\ DayLength \in Nat /\ Daily \in 1..DayLength /\ Weekly \in Daily..(7 * DayLength)

VARIABLES
  app,        \* "desktop" or "server": where the table is
  row,        \* newsletterschedule
  minute,     \* the time of the day
  last,       \* ticks since last_run_at, up to Weekly, or Never
  made,       \* ticks since the last digest of a schedule, and whether it was marked
  cron        \* CronDigestWorker: its step, the list of due schedules, the stop event

scheduleVars == <<app, row, minute, last, made, cron>>
allVars == <<newsletterVars, scheduleVars>>

Never == Weekly + 1
NoRow == [cadence |-> "none", minute |-> 0, key |-> DefaultKey, enabled |-> FALSE]
Rows == [cadence : {"daily", "weekly"}, minute : {0, 1}, key : Keys, enabled : BOOLEAN]
Requested == [cadence : {"daily"}, minute : {0}, key : Keys \cup {OtherKey}, enabled : {TRUE}]
Resting == [step |-> "off", due |-> {}, id |-> NoId, seen |-> {}, stop |-> FALSE]
Steps == {"off", "poll", "body", "look", "sync", "save", "mark", "next", "wait", "dead"}

SchedulesTypeOK ==
  /\ NewsletterTypeOK
  /\ row \in [Ids -> Rows \cup {NoRow}] /\ minute \in 0..(DayLength - 1)
  /\ last \in [Ids -> 0..Never] /\ made \in [Ids -> [age : 0..Never, marked : BOOLEAN]]
  /\ cron.step \in Steps /\ cron.due \subseteq Ids /\ cron.seen \subseteq Keys
  /\ cron.id \in Ids \cup {NoId} /\ (cron.step \in {"body", "look", "sync", "save", "mark"} => cron.id \in Ids)

\* Nothing in the desktop makes schedules: its table has what it was given.
SchedulesInit ==
  /\ NewsletterInit
  /\ app \in {"desktop", "server"}
  /\ row \in IF app = "server" THEN {[i \in Ids |-> NoRow]}
             ELSE [Ids -> {r \in Rows : r.enabled /\ r.minute = 0 /\ r.key = DefaultKey}]
  /\ (\E i \in Ids : row[i] # NoRow) => templates # {}
  /\ minute = 0
  /\ last = [i \in Ids |-> Never] /\ made = [i \in Ids |-> [age |-> Never, marked |-> FALSE]]
  /\ cron = Resting

\* A mark as old as the longest interval is as good as an older one.
Later(n) == IF n >= Weekly THEN n ELSE n + 1

Tick ==
  /\ app = "desktop"
  /\ minute' = (minute + 1) % DayLength
  /\ last' = [i \in Ids |-> Later(last[i])]
  /\ made' = [i \in Ids |-> [made[i] EXCEPT !.age = Later(@)]]
  /\ UNCHANGED <<newsletterVars, app, row, cron>>

-----------------------------------------------------------------------------
(* The API of the server: nothing runs what it stores (see the README).    *)

\* create_schedule: the templates are committed on their own, and an unknown
\* key is refused.
Create(i, r) ==
  /\ app = "server" /\ row[i] = NoRow
  /\ Sync(templates)
  /\ row' = [row EXCEPT ![i] = IF r.key \in templates' THEN r ELSE NoRow]
  /\ UNCHANGED <<digests, job, app, minute, last, made, cron>>

\* update_schedule.
Update(i, r) ==
  /\ app = "server" /\ row[i] # NoRow
  /\ IF r.key # row[i].key THEN Sync(templates) ELSE UNCHANGED templates
  /\ row' = [row EXCEPT ![i] = IF r.key \in templates' THEN r ELSE @]
  /\ UNCHANGED <<digests, job, app, minute, last, made, cron>>

\* delete_schedule.
Delete(i) ==
  /\ app = "server" /\ row[i] # NoRow
  /\ row' = [row EXCEPT ![i] = NoRow]
  /\ UNCHANGED <<newsletterVars, app, minute, last, made, cron>>

-----------------------------------------------------------------------------
(* CronDigestWorker.                                                       *)

\* Mutation: every schedule waits for a day only.
IntervalDaily(r) == Daily

Interval(r) == IF r.cadence = "weekly" THEN Weekly ELSE Daily

\* _schedule_due.
Due(i) ==
  /\ row[i].enabled /\ row[i].minute = minute
  /\ last[i] = Never \/ last[i] >= Interval(row[i])

At(step) == app = "desktop" /\ cron.step = step
Then(step) == cron' = [cron EXCEPT !.step = step]

\* Past the handler of one schedule: the next one, or the wait.  After stop()
\* the rest of the list is left.
Next(step) ==
  cron' = [step |-> step, due |-> cron.due \ {cron.id}, id |-> NoId, seen |-> {}, stop |-> cron.stop]

\* Mutation: a schedule that fails ends the poll.
FailureEnds == Next("wait")

\* An error of the generation is logged and the next schedule follows.
Failure == Next("next")

\* An error of a transaction is logged with schedule.id, which the rollback has
\* expired: the handler raises and the thread ends.
Broken == Then("dead")

Start ==
  /\ At("off") /\ ~cron.stop
  /\ Then("poll")
  /\ UNCHANGED <<newsletterVars, app, row, minute, last, made>>

\* due_schedules is outside the handler: if it fails, the thread ends.
Poll ==
  /\ At("poll")
  /\ \/ cron' = [cron EXCEPT !.step = IF cron.stop THEN "off" ELSE "next", !.due = {i \in Ids : Due(i)}]
     \/ ~cron.stop /\ Broken
  /\ UNCHANGED <<newsletterVars, app, row, minute, last, made>>

Pick ==
  /\ At("next")
  /\ IF cron.due = {} \/ cron.stop THEN Then("wait")
     ELSE \E i \in cron.due : cron' = [cron EXCEPT !.step = "body", !.id = i]
  /\ UNCHANGED <<newsletterVars, app, row, minute, last, made>>

CronBody ==
  /\ At("body")
  /\ Then("look") \/ Failure
  /\ UNCHANGED <<newsletterVars, app, row, minute, last, made>>

CronLook ==
  /\ At("look")
  /\ cron' = [cron EXCEPT !.step = "sync", !.seen = templates]
  /\ UNCHANGED <<newsletterVars, app, row, minute, last, made>>

CronSync ==
  /\ At("sync")
  /\ \/ ~Conflicts(cron.seen) /\ Sync(cron.seen) /\ Then("save")
     \/ UNCHANGED templates /\ Broken
  /\ UNCHANGED <<digests, job, app, row, minute, last, made>>

CronSave ==
  /\ At("save")
  /\ \/ /\ SaveDigest(row[cron.id].key, TRUE)
        /\ made' = [made EXCEPT ![cron.id] = [age |-> 0, marked |-> FALSE]]
        /\ Then("mark")
     \/ UNCHANGED <<digests, made>> /\ Broken
  /\ UNCHANGED <<templates, job, app, row, minute, last>>

Marked(i) == last' = [last EXCEPT ![i] = 0]

\* mark_schedule_run.
CronMark ==
  /\ At("mark")
  /\ \/ /\ Marked(cron.id)
        /\ made' = [made EXCEPT ![cron.id].marked = TRUE]
        /\ Next("next")
     \/ UNCHANGED <<last, made>> /\ Broken
  /\ UNCHANGED <<newsletterVars, app, row, minute>>

\* The poll period and the time the list took: one tick or more.
CronWait ==
  /\ At("wait")
  /\ IF cron.stop THEN Then("off") /\ UNCHANGED <<minute, last, made>>
     ELSE /\ Then("poll")
          /\ minute' = (minute + 1) % DayLength
          /\ last' = [i \in Ids |-> Later(last[i])]
          /\ made' = [i \in Ids |-> [made[i] EXCEPT !.age = Later(@)]]
  /\ UNCHANGED <<newsletterVars, app, row>>

\* aboutToQuit: stop() waits three seconds, then the process ends whatever the
\* thread is doing, as it does in a crash.
Stop ==
  /\ app = "desktop" /\ cron.step # "off" /\ ~cron.stop
  /\ cron' = [cron EXCEPT !.stop = TRUE]
  /\ UNCHANGED <<newsletterVars, app, row, minute, last, made>>

Restart ==
  /\ app = "desktop"
  /\ cron' = Resting
  /\ job' = [j \in Jobs |-> IdleJob]
  /\ UNCHANGED <<templates, digests, app, row, minute, last, made>>

\* The requests of the server ask anything; on the desktop, next to the clock, one.
Asked == IF app = "server" THEN Asks ELSE {Plain}

SchedulesNext ==
  \/ NewsletterStep(Asked) /\ UNCHANGED scheduleVars
  \/ \E i \in Ids : Delete(i) \/ \E r \in Requested : Create(i, r) \/ Update(i, r)
  \/ Tick \/ Start \/ Poll \/ Pick \/ CronBody \/ CronLook \/ CronSync \/ CronSave \/ CronMark \/ CronWait
  \/ Stop \/ Restart

SchedulesSpec == SchedulesInit /\ [][SchedulesNext]_allVars

\* While the application runs, generations and transactions end.
Working == Poll \/ Pick \/ CronBody \/ CronLook \/ CronSync \/ CronSave \/ CronMark
WorkingSpec == SchedulesInit /\ [][SchedulesNext]_allVars /\ WF_allVars(Working)

-----------------------------------------------------------------------------
\* Two digests of a schedule are as far apart as its cadence asks, through long
\* generations, polls of the same minute and restarts; only a digest that was
\* committed and not marked is made again (pipeline.py: _schedule_due).
DigestsApart ==
  [][\A i \in Ids : made'[i] = [age |-> 0, marked |-> FALSE] =>
       ~made[i].marked \/ made[i].age >= IF row[i].cadence = "weekly" THEN Weekly ELSE Daily]_allVars

\* One schedule whose generation fails does not keep the others from running:
\* a poll ends when all that was due was tried, or the worker is stopped.
AllTried == [][cron'.step = "wait" => cron'.due = {} \/ cron'.stop]_allVars

\* A schedule names a template that is there.
ScheduleTemplatesExist == \A i \in Ids : row[i] # NoRow => row[i].key \in templates

\* Digests and schedules name templates that are there, whoever inserted the
\* built-in ones and whose insertion failed (templates.py, pipeline.py).
TemplatesExist == DigestTemplatesExist /\ ScheduleTemplatesExist

\* Every schedule that was found due is tried, unless the application ends.
DueTried == \A i \in Ids : i \in cron.due ~> i \notin cron.due
=============================================================================
