------------------------------ MODULE Scheduler ------------------------------
(***************************************************************************)
(* The daemon's job scheduler (daemon/scheduler.py) with its dispatch into *)
(* the owner sessions (daemon/server.py, _handle_scheduled_job_trigger and *)
(* run_input): the job table, its copy on disk, the triggers APScheduler   *)
(* holds in memory, the asyncio tasks that fire jobs, the input lock the   *)
(* fired turns wait for, and restarts with catch-up.                       *)
(*                                                                         *)
(* A job's type, owner, concurrency, max_runs and time never change after  *)
(* its creation, so they are constant functions of the job's id.  Time is  *)
(* counted in slots: a cron job is due once in every slot.                 *)
(***************************************************************************)
EXTENDS Integers, FiniteSets, InputLock

CONSTANTS
  Job,            \* job ids; an id is never used twice (_next_job_id)
  Handler,        \* concurrent deliveries of daemon events (handle_event)
  JobType,        \* [Job -> {"absolute", "cron", "event"}]
  Owner,          \* [Job -> Session]
  SkipWhenBusy,   \* the jobs with concurrency "skip"; the others queue
  MaxRuns,        \* [Job -> Nat], 0 for None
  At,             \* [Job -> Nat], the slot an absolute job asks for
  JobLimit,       \* session_job_limit
  CatchUpWindow,  \* catch_up_window_seconds, in slots
  MayMisfire,     \* TRUE if the event loop may wake later than the grace time
  MaxTime,        \* bound: the clock stops here
  MaxRestarts,    \* bound: how often the daemon stops
  MaxEventRuns,   \* bound: no event is delivered to a job that has run this often
  User,           \* the clients of a session, as one competitor for its lock
  NoJob           \* "no job is being fired"

ASSUME SchedulerAssumption ==
  /\ JobType \in [Job -> {"absolute", "cron", "event"}]
  /\ Owner \in [Job -> Session]
  /\ SkipWhenBusy \subseteq Job
  /\ MaxRuns \in [Job -> Nat]
  /\ At \in [Job -> Nat]
  /\ JobLimit \in Nat
  /\ CatchUpWindow \in Nat
  /\ MayMisfire \in BOOLEAN
  /\ MaxTime \in Nat
  /\ MaxRestarts \in Nat
  /\ MaxEventRuns \in Nat
  /\ NoJob \notin Job

VARIABLES
  jobs,      \* Scheduler._jobs
  disk,      \* jobs.json
  trig,      \* APScheduler: when a job is due next, NoTime if paused, or Absent
  tasks,     \* the asyncio tasks that fire jobs
  fresh,     \* ids not used so far
  now,       \* the wall clock
  up,        \* TRUE while the daemon runs
  restarts   \* how often it has stopped

vars == <<jobs, disk, trig, tasks, fresh, now, up, restarts, holder, waiters>>

-----------------------------------------------------------------------------
NoTime == -1      \* None, for a time
Absent == -2      \* APScheduler has no such job
Slot   == Nat
Status == {"active", "paused", "completed", "failed", "cancelled"}

JobRecord == [status : Status \cup {"none"}, runs : Nat, next : Slot \cup {NoTime}]

\* A task fires one job for APScheduler ("aps"; max_instances is 1, so there is
\* at most one per job), or one job late after a restart ("catchup"), or the
\* matching event jobs one after the other ("event").
Task == ({"aps", "catchup"} \X Job) \cup ({"event"} \X Handler)

\* The competitors for a lock are told apart.
ASSUME ActorAssumption == User \notin Task /\ NoOne \notin Task \cup {User}

TaskRecord == [phase : {"free", "begin", "waiting", "turn"},
               todo  : SUBSET Job,
               cur   : Job \cup {NoJob}]
Free == [phase |-> "free", todo |-> {}, cur |-> NoJob]
Firing(js) == [phase |-> "begin", todo |-> js, cur |-> NoJob]

Known(j) == jobs[j].status # "none"
HasTrigger(j) == trig[j] # Absent
Due(j) == trig[j] \in Slot /\ trig[j] <= now

Entry(status, runs, next) == [status |-> status, runs |-> runs, next |-> next]

Unknown == Entry("none", 0, NoTime)

\* The whole table is written at every change, atomically (os.replace).
Save(table) == jobs' = table /\ disk' = table

\* Mutant of SetJob: the change is not saved.
SetJobUnsaved(j, entry) == jobs' = [jobs EXCEPT ![j] = entry] /\ UNCHANGED disk

\* update_job
SetJob(j, entry) == Save([jobs EXCEPT ![j] = entry])

\* trigger.get_next_fire_time(None, now)
FirstFire(j) == IF JobType[j] = "absolute" THEN At[j] ELSE now + 1

ActiveJobs(s) == {j \in Job : Owner[j] = s /\ jobs[j].status = "active"}

Init ==
  /\ jobs = [j \in Job |-> Unknown]
  /\ disk = [j \in Job |-> Unknown]
  /\ trig = [j \in Job |-> Absent]
  /\ tasks = [t \in Task |-> Free]
  /\ fresh = Job
  /\ now = 0
  /\ up = TRUE
  /\ restarts = 0
  /\ LockInit

-----------------------------------------------------------------------------
(* The operations of users (/schedule) and of agents (tools).               *)

\* create_absolute_job, create_recurring_job and create_event_job.  The limit is
\* enforced here and nowhere else.
Create(j) ==
  /\ up
  /\ j \in fresh
  /\ Cardinality(ActiveJobs(Owner[j])) < JobLimit
  /\ fresh' = fresh \ {j}
  /\ IF JobType[j] = "event"
     THEN /\ UNCHANGED trig
          /\ SetJob(j, Entry("active", 0, NoTime))
     ELSE /\ trig' = [trig EXCEPT ![j] = FirstFire(j)]
          /\ SetJob(j, Entry("active", 0, FirstFire(j)))
  /\ UNCHANGED <<tasks, now, up, restarts, lockVars>>

\* Mutant of Pausable: whether APScheduler holds the job is not asked.
PausableIfKnown(j) == Known(j)

\* APScheduler raises for a job it does not hold, before anything has changed.
Pausable(j) == Known(j) /\ (JobType[j] # "event" => HasTrigger(j))

\* pause_job for every job of P.
PauseEach(P) ==
  /\ trig' = [j \in Job |-> IF j \in P /\ JobType[j] # "event" THEN NoTime ELSE trig[j]]
  /\ Save([j \in Job |->
             IF j \in P THEN Entry("paused", jobs[j].runs, NoTime) ELSE jobs[j]])
  /\ UNCHANGED <<tasks, fresh, now, up, restarts, lockVars>>

Pause(j) == up /\ Pausable(j) /\ PauseEach({j})

\* pause_all_jobs, for one session or for all: the loop stops at the first active
\* job that cannot be paused, with the jobs before it paused.
PauseAll(scope) ==
  LET active == UNION {ActiveJobs(s) : s \in scope}
      able   == {j \in active : Pausable(j)}
  IN /\ up
     /\ \E P \in SUBSET able : (able = active => P = able) /\ PauseEach(P)

Resume(j) ==
  /\ up
  /\ Pausable(j)
  /\ IF JobType[j] = "event"
     THEN /\ UNCHANGED trig
          /\ SetJob(j, Entry("active", jobs[j].runs, jobs[j].next))
     ELSE /\ trig' = [trig EXCEPT ![j] = FirstFire(j)]
          /\ SetJob(j, Entry("active", jobs[j].runs, FirstFire(j)))
  /\ UNCHANGED <<tasks, fresh, now, up, restarts, lockVars>>

\* Mutant of Cancel: the trigger stays.
CancelKeepsTrigger(j) ==
  /\ up
  /\ Known(j)
  /\ SetJob(j, Entry("cancelled", jobs[j].runs, NoTime))
  /\ UNCHANGED <<trig, tasks, fresh, now, up, restarts, lockVars>>

\* A job is cancelled whatever its status.
Cancel(j) ==
  /\ up
  /\ Known(j)
  /\ trig' = [trig EXCEPT ![j] = Absent]
  /\ SetJob(j, Entry("cancelled", jobs[j].runs, NoTime))
  /\ UNCHANGED <<tasks, fresh, now, up, restarts, lockVars>>

Remove(j) ==
  /\ up
  /\ Known(j)
  /\ trig' = [trig EXCEPT ![j] = Absent]
  /\ SetJob(j, Unknown)
  /\ UNCHANGED <<tasks, fresh, now, up, restarts, lockVars>>

-----------------------------------------------------------------------------
(* Triggers.                                                                *)

\* APScheduler moves a trigger past the slots that are due, all at once (coalesce).
AfterFire(j) == IF JobType[j] = "absolute" THEN Absent ELSE now + 1

\* APScheduler wakes up for a due job.  A cron job that is still being fired is
\* passed over.
Fire(j) ==
  /\ up
  /\ Due(j)
  /\ trig' = [trig EXCEPT ![j] = AfterFire(j)]
  /\ tasks' = IF tasks[<<"aps", j>>].phase = "free"
              THEN [tasks EXCEPT ![<<"aps", j>>] = Firing({j})]
              ELSE tasks
  /\ UNCHANGED <<jobs, disk, fresh, now, up, restarts, lockVars>>

\* It wakes up too late, and drops the run.
Misfire(j) ==
  /\ up
  /\ MayMisfire
  /\ Due(j)
  /\ trig' = [trig EXCEPT ![j] = AfterFire(j)]
  /\ UNCHANGED <<jobs, disk, tasks, fresh, now, up, restarts, lockVars>>

\* handle_event: a daemon event matches the active event jobs M; they are fired one
\* by one, and their status is not looked at again.
Publish(h, M) ==
  /\ up
  /\ tasks[<<"event", h>>].phase = "free"
  /\ M # {}
  /\ \A j \in M : JobType[j] = "event" /\ jobs[j].status = "active"
                  /\ jobs[j].runs < MaxEventRuns
  /\ tasks' = [tasks EXCEPT ![<<"event", h>>] = Firing(M)]
  /\ UNCHANGED <<jobs, disk, trig, fresh, now, up, restarts, lockVars>>

-----------------------------------------------------------------------------
(* Dispatch: _fire_scheduled_job, fire_event_job and the server's callback.  *)

\* The task is done with job j: the next one, or the end.
After(t, j) == IF tasks[t].todo = {j} THEN Free ELSE Firing(tasks[t].todo \ {j})

\* record_failure, for the job table and the triggers.
RecordFailure(j) ==
  /\ trig' = IF JobType[j] = "absolute" THEN [trig EXCEPT ![j] = Absent] ELSE trig
  /\ SetJob(j, Entry("failed", jobs[j].runs, IF JobType[j] = "cron" THEN jobs[j].next ELSE NoTime))

\* Mutants of NextRun: the missing trigger is not noticed; the next run is computed
\* anew instead of asking APScheduler.
NextRunUnchecked(j) == trig[j]
NextRunFromNow(j) == IF HasTrigger(j) THEN now + 1 ELSE NoTime

NextRun(j) == IF HasTrigger(j) THEN trig[j] ELSE NoTime

LastRun(j) == MaxRuns[j] # 0 /\ jobs[j].runs + 1 >= MaxRuns[j]

\* record_completion: whatever the status was, it is "active" or "completed" now.
RecordCompletion(j) ==
  /\ trig' = IF LastRun(j) THEN [trig EXCEPT ![j] = Absent] ELSE trig
  /\ SetJob(j, Entry(IF JobType[j] = "absolute" \/ LastRun(j) THEN "completed" ELSE "active",
                     jobs[j].runs + 1,
                     IF JobType[j] # "cron" \/ LastRun(j) THEN NoTime ELSE NextRun(j)))

\* The job was removed: KeyError, which ends the task and what it had left to fire.
BeginUnknown(t, j) ==
  /\ tasks[t].phase = "begin" /\ j \in tasks[t].todo
  /\ ~Known(j)
  /\ tasks' = [tasks EXCEPT ![t] = Free]
  /\ UNCHANGED <<jobs, disk, trig, fresh, now, up, restarts, lockVars>>

\* get_or_create_session raises: the owner session is gone or cannot be loaded.
BeginUnattached(t, j) ==
  /\ tasks[t].phase = "begin" /\ j \in tasks[t].todo
  /\ Known(j)
  /\ RecordFailure(j)
  /\ tasks' = [tasks EXCEPT ![t] = After(t, j)]
  /\ UNCHANGED <<fresh, now, up, restarts, lockVars>>

\* concurrency "skip" and a busy session: the firing ends and leaves no record.
BeginSkipped(t, j) ==
  /\ tasks[t].phase = "begin" /\ j \in tasks[t].todo
  /\ Known(j)
  /\ j \in SkipWhenBusy /\ Locked(Owner[j])
  /\ tasks' = [tasks EXCEPT ![t] = After(t, j)]
  /\ UNCHANGED <<jobs, disk, trig, fresh, now, up, restarts, lockVars>>

\* Mutant of BeginTurn: a session that is not busy is entered without its lock.
BeginTurnUnlocked(t, j) ==
  /\ tasks[t].phase = "begin" /\ j \in tasks[t].todo
  /\ Known(j)
  /\ ~(j \in SkipWhenBusy /\ Locked(Owner[j]))
  /\ IF Locked(Owner[j]) THEN Acquire(Owner[j], t) ELSE UNCHANGED lockVars
  /\ tasks' = [tasks EXCEPT ![t].cur = j,
                            ![t].phase = IF Locked(Owner[j]) THEN "waiting" ELSE "turn"]
  /\ UNCHANGED <<jobs, disk, trig, fresh, now, up, restarts>>

\* run_input: the turn starts, or waits for the session's input lock.
BeginTurn(t, j) ==
  /\ tasks[t].phase = "begin" /\ j \in tasks[t].todo
  /\ Known(j)
  /\ ~(j \in SkipWhenBusy /\ Locked(Owner[j]))
  /\ Acquire(Owner[j], t)
  /\ tasks' = [tasks EXCEPT ![t].cur = j,
                            ![t].phase = IF Uncontended(Owner[j]) THEN "turn" ELSE "waiting"]
  /\ UNCHANGED <<jobs, disk, trig, fresh, now, up, restarts>>

\* The woken waiter takes the lock and starts its turn.
TakeLock(s) ==
  /\ Grant(s)
  /\ LET p == Head(waiters[s]) IN
       tasks' = IF p \in Task THEN [tasks EXCEPT ![p].phase = "turn"] ELSE tasks
  /\ UNCHANGED <<jobs, disk, trig, fresh, now, up, restarts>>

\* Mutant of EndTurn: the KeyError of a removed job leaves the lock taken.
EndTurnLeaks(t, record) ==
  LET j == tasks[t].cur IN
  /\ tasks[t].phase = "turn"
  /\ IF Known(j)
     THEN /\ Release(Owner[j])
          /\ \/ record = "completion" /\ RecordCompletion(j)
             \/ record = "failure" /\ RecordFailure(j)
          /\ tasks' = [tasks EXCEPT ![t] = After(t, j)]
     ELSE /\ tasks' = [tasks EXCEPT ![t] = Free]
          /\ UNCHANGED <<jobs, disk, trig, lockVars>>
  /\ UNCHANGED <<fresh, now, up, restarts>>

\* The turn is over, well or not, and the outcome is recorded.  A job that was
\* removed meanwhile raises KeyError, which ends the task.
EndTurn(t, record) ==
  LET j == tasks[t].cur IN
  /\ tasks[t].phase = "turn"
  /\ Release(Owner[j])
  /\ IF Known(j)
     THEN /\ \/ record = "completion" /\ RecordCompletion(j)
             \/ record = "failure" /\ RecordFailure(j)
          /\ tasks' = [tasks EXCEPT ![t] = After(t, j)]
     ELSE tasks' = [tasks EXCEPT ![t] = Free] /\ UNCHANGED <<jobs, disk, trig>>
  /\ UNCHANGED <<fresh, now, up, restarts>>

\* A client's message competes for the lock like a fired job.
UserInput(s) ==
  /\ up
  /\ holder[s] # User /\ ~InLine(s, User)
  /\ Acquire(s, User)
  /\ UNCHANGED <<jobs, disk, trig, tasks, fresh, now, up, restarts>>

UserTurnEnds(s) ==
  /\ holder[s] = User
  /\ Release(s)
  /\ UNCHANGED <<jobs, disk, trig, tasks, fresh, now, up, restarts>>

-----------------------------------------------------------------------------
(* Stop and restart.                                                        *)

\* A crash or a shutdown, which cancels the tasks and records nothing.
Stop ==
  /\ up
  /\ restarts < MaxRestarts
  /\ up' = FALSE
  /\ restarts' = restarts + 1
  /\ jobs' = [j \in Job |-> Unknown]
  /\ trig' = [j \in Job |-> Absent]
  /\ tasks' = [t \in Task |-> Free]
  /\ LockReset
  /\ UNCHANGED <<disk, fresh, now>>

\* Mutant of Recoverable: jobs of every status are taken up again.
RecoverableAny(j) == disk[j].status # "none" /\ JobType[j] # "event"

\* _recover_loaded_jobs, for one job: what was persisted decides.
Recoverable(j) == disk[j].status = "active" /\ JobType[j] # "event"
RunAt(j)    == IF disk[j].next # NoTime THEN disk[j].next ELSE At[j]
Missed(j)   == IF JobType[j] = "absolute" THEN RunAt(j) <= now
               ELSE disk[j].next # NoTime /\ disk[j].next <= now
MissedAt(j) == IF JobType[j] = "absolute" THEN RunAt(j) ELSE disk[j].next
CaughtUp(j) == Recoverable(j) /\ Missed(j) /\ now - MissedAt(j) <= CatchUpWindow
\* Mutant of Expired: a one-shot job that is long overdue is left as it is.
NeverExpired(j) == FALSE
Expired(j)  == Recoverable(j) /\ JobType[j] = "absolute" /\ Missed(j) /\ ~CaughtUp(j)
\* Mutant of Rearmed: a missed one-shot job is armed again, and caught up too.
RearmedAlways(j) == Recoverable(j)
Rearmed(j)  == Recoverable(j) /\ (JobType[j] = "absolute" => ~Missed(j))

Recovered(j) ==
  CASE Expired(j) -> Entry("completed", disk[j].runs, NoTime)
    [] Rearmed(j) -> Entry("active", disk[j].runs, FirstFire(j))
    [] OTHER      -> disk[j]

\* Rearming is not persisted, but expiring a job writes the whole table, with the
\* jobs W that were rearmed before it.
Start ==
  /\ ~up
  /\ up' = TRUE
  /\ jobs' = [j \in Job |-> Recovered(j)]
  /\ \E W \in SUBSET {j \in Job : Rearmed(j)} :
       /\ (\A j \in Job : ~Expired(j)) => W = {}
       /\ disk' = [j \in Job |-> IF j \in W \/ Expired(j) THEN Recovered(j) ELSE disk[j]]
  /\ trig' = [j \in Job |-> IF Rearmed(j) THEN FirstFire(j) ELSE Absent]
  /\ tasks' = [t \in Task |-> IF t[1] = "catchup" /\ CaughtUp(t[2]) THEN Firing({t[2]}) ELSE Free]
  /\ UNCHANGED <<fresh, now, restarts, lockVars>>

Tick ==
  /\ now < MaxTime
  /\ now' = now + 1
  /\ UNCHANGED <<jobs, disk, trig, tasks, fresh, up, restarts, lockVars>>

-----------------------------------------------------------------------------
Operate ==
  \/ \E j \in Job : Create(j) \/ Pause(j) \/ Resume(j) \/ Cancel(j) \/ Remove(j)
  \/ \E s \in Session : PauseAll({s})
  \/ PauseAll(Session)

Dispatch ==
  \/ \E t \in Task, j \in Job :
       BeginUnknown(t, j) \/ BeginUnattached(t, j) \/ BeginSkipped(t, j) \/ BeginTurn(t, j)
  \/ \E s \in Session : TakeLock(s)
  \/ \E t \in Task, record \in {"completion", "failure"} : EndTurn(t, record)

Next ==
  \/ Operate
  \/ \E j \in Job : Fire(j) \/ Misfire(j)
  \/ \E h \in Handler, M \in SUBSET Job : Publish(h, M)
  \/ Dispatch
  \/ \E s \in Session : UserInput(s) \/ UserTurnEnds(s)
  \/ Stop
  \/ Start
  \/ Tick

Spec == Init /\ [][Next]_vars

-----------------------------------------------------------------------------
(* Invariants.                                                              *)

TypeOK ==
  /\ jobs \in [Job -> JobRecord]
  /\ disk \in [Job -> JobRecord]
  /\ trig \in [Job -> Slot \cup {NoTime, Absent}]
  /\ tasks \in [Task -> TaskRecord]
  /\ fresh \in SUBSET Job
  /\ now \in Nat
  /\ up \in BOOLEAN
  /\ restarts \in Nat
  /\ holder \in [Session -> Task \cup {User, NoOne}]
  /\ waiters \in [Session -> Seq(Task \cup {User})]

Concerns(t, j) == j \in tasks[t].todo
OneShotJob == {j \in Job : JobType[j] = "absolute"}
Retired(j) == disk[j].status \in {"completed", "failed", "cancelled"}

\* An absolute job is completed at most once over all the lives of the daemon, at
\* most one task fires it at a time, and once a task has taken it up no trigger is
\* left that could fire it again: APScheduler, the catch-up after a restart, a
\* resume and a late start of the loop never do the same job twice.
AbsoluteOnce ==
  \A j \in OneShotJob :
    /\ disk[j].runs <= 1
    /\ \A t, u \in Task : Concerns(t, j) /\ Concerns(u, j) => t = u
    /\ \A t \in Task : Concerns(t, j) => ~HasTrigger(j) /\ disk[j].runs = 0

\* No trigger is armed for a job that was paused, cancelled or completed.
NothingArmedAtRest ==
  \A j \in Job :
    /\ jobs[j].status = "paused" => trig[j] \in {NoTime, Absent}
    /\ jobs[j].status \in {"none", "completed", "cancelled"} => trig[j] = Absent

\* The next run that is on disk for an active cron job is never later than the
\* trigger in memory: recovery, which compares it with the clock, cannot take a slot
\* for one still to come when its trigger has already been due.
PersistedNextNotAhead ==
  \A j \in Job :
    JobType[j] = "cron" /\ disk[j].status = "active" /\ trig[j] \in Slot
      => disk[j].next <= trig[j]

\* A crash at any moment loses no change of the job table that was acknowledged:
\* memory and disk differ in nothing but the next run of an active cron job.
DiskIsCurrent ==
  up => \A j \in Job :
          /\ jobs[j].status = disk[j].status
          /\ jobs[j].runs = disk[j].runs
          /\ jobs[j].next # disk[j].next => JobType[j] = "cron" /\ jobs[j].status = "active"

Serves(t, s) == tasks[t].cur \in Job /\ Owner[tasks[t].cur] = s

\* Of the tasks that fire jobs into one session, the one in its turn holds the lock
\* (so there is one at most) and the waiting ones are in line, and nobody else:
\* no turn is started twice, none runs in the wrong session, none is forgotten.
OneTurnPerSession ==
  \A s \in Session :
    /\ InLineOnce(s)
    /\ \A t \in Task :
         /\ InLine(s, t)  <=> tasks[t].phase = "waiting" /\ Serves(t, s)
         /\ holder[s] = t <=> tasks[t].phase = "turn" /\ Serves(t, s)

-----------------------------------------------------------------------------
(* Action properties.                                                       *)

\* A cancelled absolute or cron job with no turn of it under way is out of business:
\* no operator, trigger, queued firing or restart makes it active or paused again.
CancelledStaysCancelled ==
  [][\A j \in Job :
       /\ JobType[j] # "event"
       /\ disk[j].status = "cancelled"
       /\ \A t \in Task : tasks[t].cur = j => tasks[t].phase # "turn"
       => disk'[j].status \notin {"active", "paused"}]_vars

\* The durable life of an absolute job is the one OneShot describes.
Life(j) ==
  IF j \in fresh THEN "unborn"
  ELSE IF disk[j].status = "none" THEN "removed" ELSE disk[j].status

Abstract == INSTANCE OneShot WITH
  life <- [j \in OneShotJob |-> Life(j)],
  runs <- [j \in OneShotJob |-> disk[j].runs]

ImplementsOneShot == Abstract!Spec

-----------------------------------------------------------------------------
(* What the documents say of the scheduler and the code does not keep.      *)

\* "Cancel a scheduled job by id." (agent/tools.py:927): a cancelled cron or absolute
\* job does not become active again.  The end of a turn that was under way does it.
CancelIsFinal ==
  [][\A j \in Job : JobType[j] # "event" /\ disk[j].status = "cancelled"
                      => disk'[j].status # "active"]_vars

-----------------------------------------------------------------------------
(* Liveness.                                                                *)

\* The event loop runs what is ready, turns end (the LLM client has timeouts), the
\* supervisor starts the daemon again, and time goes on.
Fairness ==
  /\ \A j \in Job : WF_vars(Fire(j))
  /\ \A t \in Task, j \in Job :
       WF_vars(BeginUnknown(t, j) \/ BeginUnattached(t, j) \/ BeginSkipped(t, j) \/ BeginTurn(t, j))
  /\ \A s \in Session : WF_vars(TakeLock(s)) /\ WF_vars(UserTurnEnds(s))
  /\ \A t \in Task : WF_vars(\E record \in {"completion", "failure"} : EndTurn(t, record))
  /\ WF_vars(Start)
  /\ WF_vars(Tick)

FairSpec == Spec /\ Fairness

\* An active absolute job does not stay active for ever: it is run, expired by a
\* restart, paused, cancelled or removed.
AbsoluteSettles ==
  \A j \in OneShotJob : disk[j].status = "active" ~> disk[j].status # "active"

\* Every firing comes to an end: the line for a session's lock is fair, whoever
\* else wants the session.
FiringEnds ==
  \A t \in Task : t[1] # "event" => (tasks[t].phase # "free" ~> tasks[t].phase = "free")
=============================================================================
