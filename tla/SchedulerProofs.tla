--------------------------- MODULE SchedulerProofs ---------------------------
(***************************************************************************)
(* Theorems about Scheduler, for all jobs, sessions, handlers, limits and  *)
(* bounds: its types and queues; one firing per absolute job, no trigger   *)
(* for a job at rest, nothing acknowledged that is not on disk; and of its *)
(* steps: the durable life of an absolute job is the one OneShot           *)
(* describes, cancelled jobs stay cancelled, and what is on disk never     *)
(* hides a slot that was due.                                              *)
(***************************************************************************)
EXTENDS Scheduler, InputLockProofs

-----------------------------------------------------------------------------
(* Type correctness.                                                        *)

\* A table entry is a job record.
LEMMA EntryType ==
  ASSUME NEW st \in Status \cup {"none"}, NEW n \in Nat, NEW next \in Slot \cup {NoTime}
  PROVE  Entry(st, n, next) \in JobRecord
BY DEF Entry, JobRecord

\* So is the entry of a job that is not in the table.
LEMMA UnknownType == Unknown \in JobRecord
BY EntryType DEF Unknown

\* A well-typed entry keeps the table and its copy on disk well-typed.
LEMMA SetJobType ==
  ASSUME TypeOK, NEW j \in Job, NEW r \in JobRecord, SetJob(j, r)
  PROVE  jobs' \in [Job -> JobRecord] /\ disk' \in [Job -> JobRecord]
BY DEF SetJob, Save, TypeOK

\* The parts of the entries there are.
LEMMA FieldTypes ==
  ASSUME TypeOK, NEW j \in Job
  PROVE  /\ jobs[j].runs \in Nat /\ disk[j].runs \in Nat
         /\ jobs[j].next \in Slot \cup {NoTime} /\ disk[j].next \in Slot \cup {NoTime}
         /\ jobs[j].status \in Status \cup {"none"} /\ disk[j].status \in Status \cup {"none"}
BY DEF TypeOK, JobRecord

\* The times triggers are set to.
LEMMA TriggerTypes ==
  ASSUME TypeOK, NEW j \in Job
  PROVE  /\ FirstFire(j) \in Slot
         /\ AfterFire(j) \in Slot \cup {Absent}
         /\ NextRun(j) \in Slot \cup {NoTime}
BY SchedulerAssumption DEF TypeOK, FirstFire, AfterFire, NextRun, HasTrigger, Slot

\* A free task is a task record.
LEMMA FreeType == Free \in TaskRecord
BY DEF Free, TaskRecord

\* So is a task that is about to fire jobs.
LEMMA FiringType ==
  ASSUME NEW js \in SUBSET Job
  PROVE  Firing(js) \in TaskRecord
BY DEF Firing, TaskRecord

\* The task may go on to its next job.
LEMMA AfterType ==
  ASSUME TypeOK, NEW t \in Task, NEW j
  PROVE  After(t, j) \in TaskRecord
BY DEF TypeOK, After, Free, Firing, TaskRecord

\* Both ways to record the end of a turn keep the table, its copy and the triggers
\* well-typed (a job that does not exist changes nothing).
LEMMA RecordType ==
  ASSUME TypeOK, NEW j, RecordFailure(j) \/ RecordCompletion(j)
  PROVE  /\ jobs' \in [Job -> JobRecord]
         /\ disk' \in [Job -> JobRecord]
         /\ trig' \in [Job -> Slot \cup {NoTime, Absent}]
<1> "failed" \in Status /\ "completed" \in Status /\ "active" \in Status
  BY DEF Status
<1>1. CASE j \notin Job
  <2>1. PICK r : jobs' = [jobs EXCEPT ![j] = r] /\ disk' = jobs'
    BY DEF RecordFailure, RecordCompletion, SetJob, Save
  <2>2. jobs' = jobs /\ disk' = jobs
    BY <1>1, <2>1 DEF TypeOK
  <2>3. trig' = trig
    BY <1>1 DEF RecordFailure, RecordCompletion, TypeOK
  <2>4. QED
    BY <2>2, <2>3 DEF TypeOK
<1>2. CASE j \in Job /\ RecordFailure(j)
  <2>1. Entry("failed", jobs[j].runs, IF JobType[j] = "cron" THEN jobs[j].next ELSE NoTime)
          \in JobRecord
    BY <1>2, FieldTypes, EntryType
  <2>2. QED
    BY <1>2, <2>1, SetJobType DEF RecordFailure, TypeOK
<1>3. CASE j \in Job /\ RecordCompletion(j)
  <2>1. Entry(IF JobType[j] = "absolute" \/ LastRun(j) THEN "completed" ELSE "active",
              jobs[j].runs + 1,
              IF JobType[j] # "cron" \/ LastRun(j) THEN NoTime ELSE NextRun(j)) \in JobRecord
    <3>1. jobs[j].runs + 1 \in Nat
      BY <1>3, FieldTypes
    <3>2. QED
      BY <1>3, <3>1, EntryType, TriggerTypes
  <2>2. QED
    BY <1>3, <2>1, SetJobType DEF RecordCompletion, TypeOK
<1>4. QED
  BY <1>1, <1>2, <1>3

-----------------------------------------------------------------------------
\* The type invariant holds in every reachable state.
THEOREM TypeCorrect == Spec => []TypeOK
<1> USE DEF lockVars
<1> /\ "active" \in Status /\ "paused" \in Status /\ "cancelled" \in Status
    /\ "failed" \in Status /\ "completed" \in Status
  BY DEF Status
<1>1. Init => TypeOK
  BY UnknownType, FreeType DEF Init, LockInit, TypeOK, Slot
<1>2. TypeOK /\ [Next]_vars => TypeOK'
  <2> SUFFICES ASSUME TypeOK, [Next]_vars PROVE TypeOK'
    OBVIOUS
  <2>1. ASSUME NEW j \in Job, Create(j) PROVE TypeOK'
    <3>1. \A next \in Slot \cup {NoTime} : Entry("active", 0, next) \in JobRecord
      BY EntryType
    <3>2. jobs' \in [Job -> JobRecord] /\ disk' \in [Job -> JobRecord]
      BY <2>1, <3>1, TriggerTypes, SetJobType DEF Create
    <3>3. QED
      BY <2>1, <3>2, TriggerTypes DEF Create, TypeOK
  <2>2. ASSUME NEW P, PauseEach(P) PROVE TypeOK'
    <3>1. \A j \in Job : Entry("paused", jobs[j].runs, NoTime) \in JobRecord
      BY FieldTypes, EntryType
    <3>2. QED
      BY <2>2, <3>1 DEF PauseEach, Save, TypeOK
  <2>3. ASSUME NEW j \in Job, Resume(j) PROVE TypeOK'
    <3>1. \A next \in Slot \cup {NoTime} : Entry("active", jobs[j].runs, next) \in JobRecord
      BY EntryType, FieldTypes
    <3>2. jobs' \in [Job -> JobRecord] /\ disk' \in [Job -> JobRecord]
      BY <2>3, <3>1, TriggerTypes, FieldTypes, SetJobType DEF Resume
    <3>3. QED
      BY <2>3, <3>2, TriggerTypes DEF Resume, TypeOK
  <2>4. ASSUME NEW j \in Job, Cancel(j) PROVE TypeOK'
    <3>1. Entry("cancelled", jobs[j].runs, NoTime) \in JobRecord
      BY EntryType, FieldTypes
    <3>2. jobs' \in [Job -> JobRecord] /\ disk' \in [Job -> JobRecord]
      BY <2>4, <3>1, SetJobType DEF Cancel
    <3>3. QED
      BY <2>4, <3>2 DEF Cancel, TypeOK
  <2>5. ASSUME NEW j \in Job, Remove(j) PROVE TypeOK'
    <3>1. jobs' \in [Job -> JobRecord] /\ disk' \in [Job -> JobRecord]
      BY <2>5, UnknownType, SetJobType DEF Remove
    <3>2. QED
      BY <2>5, <3>1 DEF Remove, TypeOK
  <2>6. ASSUME NEW j \in Job, Fire(j) \/ Misfire(j) PROVE TypeOK'
    <3>1. trig' \in [Job -> Slot \cup {NoTime, Absent}]
      BY <2>6, TriggerTypes DEF Fire, Misfire, TypeOK
    <3>2. tasks' \in [Task -> TaskRecord]
      <4>1. Firing({j}) \in TaskRecord
        BY FiringType
      <4>2. QED
        BY <2>6, <4>1 DEF Fire, Misfire, TypeOK
    <3>3. QED
      BY <2>6, <3>1, <3>2 DEF Fire, Misfire, TypeOK
  <2>7. ASSUME NEW h \in Handler, NEW M \in SUBSET Job, Publish(h, M) PROVE TypeOK'
    BY <2>7, FiringType DEF Publish, TypeOK
  <2>8. ASSUME NEW t \in Task, NEW j \in Job,
               BeginUnknown(t, j) \/ BeginUnattached(t, j) \/ BeginSkipped(t, j)
        PROVE  TypeOK'
    <3>1. tasks' \in [Task -> TaskRecord]
      BY <2>8, AfterType, FreeType DEF BeginUnknown, BeginUnattached, BeginSkipped, TypeOK
    <3>2. CASE BeginUnattached(t, j)
      BY <3>1, <3>2, RecordType DEF BeginUnattached, TypeOK
    <3>3. QED
      BY <2>8, <3>1, <3>2 DEF BeginUnknown, BeginSkipped, TypeOK
  <2>9. ASSUME NEW t \in Task, NEW j \in Job, BeginTurn(t, j) PROVE TypeOK'
    <3>1. tasks' \in [Task -> TaskRecord]
      BY <2>9 DEF BeginTurn, TypeOK, TaskRecord
    <3>2. Owner[j] \in Session
      BY SchedulerAssumption
    <3>3. /\ holder' \in [Session -> (Task \cup {User}) \cup {NoOne}]
          /\ waiters' \in [Session -> Seq(Task \cup {User})]
      BY <2>9, <3>2, AcquireType DEF BeginTurn, TypeOK
    <3>4. QED
      BY <2>9, <3>1, <3>3 DEF BeginTurn, TypeOK
  <2>10. ASSUME NEW s \in Session, TakeLock(s) PROVE TypeOK'
    <3>1. /\ holder' \in [Session -> (Task \cup {User}) \cup {NoOne}]
          /\ waiters' \in [Session -> Seq(Task \cup {User})]
      BY <2>10, GrantType DEF TakeLock, TypeOK
    <3>2. tasks' \in [Task -> TaskRecord]
      BY <2>10 DEF TakeLock, TypeOK, TaskRecord
    <3>3. QED
      BY <2>10, <3>1, <3>2 DEF TakeLock, TypeOK
  <2>11. ASSUME NEW t \in Task, NEW record, EndTurn(t, record) PROVE TypeOK'
    <3> DEFINE j == tasks[t].cur
    <3>1. holder' \in [Session -> Task \cup {User, NoOne}] /\ UNCHANGED waiters
      BY <2>11 DEF EndTurn, Release, TypeOK
    <3>2. tasks' \in [Task -> TaskRecord]
      BY <2>11, AfterType, FreeType DEF EndTurn, TypeOK
    <3>3. CASE Known(j)
      BY <2>11, <3>1, <3>2, <3>3, RecordType DEF EndTurn, TypeOK
    <3>4. CASE ~Known(j)
      BY <2>11, <3>1, <3>2, <3>4 DEF EndTurn, TypeOK
    <3>5. QED
      BY <3>3, <3>4
  <2>12. ASSUME NEW s \in Session, UserInput(s) PROVE TypeOK'
    <3>1. /\ holder' \in [Session -> (Task \cup {User}) \cup {NoOne}]
          /\ waiters' \in [Session -> Seq(Task \cup {User})]
      BY <2>12, AcquireType DEF UserInput, TypeOK
    <3>2. QED
      BY <2>12, <3>1 DEF UserInput, TypeOK
  <2>13. ASSUME NEW s \in Session, UserTurnEnds(s) PROVE TypeOK'
    BY <2>13 DEF UserTurnEnds, Release, TypeOK
  <2>14. CASE Stop
    <3>1. /\ jobs' \in [Job -> JobRecord]
          /\ trig' \in [Job -> Slot \cup {NoTime, Absent}]
          /\ tasks' \in [Task -> TaskRecord]
      BY <2>14, UnknownType, FreeType DEF Stop
    <3>2. /\ holder' \in [Session -> Task \cup {User, NoOne}]
          /\ waiters' \in [Session -> Seq(Task \cup {User})]
      BY <2>14 DEF Stop, LockReset
    <3>3. restarts' = restarts + 1 /\ up' \in BOOLEAN /\ UNCHANGED <<disk, fresh, now>>
      BY <2>14 DEF Stop
    <3>4. QED
      BY <3>1, <3>2, <3>3 DEF TypeOK
  <2>15. CASE Start
    <3>1. \A j \in Job : Recovered(j) \in JobRecord
      BY TriggerTypes, EntryType, FieldTypes DEF Recovered, TypeOK
    <3>2. \A j \in Job : FirstFire(j) \in Slot
      BY TriggerTypes
    <3>3. tasks' \in [Task -> TaskRecord]
      BY <2>15 DEF Start, Task, TaskRecord, Firing, Free, CaughtUp, Recoverable
    <3>4. jobs' \in [Job -> JobRecord] /\ disk' \in [Job -> JobRecord]
      BY <2>15, <3>1 DEF Start, TypeOK
    <3>5. trig' \in [Job -> Slot \cup {NoTime, Absent}]
      BY <2>15, <3>2 DEF Start
    <3>6. QED
      BY <2>15, <3>3, <3>4, <3>5 DEF Start, TypeOK
  <2>16. CASE Tick
    BY <2>16 DEF Tick, TypeOK
  <2>17. CASE UNCHANGED vars
    BY <2>17 DEF vars, TypeOK
  <2>18. QED
    BY <2>1, <2>2, <2>3, <2>4, <2>5, <2>6, <2>7, <2>8, <2>9, <2>10, <2>11, <2>12, <2>13,
       <2>14, <2>15, <2>16, <2>17
    DEF Next, Operate, Dispatch, Pause, PauseAll
<1>3. QED
  BY <1>1, <1>2, PTL DEF Spec

-----------------------------------------------------------------------------
(* One turn per session.                                                    *)

\* OneTurnPerSession is not inductive alone: a task that waits or runs is at one of
\* its own jobs, and when the daemon is down no task is left.
Engaged(t) == tasks[t].phase \in {"waiting", "turn"}

QueueInv ==
  /\ OneTurnPerSession
  /\ \A t \in Task : Engaged(t) => tasks[t].cur \in tasks[t].todo
  /\ ~up => \A t \in Task : tasks[t].phase = "free"

\* A step that leaves the locks alone, and the tasks that wait or run, keeps QueueInv.
LEMMA QuietStep ==
  ASSUME QueueInv, UNCHANGED lockVars,
         \A t \in Task : tasks'[t] = tasks[t] \/ (~Engaged(t) /\ ~Engaged(t)'),
         up' \/ \A t \in Task : tasks'[t].phase = "free"
  PROVE  QueueInv'
<1>1. OneTurnPerSession'
  <2>1. SUFFICES ASSUME NEW s \in Session
                 PROVE  /\ InLineOnce(s)'
                        /\ \A t \in Task :
                             /\ InLine(s, t)' <=> tasks'[t].phase = "waiting" /\ Serves(t, s)'
                             /\ holder'[s] = t <=> tasks'[t].phase = "turn" /\ Serves(t, s)'
    BY DEF OneTurnPerSession
  <2>2. InLineOnce(s)' /\ \A t : InLine(s, t)' <=> InLine(s, t)
    BY DEF QueueInv, OneTurnPerSession, lockVars, InLineOnce, InLine
  <2>3. ASSUME NEW t \in Task
        PROVE  /\ InLine(s, t)' <=> tasks'[t].phase = "waiting" /\ Serves(t, s)'
               /\ holder'[s] = t <=> tasks'[t].phase = "turn" /\ Serves(t, s)'
    BY <2>2 DEF QueueInv, OneTurnPerSession, lockVars, Engaged, Serves
  <2>4. QED
    BY <2>2, <2>3
<1>2. ASSUME NEW t \in Task, Engaged(t)' PROVE tasks'[t].cur \in tasks'[t].todo
  BY <1>2 DEF QueueInv, Engaged
<1>3. QED
  BY <1>1, <1>2 DEF QueueInv, Engaged

\* A firing that enters the lock of its session either runs or is in line.
LEMMA BeginTurnQueue ==
  ASSUME TypeOK, QueueInv, NEW t \in Task, NEW j \in Job, BeginTurn(t, j)
  PROVE  QueueInv'
<1> DEFINE o == Owner[j]
<1>1. o \in Session /\ j \in tasks[t].todo /\ up
  BY SchedulerAssumption DEF BeginTurn, QueueInv
<1>2. \A s \in Session : ~InLine(s, t) /\ holder[s] # t
  BY DEF BeginTurn, QueueInv, OneTurnPerSession
<1>3. /\ tasks'[t].cur = j /\ tasks'[t].todo = tasks[t].todo
      /\ tasks'[t].phase = (IF Uncontended(o) THEN "turn" ELSE "waiting")
      /\ \A u \in Task \ {t} : tasks'[u] = tasks[u]
  BY DEF BeginTurn, TypeOK, TaskRecord
<1>4. \A s \in Session :
        /\ InLineOnce(s)'
        /\ \A u : InLine(s, u)' <=> InLine(s, u) \/ (s = o /\ u = t /\ ~Uncontended(o))
  <2>1. /\ waiters \in [Session -> Seq(Task \cup {User})] /\ t \in Task \cup {User}
        /\ \A r \in Session : InLineOnce(r)
        /\ ~InLine(o, t) /\ Acquire(o, t)
    BY <1>1, <1>2 DEF BeginTurn, TypeOK, QueueInv, OneTurnPerSession
  <2>2. QED
    BY <1>1, <2>1, AcquireLine
<1>5. \A s \in Session :
        holder'[s] = (IF s = o /\ Uncontended(o) THEN t ELSE holder[s])
  BY <1>1 DEF BeginTurn, Acquire, TypeOK
<1>6. ASSUME NEW s \in Session, NEW u \in Task
      PROVE  /\ InLine(s, u)' <=> tasks'[u].phase = "waiting" /\ Serves(u, s)'
             /\ holder'[s] = u <=> tasks'[u].phase = "turn" /\ Serves(u, s)'
  <2>1. CASE u = t
    BY <1>2, <1>3, <1>4, <1>5, <2>1 DEF Serves
  <2>2. CASE u # t
    <3>1. /\ InLine(s, u) <=> tasks[u].phase = "waiting" /\ Serves(u, s)
          /\ holder[s] = u <=> tasks[u].phase = "turn" /\ Serves(u, s)
      BY DEF QueueInv, OneTurnPerSession
    <3>2. Uncontended(o) => holder[o] # u
      BY ActorAssumption DEF Uncontended
    <3>3. QED
      BY <1>3, <1>4, <1>5, <2>2, <3>1, <3>2 DEF Serves
  <2>3. QED
    BY <2>1, <2>2
<1>7. ASSUME NEW u \in Task, Engaged(u)' PROVE tasks'[u].cur \in tasks'[u].todo
  BY <1>1, <1>3, <1>7 DEF QueueInv, Engaged
<1>8. QED
  BY <1>1, <1>4, <1>6, <1>7 DEF BeginTurn, QueueInv, OneTurnPerSession

\* The lock goes to the first in line.
LEMMA TakeLockQueue ==
  ASSUME TypeOK, QueueInv, NEW o \in Session, TakeLock(o)
  PROVE  QueueInv'
<1> DEFINE p == Head(waiters[o])
<1>1. /\ InLine(o, p)
      /\ \A s \in Session :
           /\ InLineOnce(s)'
           /\ \A u : InLine(s, u)' <=> InLine(s, u) /\ ~(s = o /\ u = p)
  BY GrantLine DEF TakeLock, TypeOK, QueueInv, OneTurnPerSession
<1>2. \A s \in Session : holder'[s] = (IF s = o THEN p ELSE holder[s])
  BY DEF TakeLock, Grant, TypeOK
<1>3. p \in Task => tasks[p].phase = "waiting" /\ Serves(p, o)
  BY <1>1 DEF QueueInv, OneTurnPerSession
<1>4. \A u \in Task : /\ tasks'[u].phase = (IF u = p THEN "turn" ELSE tasks[u].phase)
                      /\ tasks'[u].cur = tasks[u].cur
                      /\ tasks'[u].todo = tasks[u].todo
  BY DEF TakeLock, TypeOK, TaskRecord
<1>5. ASSUME NEW s \in Session, NEW u \in Task
      PROVE  /\ InLine(s, u)' <=> tasks'[u].phase = "waiting" /\ Serves(u, s)'
             /\ holder'[s] = u <=> tasks'[u].phase = "turn" /\ Serves(u, s)'
  <2>1. /\ InLine(s, u) <=> tasks[u].phase = "waiting" /\ Serves(u, s)
        /\ holder[s] = u <=> tasks[u].phase = "turn" /\ Serves(u, s)
        /\ Serves(u, s)' <=> Serves(u, s)
    BY <1>4 DEF QueueInv, OneTurnPerSession, Serves
  <2>2. CASE u = p
    BY <1>1, <1>2, <1>3, <1>4, <2>1, <2>2 DEF Serves
  <2>3. CASE u # p
    <3>1. holder[o] # u
      BY ActorAssumption DEF TakeLock, Grant
    <3>2. QED
      BY <1>1, <1>2, <1>4, <2>1, <2>3, <3>1
  <2>4. QED
    BY <2>2, <2>3
<1>6. ASSUME NEW u \in Task, Engaged(u)' PROVE tasks'[u].cur \in tasks'[u].todo
  BY <1>3, <1>4, <1>6 DEF QueueInv, Engaged
<1>7. ~up' => \A u \in Task : tasks'[u].phase = "free"
  BY <1>3, <1>4 DEF TakeLock, QueueInv
<1>8. QED
  BY <1>1, <1>5, <1>6, <1>7 DEF QueueInv, OneTurnPerSession

\* The one that leaves gives its own session's lock back.
LEMMA EndTurnQueue ==
  ASSUME TypeOK, QueueInv, NEW t \in Task, NEW record, EndTurn(t, record)
  PROVE  QueueInv'
<1> DEFINE j == tasks[t].cur
           o == Owner[j]
<1>1. j \in tasks[t].todo /\ j \in Job /\ o \in Session /\ Serves(t, o) /\ up
  BY SchedulerAssumption DEF EndTurn, QueueInv, Engaged, TypeOK, TaskRecord, Serves
<1>2. \A s \in Session :
        /\ InLineOnce(s)'
        /\ \A u : InLine(s, u)' <=> InLine(s, u)
        /\ holder'[s] = (IF s = o THEN NoOne ELSE holder[s])
  BY <1>1 DEF EndTurn, Release, TypeOK, QueueInv, OneTurnPerSession, InLineOnce, InLine
<1>3. /\ tasks'[t].phase \in {"free", "begin"}
      /\ \A u \in Task \ {t} : tasks'[u] = tasks[u]
  BY DEF EndTurn, After, Firing, Free, TypeOK
<1>4. ASSUME NEW s \in Session, NEW u \in Task
      PROVE  /\ InLine(s, u)' <=> tasks'[u].phase = "waiting" /\ Serves(u, s)'
             /\ holder'[s] = u <=> tasks'[u].phase = "turn" /\ Serves(u, s)'
  <2>1. /\ InLine(s, u) <=> tasks[u].phase = "waiting" /\ Serves(u, s)
        /\ holder[s] = u <=> tasks[u].phase = "turn" /\ Serves(u, s)
        /\ holder[o] = t /\ tasks[t].phase = "turn"
    BY <1>1 DEF QueueInv, OneTurnPerSession, EndTurn
  <2>2. CASE u = t
    <3>1. holder[s] = t => s = o
      BY <2>1, <2>2 DEF Serves
    <3>2. NoOne # t
      BY ActorAssumption
    <3>3. QED
      BY <1>2, <1>3, <2>1, <2>2, <3>1, <3>2
  <2>3. CASE u # t
    <3>1. NoOne # u
      BY ActorAssumption
    <3>2. QED
      BY <1>2, <1>3, <2>1, <2>3, <3>1 DEF Serves
  <2>4. QED
    BY <2>2, <2>3
<1>5. ASSUME NEW u \in Task, Engaged(u)' PROVE tasks'[u].cur \in tasks'[u].todo
  BY <1>3, <1>5 DEF QueueInv, Engaged
<1>6. QED
  BY <1>1, <1>2, <1>4, <1>5 DEF EndTurn, QueueInv, OneTurnPerSession

\* The clients of a session stand in the same line and disturb no task in it.
LEMMA UserQueue ==
  ASSUME TypeOK, QueueInv, NEW o \in Session, UserInput(o) \/ UserTurnEnds(o)
  PROVE  QueueInv'
<1>1. UNCHANGED <<tasks, up>>
  BY DEF UserInput, UserTurnEnds
<1>2. \A s \in Session :
        /\ InLineOnce(s)'
        /\ \A u \in Task : InLine(s, u)' <=> InLine(s, u)
  <2>1. CASE UserInput(o)
    <3>1. /\ waiters \in [Session -> Seq(Task \cup {User})] /\ User \in Task \cup {User}
          /\ \A r \in Session : InLineOnce(r)
          /\ ~InLine(o, User) /\ Acquire(o, User)
      BY <2>1 DEF UserInput, TypeOK, QueueInv, OneTurnPerSession
    <3>2. QED
      BY <3>1, AcquireLine, ActorAssumption
  <2>2. CASE UserTurnEnds(o)
    BY <2>2 DEF UserTurnEnds, Release, QueueInv, OneTurnPerSession, InLineOnce, InLine
  <2>3. QED
    BY <2>1, <2>2
<1>3. \A s \in Session, u \in Task : holder'[s] = u <=> holder[s] = u
  <2>1. CASE UserInput(o)
    BY <2>1, ActorAssumption DEF UserInput, Acquire, Uncontended, TypeOK
  <2>2. CASE UserTurnEnds(o)
    BY <2>2, ActorAssumption DEF UserTurnEnds, Release, TypeOK
  <2>3. QED
    BY <2>1, <2>2
<1>4. OneTurnPerSession'
  BY <1>1, <1>2, <1>3 DEF QueueInv, OneTurnPerSession, Serves
<1>5. QED
  BY <1>1, <1>4 DEF QueueInv, Engaged

\* Nobody is left when the process is gone.
LEMMA StopQueue ==
  ASSUME Stop
  PROVE  QueueInv'
<1>1. \A t \in Task : tasks'[t].phase = "free"
  BY DEF Stop, Free
<1>2. \A s \in Session : InLineOnce(s)' /\ holder'[s] = NoOne /\ \A t : ~InLine(s, t)'
  BY DEF Stop, LockReset, InLineOnce, InLine
<1>3. QED
  BY <1>1, <1>2, ActorAssumption DEF QueueInv, OneTurnPerSession, Engaged

\* QueueInv is an invariant of the scheduler.
THEOREM QueueCorrect == Spec => []QueueInv
<1>1. Init => QueueInv
  <2> SUFFICES ASSUME Init PROVE QueueInv
    OBVIOUS
  <2>1. \A t \in Task : tasks[t].phase = "free"
    BY DEF Init, Free
  <2>2. \A s \in Session : waiters[s] = <<>> /\ holder[s] = NoOne
    BY DEF Init, LockInit
  <2>3. \A s \in Session : InLineOnce(s) /\ \A t : ~InLine(s, t)
    BY <2>2 DEF InLineOnce, InLine
  <2>4. QED
    BY <2>1, <2>2, <2>3, ActorAssumption DEF QueueInv, OneTurnPerSession, Engaged
<1>2. TypeOK /\ QueueInv /\ [Next]_vars => QueueInv'
  <2> SUFFICES ASSUME TypeOK, QueueInv, [Next]_vars PROVE QueueInv'
    OBVIOUS
  <2>1. CASE Operate
    <3>1. up' /\ UNCHANGED <<tasks, lockVars>>
      BY <2>1 DEF Operate, Create, Pause, PauseAll, PauseEach, Resume, Cancel, Remove
    <3>2. QED
      BY <3>1, QuietStep
  <2>2. ASSUME NEW j \in Job, Fire(j) \/ Misfire(j) PROVE QueueInv'
    <3>1. up' /\ UNCHANGED lockVars
      BY <2>2 DEF Fire, Misfire
    <3>2. \A t \in Task : tasks'[t] = tasks[t] \/ (~Engaged(t) /\ ~Engaged(t)')
      <4>1. Firing({j}).phase = "begin"
        BY DEF Firing
      <4>2. QED
        BY <2>2, <4>1 DEF Fire, Misfire, Engaged, TypeOK
    <3>3. QED
      BY <3>1, <3>2, QuietStep
  <2>3. ASSUME NEW h \in Handler, NEW M \in SUBSET Job, Publish(h, M) PROVE QueueInv'
    <3>1. up' /\ UNCHANGED lockVars
      BY <2>3 DEF Publish
    <3>2. \A t \in Task : tasks'[t] = tasks[t] \/ (~Engaged(t) /\ ~Engaged(t)')
      BY <2>3 DEF Publish, Firing, Engaged, TypeOK
    <3>3. QED
      BY <3>1, <3>2, QuietStep
  <2>4. ASSUME NEW t \in Task, NEW j \in Job,
               BeginUnknown(t, j) \/ BeginUnattached(t, j) \/ BeginSkipped(t, j)
        PROVE  QueueInv'
    <3>1. up' /\ UNCHANGED lockVars /\ tasks[t].phase = "begin"
      BY <2>4 DEF BeginUnknown, BeginUnattached, BeginSkipped, QueueInv
    <3>2. tasks' = [tasks EXCEPT ![t] = Free] \/ tasks' = [tasks EXCEPT ![t] = After(t, j)]
      BY <2>4 DEF BeginUnknown, BeginUnattached, BeginSkipped
    <3>3. Free.phase = "free" /\ After(t, j).phase \in {"free", "begin"}
      BY DEF Free, After, Firing
    <3>4. \A u \in Task : tasks'[u] = tasks[u] \/ (~Engaged(u) /\ ~Engaged(u)')
      BY <3>1, <3>2, <3>3 DEF Engaged, TypeOK
    <3>5. QED
      BY <3>1, <3>4, QuietStep
  <2>5. CASE Start
    <3>1. up' /\ UNCHANGED lockVars /\ \A t \in Task : tasks[t].phase = "free"
      BY <2>5 DEF Start, QueueInv
    <3>2. \A t \in Task : tasks'[t].phase \in {"free", "begin"}
      BY <2>5 DEF Start, Firing, Free
    <3>3. QED
      BY <3>1, <3>2, QuietStep DEF Engaged
  <2>6. CASE Tick
    <3>1. UNCHANGED <<up, tasks, lockVars>>
      BY <2>6 DEF Tick
    <3>2. QED
      BY <3>1, QuietStep DEF QueueInv
  <2>7. CASE UNCHANGED vars
    <3>1. UNCHANGED <<up, tasks, lockVars>>
      BY <2>7 DEF vars, lockVars
    <3>2. QED
      BY <3>1, QuietStep DEF QueueInv
  <2>8. QED
    BY <2>1, <2>2, <2>3, <2>4, <2>5, <2>6, <2>7,
       BeginTurnQueue, TakeLockQueue, EndTurnQueue, UserQueue, StopQueue
    DEF Next, Dispatch
<1>3. QED
  BY <1>1, <1>2, TypeCorrect, PTL DEF Spec

\* At most one turn runs in a session, the task that runs it is the one that holds
\* the lock, and every task that waits is in its session's line exactly once.
THEOREM OneTurn == Spec => []OneTurnPerSession
<1>1. QueueInv => OneTurnPerSession
  BY DEF QueueInv
<1>2. QED
  BY <1>1, QueueCorrect, PTL

-----------------------------------------------------------------------------
(* The inductive invariant, job by job.                                     *)

\* What is known of a job before it is created, and while the daemon is down.
Untouched(j) ==
  /\ j \in fresh => /\ jobs[j] = Unknown /\ disk[j] = Unknown /\ trig[j] = Absent
                    /\ \A t \in Task : ~Concerns(t, j)
  /\ ~up => trig[j] = Absent

\* The trigger a job has according to its status; event jobs have none.
Armed(j) ==
  /\ jobs[j].status = "paused" => trig[j] \in {NoTime, Absent}
  /\ jobs[j].status \in {"none", "completed", "cancelled"} => trig[j] = Absent
  /\ JobType[j] = "event" => trig[j] = Absent

Current(j) ==
  up => /\ jobs[j].status = disk[j].status
        /\ jobs[j].runs = disk[j].runs
        /\ jobs[j].next # disk[j].next => JobType[j] = "cron" /\ jobs[j].status = "active"

\* An absolute job that is waiting has not run, is due at its time, and only a
\* waiting job has a trigger; a job that is being fired has neither run nor a trigger,
\* and is neither paused nor completed.
Once(j) ==
  JobType[j] = "absolute" =>
    /\ disk[j].runs <= 1
    /\ disk[j].status = "active" => disk[j].next = At[j]
    /\ disk[j].status \in {"active", "paused"} => disk[j].runs = 0
    /\ trig[j] # Absent => disk[j].status \in {"active", "paused"}
    /\ \A t \in Task : Concerns(t, j) => /\ trig[j] = Absent /\ disk[j].runs = 0
                                       /\ disk[j].status \notin {"paused", "completed"}
    /\ \A t, u \in Task : Concerns(t, j) /\ Concerns(u, j) => t = u

JobInv(j) == Untouched(j) /\ Armed(j) /\ Current(j) /\ Once(j)

\* A task for APScheduler or for the catch-up fires its own job, one for an event
\* fires event jobs.
TodoShape ==
  \A t \in Task : \A j \in tasks[t].todo :
    IF t[1] = "event" THEN JobType[j] = "event" ELSE j = t[2]

OnceInv == TodoShape /\ \A j \in Job : JobInv(j)

\* The fields of a table entry are the ones it is made of.
LEMMA EntryFields ==
  ASSUME NEW st, NEW n, NEW next
  PROVE  /\ Entry(st, n, next).status = st
         /\ Entry(st, n, next).runs = n
         /\ Entry(st, n, next).next = next
BY DEF Entry

\* A job that is not in the table has no runs and no next run.
LEMMA UnknownFields ==
  Unknown.status = "none" /\ Unknown.runs = 0 /\ Unknown.next = NoTime
BY EntryFields DEF Unknown

\* What SetJob does to the job, and to the others, whose copy on disk is refreshed.
LEMMA SetJobFields ==
  ASSUME TypeOK, NEW i \in Job, NEW st, NEW n, NEW next, SetJob(i, Entry(st, n, next))
  PROVE  /\ jobs'[i].status = st /\ jobs'[i].runs = n /\ jobs'[i].next = next
         /\ disk'[i].status = st /\ disk'[i].runs = n /\ disk'[i].next = next
         /\ \A j \in Job \ {i} : jobs'[j] = jobs[j] /\ disk'[j] = jobs[j]
BY EntryFields DEF SetJob, Save, TypeOK

-----------------------------------------------------------------------------
(* A job that the step is not about.                                        *)

\* What is known of a job that a step does not touch.
LEMMA JobFrame ==
  ASSUME TypeOK, NEW j \in Job, JobInv(j), up' = up, fresh' \subseteq fresh,
         jobs'[j] = jobs[j], trig'[j] = trig[j],
         disk'[j] = disk[j] \/ (up /\ disk'[j] = jobs[j]),
         \A t \in Task : Concerns(t, j)' =>
            Concerns(t, j) \/ (JobType[j] # "absolute" /\ j \notin fresh)
  PROVE  JobInv(j)'
<1>1. Untouched(j)'
  BY DEF JobInv, Untouched
<1>2. Armed(j)'
  BY DEF JobInv, Armed
<1>3. Current(j)'
  BY DEF JobInv, Current
<1>4. Once(j)'
  BY DEF JobInv, Once, Current
<1>5. QED
  BY <1>1, <1>2, <1>3, <1>4 DEF JobInv

-----------------------------------------------------------------------------
(* The job that the step is about.                                          *)

\* create_*_job establishes the invariant for the new job.
LEMMA CreateJob ==
  ASSUME TypeOK, NEW i \in Job, JobInv(i), Create(i)
  PROVE  JobInv(i)'
<1> DEFINE next == IF JobType[i] = "event" THEN NoTime ELSE FirstFire(i)
<1>1. /\ jobs'[i].status = "active" /\ jobs'[i].runs = 0 /\ jobs'[i].next = next
      /\ disk'[i].status = "active" /\ disk'[i].runs = 0 /\ disk'[i].next = next
  BY SetJobFields DEF Create
<1>2. /\ i \notin fresh' /\ up' /\ UNCHANGED tasks
      /\ JobType[i] = "event" => trig'[i] = trig[i]
      /\ trig[i] = Absent /\ \A t \in Task : ~Concerns(t, i)
  BY DEF Create, JobInv, Untouched, TypeOK
<1>3. JobType[i] = "absolute" => next = At[i]
  BY DEF FirstFire
<1>4. QED
  BY <1>1, <1>2, <1>3 DEF JobInv, Untouched, Armed, Current, Once, Concerns

\* pause_job and resume_job reach a job only through its trigger.
LEMMA PauseJob ==
  ASSUME TypeOK, NEW P, NEW i \in Job, i \in P, Pausable(i), JobInv(i), up, PauseEach(P)
  PROVE  JobInv(i)'
<1>1. /\ jobs'[i].status = "paused" /\ jobs'[i].runs = jobs[i].runs /\ jobs'[i].next = NoTime
      /\ disk'[i].status = "paused" /\ disk'[i].runs = jobs[i].runs /\ disk'[i].next = NoTime
  BY EntryFields DEF PauseEach, Save
<1>2. /\ UNCHANGED <<tasks, fresh, up>>
      /\ trig'[i] = (IF JobType[i] # "event" THEN NoTime ELSE trig[i])
  BY DEF PauseEach
<1>3. i \notin fresh
  BY UnknownFields DEF Pausable, Known, JobInv, Untouched
<1>4. JobType[i] = "absolute" => disk[i].runs = 0 /\ \A t \in Task : ~Concerns(t, i)
  BY DEF Pausable, HasTrigger, JobInv, Once
<1>5. jobs[i].runs = disk[i].runs
  BY DEF JobInv, Current
<1>6. QED
  BY <1>1, <1>2, <1>3, <1>4, <1>5 DEF JobInv, Untouched, Armed, Current, Once, Concerns

\* resume_job preserves it for the resumed job.
LEMMA ResumeJob ==
  ASSUME TypeOK, NEW i \in Job, JobInv(i), Resume(i)
  PROVE  JobInv(i)'
<1> DEFINE next == IF JobType[i] = "event" THEN jobs[i].next ELSE FirstFire(i)
<1>1. /\ jobs'[i].status = "active" /\ jobs'[i].runs = jobs[i].runs /\ jobs'[i].next = next
      /\ disk'[i].status = "active" /\ disk'[i].runs = jobs[i].runs /\ disk'[i].next = next
  BY SetJobFields DEF Resume
<1>2. /\ UNCHANGED <<tasks, fresh, up>> /\ up
      /\ JobType[i] = "event" => trig'[i] = trig[i]
  BY DEF Resume
<1>3. i \notin fresh
  BY UnknownFields DEF Resume, Pausable, Known, JobInv, Untouched
<1>4. JobType[i] = "absolute" => disk[i].runs = 0 /\ \A t \in Task : ~Concerns(t, i)
  BY DEF Resume, Pausable, HasTrigger, JobInv, Once
<1>5. jobs[i].runs = disk[i].runs
  BY <1>2 DEF JobInv, Current
<1>6. JobType[i] = "absolute" => next = At[i]
  BY DEF FirstFire
<1>7. QED
  BY <1>1, <1>2, <1>3, <1>4, <1>5, <1>6
  DEF JobInv, Untouched, Armed, Current, Once, Concerns

\* cancel_job preserves it for the cancelled job.
LEMMA CancelJob ==
  ASSUME TypeOK, NEW i \in Job, JobInv(i), Cancel(i)
  PROVE  JobInv(i)'
<1>1. /\ jobs'[i].status = "cancelled" /\ jobs'[i].runs = jobs[i].runs /\ jobs'[i].next = NoTime
      /\ disk'[i].status = "cancelled" /\ disk'[i].runs = jobs[i].runs /\ disk'[i].next = NoTime
  BY SetJobFields DEF Cancel
<1>2. UNCHANGED <<tasks, fresh, up>> /\ up /\ trig'[i] = Absent
  BY DEF Cancel, TypeOK
<1>3. i \notin fresh
  BY UnknownFields DEF Cancel, Known, JobInv, Untouched
<1>4. jobs[i].runs = disk[i].runs
  BY <1>2 DEF JobInv, Current
<1>5. QED
  BY <1>1, <1>2, <1>3, <1>4 DEF JobInv, Untouched, Armed, Current, Once, Concerns

\* remove_job preserves it for the removed job.
LEMMA RemoveJob ==
  ASSUME TypeOK, NEW i \in Job, JobInv(i), Remove(i)
  PROVE  JobInv(i)'
<1>1. /\ jobs'[i].status = "none" /\ jobs'[i].runs = 0 /\ jobs'[i].next = NoTime
      /\ disk'[i].status = "none" /\ disk'[i].runs = 0 /\ disk'[i].next = NoTime
  BY SetJobFields DEF Remove, Unknown
<1>2. UNCHANGED <<tasks, fresh, up>> /\ up /\ trig'[i] = Absent
  BY DEF Remove, TypeOK
<1>3. i \notin fresh
  BY UnknownFields DEF Remove, Known, JobInv, Untouched
<1>4. QED
  BY <1>1, <1>2, <1>3 DEF JobInv, Untouched, Armed, Current, Once, Concerns

\* Firing an absolute job, or dropping the run, takes its trigger away.
LEMMA FireJob ==
  ASSUME TypeOK, NEW i \in Job, JobInv(i), Fire(i) \/ Misfire(i)
  PROVE  JobInv(i)'
<1>1. UNCHANGED <<jobs, disk, fresh, up>> /\ up
  BY DEF Fire, Misfire
<1>2. /\ trig[i] \in Slot /\ trig[i] # Absent /\ trig[i] # NoTime
      /\ trig'[i] = AfterFire(i)
  BY DEF Fire, Misfire, Due, TypeOK, Slot, Absent, NoTime
<1>3. \A t \in Task : tasks'[t] = tasks[t] \/ t = <<"aps", i>>
  BY DEF Fire, Misfire, TypeOK
<1>4. CASE JobType[i] = "absolute"
  <2>1. /\ trig'[i] = Absent /\ disk[i].runs = 0 /\ \A t \in Task : ~Concerns(t, i)
        /\ disk[i].status \in {"active", "paused"}
    BY <1>2, <1>4 DEF AfterFire, JobInv, Once
  <2>2. \A t \in Task : Concerns(t, i)' => t = <<"aps", i>>
    BY <1>3, <2>1 DEF Concerns
  <2>3. QED
    BY <1>1, <1>2, <1>4, <2>1, <2>2 DEF JobInv, Untouched, Armed, Current, Once
<1>5. CASE JobType[i] # "absolute"
  BY <1>1, <1>2, <1>5 DEF JobInv, Untouched, Armed, Current, Once
<1>6. QED
  BY <1>4, <1>5

\* The end of a firing, recorded: the task leaves the job, which for an absolute job
\* no other task fires.
LEMMA FailJob ==
  ASSUME TypeOK, NEW i \in Job, JobInv(i), up, up', fresh' = fresh, Known(i),
         NEW t \in Task, Concerns(t, i),
         \A u \in Task : Concerns(u, i)' => Concerns(u, i),
         RecordFailure(i)
  PROVE  JobInv(i)'
<1> DEFINE next == IF JobType[i] = "cron" THEN jobs[i].next ELSE NoTime
<1>1. /\ jobs'[i].status = "failed" /\ jobs'[i].runs = jobs[i].runs /\ jobs'[i].next = next
      /\ disk'[i].status = "failed" /\ disk'[i].runs = jobs[i].runs /\ disk'[i].next = next
  BY SetJobFields DEF RecordFailure
<1>2. i \notin fresh
  BY UnknownFields DEF Known, JobInv, Untouched
<1>3. jobs[i].runs = disk[i].runs
  BY DEF JobInv, Current
<1>4. JobType[i] = "absolute" => trig'[i] = Absent
  BY DEF RecordFailure, TypeOK
<1>5. JobType[i] = "event" => trig'[i] = trig[i]
  BY DEF RecordFailure, TypeOK
<1>6. QED
  BY <1>1, <1>2, <1>3, <1>4, <1>5 DEF JobInv, Untouched, Armed, Current, Once

\* record_completion preserves it for the job that was run.
LEMMA CompleteJob ==
  ASSUME TypeOK, NEW i \in Job, JobInv(i), up, up', fresh' = fresh, Known(i),
         NEW t \in Task, Concerns(t, i), ~Concerns(t, i)',
         \A u \in Task : Concerns(u, i)' => Concerns(u, i),
         RecordCompletion(i)
  PROVE  JobInv(i)'
<1> DEFINE st == IF JobType[i] = "absolute" \/ LastRun(i) THEN "completed" ELSE "active"
           next == IF JobType[i] # "cron" \/ LastRun(i) THEN NoTime ELSE NextRun(i)
<1>1. /\ jobs'[i].status = st /\ jobs'[i].runs = jobs[i].runs + 1 /\ jobs'[i].next = next
      /\ disk'[i].status = st /\ disk'[i].runs = jobs[i].runs + 1 /\ disk'[i].next = next
  BY SetJobFields DEF RecordCompletion
<1>2. i \notin fresh
  BY UnknownFields DEF Known, JobInv, Untouched
<1>3. jobs[i].runs = disk[i].runs
  BY DEF JobInv, Current
<1>4. /\ LastRun(i) => trig'[i] = Absent
      /\ trig'[i] \in {trig[i], Absent}
  BY DEF RecordCompletion, TypeOK
<1>5. CASE JobType[i] = "absolute"
  <2>1. trig'[i] = Absent /\ disk[i].runs = 0 /\ \A u \in Task : ~Concerns(u, i)'
    BY <1>4, <1>5 DEF JobInv, Once
  <2>2. QED
    BY <1>1, <1>2, <1>3, <1>5, <2>1 DEF JobInv, Untouched, Armed, Current, Once
<1>6. CASE JobType[i] # "absolute"
  BY <1>1, <1>2, <1>4, <1>6 DEF JobInv, Untouched, Armed, Current, Once
<1>7. QED
  BY <1>5, <1>6

-----------------------------------------------------------------------------
(* Stop and restart.                                                        *)

\* A stop of the daemon preserves it for every job: only the disk is left.
LEMMA StopJob ==
  ASSUME TypeOK, NEW j \in Job, JobInv(j), Stop
  PROVE  JobInv(j)'
<1>1. /\ jobs'[j] = Unknown /\ trig'[j] = Absent /\ UNCHANGED <<disk, fresh>> /\ ~up'
      /\ \A t \in Task : ~Concerns(t, j)'
  BY DEF Stop, Concerns, Free
<1>2. Armed(j)'
  BY <1>1, UnknownFields DEF Armed
<1>3. Once(j)'
  BY <1>1 DEF JobInv, Once
<1>4. QED
  BY <1>1, <1>2, <1>3 DEF JobInv, Untouched, Current

\* What was persisted decides what a job is after the restart, and a one-shot job is
\* either armed or caught up or expired, never two of them.
LEMMA StartJob ==
  ASSUME TypeOK, NEW j \in Job, JobInv(j), Start
  PROVE  JobInv(j)'
<1>1. /\ jobs'[j] = Recovered(j) /\ up' /\ UNCHANGED fresh
      /\ trig'[j] = (IF Rearmed(j) THEN FirstFire(j) ELSE Absent)
      /\ disk'[j] = Recovered(j) \/ (disk'[j] = disk[j] /\ ~Expired(j))
  BY DEF Start
<1>2. \A t \in Task : Concerns(t, j)' => t = <<"catchup", j>> /\ CaughtUp(j)
  <2>1. SUFFICES ASSUME NEW t \in Task, Concerns(t, j)'
                 PROVE  t = <<"catchup", j>> /\ CaughtUp(j)
    OBVIOUS
  <2>2. /\ t[1] = "catchup" /\ CaughtUp(t[2])
        /\ tasks'[t] = Firing({t[2]})
    BY <2>1 DEF Start, Concerns, Free
  <2>3. j = t[2]
    BY <2>1, <2>2 DEF Concerns, Firing
  <2>4. t = <<"catchup", j>>
    BY <2>2, <2>3 DEF Task
  <2>5. QED
    BY <2>2, <2>3, <2>4
<1>3. /\ disk[j].status \in Status \cup {"none"} /\ disk[j].runs \in Nat
      /\ disk[j].next \in Slot \cup {NoTime}
  BY FieldTypes
<1>4. CASE Expired(j)
  <2>1. /\ Recovered(j).status = "completed" /\ Recovered(j).runs = disk[j].runs
        /\ JobType[j] = "absolute" /\ ~Rearmed(j) /\ ~CaughtUp(j) /\ Recoverable(j)
    BY <1>4, EntryFields DEF Recovered, Expired, Rearmed
  <2>2. j \notin fresh
    BY <2>1, UnknownFields DEF Recoverable, JobInv, Untouched
  <2>3. QED
    BY <1>1, <1>2, <1>4, <2>1, <2>2 DEF JobInv, Untouched, Armed, Current, Once
<1>5. CASE Rearmed(j)
  <2>1. /\ ~Expired(j) /\ Recoverable(j) /\ JobType[j] # "event"
        /\ Recovered(j).status = "active" /\ Recovered(j).runs = disk[j].runs
        /\ Recovered(j).next = FirstFire(j)
    BY <1>5, EntryFields DEF Recovered, Expired, Rearmed, Recoverable
  <2>2. j \notin fresh
    BY <2>1, UnknownFields DEF Recoverable, JobInv, Untouched
  <2>3. JobType[j] = "absolute" => ~CaughtUp(j) /\ FirstFire(j) = At[j]
    BY <1>5 DEF Rearmed, CaughtUp, FirstFire
  <2>4. CASE JobType[j] = "absolute"
    BY <1>1, <1>2, <2>1, <2>2, <2>3, <2>4
    DEF JobInv, Untouched, Armed, Current, Once, Recoverable
  <2>5. CASE JobType[j] # "absolute"
    BY <1>1, <1>2, <2>1, <2>2, <2>5, SchedulerAssumption
    DEF JobInv, Untouched, Armed, Current, Once, Recoverable
  <2>6. QED
    BY <2>4, <2>5
<1>6. CASE ~Expired(j) /\ ~Rearmed(j)
  <2>1. Recovered(j) = disk[j] /\ trig'[j] = Absent /\ jobs'[j] = disk[j] /\ disk'[j] = disk[j]
    BY <1>1, <1>6 DEF Recovered
  <2>2. CaughtUp(j) => disk[j].status = "active"
    BY DEF CaughtUp, Recoverable
  <2>3. Untouched(j)'
    BY <1>1, <1>2, <2>1, <2>2, UnknownFields DEF JobInv, Untouched
  <2>4. QED
    BY <1>1, <1>2, <2>1, <2>2, <2>3 DEF JobInv, Armed, Current, Once
<1>7. QED
  BY <1>4, <1>5, <1>6

-----------------------------------------------------------------------------
(* All jobs, all steps.                                                     *)

\* A change of one job's entry leaves the invariant of the others alone.
LEMMA SetOthers ==
  ASSUME TypeOK, NEW i \in Job, NEW st, NEW n, NEW next, SetJob(i, Entry(st, n, next)),
         up, up', fresh' \subseteq fresh,
         NEW j \in Job, j # i, JobInv(j), trig'[j] = trig[j],
         \A t \in Task : Concerns(t, j)' => Concerns(t, j)
  PROVE  JobInv(j)'
<1>1. jobs'[j] = jobs[j] /\ disk'[j] = jobs[j]
  BY SetJobFields
<1>2. QED
  BY <1>1, JobFrame DEF TypeOK

\* The operations of users and agents preserve the invariant.
LEMMA OperateOnce ==
  ASSUME TypeOK, NEW j \in Job, JobInv(j), Operate
  PROVE  JobInv(j)'
<1>1. ASSUME NEW i \in Job, i # j, Create(i) PROVE JobInv(j)'
  <2>1. up /\ up' /\ fresh' \subseteq fresh /\ trig'[j] = trig[j] /\ UNCHANGED tasks
    BY <1>1 DEF Create, TypeOK
  <2>2. PICK next : SetJob(i, Entry("active", 0, next))
    BY <1>1 DEF Create
  <2>3. QED
    BY <1>1, <2>1, <2>2, SetOthers DEF Concerns
<1>2. ASSUME NEW P \in SUBSET Job, up, \A i \in P : Pausable(i), PauseEach(P)
      PROVE  JobInv(j)'
  <2>1. CASE j \in P
    BY <1>2, <2>1, PauseJob
  <2>2. CASE j \notin P
    <3>1. jobs'[j] = jobs[j] /\ disk'[j] = jobs[j] /\ trig'[j] = trig[j]
      BY <1>2, <2>2 DEF PauseEach, Save
    <3>2. UNCHANGED <<tasks, fresh, up>>
      BY <1>2 DEF PauseEach
    <3>3. QED
      BY <1>2, <3>1, <3>2, JobFrame DEF Concerns
  <2>3. QED
    BY <2>1, <2>2
<1>3. ASSUME NEW i \in Job, i # j, Resume(i) PROVE JobInv(j)'
  <2>1. up /\ trig'[j] = trig[j] /\ UNCHANGED <<tasks, fresh, up>>
    BY <1>3 DEF Resume, TypeOK
  <2>2. PICK next : SetJob(i, Entry("active", jobs[i].runs, next))
    BY <1>3 DEF Resume
  <2>3. QED
    BY <1>3, <2>1, <2>2, SetOthers DEF Concerns
<1>4. ASSUME NEW i \in Job, i # j, Cancel(i) \/ Remove(i) PROVE JobInv(j)'
  <2>1. up /\ trig'[j] = trig[j] /\ UNCHANGED <<tasks, fresh, up>>
    BY <1>4 DEF Cancel, Remove, TypeOK
  <2>2. PICK st, n : SetJob(i, Entry(st, n, NoTime))
    BY <1>4 DEF Cancel, Remove, Unknown
  <2>3. QED
    BY <1>4, <2>1, <2>2, SetOthers DEF Concerns
<1>5. ASSUME NEW i \in Job, Pause(i) PROVE JobInv(j)'
  BY <1>2, <1>5 DEF Pause
<1>6. ASSUME NEW scope \in SUBSET Session, PauseAll(scope) PROVE JobInv(j)'
  <2>1. PICK P \in SUBSET {i \in UNION {ActiveJobs(s) : s \in scope} : Pausable(i)} :
          PauseEach(P)
    BY <1>6 DEF PauseAll
  <2>2. P \in SUBSET Job /\ (\A i \in P : Pausable(i)) /\ up
    BY <1>6, <2>1 DEF PauseAll, ActiveJobs
  <2>3. QED
    BY <1>2, <2>1, <2>2
<1>7. QED
  BY <1>1, <1>3, <1>4, <1>5, <1>6, CreateJob, ResumeJob, CancelJob, RemoveJob DEF Operate

\* What a task still has to fire only shrinks while it is at work.
LEMMA DispatchTodo ==
  ASSUME TypeOK, Dispatch, NEW u \in Task
  PROVE  tasks'[u].todo \subseteq tasks[u].todo
<1>1. \A t \in Task : \A j : Free.todo = {} /\ After(t, j).todo = tasks[t].todo \ {j}
  BY DEF Free, After, Firing
<1>2. ASSUME NEW t \in Task, NEW j \in Job,
             BeginUnknown(t, j) \/ BeginUnattached(t, j) \/ BeginSkipped(t, j)
      PROVE  tasks'[u].todo \subseteq tasks[u].todo
  <2>1. tasks' = [tasks EXCEPT ![t] = Free] \/ tasks' = [tasks EXCEPT ![t] = After(t, j)]
    BY <1>2 DEF BeginUnknown, BeginUnattached, BeginSkipped
  <2>2. tasks'[t] \in {Free, After(t, j)} /\ (u # t => tasks'[u] = tasks[u])
    BY <2>1 DEF TypeOK
  <2>3. QED
    BY <1>1, <2>2
<1>3. ASSUME NEW t \in Task, NEW j \in Job, BeginTurn(t, j)
      PROVE  tasks'[u].todo = tasks[u].todo
  BY <1>3 DEF BeginTurn, TypeOK, TaskRecord
<1>4. ASSUME NEW s \in Session, TakeLock(s) PROVE tasks'[u].todo = tasks[u].todo
  BY <1>4 DEF TakeLock, TypeOK, TaskRecord
<1>5. ASSUME NEW t \in Task, NEW record, EndTurn(t, record)
      PROVE  tasks'[u].todo \subseteq tasks[u].todo
  <2>1. \/ tasks' = [tasks EXCEPT ![t] = Free]
        \/ tasks' = [tasks EXCEPT ![t] = After(t, tasks[t].cur)]
    BY <1>5 DEF EndTurn
  <2>2. tasks'[t] \in {Free, After(t, tasks[t].cur)} /\ (u # t => tasks'[u] = tasks[u])
    BY <2>1 DEF TypeOK
  <2>3. QED
    BY <1>1, <2>2
<1>6. QED
  BY <1>2, <1>3, <1>4, <1>5 DEF Dispatch

\* The steps of the tasks that fire jobs preserve the invariant.
LEMMA DispatchOnce ==
  ASSUME TypeOK, QueueInv, NEW j \in Job, JobInv(j), Dispatch
  PROVE  JobInv(j)'
<1>1. UNCHANGED <<fresh, up>> /\ \A t \in Task : Concerns(t, j)' => Concerns(t, j)
  BY DispatchTodo
  DEF Dispatch, BeginUnknown, BeginUnattached, BeginSkipped, BeginTurn, TakeLock, EndTurn, Concerns
<1>2. CASE UNCHANGED <<jobs, disk, trig>>
  BY <1>1, <1>2, JobFrame
<1>3. ASSUME NEW i \in Job, NEW t \in Task, Concerns(t, i), ~Concerns(t, i)', up, Known(i),
             RecordFailure(i) \/ RecordCompletion(i)
      PROVE  JobInv(j)'
  <2>1. CASE i = j
    BY <1>1, <1>3, <2>1, FailJob, CompleteJob
  <2>2. CASE i # j
    <3>1. trig'[j] = trig[j]
      BY <1>3, <2>2 DEF RecordFailure, RecordCompletion, TypeOK
    <3>2. PICK st, n, next : SetJob(i, Entry(st, n, next))
      BY <1>3 DEF RecordFailure, RecordCompletion
    <3>3. QED
      BY <1>1, <1>3, <2>2, <3>1, <3>2, SetOthers
  <2>3. QED
    BY <2>1, <2>2
<1>4. ASSUME NEW t \in Task, NEW i PROVE i \notin After(t, i).todo
  BY DEF After, Free, Firing
<1>5. ASSUME NEW t \in Task, NEW i \in Job, BeginUnattached(t, i) PROVE JobInv(j)'
  <2>1. Concerns(t, i) /\ ~Concerns(t, i)' /\ up
    BY <1>4, <1>5 DEF BeginUnattached, Concerns, TypeOK, QueueInv
  <2>2. QED
    BY <1>3, <1>5, <2>1 DEF BeginUnattached
<1>6. ASSUME NEW t \in Task, NEW record, EndTurn(t, record), ~UNCHANGED <<jobs, disk, trig>>
      PROVE  JobInv(j)'
  <2>1. tasks[t].cur \in Job /\ Concerns(t, tasks[t].cur) /\ up
    BY <1>6 DEF EndTurn, QueueInv, Engaged, Concerns, TypeOK, TaskRecord
  <2>2. PICK i \in Job : i = tasks[t].cur
    BY <2>1
  <2>3. Known(i)
    BY <1>6, <2>2 DEF EndTurn
  <2>4. (RecordCompletion(i) \/ RecordFailure(i)) /\ tasks' = [tasks EXCEPT ![t] = After(t, i)]
    BY <1>6, <2>2, <2>3 DEF EndTurn
  <2>5. ~Concerns(t, i)'
    BY <1>4, <2>4 DEF Concerns, TypeOK
  <2>6. QED
    BY <1>3, <2>1, <2>2, <2>3, <2>4, <2>5
<1>7. QED
  BY <1>2, <1>5, <1>6
  DEF Dispatch, BeginUnknown, BeginSkipped, BeginTurn, TakeLock

\* APScheduler's wake-up preserves it: the trigger goes when the task comes.
LEMMA FireOnce ==
  ASSUME TypeOK, NEW j \in Job, JobInv(j), NEW i \in Job, Fire(i) \/ Misfire(i)
  PROVE  JobInv(j)'
<1>1. CASE i = j
  BY <1>1, FireJob
<1>2. CASE i # j
  <2>1. UNCHANGED <<jobs, disk, fresh, up>> /\ trig'[j] = trig[j]
    BY <1>2 DEF Fire, Misfire, TypeOK
  <2>2. \A t \in Task : tasks'[t] = tasks[t] \/ tasks'[t] = Firing({i})
    BY DEF Fire, Misfire, TypeOK
  <2>3. \A t \in Task : Concerns(t, j)' => Concerns(t, j)
    BY <1>2, <2>2 DEF Concerns, Firing
  <2>4. QED
    BY <2>1, <2>3, JobFrame
<1>3. QED
  BY <1>1, <1>2

\* The delivery of an event preserves it: event jobs are not one-shot jobs.
LEMMA PublishOnce ==
  ASSUME TypeOK, NEW j \in Job, JobInv(j), NEW h \in Handler, NEW M \in SUBSET Job, Publish(h, M)
  PROVE  JobInv(j)'
<1>1. UNCHANGED <<jobs, disk, trig, fresh, up>>
  BY DEF Publish
<1>2. \A t \in Task : tasks'[t] = tasks[t] \/ tasks'[t] = Firing(M)
  BY DEF Publish, TypeOK
<1>3. j \in M => JobType[j] # "absolute" /\ j \notin fresh
  BY UnknownFields DEF Publish, JobInv, Untouched
<1>4. \A t \in Task : Concerns(t, j)' => Concerns(t, j) \/ (JobType[j] # "absolute" /\ j \notin fresh)
  BY <1>2, <1>3 DEF Concerns, Firing
<1>5. QED
  BY <1>1, <1>4, JobFrame

\* The invariant holds at the start.
LEMMA OnceInit == Init => OnceInv
<1> SUFFICES ASSUME Init PROVE OnceInv
  OBVIOUS
<1>1. \A t \in Task : tasks[t].todo = {}
  BY DEF Init, Free
<1>2. \A j \in Job : jobs[j] = Unknown /\ disk[j] = Unknown /\ trig[j] = Absent
  BY DEF Init
<1>3. QED
  BY <1>1, <1>2, UnknownFields
  DEF OnceInv, TodoShape, JobInv, Untouched, Armed, Current, Once, Concerns

\* Every step preserves the invariant.
LEMMA OnceStep == TypeOK /\ QueueInv /\ OnceInv /\ [Next]_vars => OnceInv'
<1> SUFFICES ASSUME TypeOK, QueueInv, OnceInv, [Next]_vars PROVE OnceInv'
  OBVIOUS
<1>1. TodoShape'
  <2>1. ASSUME NEW i \in Job, Fire(i) PROVE TodoShape'
    <3>1. \A t \in Task : tasks'[t] = tasks[t] \/ (t = <<"aps", i>> /\ tasks'[t] = Firing({i}))
      BY <2>1 DEF Fire, TypeOK
    <3>2. QED
      BY <3>1 DEF OnceInv, TodoShape, Firing
  <2>2. ASSUME NEW h \in Handler, NEW M \in SUBSET Job, Publish(h, M) PROVE TodoShape'
    <3>1. \A t \in Task : tasks'[t] = tasks[t] \/ (t = <<"event", h>> /\ tasks'[t] = Firing(M))
      BY <2>2 DEF Publish, TypeOK
    <3>2. \A j \in M : JobType[j] = "event"
      BY <2>2 DEF Publish
    <3>3. QED
      BY <3>1, <3>2 DEF OnceInv, TodoShape, Firing
  <2>3. CASE Start
    BY <2>3 DEF Start, TodoShape, Firing, Free
  <2>4. CASE Dispatch
    BY <2>4, DispatchTodo DEF OnceInv, TodoShape
  <2>5. CASE Stop
    BY <2>5 DEF Stop, TodoShape, Free
  <2>6. CASE UNCHANGED tasks
    BY <2>6 DEF OnceInv, TodoShape
  <2>7. CASE Operate
    BY <2>6, <2>7 DEF Operate, Create, Pause, PauseAll, PauseEach, Resume, Cancel, Remove
  <2>8. QED
    BY <2>1, <2>2, <2>3, <2>4, <2>5, <2>6, <2>7
    DEF Next, Misfire, UserInput, UserTurnEnds, Tick, vars
<1>2. ASSUME NEW j \in Job PROVE JobInv(j)'
  <2>1. JobInv(j)
    BY DEF OnceInv
  <2>2. CASE UNCHANGED <<jobs, disk, trig, tasks, fresh, up>>
    BY <2>1, <2>2, JobFrame DEF Concerns
  <2>3. QED
    BY <2>1, <2>2, OperateOnce, FireOnce, PublishOnce, DispatchOnce, StopJob, StartJob
    DEF Next, UserInput, UserTurnEnds, Tick, vars
<1>3. QED
  BY <1>1, <1>2 DEF OnceInv

\* Every reachable state is well-typed, has its locks in order and satisfies OnceInv.
THEOREM Reachable == Spec => [](TypeOK /\ QueueInv /\ OnceInv)
BY TypeCorrect, QueueCorrect, OnceInit, OnceStep, PTL DEF Spec

-----------------------------------------------------------------------------
\* An absolute job is completed at most once, by one task at a time, and while a task
\* has it there is no trigger that could fire it again.
THEOREM OnceOnly == Spec => []AbsoluteOnce
<1>1. OnceInv => AbsoluteOnce
  BY DEF OnceInv, JobInv, Once, AbsoluteOnce, OneShotJob, HasTrigger
<1>2. QED
  BY <1>1, Reachable, PTL

\* APScheduler holds no armed trigger for a job that is paused, cancelled, completed
\* or removed.
THEOREM RestIsRest == Spec => []NothingArmedAtRest
<1>1. OnceInv => NothingArmedAtRest
  BY DEF OnceInv, JobInv, Armed, NothingArmedAtRest
<1>2. QED
  BY <1>1, Reachable, PTL

\* While the daemon is up, its job table and jobs.json differ in nothing but the next
\* run of active cron jobs.
THEOREM Durable == Spec => []DiskIsCurrent
<1>1. OnceInv => DiskIsCurrent
  BY DEF OnceInv, JobInv, Current, DiskIsCurrent
<1>2. QED
  BY <1>1, Reachable, PTL

-----------------------------------------------------------------------------
(* The life of one absolute job in one step.                                *)

\* The change of the count of runs that OneShot allows.
Counted(j) ==
  \/ disk'[j].runs = disk[j].runs
  \/ disk[j].runs = 0 /\ disk'[j].runs = 1 /\ Life(j) # "completed" /\ Life(j)' = "completed"
  \/ Life(j)' = "removed" /\ disk'[j].runs = 0

LivesOn(j) == Abstract!Moves(Life(j), Life(j)') /\ Counted(j)

\* A step that leaves the table on disk and the fresh ids alone is a stutter of OneShot.
LEMMA LifeSame ==
  ASSUME NEW j \in Job, fresh' = fresh,
         disk'[j].status = disk[j].status, disk'[j].runs = disk[j].runs
  PROVE  LivesOn(j)
BY DEF LivesOn, Life, Counted, Abstract!Moves

\* The life after an entry was set, of the job and of the others.
LEMMA LifeSet ==
  ASSUME TypeOK, NEW i \in Job, NEW st, NEW n, NEW next, SetJob(i, Entry(st, n, next)),
         NEW j \in Job, JobInv(j), up
  PROVE  /\ i = j /\ j \notin fresh' => Life(j)' = (IF st = "none" THEN "removed" ELSE st)
         /\ i = j => disk'[j].runs = n /\ disk[j].runs = jobs[j].runs
         /\ i # j /\ fresh' = fresh => LivesOn(j)
<1>1. i = j => disk'[j].status = st /\ disk'[j].runs = n
  BY SetJobFields
<1>2. i # j => disk'[j].status = disk[j].status /\ disk'[j].runs = disk[j].runs
  BY SetJobFields DEF JobInv, Current
<1>3. QED
  BY <1>1, <1>2, LifeSame DEF Life, JobInv, Current

\* A known job is in a state from which OneShot lets it be retired, unless it is paused.
LEMMA KnownLife ==
  ASSUME TypeOK, NEW j \in Job, JobInv(j), up, Known(j)
  PROVE  /\ j \notin fresh
         /\ Life(j) = jobs[j].status /\ Life(j) = disk[j].status
         /\ Life(j) \in {"active", "paused", "completed", "failed", "cancelled"}
BY UnknownFields, FieldTypes DEF Known, Life, JobInv, Untouched, Current, Status

\* Every operation of a user or an agent moves a one-shot job along its abstract life.
LEMMA LifeOperate ==
  ASSUME TypeOK, NEW j \in Job, JobInv(j), JobType[j] = "absolute", Operate
  PROVE  LivesOn(j)
<1> up
  BY DEF Operate, Create, Pause, PauseAll, Resume, Cancel, Remove
<1>1. ASSUME NEW i \in Job, Create(i) PROVE LivesOn(j)
  <2>1. PICK next : SetJob(i, Entry("active", 0, next))
    BY <1>1 DEF Create
  <2>2. CASE i = j
    <3>1. Life(j) = "unborn" /\ j \notin fresh' /\ disk[j].runs = 0
      BY <1>1, <2>2, UnknownFields DEF Create, Life, JobInv, Untouched
    <3>2. Life(j)' = "active" /\ disk'[j].runs = 0
      BY <2>1, <2>2, <3>1, LifeSet
    <3>3. QED
      BY <3>1, <3>2 DEF LivesOn, Counted, Abstract!Moves
  <2>3. CASE i # j
    <3>1. disk'[j].status = disk[j].status /\ disk'[j].runs = disk[j].runs
      BY <2>1, <2>3, SetJobFields DEF JobInv, Current
    <3>2. j \in fresh' <=> j \in fresh
      BY <1>1, <2>3 DEF Create
    <3>3. QED
      BY <3>1, <3>2 DEF LivesOn, Life, Counted, Abstract!Moves
  <2>4. QED
    BY <2>2, <2>3
<1>2. ASSUME NEW P \in SUBSET Job, \A i \in P : Pausable(i), PauseEach(P)
      PROVE  LivesOn(j)
  <2>1. CASE j \in P
    <3>1. Known(j) /\ disk[j].status \in {"active", "paused"}
      BY <1>2, <2>1 DEF Pausable, HasTrigger, JobInv, Once
    <3>2. Life(j) \in {"active", "paused"} /\ j \notin fresh
      BY <3>1, KnownLife
    <3>3. disk'[j].status = "paused" /\ disk'[j].runs = jobs[j].runs /\ fresh' = fresh
      BY <1>2, <2>1, EntryFields DEF PauseEach, Save
    <3>4. Life(j)' = "paused" /\ disk'[j].runs = disk[j].runs
      BY <3>2, <3>3 DEF Life, JobInv, Current
    <3>5. QED
      BY <3>2, <3>4 DEF LivesOn, Counted, Abstract!Moves
  <2>2. CASE j \notin P
    <3>1. disk'[j] = jobs[j] /\ fresh' = fresh
      BY <1>2, <2>2 DEF PauseEach, Save
    <3>2. QED
      BY <3>1, LifeSame DEF JobInv, Current
  <2>3. QED
    BY <2>1, <2>2
<1>3. ASSUME NEW i \in Job, Resume(i) PROVE LivesOn(j)
  <2>1. PICK next : SetJob(i, Entry("active", jobs[i].runs, next))
    BY <1>3 DEF Resume
  <2>2. fresh' = fresh
    BY <1>3 DEF Resume
  <2>3. CASE i = j
    <3>1. Known(j) /\ disk[j].status \in {"active", "paused"}
      BY <1>3, <2>3 DEF Resume, Pausable, HasTrigger, JobInv, Once
    <3>2. Life(j) \in {"active", "paused"} /\ j \notin fresh
      BY <3>1, KnownLife
    <3>3. Life(j)' = "active" /\ disk'[j].runs = disk[j].runs
      BY <2>1, <2>2, <2>3, <3>2, LifeSet
    <3>4. QED
      BY <3>2, <3>3 DEF LivesOn, Counted, Abstract!Moves
  <2>4. QED
    BY <2>1, <2>2, <2>3, LifeSet
<1>4. ASSUME NEW i \in Job, Cancel(i) \/ Remove(i) PROVE LivesOn(j)
  <2>1. PICK st, n : /\ SetJob(i, Entry(st, n, NoTime))
                     /\ \/ st = "cancelled" /\ n = jobs[i].runs
                        \/ st = "none" /\ n = 0
    <3>1. CASE Cancel(i)
      <4>1. SetJob(i, Entry("cancelled", jobs[i].runs, NoTime))
        BY <3>1 DEF Cancel
      <4>2. QED
        BY <4>1
    <3>2. CASE Remove(i)
      <4>1. SetJob(i, Entry("none", 0, NoTime))
        BY <3>2 DEF Remove, Unknown
      <4>2. QED
        BY <4>1
    <3>3. QED
      BY <1>4, <3>1, <3>2
  <2>2. fresh' = fresh /\ Known(i)
    BY <1>4 DEF Cancel, Remove
  <2>3. CASE i = j
    <3>1. j \notin fresh /\ Life(j) \in {"active", "paused", "completed", "failed", "cancelled"}
      BY <2>2, <2>3, KnownLife
    <3>2. \/ Life(j)' = "cancelled" /\ disk'[j].runs = disk[j].runs
          \/ Life(j)' = "removed" /\ disk'[j].runs = 0
      BY <2>1, <2>2, <2>3, <3>1, LifeSet
    <3>3. QED
      BY <3>1, <3>2 DEF LivesOn, Counted, Abstract!Moves, Abstract!Retired
  <2>4. QED
    BY <2>1, <2>2, <2>3, LifeSet
<1>5. ASSUME NEW i \in Job, Pause(i) PROVE LivesOn(j)
  BY <1>2, <1>5 DEF Pause
<1>6. ASSUME NEW scope \in SUBSET Session, PauseAll(scope) PROVE LivesOn(j)
  <2>1. PICK P \in SUBSET {i \in UNION {ActiveJobs(s) : s \in scope} : Pausable(i)} :
          PauseEach(P)
    BY <1>6 DEF PauseAll
  <2>2. P \in SUBSET Job /\ \A i \in P : Pausable(i)
    BY <2>1 DEF ActiveJobs
  <2>3. QED
    BY <1>2, <2>1, <2>2
<1>7. QED
  BY <1>1, <1>3, <1>4, <1>5, <1>6 DEF Operate

\* A firing that is recorded retires the job, which was neither paused nor run before.
LEMMA LifeRecord ==
  ASSUME TypeOK, NEW j \in Job, JobInv(j), JobType[j] = "absolute", up, fresh' = fresh,
         NEW i \in Job, NEW t \in Task, Concerns(t, i), Known(i),
         RecordFailure(i) \/ RecordCompletion(i)
  PROVE  LivesOn(j)
<1>1. CASE i # j
  <2>1. PICK st, n, next : SetJob(i, Entry(st, n, next))
    BY DEF RecordFailure, RecordCompletion
  <2>2. QED
    BY <1>1, <2>1, LifeSet
<1>2. CASE i = j
  <2>1. PICK st, n, next : /\ SetJob(i, Entry(st, n, next))
                           /\ \/ st = "failed" /\ n = jobs[i].runs
                              \/ st = "completed" /\ n = jobs[i].runs + 1
    <3>1. CASE RecordFailure(i)
      <4>1. PICK next : SetJob(i, Entry("failed", jobs[i].runs, next))
        BY <3>1 DEF RecordFailure
      <4>2. QED
        BY <4>1
    <3>2. CASE RecordCompletion(i)
      <4>1. PICK next : SetJob(i, Entry("completed", jobs[i].runs + 1, next))
        BY <1>2, <3>2 DEF RecordCompletion
      <4>2. QED
        BY <4>1
    <3>3. QED
      BY <3>1, <3>2
  <2>2. j \notin fresh /\ Life(j) \in {"active", "failed", "cancelled"}
    BY <1>2, KnownLife DEF JobInv, Once
  <2>3. disk[j].runs = 0 /\ disk[j].runs = jobs[j].runs
    BY <1>2 DEF JobInv, Once, Current
  <2>4. Life(j)' = st /\ disk'[j].runs = n
    BY <1>2, <2>1, <2>2, LifeSet
  <2>5. Abstract!Moves(Life(j), Life(j)')
    BY <2>1, <2>2, <2>4 DEF Abstract!Moves, Abstract!Retired
  <2>6. QED
    BY <1>2, <2>1, <2>2, <2>3, <2>4, <2>5 DEF LivesOn, Counted
<1>3. QED
  BY <1>1, <1>2

\* So does every step of the daemon, restarts included.
LEMMA LifeStep ==
  ASSUME TypeOK, QueueInv, NEW j \in Job, JobInv(j), JobType[j] = "absolute", [Next]_vars
  PROVE  LivesOn(j)
<1>1. CASE UNCHANGED <<fresh, disk>>
  BY <1>1, LifeSame
<1>2. ASSUME NEW t \in Task, NEW i \in Job, BeginUnattached(t, i) PROVE LivesOn(j)
  <2>1. Concerns(t, i) /\ up
    BY <1>2 DEF BeginUnattached, Concerns, QueueInv
  <2>2. QED
    BY <1>2, <2>1, LifeRecord DEF BeginUnattached
<1>3. ASSUME NEW t \in Task, NEW record, EndTurn(t, record), ~UNCHANGED <<fresh, disk>>
      PROVE  LivesOn(j)
  <2>1. /\ tasks[t].cur \in Job /\ Concerns(t, tasks[t].cur) /\ up
        /\ fresh' = fresh /\ Known(tasks[t].cur)
        /\ RecordFailure(tasks[t].cur) \/ RecordCompletion(tasks[t].cur)
    BY <1>3 DEF EndTurn, QueueInv, Engaged, Concerns, TypeOK, TaskRecord
  <2>2. QED
    BY <2>1, LifeRecord
<1>4. CASE Start
  <2>1. CASE Expired(j)
    <3>1. disk'[j].status = "completed" /\ disk'[j].runs = disk[j].runs /\ fresh' = fresh
      <4>1. disk'[j] = Recovered(j) /\ fresh' = fresh
        BY <1>4, <2>1 DEF Start
      <4>2. Recovered(j).status = "completed" /\ Recovered(j).runs = disk[j].runs
        BY <2>1, EntryFields DEF Recovered, Expired, Rearmed
      <4>3. QED
        BY <4>1, <4>2
    <3>2. disk[j].status = "active" /\ j \notin fresh
      BY <2>1, UnknownFields DEF Expired, Recoverable, JobInv, Untouched
    <3>3. QED
      BY <3>1, <3>2 DEF LivesOn, Life, Counted, Abstract!Moves, Abstract!Retired
  <2>2. CASE ~Expired(j)
    <3>1. /\ disk'[j] = disk[j] \/ (Rearmed(j) /\ disk'[j] = Recovered(j))
          /\ fresh' = fresh
      BY <1>4, <2>2 DEF Start
    <3>2. Rearmed(j) => /\ Recovered(j).status = disk[j].status
                        /\ Recovered(j).runs = disk[j].runs
      BY <2>2, EntryFields DEF Recovered, Rearmed, Recoverable
    <3>3. QED
      BY <3>1, <3>2, LifeSame
  <2>3. QED
    BY <2>1, <2>2
<1>5. QED
  BY <1>1, <1>2, <1>3, <1>4, LifeOperate
  DEF Next, Dispatch, Fire, Misfire, Publish, BeginUnknown, BeginSkipped, BeginTurn,
      TakeLock, UserInput, UserTurnEnds, Stop, Tick, vars

-----------------------------------------------------------------------------
\* The scheduler implements OneShot: the durable life of every absolute job moves
\* forward only, through restarts too.
THEOREM Implements == Spec => ImplementsOneShot
<1>1. Init => Abstract!Init
  <2> SUFFICES ASSUME Init PROVE Abstract!Init
    OBVIOUS
  <2>1. \A j \in OneShotJob : Life(j) = "unborn" /\ disk[j].runs = 0
    BY UnknownFields DEF Init, Life, OneShotJob
  <2>2. QED
    BY <2>1 DEF Abstract!Init
<1>2. TypeOK /\ QueueInv /\ OnceInv /\ TypeOK' /\ OnceInv' /\ [Next]_vars
        => [Abstract!Next]_<<[j \in OneShotJob |-> Life(j)], [j \in OneShotJob |-> disk[j].runs]>>
  <2> SUFFICES ASSUME TypeOK, QueueInv, OnceInv, TypeOK', OnceInv', [Next]_vars
               PROVE  Abstract!Next
    OBVIOUS
  <2>1. ASSUME NEW j \in OneShotJob
        PROVE  /\ Life(j)' \in Abstract!Life
               /\ disk'[j].runs \in 0 .. 1
               /\ LivesOn(j)
    <3>1. disk'[j].status \in Status \cup {"none"} /\ disk'[j].runs \in Nat
      BY FieldTypes DEF OneShotJob, TypeOK, JobRecord
    <3>2. disk'[j].runs <= 1
      BY DEF OnceInv, JobInv, Once, OneShotJob
    <3>3. LivesOn(j)
      BY LifeStep DEF OnceInv, OneShotJob
    <3>4. QED
      BY <3>1, <3>2, <3>3
      DEF Life, Status, Abstract!Life, Abstract!Waiting, Abstract!Retired
  <2>2. [j \in OneShotJob |-> Life(j)]' \in [OneShotJob -> Abstract!Life]
    BY <2>1
  <2>3. [j \in OneShotJob |-> disk[j].runs]' \in [OneShotJob -> 0 .. 1]
    BY <2>1
  <2>4. \A j \in OneShotJob :
          Abstract!Moves([i \in OneShotJob |-> Life(i)][j], [i \in OneShotJob |-> Life(i)]'[j])
    BY <2>1 DEF LivesOn
  <2>5. \A j \in OneShotJob : Abstract!Counts(j)
    BY <2>1 DEF LivesOn, Counted, Abstract!Counts
  <2>6. QED
    BY <2>2, <2>3, <2>4, <2>5 DEF Abstract!Next
<1>3. QED
  BY <1>1, <1>2, Reachable, PTL DEF Spec, ImplementsOneShot, Abstract!Spec

-----------------------------------------------------------------------------
\* A cancelled absolute or cron job with no turn under way never becomes active or
\* paused again: nothing but the end of a turn revives it.
THEOREM CancelHolds == Spec => CancelledStaysCancelled
<1> DEFINE Quiet(j) == /\ JobType[j] # "event"
                       /\ disk[j].status = "cancelled"
                       /\ \A t \in Task : tasks[t].cur = j => tasks[t].phase # "turn"
<1>1. ASSUME TypeOK, QueueInv, OnceInv, [Next]_vars, NEW j \in Job, Quiet(j)
      PROVE  disk'[j].status \notin {"active", "paused"}
  <2>1. JobInv(j) /\ j \notin fresh
    BY <1>1, UnknownFields DEF OnceInv, JobInv, Untouched
  <2>2. up => jobs[j].status = "cancelled" /\ ~Pausable(j)
    BY <1>1, <2>1 DEF JobInv, Armed, Current, Pausable, HasTrigger
  <2>3. CASE UNCHANGED disk
    BY <1>1, <2>3
  <2>4. ASSUME NEW i \in Job, NEW st, NEW n, NEW next, SetJob(i, Entry(st, n, next)), up,
               i = j => st \notin {"active", "paused"}
        PROVE  disk'[j].status \notin {"active", "paused"}
    BY <1>1, <2>2, <2>4, SetJobFields
  <2>5. ASSUME NEW i \in Job, Create(i) \/ Resume(i)
        PROVE  disk'[j].status \notin {"active", "paused"}
    <3>1. i # j /\ up
      BY <2>1, <2>2, <2>5 DEF Create, Resume
    <3>2. CASE Create(i)
      <4>1. \E next : SetJob(i, Entry("active", 0, next))
        BY <3>2 DEF Create
      <4>2. QED
        BY <2>4, <3>1, <4>1
    <3>3. CASE Resume(i)
      <4>1. \E next : SetJob(i, Entry("active", jobs[i].runs, next))
        BY <3>3 DEF Resume
      <4>2. QED
        BY <2>4, <3>1, <4>1
    <3>4. QED
      BY <2>5, <3>2, <3>3
  <2>6. ASSUME NEW i \in Job, Cancel(i) \/ Remove(i)
        PROVE  disk'[j].status \notin {"active", "paused"}
    <3>1. up /\ \/ SetJob(i, Entry("cancelled", jobs[i].runs, NoTime))
                \/ SetJob(i, Entry("none", 0, NoTime))
      BY <2>6 DEF Cancel, Remove, Unknown
    <3>2. QED
      BY <2>4, <3>1
  <2>7. ASSUME NEW P \in SUBSET Job, up, \A i \in P : Pausable(i), PauseEach(P)
        PROVE  disk'[j].status \notin {"active", "paused"}
    BY <2>2, <2>7 DEF PauseEach, Save
  <2>8. ASSUME NEW scope \in SUBSET Session, PauseAll(scope)
        PROVE  disk'[j].status \notin {"active", "paused"}
    <3>1. PICK P \in SUBSET {i \in UNION {ActiveJobs(s) : s \in scope} : Pausable(i)} :
            PauseEach(P)
      BY <2>8 DEF PauseAll
    <3>2. P \in SUBSET Job /\ (\A i \in P : Pausable(i)) /\ up
      BY <2>8, <3>1 DEF PauseAll, ActiveJobs
    <3>3. QED
      BY <2>7, <3>1, <3>2
  <2>9. ASSUME NEW t \in Task, NEW i \in Job, BeginUnattached(t, i)
        PROVE  disk'[j].status \notin {"active", "paused"}
    <3>1. up /\ \E next : SetJob(i, Entry("failed", jobs[i].runs, next))
      BY <1>1, <2>9 DEF BeginUnattached, RecordFailure, QueueInv
    <3>2. QED
      BY <2>4, <3>1
  <2>10. ASSUME NEW t \in Task, NEW record, EndTurn(t, record)
         PROVE  disk'[j].status \notin {"active", "paused"}
    <3>1. PICK i \in Job : i = tasks[t].cur
      <4>1. tasks[t].cur \in tasks[t].todo /\ tasks[t].todo \subseteq Job
        BY <1>1, <2>10 DEF EndTurn, QueueInv, Engaged, TypeOK, TaskRecord
      <4>2. QED
        BY <4>1
    <3>2. i # j /\ up
      BY <1>1, <2>10, <3>1 DEF EndTurn, QueueInv
    <3>3. CASE Known(i)
      <4>1. RecordCompletion(i) \/ RecordFailure(i)
        BY <2>10, <3>1, <3>3 DEF EndTurn
      <4>2. PICK st, n, next : SetJob(i, Entry(st, n, next))
        BY <4>1 DEF RecordCompletion, RecordFailure
      <4>3. QED
        BY <2>4, <3>2, <4>2
    <3>4. CASE ~Known(i)
      BY <2>3, <2>10, <3>1, <3>4 DEF EndTurn
    <3>5. QED
      BY <3>3, <3>4
  <2>11. CASE Start
    <3>1. disk'[j] = disk[j]
      BY <1>1, <2>11 DEF Start, Expired, Rearmed, Recoverable
    <3>2. QED
      BY <2>3, <1>1, <3>1
  <2>12. QED
    BY <1>1, <2>3, <2>5, <2>6, <2>7, <2>8, <2>9, <2>10, <2>11
    DEF Next, Operate, Pause, Dispatch, Fire, Misfire, Publish, BeginUnknown, BeginSkipped,
        BeginTurn, TakeLock, UserInput, UserTurnEnds, Stop, Tick, vars
<1>2. TypeOK /\ QueueInv /\ OnceInv /\ [Next]_vars
        => [\A j \in Job : Quiet(j) => disk'[j].status \notin {"active", "paused"}]_vars
  BY <1>1
<1>3. QED
  BY <1>2, Reachable, PTL DEF Spec, CancelledStaysCancelled

-----------------------------------------------------------------------------
(* Slots of cron jobs.                                                      *)

\* No cron job has a next run, in memory, on disk or with APScheduler, that is later
\* than the coming slot, and no recorded next run is ahead of an armed trigger.
SlotsOf(j) ==
  /\ jobs[j].next <= now + 1 /\ disk[j].next <= now + 1 /\ trig[j] <= now + 1
  /\ disk[j].status = "active" /\ trig[j] \in Slot => disk[j].next <= trig[j]
  /\ jobs[j].status = "active" /\ trig[j] \in Slot => jobs[j].next <= trig[j]

NextInv == \A j \in Job : JobType[j] = "cron" => SlotsOf(j)

\* A step that sets the entry of a job to a next run that is not ahead.
LEMMA SlotsSet ==
  ASSUME TypeOK, NEW i \in Job, NEW st, NEW n, NEW next, SetJob(i, Entry(st, n, next)),
         now' = now, NEW j \in Job, SlotsOf(j),
         i = j => /\ next \in Slot \cup {NoTime} /\ trig'[j] \in Slot \cup {NoTime, Absent}
                  /\ next <= now + 1 /\ trig'[j] <= now + 1
                  /\ st = "active" /\ trig'[j] \in Slot => next <= trig'[j],
         i # j => trig'[j] = trig[j]
  PROVE  SlotsOf(j)'
<1>1. CASE i = j
  BY <1>1, SetJobFields DEF SlotsOf
<1>2. CASE i # j
  <2>1. jobs'[j] = jobs[j] /\ disk'[j] = jobs[j] /\ trig'[j] = trig[j]
    BY <1>2, SetJobFields
  <2>2. QED
    BY <1>2, <2>1 DEF SlotsOf
<1>3. QED
  BY <1>1, <1>2

\* Arming a cron job, and firing it, put its trigger on the coming slot.
LEMMA CronTimes ==
  ASSUME TypeOK, NEW j \in Job, JobType[j] = "cron"
  PROVE  /\ FirstFire(j) = now + 1 /\ AfterFire(j) = now + 1
         /\ now + 1 \in Slot /\ now + 1 <= now + 1
BY DEF FirstFire, AfterFire, TypeOK, Slot

\* Recording the outcome of a cron job keeps its next run on disk behind its trigger.
LEMMA SlotsRecord ==
  ASSUME TypeOK, NEW i \in Job, RecordFailure(i) \/ RecordCompletion(i), now' = now,
         NEW j \in Job, JobType[j] = "cron", SlotsOf(j)
  PROVE  SlotsOf(j)'
<1>1. i # j => trig'[j] = trig[j]
  BY DEF RecordFailure, RecordCompletion, TypeOK
<1>2. trig[j] \in Slot \cup {NoTime, Absent} /\ now \in Nat /\ jobs[j].next \in Slot \cup {NoTime}
  BY FieldTypes DEF TypeOK
<1>3. CASE RecordFailure(i)
  <2>1. PICK next : /\ SetJob(i, Entry("failed", jobs[i].runs, next))
                    /\ i = j => next = jobs[j].next /\ trig'[j] = trig[j]
    BY <1>3 DEF RecordFailure
  <2>2. QED
    BY <1>1, <1>2, <2>1, SlotsSet DEF SlotsOf
<1>4. CASE RecordCompletion(i)
  <2> DEFINE st == IF JobType[i] = "absolute" \/ LastRun(i) THEN "completed" ELSE "active"
             next == IF JobType[i] # "cron" \/ LastRun(i) THEN NoTime ELSE NextRun(i)
  <2>1. SetJob(i, Entry(st, jobs[i].runs + 1, next))
    BY <1>4 DEF RecordCompletion
  <2>2. i = j => trig'[j] = (IF LastRun(j) THEN Absent ELSE trig[j])
    BY <1>4 DEF RecordCompletion, TypeOK
  <2>3. i = j => /\ next \in Slot \cup {NoTime} /\ next <= now + 1
                 /\ next = (IF LastRun(j) THEN NoTime ELSE NextRun(j))
    BY <1>2, TriggerTypes DEF NextRun, HasTrigger, SlotsOf, NoTime, Absent, Slot
  <2>4. i = j => /\ trig'[j] \in Slot \cup {NoTime, Absent} /\ trig'[j] <= now + 1
                 /\ trig'[j] \in Slot => next <= trig'[j]
    BY <1>2, <2>2, <2>3 DEF NextRun, HasTrigger, SlotsOf, NoTime, Absent, Slot
  <2>5. QED
    <3> HIDE DEF st, next
    <3>1. QED
      BY <1>1, <2>1, <2>3, <2>4, SlotsSet
<1>5. QED
  BY <1>3, <1>4

\* Every step keeps the next run on disk of an active cron job behind its trigger.
LEMMA SlotsStep ==
  ASSUME TypeOK, QueueInv, NEW j \in Job, JobType[j] = "cron", SlotsOf(j), [Next]_vars
  PROVE  SlotsOf(j)'
<1> /\ trig[j] \in Slot \cup {NoTime, Absent} /\ now \in Nat
    /\ jobs[j].next \in Slot \cup {NoTime} /\ disk[j].next \in Slot \cup {NoTime}
  BY FieldTypes DEF TypeOK
<1>1. CASE UNCHANGED <<jobs, disk, trig, now>>
  BY <1>1 DEF SlotsOf
<1>2. ASSUME NEW i \in Job, Create(i) \/ Resume(i) PROVE SlotsOf(j)'
  <2>1. now' = now /\ (i # j => trig'[j] = trig[j]) /\ (i = j => trig'[j] = FirstFire(j))
    BY <1>2 DEF Create, Resume, TypeOK
  <2>2. PICK n, next : SetJob(i, Entry("active", n, next)) /\ (i = j => next = FirstFire(j))
    <3>1. CASE Create(i)
      <4>1. \E next : SetJob(i, Entry("active", 0, next)) /\ (i = j => next = FirstFire(j))
        BY <3>1 DEF Create
      <4>2. QED
        BY <4>1
    <3>2. CASE Resume(i)
      <4>1. \E next : /\ SetJob(i, Entry("active", jobs[i].runs, next))
                      /\ i = j => next = FirstFire(j)
        BY <3>2 DEF Resume
      <4>2. QED
        BY <4>1
    <3>3. QED
      BY <1>2, <3>1, <3>2
  <2>3. QED
    BY <2>1, <2>2, CronTimes, SlotsSet
<1>3. ASSUME NEW i \in Job, Cancel(i) \/ Remove(i) PROVE SlotsOf(j)'
  <2>1. now' = now /\ (i # j => trig'[j] = trig[j]) /\ (i = j => trig'[j] = Absent)
    BY <1>3 DEF Cancel, Remove, TypeOK
  <2>2. \/ SetJob(i, Entry("cancelled", jobs[i].runs, NoTime))
        \/ SetJob(i, Entry("none", 0, NoTime))
    BY <1>3 DEF Cancel, Remove, Unknown
  <2>3. Absent <= now + 1 /\ NoTime <= now + 1 /\ Absent \notin Slot
    BY DEF Absent, NoTime, Slot
  <2>4. QED
    BY <2>1, <2>2, <2>3, SlotsSet
<1>4. ASSUME NEW P \in SUBSET Job, PauseEach(P) PROVE SlotsOf(j)'
  <2>1. CASE j \in P
    <3>1. /\ jobs'[j].status = "paused" /\ jobs'[j].next = NoTime
          /\ disk'[j].status = "paused" /\ disk'[j].next = NoTime
          /\ trig'[j] = NoTime /\ now' = now
      BY <1>4, <2>1, EntryFields DEF PauseEach, Save
    <3>2. QED
      BY <3>1 DEF SlotsOf, NoTime
  <2>2. CASE j \notin P
    <3>1. jobs'[j] = jobs[j] /\ disk'[j] = jobs[j] /\ trig'[j] = trig[j] /\ now' = now
      BY <1>4, <2>2 DEF PauseEach, Save
    <3>2. QED
      BY <3>1 DEF SlotsOf
  <2>3. QED
    BY <2>1, <2>2
<1>5. ASSUME NEW scope \in SUBSET Session, PauseAll(scope) PROVE SlotsOf(j)'
  <2>1. PICK P \in SUBSET {i \in UNION {ActiveJobs(s) : s \in scope} : Pausable(i)} :
          PauseEach(P)
    BY <1>5 DEF PauseAll
  <2>2. QED
    BY <1>4, <2>1 DEF ActiveJobs
<1>6. ASSUME NEW i \in Job, Fire(i) \/ Misfire(i) PROVE SlotsOf(j)'
  <2>1. UNCHANGED <<jobs, disk, now>> /\ Due(i) /\ trig'[j] = (IF i = j THEN AfterFire(j) ELSE trig[j])
    BY <1>6 DEF Fire, Misfire, TypeOK
  <2>2. CASE i = j
    BY <2>1, <2>2, CronTimes DEF SlotsOf, Due
  <2>3. CASE i # j
    BY <2>1, <2>3 DEF SlotsOf
  <2>4. QED
    BY <2>2, <2>3
<1>7. ASSUME NEW t \in Task, NEW i \in Job, BeginUnattached(t, i) PROVE SlotsOf(j)'
  BY <1>7, SlotsRecord DEF BeginUnattached
<1>8. ASSUME NEW t \in Task, NEW record, EndTurn(t, record) PROVE SlotsOf(j)'
  <2>1. tasks[t].cur \in Job /\ now' = now
    BY <1>8 DEF EndTurn, QueueInv, Engaged, TypeOK, TaskRecord
  <2>2. CASE Known(tasks[t].cur)
    <3>1. RecordFailure(tasks[t].cur) \/ RecordCompletion(tasks[t].cur)
      BY <1>8, <2>2 DEF EndTurn
    <3>2. QED
      BY <2>1, <3>1, SlotsRecord
  <2>3. CASE ~Known(tasks[t].cur)
    BY <1>1, <1>8, <2>1, <2>3 DEF EndTurn
  <2>4. QED
    BY <2>2, <2>3
<1>9. CASE Stop
  <2>1. jobs'[j] = Unknown /\ trig'[j] = Absent /\ UNCHANGED <<disk, now>>
    BY <1>9 DEF Stop
  <2>2. QED
    BY <2>1, UnknownFields DEF SlotsOf, NoTime, Absent, Slot
<1>10. CASE Start
  <2>1. /\ jobs'[j] = Recovered(j) /\ now' = now
        /\ trig'[j] = (IF Rearmed(j) THEN FirstFire(j) ELSE Absent)
        /\ disk'[j] = disk[j] \/ (Rearmed(j) /\ disk'[j] = Recovered(j))
    BY <1>10 DEF Start, Expired
  <2>2. CASE Rearmed(j)
    <3>1. Recovered(j).next = now + 1 /\ trig'[j] = now + 1
      BY <2>1, <2>2, EntryFields, CronTimes DEF Recovered, Expired
    <3>2. QED
      BY <2>1, <3>1 DEF SlotsOf
  <2>3. CASE ~Rearmed(j)
    <3>1. Recovered(j) = disk[j]
      BY <2>3 DEF Recovered, Expired
    <3>2. QED
      BY <2>1, <2>3, <3>1 DEF SlotsOf, Absent, Slot
  <2>4. QED
    BY <2>2, <2>3
<1>11. CASE Tick
  BY <1>11 DEF Tick, SlotsOf, Slot, NoTime, Absent
<1>12. QED
  BY <1>1, <1>2, <1>3, <1>4, <1>5, <1>6, <1>7, <1>8, <1>9, <1>10, <1>11
  DEF Next, Operate, Pause, Dispatch, Publish, BeginUnknown, BeginSkipped, BeginTurn,
      TakeLock, UserInput, UserTurnEnds, vars

\* The next run that is on disk for an active cron job is never later than its armed
\* trigger, so that recovery sees every slot that was due.
THEOREM SlotsVisible == Spec => []PersistedNextNotAhead
<1>1. Init => NextInv
  <2> SUFFICES ASSUME Init, NEW j \in Job PROVE SlotsOf(j)
    BY DEF NextInv
  <2>1. jobs[j] = Unknown /\ disk[j] = Unknown /\ trig[j] = Absent /\ now = 0
    BY DEF Init
  <2>2. QED
    BY <2>1, UnknownFields DEF SlotsOf, NoTime, Absent, Slot
<1>2. TypeOK /\ QueueInv /\ NextInv /\ [Next]_vars => NextInv'
  BY SlotsStep DEF NextInv
<1>3. NextInv => PersistedNextNotAhead
  BY DEF NextInv, SlotsOf, PersistedNextNotAhead
<1>4. QED
  BY <1>1, <1>2, <1>3, Reachable, PTL DEF Spec
=============================================================================
