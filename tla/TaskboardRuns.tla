---------------------------- MODULE TaskboardRuns ----------------------------
(***************************************************************************)
(* The taskboard gateway (taskboard_gateway/app.py, runs.py): the taskboard*)
(* spawns runs, sends them follow-ups and aborts them.  A run's record is  *)
(* one JSON file, which is always written as a whole, from two sides:      *)
(*  - the runner, a task of the event loop, has a TaskboardRun object of   *)
(*    its own and lets worker threads write it (asyncio.to_thread);        *)
(*  - a request handler reads the file, changes what it read and writes it *)
(*    back, in the event loop's thread, with no await in between.          *)
(* A worker thread's write can fall between the read and the write of a    *)
(* handler, and goes on when its runner is cancelled.                      *)
(***************************************************************************)
EXTENDS Naturals

CONSTANTS
  Run,          \* run ids, an id is never used twice
  Message,      \* follow-ups
  MaxEvents,    \* bound: events of a run's session that reach its log
  MaxRestarts,  \* bound: how often the gateway stops
  NoRecord      \* "no such file", "nothing to write", "no record in hand"

ASSUME TaskboardAssumption == MaxEvents \in Nat /\ MaxRestarts \in Nat

VARIABLES
  file,      \* runs_dir: the record of each run on disk
  obj,       \* the runner's own object, in memory
  pc,        \* what the runner is doing
  thread,    \* the record a worker thread is about to write for the runner
  handler,   \* the request the event loop's thread is in the middle of
  acked,     \* the runs the taskboard was told are aborted
  restarts

vars == <<file, obj, pc, thread, handler, acked, restarts>>

-----------------------------------------------------------------------------
RunStatus == {"accepted", "starting", "running", "completed", "failed", "aborted"}

RunRecord == [status : RunStatus, followups : SUBSET Message, events : 0 .. MaxEvents,
              text : BOOLEAN]

Created == [status |-> "accepted", followups |-> {}, events |-> 0, text |-> FALSE]

\* No record is taken for a missing one.
ASSUME RecordAssumption == NoRecord \notin RunRecord

\* execute_run_with_local_session awaits, in this order, its start, the check of the
\* file, the write of "starting" and of "running", and then for each event of the
\* session the event, its write to the log, and another check of the file; at last the
\* write of the outcome.  "none": there is no task, or it is done.
Phase == {"none", "scheduled", "checking", "starting", "running", "streaming",
          "logging", "polling", "finishing", "failing", "cancelled"}

NoRequest == [kind |-> "none"]
Request == {NoRequest}
  \cup [kind : {"abort"}, run : Run, rec : RunRecord]
  \cup [kind : {"send"}, run : Run, rec : RunRecord, message : Message]

\* The event loop's thread is free to take its next step.
LoopFree == handler = NoRequest

\* task and not task.done()
Active(r) == pc[r] # "none"

\* asyncio.to_thread(store...): the object is changed and a thread writes it.
ToThread(r, rec, phase) ==
  /\ obj' = [obj EXCEPT ![r] = rec]
  /\ thread' = [thread EXCEPT ![r] = rec]
  /\ pc' = [pc EXCEPT ![r] = phase]
  /\ UNCHANGED <<file, handler, acked, restarts>>

\* The runner goes on when the thread is done.
Resumes(r, phase) == LoopFree /\ pc[r] = phase /\ thread[r] = NoRecord

Goto(r, phase) ==
  /\ pc' = [pc EXCEPT ![r] = phase]
  /\ UNCHANGED <<file, obj, thread, handler, acked, restarts>>

\* The task is done, and its object gone.
EndTask(r) ==
  /\ pc' = [pc EXCEPT ![r] = "none"]
  /\ obj' = [obj EXCEPT ![r] = NoRecord]
  /\ UNCHANGED <<file, thread, handler, acked, restarts>>

Init ==
  /\ file = [r \in Run |-> NoRecord]
  /\ obj = [r \in Run |-> NoRecord]
  /\ pc = [r \in Run |-> "none"]
  /\ thread = [r \in Run |-> NoRecord]
  /\ handler = NoRequest
  /\ acked = {}
  /\ restarts = 0

-----------------------------------------------------------------------------
(* Requests of the taskboard.                                               *)

\* sessions_spawn and cron/wake: create_run, then schedule_run.
Spawn(r) ==
  /\ LoopFree
  /\ file[r] = NoRecord
  /\ file' = [file EXCEPT ![r] = Created]
  /\ obj' = [obj EXCEPT ![r] = Created]
  /\ pc' = [pc EXCEPT ![r] = "scheduled"]
  /\ UNCHANGED <<thread, handler, acked, restarts>>

\* get_by_session_key, for an abort (the abort endpoint, or "SYSTEM: ABORT") or for a
\* follow-up.
Take(request) ==
  /\ LoopFree
  /\ handler' = request
  /\ UNCHANGED <<file, obj, pc, thread, acked, restarts>>

TakeAbort(r) ==
  /\ file[r] # NoRecord
  /\ Take([kind |-> "abort", run |-> r, rec |-> file[r]])

TakeSend(r, m) ==
  /\ file[r] # NoRecord
  /\ Take([kind |-> "send", run |-> r, rec |-> file[r], message |-> m])

\* Mutant of Abort: the task is not cancelled while a thread works for it.
AbortIdle ==
  LET r == handler.run IN
  /\ handler.kind = "abort"
  /\ file' = [file EXCEPT ![r] = [handler.rec EXCEPT !.status = "aborted"]]
  /\ IF Active(r) /\ thread[r] = NoRecord
     THEN pc' = [pc EXCEPT ![r] = "cancelled"] ELSE UNCHANGED pc
  /\ acked' = acked \cup {r}
  /\ handler' = NoRequest
  /\ UNCHANGED <<obj, thread, restarts>>

\* The runner is cancelled, and "aborted" is written whatever the status was.  The
\* write a thread is to make for the runner is withdrawn if it has not begun.
Abort ==
  LET r == handler.run IN
  /\ handler.kind = "abort"
  /\ file' = [file EXCEPT ![r] = [handler.rec EXCEPT !.status = "aborted"]]
  /\ IF Active(r)
     THEN /\ pc' = [pc EXCEPT ![r] = "cancelled"]
          /\ thread' \in {thread, [thread EXCEPT ![r] = NoRecord]}
     ELSE UNCHANGED <<pc, thread>>
  /\ acked' = acked \cup {r}
  /\ handler' = NoRequest
  /\ UNCHANGED <<obj, restarts>>

\* Mutant of Send: the follow-up makes the run pending again.
SendRevives ==
  LET r == handler.run IN
  /\ handler.kind = "send"
  /\ file' = [file EXCEPT ![r] = [handler.rec EXCEPT !.followups = @ \cup {handler.message},
                                                   !.status = "accepted"]]
  /\ handler' = NoRequest
  /\ UNCHANGED <<obj, pc, thread, acked, restarts>>

\* append_followup.  If the runner is active the answer is "queued"; otherwise the
\* message is a turn of its session at once, which does not touch the run's record.
Send ==
  LET r == handler.run IN
  /\ handler.kind = "send"
  /\ file' = [file EXCEPT ![r] = [handler.rec EXCEPT !.followups = @ \cup {handler.message}]]
  /\ handler' = NoRequest
  /\ UNCHANGED <<obj, pc, thread, acked, restarts>>

-----------------------------------------------------------------------------
(* The runner.                                                              *)

Begin(r) == LoopFree /\ pc[r] = "scheduled" /\ Goto(r, "checking")

\* What was read is as good as what the file says now: whoever writes "aborted"
\* cancels the runner as well.
Check(r) ==
  /\ Resumes(r, "checking")
  /\ IF file[r].status = "aborted"
     THEN EndTask(r)
     ELSE ToThread(r, [obj[r] EXCEPT !.status = "starting"], "starting")

\* The session is loaded and gets its runtime.  An exception here ends the task, and the
\* record stays as it is.
Prepare(r) == Resumes(r, "starting") /\ ToThread(r, [obj[r] EXCEPT !.status = "running"], "running")
PrepareFails(r) == Resumes(r, "starting") /\ EndTask(r)

Stream(r) == Resumes(r, "running") /\ Goto(r, "streaming")

\* Mutants of StreamEvent: the log is not bounded; no budget ends the session's stream.
EventUnbounded(r) ==
  /\ Resumes(r, "streaming")
  /\ ToThread(r, [obj[r] EXCEPT !.events = @ + 1], "logging")
EventEndless(r) ==
  /\ Resumes(r, "streaming")
  /\ ToThread(r, obj[r], "logging")

StreamEvent(r) ==
  /\ Resumes(r, "streaming")
  /\ obj[r].events < MaxEvents
  /\ ToThread(r, [obj[r] EXCEPT !.events = @ + 1], "logging")

Logged(r) == Resumes(r, "logging") /\ Goto(r, "polling")

Poll(r) ==
  /\ Resumes(r, "polling")
  /\ IF file[r].status = "aborted" THEN EndTask(r) ELSE Goto(r, "streaming")

\* Mutant of Finish: the final text is forgotten.
FinishMute(r) ==
  /\ Resumes(r, "streaming")
  /\ ToThread(r, [obj[r] EXCEPT !.status = "completed"], "finishing")

Finish(r) ==
  /\ Resumes(r, "streaming")
  /\ ToThread(r, [obj[r] EXCEPT !.status = "completed", !.text = TRUE], "finishing")

Fail(r) ==
  /\ Resumes(r, "streaming")
  /\ ToThread(r, [obj[r] EXCEPT !.status = "failed"], "failing")

End(r) == (Resumes(r, "finishing") \/ Resumes(r, "failing")) /\ EndTask(r)

\* CancelledError ends the task, wherever it was.
Unwind(r) == LoopFree /\ pc[r] = "cancelled" /\ EndTask(r)

\* A worker thread replaces the file.
ThreadWrite(r) ==
  /\ thread[r] # NoRecord
  /\ file' = [file EXCEPT ![r] = thread[r]]
  /\ thread' = [thread EXCEPT ![r] = NoRecord]
  /\ UNCHANGED <<obj, pc, handler, acked, restarts>>

\* The gateway stops and starts again; nothing takes up the runs of its last life.
Restart ==
  /\ restarts < MaxRestarts
  /\ restarts' = restarts + 1
  /\ obj' = [r \in Run |-> NoRecord]
  /\ pc' = [r \in Run |-> "none"]
  /\ thread' = [r \in Run |-> NoRecord]
  /\ handler' = NoRequest
  /\ UNCHANGED <<file, acked>>

Step(r) ==
  \/ Begin(r) \/ Check(r) \/ Prepare(r) \/ PrepareFails(r) \/ Stream(r) \/ StreamEvent(r)
  \/ Logged(r) \/ Poll(r) \/ Finish(r) \/ Fail(r) \/ End(r) \/ Unwind(r)

Next ==
  \/ \E r \in Run : Spawn(r) \/ TakeAbort(r) \/ Step(r) \/ ThreadWrite(r)
  \/ \E r \in Run, m \in Message : TakeSend(r, m)
  \/ Abort
  \/ Send
  \/ Restart

Spec == Init /\ [][Next]_vars

\* The event loop runs what is ready in the order it became ready, so no number of
\* requests keeps a runner from its next step (strong fairness, as a request in progress
\* disables the step for a moment); worker threads go on; a session's stream ends, as
\* its auto mode has a budget of turns and of time.
Fairness ==
  /\ \A r \in Run : SF_vars(Step(r)) /\ WF_vars(ThreadWrite(r))
  /\ WF_vars(Abort) /\ WF_vars(Send)

FairSpec == Spec /\ Fairness

-----------------------------------------------------------------------------
(* Properties.                                                              *)

Terminal == {"completed", "failed", "aborted"}

TypeOK ==
  /\ file \in [Run -> RunRecord \cup {NoRecord}]
  /\ obj \in [Run -> RunRecord \cup {NoRecord}]
  /\ pc \in [Run -> Phase]
  /\ thread \in [Run -> RunRecord \cup {NoRecord}]
  /\ handler \in Request
  /\ acked \subseteq Run
  /\ restarts \in 0 .. MaxRestarts

\* Once the taskboard was told that a run is aborted, its runner does nothing any more,
\* in whatever moment of its work the abort found it.
AbortStopsTheWork ==
  \A r \in acked : pc[r] \in {"cancelled", "none"}

\* A record that says the run is over is right: its session is not working, a
\* completed run has its final text, and an aborted one was aborted by the taskboard.
TerminalMeansOver ==
  \A r \in Run : file[r] # NoRecord =>
    /\ file[r].status \in Terminal =>
         pc[r] \in {"finishing", "failing", "cancelled", "none"}
    /\ file[r].status = "completed" => file[r].text
    /\ file[r].status = "aborted" => r \in acked

\* Nothing but a write that a thread had already begun for the runner takes an abort
\* back or loses a follow-up: two requests never undo each other's change.
OnlyThreadsUndo ==
  [][\A r \in Run : file[r] # NoRecord /\ thread[r] = NoRecord =>
       /\ file[r].status = "aborted" => file'[r].status = "aborted"
       /\ file[r].followups \subseteq file'[r].followups]_vars

\* Every runner ends, cancelled or not.
RunnersEnd == \A r \in Run : Active(r) ~> ~Active(r)
=============================================================================
