---------------------------- MODULE SessionTurns ----------------------------
(***************************************************************************)
(* The turns of one live session of the daemon (daemon/server.py,          *)
(* daemon/core.py).  Clients are attached by a WebSocket; the handler of a *)
(* client reads one message at a time and runs an input to its end before  *)
(* it reads the next.  Scheduled jobs run their turns in the same session. *)
(* The stop button of the web page (web/src/routes/+page.svelte) asks for  *)
(* a stop by a REST request of its own and, when that is answered, sends   *)
(* an interrupt to the handler as well.                                    *)
(*                                                                         *)
(* In auto mode a turn is a loop of runs of the agent, limited by a budget *)
(* that belongs to the session: anybody may switch auto mode on or off at  *)
(* any time.  What ends the loop before its budget does (the footer of the *)
(* answer, the clock, detected repetitions) is left open here.             *)
(*                                                                         *)
(* An action is one step of the event loop, from one await to the next.    *)
(***************************************************************************)
EXTENDS Naturals, InputLock

CONSTANTS
  Client,       \* attached clients
  Job,          \* scheduled jobs of the session
  Main,         \* the session
  MaxBudget,    \* bound: the largest budget of runs a client asks for
  MaxMessages,  \* bound: messages sent by clients
  MaxClicks,    \* bound: uses of the stop button
  MaxFirings    \* bound: turns of scheduled jobs

Actor == Client \cup Job

ASSUME SessionAssumption ==
  /\ Main \in Session
  /\ MaxBudget \in Nat /\ MaxMessages \in Nat /\ MaxClicks \in Nat /\ MaxFirings \in Nat
  /\ NoOne \notin Actor
  /\ Client \cap Job = {}

VARIABLES
  current,    \* ManagedSession.current_input_task
  cancelled,  \* task.cancel() was called and its CancelledError is under way
  status,     \* ui_state.activity_status
  auto,       \* auto_mode, auto_iterations_remaining, and who switched it on
  task,       \* of each actor: the await its handler is at
  conn,       \* of each client: its connection
  inbox,      \* of each client: messages its handler has not read
  page,       \* of each client: its page's request for a stop
  cut,        \* of each client: turns cancelled by its use of the button under way
  sent, clicks, fired

lineVars == <<holder, waiters, current, status>>
clientVars == <<conn, inbox, page, cut>>
counters == <<sent, clicks, fired>>
vars == <<lineVars, cancelled, auto, task, clientVars, counters>>

-----------------------------------------------------------------------------
Off == [on |-> FALSE, left |-> 0, by |-> NoOne]

\* What clients send.  Other slash commands read the session or change other parts.
Typed == [kind : {"input", "off"}] \cup [kind : {"auto"}, runs : 1 .. MaxBudget]

Message == Typed \cup [kind : {"interrupt"}]

Init ==
  /\ LockInit
  /\ current = NoOne
  /\ cancelled = FALSE
  /\ status = "idle"
  /\ auto = Off
  /\ task = [a \in Actor |-> "reading"]
  /\ conn = [c \in Client |-> "away"]
  /\ inbox = [c \in Client |-> <<>>]
  /\ page = [c \in Client |-> "ready"]
  /\ cut = [c \in Client |-> 0]
  /\ sent = 0 /\ clicks = 0 /\ fired = 0

\* A turn is under way that is not cancelled.
Running == current # NoOne /\ ~cancelled

\* stop_session_run between its two halves, for a handler or for a page's request.
Stopping == (\E c \in Client : page[c] = "stopping") \/ \E a \in Actor : task[a] = "stopping"

\* Cancelling a turn queues its CancelledError and then the rest of the stop: when the
\* turn has released the lock, the next step of the event loop is the rest of the stop.
Calm == holder[Main] = NoOne => ~Stopping

\* The first lines of a turn, inside the lock.
BeginTurn(a) == current' = a /\ status' = "thinking..."

\* Mutant of Enter: the turn is announced before the lock is taken.
EnterEarly(a) ==
  /\ Calm
  /\ Acquire(Main, a)
  /\ BeginTurn(a)
  /\ task' = [task EXCEPT ![a] = "turn"]
  /\ UNCHANGED cancelled

\* run_input up to its first await: in the turn, or in line for it.
Enter(a) ==
  /\ Calm
  /\ Acquire(Main, a)
  /\ IF Uncontended(Main) THEN BeginTurn(a) ELSE UNCHANGED <<current, status>>
  /\ task' = [task EXCEPT ![a] = "turn"]
  /\ UNCHANGED cancelled

\* The waiter that was woken begins its turn.
TakeLock ==
  /\ Calm
  /\ Grant(Main)
  /\ BeginTurn(Head(waiters[Main]))
  /\ UNCHANGED <<cancelled, auto, task, clientVars, counters>>

-----------------------------------------------------------------------------
(* The other end.                                                           *)

Attach(c) ==
  /\ conn[c] = "away" /\ page[c] = "ready"
  /\ conn' = [conn EXCEPT ![c] = "open"]
  /\ UNCHANGED <<lineVars, cancelled, auto, task, inbox, page, cut, counters>>

Put(c, m) ==
  /\ conn[c] = "open"
  /\ sent < MaxMessages
  /\ sent' = sent + 1
  /\ inbox' = [inbox EXCEPT ![c] = Append(@, m)]
  /\ UNCHANGED <<lineVars, cancelled, auto, task, conn, page, cut, clicks, fired>>

\* The page is closed or the connection lost.
Vanish(c) ==
  /\ conn[c] = "open"
  /\ conn' = [conn EXCEPT ![c] = "gone"]
  /\ UNCHANGED <<lineVars, cancelled, auto, task, inbox, page, cut, counters>>

\* stopCurrentStream: the button, which is enabled while the session is not idle.
Click(c) ==
  /\ conn[c] = "open" /\ page[c] = "ready" /\ status # "idle"
  /\ clicks < MaxClicks
  /\ clicks' = clicks + 1
  /\ page' = [page EXCEPT ![c] = "asked"]
  /\ UNCHANGED <<lineVars, cancelled, auto, task, conn, inbox, cut, sent, fired>>

\* The page has the answer to its request and sends an interrupt, if it is still there.
SendInterrupt(c) ==
  /\ page[c] = "answered"
  /\ page' = [page EXCEPT ![c] = "ready"]
  /\ IF conn[c] = "open"
     THEN inbox' = [inbox EXCEPT ![c] = Append(@, [kind |-> "interrupt"])] /\ UNCHANGED cut
     ELSE cut' = [cut EXCEPT ![c] = 0] /\ UNCHANGED inbox
  /\ UNCHANGED <<lineVars, cancelled, auto, task, conn, counters>>

-----------------------------------------------------------------------------
(* The handler of a client.                                                 *)

Reads(c, kind) ==
  /\ Calm
  /\ task[c] = "reading"
  /\ inbox[c] # <<>> /\ Head(inbox[c]).kind = kind
  /\ inbox' = [inbox EXCEPT ![c] = Tail(@)]

HandleInput(c) ==
  /\ Reads(c, "input")
  /\ Enter(c)
  /\ UNCHANGED <<auto, conn, page, cut, counters>>

\* Mutant of HandleAuto: the new budget is added to what is left of the old one.
HandleAutoAdds(c) ==
  /\ Reads(c, "auto")
  /\ auto' = [on |-> TRUE, left |-> auto.left + Head(inbox[c]).runs, by |-> c]
  /\ UNCHANGED <<lineVars, cancelled, task, conn, page, cut, counters>>

\* "/auto N": start_auto_mode, whether or not a turn is going on.
HandleAuto(c) ==
  /\ Reads(c, "auto")
  /\ auto' = [on |-> TRUE, left |-> Head(inbox[c]).runs, by |-> c]
  /\ UNCHANGED <<lineVars, cancelled, task, conn, page, cut, counters>>

\* "/auto off"
HandleOff(c) ==
  /\ Reads(c, "off")
  /\ auto' = Off
  /\ UNCHANGED <<lineVars, cancelled, task, conn, page, cut, counters>>

\* Mutant of Leave: auto mode stays as it is.
LeaveOn(c) ==
  /\ Calm
  /\ conn[c] = "gone" /\ task[c] = "reading" /\ inbox[c] = <<>>
  /\ conn' = [conn EXCEPT ![c] = "away"]
  /\ UNCHANGED <<lineVars, cancelled, auto, task, inbox, page, cut, counters>>

\* WebSocketDisconnect, which comes after the last message: whoever leaves switches the
\* session's auto mode off.
Leave(c) ==
  /\ Calm
  /\ conn[c] = "gone" /\ task[c] = "reading" /\ inbox[c] = <<>>
  /\ conn' = [conn EXCEPT ![c] = "away"]
  /\ auto' = Off
  /\ UNCHANGED <<lineVars, cancelled, task, inbox, page, cut, counters>>

-----------------------------------------------------------------------------
(* stop_session_run.                                                        *)

\* Cancel the turn under way, if there is one, and wait for a step of the event loop;
\* without a turn the stop is over at once.
StopBegins ==
  /\ cancelled' = (current # NoOne)
  /\ IF current # NoOne THEN UNCHANGED <<auto, status>> ELSE auto' = Off /\ status' = "idle"

StopEnds ==
  /\ auto' = Off
  /\ status' = "idle"
  /\ UNCHANGED <<holder, waiters, current, cancelled, counters>>

RestStop(c) ==
  /\ Calm
  /\ page[c] = "asked"
  /\ StopBegins
  /\ cut' = [cut EXCEPT ![c] = IF Running THEN @ + 1 ELSE @]
  /\ page' = [page EXCEPT ![c] = IF current # NoOne THEN "stopping" ELSE "answered"]
  /\ UNCHANGED <<holder, waiters, current, task, conn, inbox, counters>>

RestStopEnds(c) ==
  /\ page[c] = "stopping"
  /\ StopEnds
  /\ page' = [page EXCEPT ![c] = "answered"]
  /\ UNCHANGED <<task, conn, inbox, cut>>

Interrupt(c) ==
  /\ Reads(c, "interrupt")
  /\ StopBegins
  /\ IF current # NoOne
     THEN /\ task' = [task EXCEPT ![c] = "stopping"]
          /\ cut' = [cut EXCEPT ![c] = IF Running THEN @ + 1 ELSE @]
     ELSE cut' = [cut EXCEPT ![c] = 0] /\ UNCHANGED task
  /\ UNCHANGED <<holder, waiters, current, conn, page, counters>>

\* Mutant of InterruptEnds: the handler does not return to its loop.
InterruptSticks(c) ==
  /\ task[c] = "stopping"
  /\ StopEnds
  /\ UNCHANGED <<task, conn, inbox, page, cut>>

InterruptEnds(c) ==
  /\ task[c] = "stopping"
  /\ StopEnds
  /\ task' = [task EXCEPT ![c] = "reading"]
  /\ cut' = [cut EXCEPT ![c] = 0]
  /\ UNCHANGED <<conn, inbox, page>>

-----------------------------------------------------------------------------
(* The turn.                                                                *)

\* _handle_scheduled_job_trigger runs the job's prompt, as far as this session goes.
Fire(j) ==
  /\ task[j] = "reading"
  /\ fired < MaxFirings
  /\ fired' = fired + 1
  /\ Enter(j)
  /\ UNCHANGED <<auto, clientVars, sent, clicks>>

\* Mutant of EndTurn: the status stays as it is.
EndTurnBusy ==
  /\ Release(Main)
  /\ current' = NoOne
  /\ cancelled' = FALSE
  /\ task' = [task EXCEPT ![current] = "reading"]
  /\ UNCHANGED <<status, clientVars, counters>>

\* The "finally" of run_input and the release of the lock.
EndTurn ==
  /\ Release(Main)
  /\ current' = NoOne
  /\ cancelled' = FALSE
  /\ status' = "idle"
  /\ task' = [task EXCEPT ![current] = "reading"]
  /\ UNCHANGED <<clientVars, counters>>

\* Mutants of Continue: the budget is checked one run too late; a used-up budget is
\* renewed.
ContinueOver ==
  /\ Running
  /\ auto.on /\ auto.left > 0
  /\ auto' = [auto EXCEPT !.left = @ - 1]
  /\ UNCHANGED <<lineVars, cancelled, task, clientVars, counters>>
ContinueRenewed ==
  /\ Running
  /\ auto.on
  /\ auto' = [auto EXCEPT !.left = IF @ = 1 THEN MaxBudget ELSE @ - 1]
  /\ UNCHANGED <<lineVars, cancelled, task, clientVars, counters>>

\* A run of the agent ends in auto mode, is charged to the budget, and the loop goes on.
Continue ==
  /\ Running
  /\ auto.on /\ auto.left > 1
  /\ auto' = [auto EXCEPT !.left = @ - 1]
  /\ UNCHANGED <<lineVars, cancelled, task, clientVars, counters>>

\* It was the last run: auto mode is off, or is stopped by one of the loop's conditions.
Finish ==
  /\ Running
  /\ auto' = Off
  /\ EndTurn

\* An exception ends the turn and leaves auto mode as it is.
Fail ==
  /\ Running
  /\ EndTurn
  /\ UNCHANGED auto

\* CancelledError ends the turn, and auto mode.
Unwind ==
  /\ cancelled
  /\ auto' = Off
  /\ EndTurn

-----------------------------------------------------------------------------
Handler(c) ==
  HandleInput(c) \/ HandleAuto(c) \/ HandleOff(c) \/ Interrupt(c) \/ InterruptEnds(c) \/ Leave(c)

Request(c) == RestStop(c) \/ RestStopEnds(c)

TurnStep == Continue \/ Finish \/ Fail

Next ==
  \/ \E c \in Client :
       \/ Attach(c) \/ Vanish(c) \/ Click(c) \/ SendInterrupt(c)
       \/ \E m \in Typed : Put(c, m)
       \/ Handler(c) \/ Request(c)
  \/ \E j \in Job : Fire(j)
  \/ TakeLock
  \/ TurnStep
  \/ Unwind

Spec == Init /\ [][Next]_vars

\* Handlers and requests that are ready are run by the event loop, and so are the woken
\* waiter and a cancelled turn; a run of the agent ends (its model client has time-outs
\* and its tool calls are limited).
Fairness ==
  /\ \A c \in Client : WF_vars(Handler(c)) /\ WF_vars(Request(c))
  /\ WF_vars(TakeLock) /\ WF_vars(TurnStep) /\ WF_vars(Unwind)

FairSpec == Spec /\ Fairness

-----------------------------------------------------------------------------
(* Properties.                                                              *)

TypeOK ==
  /\ holder \in [Session -> Actor \cup {NoOne}]
  /\ waiters \in [Session -> Seq(Actor)]
  /\ current \in Actor \cup {NoOne}
  /\ cancelled \in BOOLEAN
  /\ status \in {"idle", "thinking..."}
  /\ auto \in [on : BOOLEAN, left : 0 .. MaxBudget, by : Client \cup {NoOne}]
  /\ task \in [Actor -> {"reading", "turn", "stopping"}]
  /\ conn \in [Client -> {"away", "open", "gone"}]
  /\ inbox \in [Client -> Seq(Message)]
  /\ page \in [Client -> {"ready", "asked", "stopping", "answered"}]
  /\ cut \in [Client -> Nat]
  /\ sent \in Nat /\ clicks \in Nat /\ fired \in Nat

\* One turn at a time, of the one who has the lock: the registered task, which a stop
\* would cancel, is that of the holder, and whoever is in a turn holds the lock or is in
\* line for it, once.
OneTurn ==
  /\ current = holder[Main]
  /\ InLineOnce(Main)
  /\ ~InLine(Main, holder[Main])
  /\ \A a \in Actor : task[a] = "turn" <=> holder[Main] = a \/ InLine(Main, a)

\* The status that clients are shown is true: "idle" while nobody has a turn, and
\* "thinking..." while a turn goes on, whatever stops of the last turn are still under
\* way.
StatusIsTrue ==
  /\ holder[Main] = NoOne => status = "idle"
  /\ Running => status = "thinking..."

\* Auto mode is on just as long as its budget lasts, so that the loop makes no run too
\* many; and it ends at the latest when the daemon notices that the client who switched
\* it on is gone.
AutoHasBudget == auto.on <=> auto.left > 0
AutoHasStarter == auto.on => auto.by \in Client /\ conn[auto.by] # "away"
AutoIsOwned == AutoHasBudget /\ AutoHasStarter

\* Inputs are served in the order in which they came.
Line == IF holder[Main] = NoOne THEN waiters[Main] ELSE <<holder[Main]>> \o waiters[Main]

Queue == INSTANCE TurnQueue WITH line <- Line

ServesInOrder == Queue!Spec

\* Every input is answered: its turn begins and ends, stops and auto mode
\* notwithstanding; and a lost connection is noticed in the end.
TurnsEnd == \A a \in Actor : task[a] = "turn" ~> task[a] # "turn"
GoneIsNoticed == \A c \in Client : conn[c] = "gone" ~> conn[c] = "away"
HandlersGoOn == TurnsEnd /\ GoneIsNoticed

\* What a comment says and the code does not keep. "Cancel the current LLM
\* stream for a live session" (daemon/server.py:730): one use of the stop button
\* cancels one turn, at most. The button asks twice.
OneStopOneTurn == \A c \in Client : cut[c] <= 1
=============================================================================
