-------------------------------- MODULE Console --------------------------------
(***************************************************************************)
(* The input line of agent-kai's terminal (tui/terminal.py): inputs are    *)
(* dispatched when nothing is under way and queued otherwise; the end of   *)
(* each piece of work drains the queue. The terminal runs its own session, *)
(* or is attached to a daemon's through client_adapter.py.                 *)
(*                                                                         *)
(* One asyncio loop runs the app's message pump, which takes the user's    *)
(* inputs one after the other, and the workers the app has started; they   *)
(* interleave at awaits, and a worker starts some time after run_worker.   *)
(***************************************************************************)
EXTENDS Integers, Sequences, FiniteSets

CONSTANTS MaxInputs,   \* bound: inputs typed, restored or sent by a signal handler
          MaxQueue,    \* MAX_INPUT_QUEUE
          Kinds,       \* the kinds of input the users type
          MaxForeign,  \* bound: turns of others in the daemon's session
          MaxStream    \* bound: events on their way from the daemon

\* What the terminal distinguishes: texts for the main agent and /react; tasks for the
\* sub-agents such as /buy and /analyze, and /learn; /queue clear and /queue drop;
\* "/auto off"; and the commands that only show or change something.
AllKinds == {"chat", "task", "queue", "autooff", "command"}
ASSUME ConsoleAssumption ==
  /\ {MaxInputs, MaxQueue} \subseteq Nat \ {0} /\ MaxForeign \in Nat /\ MaxStream \in Nat
  /\ Kinds \subseteq AllKinds

VARIABLES remote,   \* session.is_remote
          helpers,  \* there is a bus and a sub-agent manager
          working,  \* _agent_working
          queue,    \* session.input_queue
          rows,     \* _queue_widgets
          workers,  \* coroutines started or about to be, [in, at]
          pump,     \* the input whose slash command the message pump awaits, or 0
          kind,     \* input -> what it is
          count,    \* inputs so far
          fate,     \* input -> what became of it
          runs,     \* input -> how often it was dispatched
          line,     \* the connection to the daemon: "up" or "down"
          daemon,   \* inputs the daemon has not answered, 0 for somebody else's
          stream,   \* its events on their way to the terminal
          foreign   \* turns of others so far
consolevars == <<remote, helpers, working, queue, rows, workers, pump, kind, count, fate, runs,
          line, daemon, stream, foreign>>
far == <<line, daemon, stream, foreign>>
still == <<remote, helpers, kind>>

At(i, at) == [in |-> i, at |-> at]
Without(s, k) == SubSeq(s, 1, k - 1) \o SubSeq(s, k + 1, Len(s))
Elems(s) == {s[k] : k \in DOMAIN s}

-----------------------------------------------------------------------------
(* The synchronous pieces the handlers are made of: each maps the part of    *)
(* the state it changes, [w, q, r, k], to its new value.                     *)

Now == [w |-> working, q |-> queue, r |-> rows, k |-> workers]
Becomes(s) == working' = s.w /\ queue' = s.q /\ rows' = s.r /\ workers' = s.k

\* _drain_input_queue: the head goes to a worker that will dispatch it.
DrainCopies(s) ==
  IF s.w \/ s.q = << >> THEN s
  ELSE [s EXCEPT !.k = @ \cup {At(Head(s.q), "dispatch")}]
Drain(s) ==
  IF s.w \/ s.q = << >> THEN s
  ELSE [s EXCEPT !.q = Tail(@), !.r = Tail(@), !.k = @ \cup {At(Head(s.q), "dispatch")}]

\* The end of a piece of work, the finally blocks: not busy any more, and drain.
IdleOnly(s) == [s EXCEPT !.w = FALSE]
Idle(s) == Drain([s EXCEPT !.w = FALSE])

\* _queue_item. A full queue refuses.
Queued(s, i) == [s EXCEPT !.q = Append(@, i), !.r = Append(@, i)]
QueueItem(s, i) ==
  /\ Becomes(IF Len(queue) >= MaxQueue THEN s ELSE Queued(s, i))
  /\ fate' = [fate EXCEPT ![i] = IF Len(queue) >= MaxQueue THEN "refused" ELSE "queued"]

\* _drop_queue_item: the item at the row's place goes with the row.
DroppedLast(s, k) == [s EXCEPT !.r = Without(@, k), !.q = Without(@, Len(@))]
Dropped(s, k) == [s EXCEPT !.r = Without(@, k), !.q = Without(@, k)]

\* /queue clear and /queue drop N.
Removed(s) ==
  {[s EXCEPT !.q = << >>, !.r = << >>]} \cup {Dropped(s, k) : k \in DOMAIN s.q}
\* What happened to each input: input i was taken up, others may have been removed.
Fates(s, t, i) ==
  [j \in DOMAIN fate |-> IF j = i THEN "run"
                         ELSE IF j \in Elems(s.q) \ Elems(t.q) THEN "dropped" ELSE fate[j]]

\* _dispatch_input, in the pump or in a worker. Nobody asks for the busy flag any
\* more: work is started in a worker of its own, or a command is handled at once
\* or after awaits.
WorkOf == [task |-> "task", chat |-> "agent"]
Dispatch(s, i, inPump) ==
  /\ runs' = [runs EXCEPT ![i] = @ + 1]
  /\ \/ /\ kind[i] \in DOMAIN WorkOf
        /\ Becomes([s EXCEPT !.w = TRUE, !.k = @ \cup {At(i, WorkOf[kind[i]])}])
        /\ fate' = Fates(s, s, i) /\ UNCHANGED pump
     \/ /\ kind[i] = "queue"
        /\ \E t \in Removed(s) : Becomes(Drain(t)) /\ fate' = Fates(s, t, i)
        /\ UNCHANGED pump
     \/ /\ kind[i] \in {"command", "autooff"}
        /\ Becomes(Drain(s)) /\ fate' = Fates(s, s, i) /\ UNCHANGED pump
     \/ /\ kind[i] = "command" /\ fate' = Fates(s, s, i)
        /\ IF inPump THEN pump' = i /\ Becomes(s)
           ELSE Becomes([s EXCEPT !.k = @ \cup {At(i, "slash")}]) /\ UNCHANGED pump

-----------------------------------------------------------------------------
(* The user and the signal handlers. *)

\* on_input_submitted. The one command that is heard while busy is "/auto off" of
\* a terminal with a session of its own.
Submit ==
  /\ pump = 0 /\ count < MaxInputs /\ count' = count + 1
  /\ LET i == count + 1 IN
     \/ ~working /\ Dispatch(Now, i, TRUE)
     \/ /\ working /\ (kind[i] # "autooff" \/ remote)
        /\ QueueItem(Now, i) /\ UNCHANGED <<runs, pump>>
     \/ /\ working /\ kind[i] = "autooff" /\ ~remote
        /\ fate' = Fates(Now, Now, i) /\ Becomes(Now) /\ UNCHANGED <<runs, pump>>
  /\ UNCHANGED <<still, far>>

\* A click on a row's [X].
ClickRow(k) ==
  /\ pump = 0 /\ k \in DOMAIN rows
  /\ LET t == Dropped(Now, k) IN Becomes(t) /\ fate' = [fate EXCEPT ![queue[k]] = "dropped"]
  /\ UNCHANGED <<still, pump, count, runs, far>>

\* A signal handler with the action dispatch_kai, in a worker of its own.
SignalArrives ==
  /\ count < MaxInputs /\ kind[count + 1] = "chat" /\ count' = count + 1
  /\ workers' = workers \cup {At(count + 1, "signal")}
  /\ UNCHANGED <<still, working, queue, rows, pump, fate, runs, far>>

\* _handle_nats_request: a task from another agent goes to the main agent whatever
\* the terminal is doing.
RequestArrives ==
  /\ count < MaxInputs /\ kind[count + 1] = "chat" /\ count' = count + 1
  /\ workers' = workers \cup {At(count + 1, "request")}
  /\ fate' = [fate EXCEPT ![count + 1] = "run"] /\ runs' = [runs EXCEPT ![count + 1] = 1]
  /\ UNCHANGED <<still, working, queue, rows, pump, far>>

-----------------------------------------------------------------------------
(* The workers. *)

Starts(w) ==
  /\ w \in workers /\ w.at \in {"dispatch", "signal"}
  /\ LET s == [Now EXCEPT !.k = @ \ {w}] IN
     IF w.at = "signal" /\ working
     THEN QueueItem(s, w.in) /\ UNCHANGED <<runs, pump>>
     ELSE Dispatch(s, w.in, FALSE)
  /\ UNCHANGED <<still, count, far>>

\* A slash command whose handler had to wait returns; its tail drains the queue.
CommandEnds(i) ==
  /\ \/ pump = i /\ i # 0 /\ pump' = 0 /\ Becomes(Drain(Now))
     \/ At(i, "slash") \in workers /\ Becomes(Drain([Now EXCEPT !.k = @ \ {At(i, "slash")}]))
          /\ UNCHANGED pump
  /\ UNCHANGED <<still, count, fate, runs, far>>

\* The worker ends, with an answer or an exception. Without sub-agents a task is given
\* to the main agent, and the finally block of each of the two coroutines drains.
Ends(w) ==
  /\ w \in workers /\ w.at \in {"agent", "request", "task"}
  /\ ~remote \/ (w.at = "task" /\ helpers)
  /\ LET s == [Now EXCEPT !.k = @ \ {w}] IN
     Becomes(IF w.at = "task" /\ ~helpers THEN Idle(Idle(s)) ELSE Idle(s))
  /\ UNCHANGED <<still, pump, count, fate, runs, far>>

\* Attached to a daemon, the worker sends the input and is done: the daemon's events
\* will say when the work is. It ends the work itself when it cannot send.
Sends(w) ==
  /\ remote /\ w \in workers /\ (w.at \in {"agent", "request"} \/ (w.at = "task" /\ ~helpers))
  /\ LET s == [Now EXCEPT !.k = @ \ {w}] IN
     IF line = "up" THEN Becomes(s) /\ daemon' = Append(daemon, w.in)
     ELSE Becomes(Idle(s)) /\ UNCHANGED daemon
  /\ UNCHANGED <<still, pump, count, fate, runs, line, stream, foreign>>

-----------------------------------------------------------------------------
(* The daemon: it serves its session's inputs one after the other, other     *)
(* clients' and jobs' among them, and says "busy", perhaps "error", "idle".   *)

Others ==
  /\ remote /\ line = "up" /\ foreign < MaxForeign /\ foreign' = foreign + 1
  /\ daemon' = Append(daemon, 0)
  /\ UNCHANGED <<still, working, queue, rows, workers, pump, count, fate, runs, line, stream>>

Serves ==
  /\ line = "up" /\ daemon # << >> /\ Len(stream) + 3 <= MaxStream
  /\ daemon' = Tail(daemon)
  /\ stream' \in {stream \o <<"busy", "idle">>, stream \o <<"busy", "error", "idle">>}
  /\ UNCHANGED <<still, working, queue, rows, workers, pump, count, fate, runs, line, foreign>>

\* _reader_loop ends with an error of its own; the adapter never connects again.
Breaks ==
  /\ remote /\ line = "up" /\ line' = "down"
  /\ daemon' = << >> /\ stream' = Append(stream, "error")
  /\ UNCHANGED <<still, working, queue, rows, workers, pump, count, fate, runs, foreign>>

\* _handle_remote_session_event
Event ==
  /\ stream # << >> /\ stream' = Tail(stream)
  /\ Becomes(IF Head(stream) = "busy" THEN [Now EXCEPT !.w = TRUE] ELSE Idle(Now))
  /\ UNCHANGED <<still, pump, count, fate, runs, line, daemon, foreign>>

-----------------------------------------------------------------------------
\* A terminal is opened, perhaps on a session that was saved with queued inputs.
ConsoleInit ==
  /\ remote \in BOOLEAN /\ helpers \in BOOLEAN /\ working = FALSE
  /\ kind \in [1 .. MaxInputs -> Kinds]
  /\ count \in {0} \cup {c \in {1} : ~remote}
  /\ queue = [i \in 1 .. count |-> i] /\ rows = queue
  /\ workers = {} /\ pump = 0
  /\ fate = [i \in 1 .. MaxInputs |-> IF i <= count THEN "queued" ELSE "new"]
  /\ runs = [i \in 1 .. MaxInputs |-> 0]
  /\ line = "up" /\ daemon = << >> /\ stream = << >> /\ foreign = 0

WorkerStep == \E w \in workers : Starts(w) \/ Ends(w) \/ Sends(w) \/ CommandEnds(w.in)
ConsoleNext ==
  \/ Submit \/ SignalArrives \/ RequestArrives \/ (\E k \in 1 .. MaxQueue : ClickRow(k))
  \/ WorkerStep \/ CommandEnds(pump) \/ Others \/ Serves \/ Breaks \/ Event

\* The event loop runs every coroutine that is ready; work has timeouts and the daemon
\* answers, or the connection is lost.
ConsoleFairness ==
  /\ WF_consolevars(CommandEnds(pump)) /\ WF_consolevars(Serves) /\ WF_consolevars(Event)
  /\ \A i \in 1 .. MaxInputs :
       WF_consolevars(\E w \in workers : w.in = i /\ (Starts(w) \/ Ends(w) \/ Sends(w) \/ CommandEnds(i)))
ConsoleSpec == ConsoleInit /\ [][ConsoleNext]_consolevars /\ ConsoleFairness

-----------------------------------------------------------------------------
\* No input is lost and none is run twice: what was accepted waits at one place in
\* the queue or in one worker that will dispatch it, or was dispatched once, or
\* removed by the user, although three drains can follow one piece of work. The rows on
\* the screen stay in step with the queue (_queue_item: "same length, same order").
InputsRunOnce ==
  /\ rows = queue /\ Len(queue) <= MaxQueue
  /\ \A i \in 1 .. count :
       /\ runs[i] <= 1
       /\ fate[i] = "queued" =>
            /\ runs[i] = 0
            /\ Cardinality({k \in DOMAIN queue : queue[k] = i})
                 + Cardinality({w \in workers : w.in = i /\ w.at = "dispatch"}) = 1
       /\ fate[i] \in {"dropped", "refused"} => runs[i] = 0 /\ i \notin Elems(queue)

\* An input that was queued behind some work leaves the queue, even when the connection
\* to the daemon is lost meanwhile.
EveryInputLeaves ==
  \A i \in 1 .. MaxInputs : (working /\ i \in Elems(queue)) ~> i \notin Elems(queue)

\* "A user input arriving in the same tick lands in the queue instead of racing to grab
\* the slot" (tui/terminal.py:1515): no two inputs are worked on at once by a
\* terminal that runs its own session.
InputsDoNotRace ==
  ~remote => Cardinality({w \in workers : w.at \in {"agent", "task"}}) <= 1
=============================================================================
