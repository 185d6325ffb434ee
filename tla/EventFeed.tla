------------------------------ MODULE EventFeed ------------------------------
(***************************************************************************)
(* How a client of agent-kai's daemon hears of its session: the bus of the *)
(* session (daemon/core.py), the task that forwards its events to a client *)
(* and the handler that greets the client and answers its commands past    *)
(* the bus (daemon/server.py), and the client: the terminal's adapter      *)
(* (tui/client_adapter.py) or the web terminal (lib/daemon/client.ts).     *)
(*                                                                         *)
(* Every client has a queue and a forwarder of its own; one is followed    *)
(* here, over one connection, and what the others do shows in the session. *)
(* A send writes its message at once and may then suspend its sender.      *)
(***************************************************************************)
EXTENDS Integers, Sequences

CONSTANT MaxEvents   \* bound: events and answers to commands
ASSUME FeedAssumption == MaxEvents \in Nat

VARIABLES
  state,     \* what a client shows of the session: [status, auto, view, watch]
  words,     \* how many tokens, tool calls, finals and errors there were
  events,    \* events and answers so far
  kind,      \* the client: "adapter" or "page"
  handler,   \* websocket_endpoint: "away", "greeting", "answering", "serving", "stray"
  conn,      \* its connection: "up" or "down"
  queue,     \* its queue on the bus
  buffer,    \* token_buffer
  held,      \* what waits for the buffer to be sent first
  wire,      \* messages on their way to the client
  viewer,    \* "away", "connecting", "checking", "listening", "refused", "gone"
  shown,     \* what it shows
  heard,     \* the last word it was told
  dropped    \* the adapter took something else for its first status
feedvars == <<state, words, events, kind, handler, conn, queue, buffer, held, wire, viewer,
              shown, heard, dropped>>
daemonside == <<handler, conn, buffer, held, wire>>
clientside == <<kind, viewer, shown, heard, dropped>>

\* The envelopes the two ends know: a text of some words, a word of its own (a tool call,
\* a final, an error), a part of the session's state, or the whole of it.
Message(is, of) == [is |-> is, of |-> of]
TextKinds == {"token", "final", "error"}
Parts == {"status", "auto", "view", "watch"}
TextsIn(msgs) == {k \in DOMAIN msgs : msgs[k].is \in TextKinds}
WordsOf(m) == {m.of[k] : k \in DOMAIN m.of}

-----------------------------------------------------------------------------
(* The session publishes. *)

\* SessionEventBus.publish: every queue that is subscribed, whoever still reads it.
PublishServed(es) == queue' = IF handler \in {"serving", "answering"} THEN queue \o es ELSE queue
Publish(es) == queue' = IF handler # "away" THEN queue \o es ELSE queue
Happens(es) == events' = events + 1 /\ events < MaxEvents /\ Publish(es)

\* set_activity_status, at both ends of a turn. A cancelled turn says an error and takes
\* auto mode with it.
TurnBegins ==
  /\ state.status = "idle" /\ state' = [state EXCEPT !.status = "busy"]
  /\ Happens(<<Message("status", "busy")>>) /\ UNCHANGED <<words, daemonside, clientside>>
TurnIsOver ==
  /\ state.status = "busy"
  /\ \/ /\ state' = [state EXCEPT !.status = "idle"] /\ Happens(<<Message("status", "idle")>>)
        /\ UNCHANGED words
     \/ /\ words' = words + 1 /\ state' = [state EXCEPT !.status = "idle", !.auto = FALSE]
        /\ Happens(<<Message("error", <<words + 1>>)>>
                   \o (IF state.auto THEN <<Message("auto", FALSE)>> ELSE << >>)
                   \o <<Message("status", "idle")>>)
  /\ UNCHANGED <<daemonside, clientside>>
\* stream_agent_events passes on what the agent says, its change to another endpoint too.
AgentSays ==
  /\ state.status = "busy"
  /\ \/ /\ words' = words + 1
        /\ \E t \in {"token", "final"} : Happens(<<Message(t, <<words + 1>>)>>)
     \/ Happens(<<Message("status", "busy")>>) /\ UNCHANGED words
  /\ UNCHANGED <<state, daemonside, clientside>>

\* start_auto_mode and stop_auto_mode, by anybody.
TurnsAuto ==
  /\ state' = [state EXCEPT !.auto = ~@] /\ Happens(<<Message("auto", ~state.auto)>>)
  /\ UNCHANGED <<words, daemonside, clientside>>
\* set_chart_view, and the three operations on the watchlist, asked for by the clients at
\* any time and by the agent's tools in a turn.
SetsChartView ==
  /\ state' = [state EXCEPT !.view = 1 - @] /\ Happens(<<Message("view", 1 - state.view)>>)
  /\ UNCHANGED <<words, daemonside, clientside>>
SetsWatchlist ==
  /\ state' = [state EXCEPT !.watch = 1 - @] /\ Happens(<<Message("watch", 1 - state.watch)>>)
  /\ UNCHANGED <<words, daemonside, clientside>>
ToolSetsChartView == state.status = "busy" /\ SetsChartView
ToolSetsWatchlist == state.status = "busy" /\ SetsWatchlist

-----------------------------------------------------------------------------
(* The daemon's ends of the connection: the handler and the forwarder. *)

\* session_snapshot
Snapshot == Message("attached", state)

\* The handler subscribes, and takes and sends the snapshot without a pause between.
Accepts ==
  /\ handler = "away" /\ viewer = "away"
  /\ handler' = "greeting" /\ conn' = "up" /\ viewer' = "connecting"
  /\ queue' = << >> /\ buffer' = << >> /\ held' = << >> /\ heard' = words
  /\ wire' = <<Snapshot>> /\ dropped' = FALSE
  /\ UNCHANGED <<state, words, events, kind, shown>>

\* A status the handler sends by itself: after the snapshot, and after an answer.
SendsStatus ==
  /\ handler \in {"greeting", "answering"} /\ conn = "up"
  /\ handler' = "serving" /\ wire' = Append(wire, Message("status", state.status))
  /\ UNCHANGED <<state, words, events, conn, queue, buffer, held, clientside>>

\* A command that is answered past the bus, such as "/auto status" or "/schedule list".
Replies ==
  /\ handler = "serving" /\ conn = "up" /\ events < MaxEvents /\ events' = events + 1
  /\ handler' = "answering" /\ wire' = Append(wire, Message("answer", << >>))
  /\ UNCHANGED <<state, words, conn, queue, buffer, held, clientside>>

\* _event_to_message. An empty watchlist is taken for none: the session's own is sent.
Envelope(e) == IF e.is = "watch" /\ e.of = 0 THEN Message("watch", state.watch) ELSE e

\* forward_session_events takes an event while its connection takes what it sends:
\* tokens are gathered, anything else waits for the tokens before it.
ForwardsUnflushed(e) ==
  wire' = Append(wire, e) /\ UNCHANGED <<buffer, held>>
Forwards(e) ==
  IF buffer = << >> THEN wire' = Append(wire, e) /\ UNCHANGED <<buffer, held>>
  ELSE wire' = Append(wire, Message("token", buffer)) /\ buffer' = << >> /\ held' = <<e>>
TakesEvent ==
  /\ queue # << >> /\ held = << >> /\ conn = "up" /\ queue' = Tail(queue)
  /\ LET e == Envelope(Head(queue)) IN
     IF e.is = "token" THEN buffer' = buffer \o e.of /\ UNCHANGED <<held, wire>>
     ELSE Forwards(e)
  /\ UNCHANGED <<state, words, events, handler, conn, clientside>>
\* flush_tokens: the buffer is long or old enough, or has been sent before what is held.
Flushes ==
  /\ conn = "up"
  /\ \/ held = << >> /\ buffer # << >> /\ buffer' = << >> /\ UNCHANGED held
        /\ wire' = Append(wire, Message("token", buffer))
     \/ held # << >> /\ wire' = wire \o held /\ held' = << >> /\ UNCHANGED buffer
  /\ UNCHANGED <<state, words, events, handler, conn, queue, clientside>>

\* The client goes, or the connection breaks: sends raise, which ends the forwarder.
Vanishes ==
  /\ conn = "up" /\ conn' = "down" /\ viewer' = "gone" /\ wire' = << >> /\ buffer' = << >> /\ held' = << >>
  /\ UNCHANGED <<state, words, events, kind, handler, queue, shown, heard, dropped>>
\* The handler notices when it reads or sends: it stops auto mode and unsubscribes. A send
\* of the greeting that raises does neither, and the queue stays on the bus for good.
Notices ==
  /\ conn = "down"
  /\ \/ handler = "greeting" /\ handler' = "stray" /\ UNCHANGED <<state, queue>>
     \/ /\ handler \in {"greeting", "serving", "answering"} /\ handler' = "away"
        /\ state' = [state EXCEPT !.auto = FALSE] /\ queue' = << >>
  /\ UNCHANGED <<words, events, conn, buffer, held, wire, clientside>>

-----------------------------------------------------------------------------
(* The client. *)

\* _apply_snapshot; connect wants the snapshot first.
GetsSnapshot(m) ==
  /\ viewer = "connecting" /\ viewer' = "checking" /\ shown' = m.of /\ UNCHANGED <<heard, dropped>>
\* connect of the adapter takes what comes second for its status, and drops what is
\* neither a status nor an error; attach of client.ts refuses what is not a status.
GetsStatus(m) ==
  /\ viewer = "checking"
  /\ viewer' = IF m.is = "status" THEN "listening"
               ELSE IF kind = "page" \/ m.is = "error" THEN "refused" ELSE "listening"
  /\ shown' = IF m.is = "status" THEN [shown EXCEPT !.status = m.of] ELSE shown
  /\ dropped' = (dropped \/ m.is # "status") /\ UNCHANGED heard
\* _translate_envelope and handleEnvelope: the page knows nothing of auto mode, the
\* adapter nothing of the chart and the watchlist.
Followed == IF kind = "page" THEN {"status", "view", "watch"} ELSE {"status", "auto"}
Listens(m) ==
  /\ viewer = "listening"
  /\ shown' = IF m.is \in Followed THEN [shown EXCEPT ![m.is] = m.of] ELSE shown
  /\ heard' = IF m.is \in TextKinds THEN m.of[Len(m.of)] ELSE heard
  /\ UNCHANGED <<viewer, dropped>>
Receives ==
  /\ wire # << >> /\ wire' = Tail(wire) /\ viewer # "refused"
  /\ LET m == Head(wire) IN GetsSnapshot(m) \/ GetsStatus(m) \/ Listens(m)
  /\ UNCHANGED <<state, words, events, kind, handler, conn, queue, buffer, held>>

-----------------------------------------------------------------------------
FeedInit ==
  /\ state = [status |-> "idle", auto |-> FALSE, view |-> 0, watch |-> 0]
  /\ words = 0 /\ events = 0 /\ kind \in {"adapter", "page"}
  /\ handler = "away" /\ conn = "down" /\ queue = << >> /\ buffer = << >> /\ held = << >>
  /\ wire = << >> /\ viewer = "away" /\ shown = state /\ heard = 0 /\ dropped = FALSE
FeedNext ==
  \/ TurnBegins \/ TurnIsOver \/ AgentSays \/ TurnsAuto \/ SetsChartView \/ SetsWatchlist
  \/ ToolSetsChartView \/ ToolSetsWatchlist \/ Accepts \/ SendsStatus \/ Replies \/ TakesEvent
  \/ Flushes \/ Vanishes \/ Notices \/ Receives
FeedSpec == FeedInit /\ [][FeedNext]_feedvars

-----------------------------------------------------------------------------
\* Who reads the whole stream: an adapter that dropped nothing, a page that was let in.
Listening == conn = "up" /\ viewer # "refused" /\ ~dropped

\* The texts of some messages, read one after the other, are the words after a up to b.
InOrder(msgs, a, b) ==
  /\ \A k \in TextsIn(msgs) : \A i, j \in DOMAIN msgs[k].of : msgs[k].of[j] - msgs[k].of[i] = j - i
  /\ \A j, k \in TextsIn(msgs) : j < k => \A v \in WordsOf(msgs[j]), w \in WordsOf(msgs[k]) : v < w
  /\ UNION {WordsOf(msgs[k]) : k \in TextsIn(msgs)} = a + 1 .. b

\* What was said since a client attached reaches it whole, in order and once, although
\* tokens are gathered, the greeting and the answers go past them, and the forwarder
\* waits in the middle of its work.
WordsArriveInOrder ==
  Listening => InOrder(wire \o <<Message("token", buffer)>> \o held \o queue, heard, words)

\* A client to whom nothing is on its way shows the session as it is, whatever was sent
\* past the bus and whenever it attached.
QuietIsCurrent ==
  /\ Listening /\ viewer = "listening" /\ handler = "serving"
  /\ wire = << >> /\ held = << >> /\ queue = << >>
  => \A p \in Followed : shown[p] = state[p]
=============================================================================
