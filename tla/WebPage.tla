------------------------------- MODULE WebPage -------------------------------
(***************************************************************************)
(* The web terminal's page (web/src/routes/+page.svelte) on the client     *)
(* library (web/src/lib/daemon/client.ts): one websocket to a session of   *)
(* the daemon, requests whose answers come in any order, a timer that      *)
(* refreshes, and a chart that users and the daemon turn to other markets. *)
(* One JavaScript thread; async functions interleave at awaits.            *)
(***************************************************************************)
EXTENDS Integers, Sequences

CONSTANTS Markets,     \* symbol, timeframe and source of a chart
          MaxSockets,  \* bound: websockets ever opened
          MaxFetches,  \* bound: requests for bars of one market under way
          MaxTurns     \* bound: times the chart is turned
ASSUME PageAssumption == {MaxSockets, MaxFetches, MaxTurns} \subseteq Nat

VARIABLES sockets,   \* state of each websocket so far: [at, listens], listens: onClose is set
          conn,      \* daemonConnection, or 0
          attaching, \* where attachSession is
          polling,   \* the 15 s timer is set
          market,    \* chartSymbol, chartTimeframe and chartSource
          bars,      \* the market of chartBars, or "none"
          fetches,   \* market -> requests for its bars under way
          patch,     \* markets of updateChartView requests under way
          turned     \* times the chart was turned
webvars == <<sockets, conn, attaching, polling, market, bars, fetches, patch, turned>>
attachment == <<sockets, conn, attaching, polling>>

Asked(f, m) == [f EXCEPT ![m] = IF @ < MaxFetches THEN @ + 1 ELSE @]
Socket(at, listens) == [at |-> at, listens |-> listens]

-----------------------------------------------------------------------------
(* attachSession: the form is shown without a connection and is disabled      *)
(* until the last attach is over.                                             *)

Submits ==
  /\ conn = 0 /\ attaching = "no" /\ Len(sockets) < MaxSockets
  /\ sockets' = Append(sockets, Socket("opening", FALSE)) /\ attaching' = "opening"
  /\ UNCHANGED <<conn, polling, market, bars, fetches, patch, turned>>

\* DaemonClient.attach resolves with the snapshot's chart; the page listens, asks for
\* models and sessions, then for quotes and bars.
Attached(m) ==
  LET k == Len(sockets) IN
  /\ attaching = "opening" /\ attaching' = "loading"
  /\ sockets' = [sockets EXCEPT ![k] = Socket("open", TRUE)] /\ conn' = k
  /\ market' = m /\ UNCHANGED <<polling, bars, fetches, patch, turned>>
Refreshes ==
  /\ attaching = "loading" /\ attaching' = "refreshing"
  /\ IF conn = 0 THEN bars' = "none" /\ UNCHANGED fetches
     ELSE fetches' = Asked(fetches, market) /\ UNCHANGED bars
  /\ UNCHANGED <<sockets, conn, polling, market, patch, turned>>

\* The socket fails or is refused while opening, or a request fails afterwards: the page
\* drops the connection, and closes nothing.
AttachFails ==
  /\ attaching \in {"opening", "refreshing"} /\ attaching' = "no" /\ conn' = 0
  /\ sockets' = IF attaching = "opening" THEN [sockets EXCEPT ![Len(sockets)].at = "closed"] ELSE sockets
  /\ UNCHANGED <<polling, market, bars, fetches, patch, turned>>

\* The end of attachSession. The timer is set whatever became of the connection.
LoadedNoPoll ==
  /\ attaching = "refreshing" /\ attaching' = "no" /\ UNCHANGED polling
  /\ UNCHANGED <<sockets, conn, market, bars, fetches, patch, turned>>
LoadedAll ==
  /\ attaching = "refreshing" /\ attaching' = "no" /\ polling' = TRUE
  /\ UNCHANGED <<sockets, conn, market, bars, fetches, patch, turned>>

\* disconnectSession: the close handshake begins, and onClose stays set.
Disconnects ==
  /\ conn # 0 /\ conn' = 0 /\ polling' = FALSE
  /\ sockets' = [sockets EXCEPT ![conn].at = "closing"]
  /\ market' \in Markets /\ bars' = "none"
  /\ UNCHANGED <<attaching, fetches, patch, turned>>

\* A websocket ends, the handshake is over or the daemon goes: its onClose drops
\* the page's connection, whichever that is by now.
Closes(k) ==
  /\ sockets[k].at \in {"open", "closing"} /\ sockets' = [sockets EXCEPT ![k].at = "closed"]
  /\ IF sockets[k].listens THEN conn' = 0 /\ polling' = FALSE ELSE UNCHANGED <<conn, polling>>
  /\ UNCHANGED <<attaching, market, bars, fetches, patch, turned>>

-----------------------------------------------------------------------------
(* The chart. *)

\* applyChartViewState: another market is asked for at once.
ShowsChart(m) ==
  /\ market' = m
  /\ fetches' = IF m # market /\ conn # 0 THEN Asked(fetches, m) ELSE fetches
  /\ bars' = IF m # market /\ conn = 0 THEN "none" ELSE bars

\* requestChartViewUpdate, and the daemon's answer to it, which may come when the page has
\* another connection or none; an error leaves the chart as it is.
TurnsChart(m) ==
  /\ conn # 0 /\ turned < MaxTurns /\ turned' = turned + 1
  /\ m \notin patch /\ patch' = patch \cup {m}
  /\ UNCHANGED <<attachment, market, bars, fetches>>
PatchAnswers(m) ==
  /\ m \in patch /\ patch' = patch \ {m}
  /\ ShowsChart(m) \/ UNCHANGED <<market, bars, fetches>>
  /\ UNCHANGED <<attachment, turned>>

\* A chart_view from any open socket: another client, or the agent, turned the chart.
ChartViewArrives(k, m) ==
  /\ sockets[k].at = "open" /\ sockets[k].listens /\ turned < MaxTurns /\ turned' = turned + 1
  /\ ShowsChart(m) /\ UNCHANGED <<attachment, patch>>

\* refreshChartData every 15 s, and its answer: the market is not compared.
Polls ==
  /\ polling /\ UNCHANGED <<attachment, market, patch, turned>>
  /\ IF conn = 0 THEN bars' = "none" /\ UNCHANGED fetches
     ELSE fetches' = Asked(fetches, market) /\ UNCHANGED bars
Answered(m) == fetches[m] > 0 /\ fetches' = [fetches EXCEPT ![m] = @ - 1] /\ UNCHANGED <<attachment, market, patch, turned>>
BarsArrive(m) == Answered(m) /\ bars' = m
FetchFails(m) == Answered(m) /\ UNCHANGED bars

-----------------------------------------------------------------------------
PageInit ==
  /\ sockets = << >> /\ conn = 0 /\ attaching = "no" /\ polling = FALSE
  /\ market \in Markets /\ bars = "none" /\ fetches = [m \in Markets |-> 0] /\ patch = {} /\ turned = 0
PageNext ==
  \/ Submits \/ AttachFails \/ Refreshes \/ LoadedAll \/ Disconnects \/ Polls
  \/ \E m \in Markets :
       Attached(m) \/ TurnsChart(m) \/ PatchAnswers(m) \/ BarsArrive(m) \/ FetchFails(m)
  \/ \E k \in DOMAIN sockets : Closes(k) \/ \E m \in Markets : ChartViewArrives(k, m)

\* The timer fires, attachSession goes on, and the daemon answers; it does not fail
\* for ever to send a market's bars.
PageFairness ==
  /\ WF_webvars(Polls) /\ WF_webvars(Refreshes) /\ WF_webvars(LoadedAll)
  /\ \A m \in Markets : SF_webvars(BarsArrive(m)) /\ WF_webvars(PatchAnswers(m))
PageSpec == PageInit /\ [][PageNext]_webvars /\ PageFairness

-----------------------------------------------------------------------------
\* The bars drawn may be another market's, when an answer to an earlier request comes
\* last; but if the page stays attached and its chart on one market, its bars are drawn
\* in the end and stay.
ChartCatchesUp ==
  \A m \in Markets : <>[](conn # 0 /\ market = m) => <>[](bars = m)
=============================================================================
