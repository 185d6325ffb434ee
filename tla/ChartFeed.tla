------------------------------ MODULE ChartFeed ------------------------------
(***************************************************************************)
(* The chart of agent-kai's terminal and what feeds it (tui/terminal.py):  *)
(* loads, which stop the feeds there are, fetch the history and start feeds *)
(* of their own, and the feeds, tasks that paint the chart as candles come  *)
(* over a WebSocket (data_sources/kai_api.py, coinbase.py) or are fetched  *)
(* again. A load runs in the app's message pump, for /chart, or in a       *)
(* worker, for keys and clicks; nothing keeps two workers apart.           *)
(***************************************************************************)
EXTENDS Integers, Sequences, FiniteSets

CONSTANTS Watched,     \* the symbols of the watchlist
          Product,     \* symbol -> its name at Coinbase
          Timeframes,  \* TIMEFRAMES
          MaxLoads,    \* bound: loads
          Concurrent   \* bound: loads under way at once

Known == DOMAIN Product
Loads == 1 .. MaxLoads
InSeq(s) == {s[k] : k \in DOMAIN s}
ASSUME ChartAssumption ==
  /\ Watched # << >> /\ InSeq(Watched) \subseteq Known /\ Timeframes # << >>
  /\ \A s \in Known : Product[s] \in Known /\ Product[Product[s]] = Product[s]
  /\ MaxLoads \in Nat \ {0} /\ Concurrent \in Nat \ {0}

\* The fields of the app that hold a stream or a task; a value is the load that made it.
Owned == {"kaiStream", "kaiTask", "kaiRefresh", "cbStream", "cbTask"}
NoFeed == 0

VARIABLES source,  \* _chart_source
          symbol,  \* _chart_symbol
          tf,      \* TIMEFRAMES[_current_tf_idx]
          panel,   \* the chart panel's source, symbol, interval
          painted, \* the series whose candles are in it, records like panel
          loads,   \* load -> where it is and what it is for
          own,     \* the fields in Owned
          feeds,   \* the tasks that run, [by, in]: the load that made it, its field
          dying,   \* those whose CancelledError is under way
          reads,   \* load -> the stream its WebSocket consumer iterates
          stopped  \* the streams whose stop() was called
chartvars == <<source, symbol, tf, panel, painted, loads, own, feeds, dying, reads, stopped>>

Series(o, s, i) == [src |-> o, sym |-> s, tf |-> i]
Task(l, f) == [by |-> l, in |-> f]
Busy == {l \in Loads : loads[l].at \notin {"unused", "over"}}
PumpBusy == \E l \in Busy : loads[l].pump

-----------------------------------------------------------------------------
(* The stops. Between two awaits a load goes on at once; it awaits the end   *)
(* of each task that it cancels. c is what it changes: the fields, who is    *)
(* dying, whose stream was stopped, where it is and what it waits for.       *)

Cancels(c, f) ==
  LET t == Task(c.own[f], f) IN
  IF t \in feeds THEN [c EXCEPT !.dying = @ \cup {t}, !.waits = {t}] ELSE [c EXCEPT !.waits = {}]
StopsStream(c, f) == [c EXCEPT !.stopped = @ \cup ({c.own[f]} \ {NoFeed})]
Clears(c, fs) == [c EXCEPT !.own = [f \in Owned |-> IF f \in fs THEN NoFeed ELSE c.own[f]]]
Awaits(c, at, Then(_)) == IF c.waits # {} THEN [c EXCEPT !.at = at] ELSE Then(c)

\* _stop_kai_api_feed and _stop_coinbase_feed, from each of their awaits on.
KaiStopped(c, Then(_)) == Then(Clears(c, {"kaiStream", "kaiTask", "kaiRefresh"}))
KaiConsumerOver(c, Then(_)) ==
  Awaits(Cancels(c, "kaiRefresh"), "kaiRefresh", LAMBDA d : KaiStopped(d, Then))
StopKai(c, Then(_)) ==
  Awaits(Cancels(StopsStream(c, "kaiStream"), "kaiTask"), "kaiTask",
         LAMBDA d : KaiConsumerOver(d, Then))
CoinbaseStopped(c, Then(_)) == Then(Clears(c, {"cbStream", "cbTask"}))
StopCoinbase(c, Then(_)) ==
  Awaits(Cancels(StopsStream(c, "cbStream"), "cbTask"), "cbTask",
         LAMBDA d : CoinbaseStopped(d, Then))

\* _load_chart goes by the source of the moment; the history is fetched in a thread.
Fetches(c) == [c EXCEPT !.at = "fetch", !.waits = {}]
Begins(c) ==
  IF c.source = "kai" THEN StopKai([c EXCEPT !.src = "kai"], LAMBDA d : StopCoinbase(d, Fetches))
  ELSE StopCoinbase([c EXCEPT !.src = "coinbase"], Fetches)

\* /chart source: all feeds are stopped, the source is set, and the chart as it is by
\* then loaded.
Other(o) == IF o = "kai" THEN "coinbase" ELSE "kai"
Switches(c) ==
  Begins([c EXCEPT !.switching = FALSE, !.source = Other(c.src), !.sym = symbol, !.tf = tf])
SwitchesKeepingKai(c) == StopCoinbase(c, Switches)
SwitchesSource(c) == StopCoinbase(c, LAMBDA d : StopKai(d, Switches))

\* A load goes on when the task it waited for is over.
GoesOn(c) ==
  LET Then(d) == IF c.switching THEN Switches(d) ELSE StopCoinbase(d, Fetches)
      Next(d) == IF c.switching THEN StopKai(d, Switches) ELSE Fetches(d)
  IN  CASE c.at = "kaiTask" -> KaiConsumerOver(c, Then)
        [] c.at = "kaiRefresh" -> KaiStopped(c, Then)
        [] c.at = "cbTask" -> CoinbaseStopped(c, Next)

\* The part of the state a load changes while it stops feeds.
View(l) ==
  [own |-> own, dying |-> dying, stopped |-> stopped, source |-> source,
   at |-> l.at, src |-> l.src, sym |-> l.sym, tf |-> l.tf, waits |-> l.waits,
   switching |-> l.switching, pump |-> l.pump]
ChartBecomes(l, c) ==
  /\ own' = c.own /\ dying' = c.dying /\ stopped' = c.stopped /\ source' = c.source
  /\ loads' = [loads EXCEPT ![l] = [f \in DOMAIN loads[l] |-> c[f]]]
  /\ UNCHANGED <<symbol, panel, painted, feeds, reads>>

-----------------------------------------------------------------------------
(* What asks for a load. *)

NewLoad(s, i, pump) ==
  [at |-> "new", src |-> source, sym |-> s, tf |-> i, waits |-> {}, switching |-> FALSE,
   pump |-> pump]
Wanted == {l \in Loads : loads[l].at = "unused" /\ \A k \in Loads : loads[k].at = "unused" => l <= k}
UserActs == ~PumpBusy /\ Cardinality(Busy) < Concurrent

InWorker(l, s, i) ==
  /\ loads' = [loads EXCEPT ![l] = NewLoad(s, i, FALSE)]
  /\ UNCHANGED <<source, symbol, panel, painted, own, feeds, dying, reads, stopped>>
After(s, x) ==
  IF x \in InSeq(s) THEN s[((CHOOSE j \in DOMAIN s : s[j] = x) % Len(s)) + 1] ELSE s[1]

\* The keys: action_cycle_timeframe, which moves the timeframe at once, and
\* action_cycle_symbol; a click on a row of the watchlist.
CycleTimeframe(l) == tf' = After(Timeframes, tf) /\ InWorker(l, symbol, tf')
CycleSymbol(l) == InWorker(l, After(Watched, symbol), tf) /\ UNCHANGED tf
ClickSymbol(l) == (\E s \in InSeq(Watched) : InWorker(l, s, tf)) /\ UNCHANGED tf
\* /chart SYMBOL TIMEFRAME, /chart source.
CommandLoad(l) ==
  /\ \E s \in Known, i \in InSeq(Timeframes) : ChartBecomes(l, Begins(View(NewLoad(s, i, TRUE))))
  /\ UNCHANGED tf
CommandSource(l) ==
  /\ ChartBecomes(l, SwitchesSource([View(NewLoad(symbol, tf, TRUE)) EXCEPT !.switching = TRUE]))
  /\ UNCHANGED tf

-----------------------------------------------------------------------------
(* A load's steps. *)

WorkerStarts(l) == loads[l].at = "new" /\ ChartBecomes(l, Begins(View(loads[l]))) /\ UNCHANGED tf
StopGoesOn(l) ==
  /\ loads[l].at \in {"kaiTask", "kaiRefresh", "cbTask"} /\ loads[l].waits \cap feeds = {}
  /\ ChartBecomes(l, GoesOn(View(loads[l]))) /\ UNCHANGED tf

\* The history is there: it is shown, with the source of the moment, and the feeds
\* are started.
Name(o, s) == IF o = "coinbase" THEN Product[s] ELSE s
Started(l, o, i) ==
  IF o = "kai" THEN [own EXCEPT !.kaiStream = l, !.kaiTask = l, !.kaiRefresh = l]
  ELSE IF i = "5m" THEN [own EXCEPT !.cbStream = l, !.cbTask = l] ELSE [own EXCEPT !.cbTask = l]
Bootstrapped(l) ==
  LET o == loads[l].src  s == Name(o, loads[l].sym)  i == loads[l].tf IN
  /\ loads[l].at = "fetch"
  /\ panel' = Series(source, s, i) /\ painted' = {Series(o, s, i)}
  /\ symbol' = s /\ tf' = i
  /\ own' = Started(l, o, i)
  /\ feeds' = feeds \cup {Task(l, f) : f \in IF o = "kai" THEN {"kaiTask", "kaiRefresh"} ELSE {"cbTask"}}
  /\ loads' = [loads EXCEPT ![l].at = "over", ![l].sym = s]
  /\ UNCHANGED <<source, dying, reads, stopped>>

\* The history cannot be had: the feeds are stopped and the chart stays as it is.
LoadFails(l) ==
  /\ loads[l].at = "fetch" /\ loads' = [loads EXCEPT ![l].at = "over"]
  /\ UNCHANGED <<source, symbol, tf, panel, painted, own, feeds, dying, reads, stopped>>

-----------------------------------------------------------------------------
(* The feeds. *)

Shows(l) == Series(loads[l].src, loads[l].sym, loads[l].tf)
Streams(t) == t.in = "kaiTask" \/ (t.in = "cbTask" /\ loads[t.by].tf = "5m")
Over(t) == feeds' = feeds \ {t} /\ dying' = dying \ {t}

\* A consumer iterates the stream that is in the app's field by the time it starts.
ConsumerStarts(t) ==
  LET f == own[IF t.in = "kaiTask" THEN "kaiStream" ELSE "cbStream"] IN
  /\ Streams(t) /\ t \notin dying /\ reads[t.by] = NoFeed
  /\ IF f = NoFeed THEN Over(t) /\ UNCHANGED reads
     ELSE reads' = [reads EXCEPT ![t.by] = f] /\ UNCHANGED <<feeds, dying>>
  /\ UNCHANGED <<source, symbol, tf, panel, painted, loads, own, stopped>>

\* A candle arrives: it is dropped unless the stream's series is the consumer's own.
Paints(t) ==
  LET f == reads[t.by] IN
  /\ Streams(t) /\ t \notin dying /\ f # NoFeed /\ f \notin stopped
  /\ Shows(f).sym = Shows(t.by).sym /\ Shows(f).tf = Shows(t.by).tf
  /\ painted' = painted \cup {Shows(t.by)}
  /\ UNCHANGED <<source, symbol, tf, panel, loads, own, feeds, dying, reads, stopped>>

\* The periodic refresh and the poller fetch all candles again.
PanelRefreshes(t) ==
  /\ ~Streams(t) /\ t \notin dying
  /\ panel' = [Shows(t.by) EXCEPT !.src = source] /\ painted' = {Shows(t.by)}
  /\ UNCHANGED <<source, symbol, tf, loads, own, feeds, dying, reads, stopped>>

\* A feed ends when it was cancelled, or its stream was stopped, or with an error.
FeedEnds(t) ==
  /\ t \in dying \/ Streams(t)
  /\ Over(t)
  /\ UNCHANGED <<source, symbol, tf, panel, painted, loads, own, reads, stopped>>

-----------------------------------------------------------------------------
\* The first chart is loaded in a worker.
ChartInit ==
  /\ source \in {"kai", "coinbase"} /\ symbol = Watched[1] /\ tf = Timeframes[1]
  /\ panel = Series(source, symbol, tf) /\ painted = {}
  /\ loads = [l \in Loads |-> [NewLoad(symbol, tf, FALSE) EXCEPT !.at = IF l = 1 THEN "new" ELSE "unused"]]
  /\ own = [f \in Owned |-> NoFeed] /\ feeds = {} /\ dying = {} /\ stopped = {}
  /\ reads = [l \in Loads |-> NoFeed]

ChartNext ==
  \/ \E l \in Wanted :
       /\ UserActs
       /\ CycleTimeframe(l) \/ CycleSymbol(l) \/ ClickSymbol(l) \/ CommandLoad(l) \/ CommandSource(l)
  \/ \E l \in Loads : WorkerStarts(l) \/ StopGoesOn(l) \/ Bootstrapped(l) \/ LoadFails(l)
  \/ \E t \in feeds : ConsumerStarts(t) \/ Paints(t) \/ PanelRefreshes(t) \/ FeedEnds(t)
ChartSpec == ChartInit /\ [][ChartNext]_chartvars

-----------------------------------------------------------------------------
\* While no two loads overlap, each feed that runs is the one the app owns and can
\* stop, and it feeds the series the chart shows: nothing of an earlier symbol,
\* timeframe or source is ever painted over it, and every stop takes all feeds.
ChartIsFed ==
  Concurrent = 1 =>
    /\ \A t \in feeds \ dying :
         own[t.in] = t.by /\ Shows(t.by) = panel /\ panel.src = source
    /\ painted \subseteq {panel}
    /\ \A l \in Loads : loads[l].at = "fetch" => feeds = {}
=============================================================================
