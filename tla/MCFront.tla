-------------------------------- MODULE MCFront --------------------------------
(***************************************************************************)
(* What faces the users, for TLC: the terminal's input line, its chart,    *)
(* the web terminal's page, or the signals with the sub-agents they put    *)
(* to work. A scene is one of them; the others stay where they begin.      *)
(***************************************************************************)
EXTENDS Console, ChartFeed, WebPage, SignalDesk

VARIABLE scene
scenevars == <<agentvars, deskvars>>
mcvars == <<consolevars, chartvars, webvars, scenevars, scene>>

MCProduct ==
  [s \in {"BTC", "ETH", "BTC-USD", "ETH-USD"} |->
     IF s \in {"BTC", "BTC-USD"} THEN "BTC-USD" ELSE "ETH-USD"]
MCWatched == <<"BTC", "ETH">>
MCTimeframes == <<"5m", "1h">>

\* A gated handler for the trader; two that share the default name and its cooldown;
\* one that is off.
MCHandlers ==
  <<[name |-> "trade", enabled |-> TRUE, kinds |-> {"BUY"}, action |-> "dispatch_agent",
     agent |-> "trader", gated |-> FALSE, cooldown |-> 2],
    [name |-> "unnamed", enabled |-> TRUE, kinds |-> {"BUY", "ANALYSIS"}, action |-> "chat_message",
     agent |-> "", gated |-> TRUE, cooldown |-> 1],
    [name |-> "unnamed", enabled |-> TRUE, kinds |-> {"ANALYSIS"}, action |-> "publish",
     agent |-> "", gated |-> FALSE, cooldown |-> 1],
    [name |-> "off", enabled |-> FALSE, kinds |-> {"BUY"}, action |-> "publish",
     agent |-> "", gated |-> FALSE, cooldown |-> 0]>>

\* The inputs that start no work occur once each; without a task it does not matter
\* whether there are helpers.
MCInputs ==
  /\ \A i, j \in DOMAIN kind : kind[i] = kind[j] /\ i # j => kind[i] \in {"chat", "task"}
  /\ helpers \/ \E i \in DOMAIN kind : kind[i] = "task"

MCInit ==
  /\ scene \in {"console", "chart", "page", "agents", "desk"}
  /\ ConsoleInit /\ ChartInit /\ PageInit /\ DeskInit
  /\ MCInputs \/ scene # "console"
  /\ scene # "console" => /\ ~remote /\ helpers /\ count = 0
                          /\ \A i \in DOMAIN kind : kind[i] = "chat"
  /\ scene # "chart" => source = "kai"
  /\ scene # "page" => market = "BTC"
  /\ autotrade

\* In the scene of the desk the sub-agents only get their tasks.
MCNext ==
  \/ scene = "console" /\ ConsoleNext /\ UNCHANGED <<chartvars, webvars, scenevars, scene>>
  \/ scene = "chart" /\ ChartNext /\ UNCHANGED <<consolevars, webvars, scenevars, scene>>
  \/ scene = "page" /\ PageNext /\ UNCHANGED <<consolevars, chartvars, scenevars, scene>>
  \/ scene = "agents" /\ AgentsNext /\ UNCHANGED <<consolevars, chartvars, webvars, deskvars, scene>>
  \/ scene = "desk" /\ DeskActs /\ UNCHANGED <<consolevars, chartvars, webvars, scene>>
MCSpec == MCInit /\ [][MCNext]_mcvars /\ ConsoleFairness /\ PageFairness
=============================================================================
