-------------------------------- MODULE MCBack --------------------------------
(***************************************************************************)
(* What the agents and the daemon keep and fetch, for TLC: memory and      *)
(* skills, the log of a run's tools, sessions on disk, what a client hears *)
(* of its session, the control of the daemon, the portfolio, the login,    *)
(* the pages of a history of candles, or the bridge to the market. A scene *)
(* is one of them; the others stay where they begin.                       *)
(***************************************************************************)
EXTENDS Knowledge, ToolLog, MCStore, DaemonControl, Portfolio, CodexAuth, CandlePages,
        MarketBridge, EventFeed

VARIABLE scene
mcvars == <<knowvars, logvars, storevars, controlvars, foliovars, authvars, pagevars,
            bridgevars, feedvars, scene>>

\* A note of one word, one of two, and two notes in one addition.
MCContents == {<<{"w"}>>, <<{"w", "x"}>>, <<{"x"}, {"w"}>>}
\* Averages over up to 4 and 6.
MCGrain == <<720, 60, 1>>
MCOwner == [t1 |-> "trader", t2 |-> "analyst", learn |-> "trader"]

MCInit ==
  /\ scene \in {"knowledge", "log", "store", "control", "folio", "auth", "pages", "bridge", "feed"}
  /\ KnowInit /\ LogInit /\ StoreInit /\ ControlInit /\ FolioInit /\ AuthInit /\ PagesInit
  /\ BridgeInit /\ FeedInit
  /\ scene # "log" => named /\ \A t \in Tools : tool[t] = "other"
  /\ scene # "pages" => candles = {} /\ ask = [limit |-> 1, from |-> NoBound, to |-> NoBound, long |-> FALSE]
  /\ scene # "bridge" => \A c \in Clients : watches[c] = "1m"
  /\ scene # "feed" => kind = "page"

MCNext ==
  \/ /\ scene = "knowledge" /\ KnowNext
     /\ UNCHANGED <<logvars, storevars, controlvars, foliovars, authvars, pagevars, bridgevars, feedvars, scene>>
  \/ /\ scene = "log" /\ LogNext
     /\ UNCHANGED <<knowvars, storevars, controlvars, foliovars, authvars, pagevars, bridgevars, feedvars, scene>>
  \/ /\ scene = "store" /\ StoreNext
     /\ UNCHANGED <<knowvars, logvars, controlvars, foliovars, authvars, pagevars, bridgevars, feedvars, scene>>
  \/ /\ scene = "control" /\ ControlNext
     /\ UNCHANGED <<knowvars, logvars, storevars, foliovars, authvars, pagevars, bridgevars, feedvars, scene>>
  \/ /\ scene = "folio" /\ FolioNext
     /\ UNCHANGED <<knowvars, logvars, storevars, controlvars, authvars, pagevars, bridgevars, feedvars, scene>>
  \/ /\ scene = "auth" /\ AuthNext
     /\ UNCHANGED <<knowvars, logvars, storevars, controlvars, foliovars, pagevars, bridgevars, feedvars, scene>>
  \/ /\ scene = "pages" /\ PagesNext
     /\ UNCHANGED <<knowvars, logvars, storevars, controlvars, foliovars, authvars, bridgevars, feedvars, scene>>
  \/ /\ scene = "bridge" /\ BridgeNext
     /\ UNCHANGED <<knowvars, logvars, storevars, controlvars, foliovars, authvars, pagevars, feedvars, scene>>
  \/ /\ scene = "feed" /\ FeedNext
     /\ UNCHANGED <<knowvars, logvars, storevars, controlvars, foliovars, authvars, pagevars, bridgevars, scene>>
MCSpec == MCInit /\ [][MCNext]_mcvars
=============================================================================
