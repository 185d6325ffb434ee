---------------------------- MODULE MarketBridge ----------------------------
(***************************************************************************)
(* agent-kai's market data service (data_api): the bridge, one task that   *)
(* reads candles from the provider's WebSocket and connects again when it  *)
(* is lost (nats_bridge.py), and the clients it sends them to, whose       *)
(* endpoints come and go at its awaits (websocket.py). One symbol.         *)
(***************************************************************************)
EXTENDS Integers, Sequences, FiniteSets, SequencesExt

CONSTANTS Clients,     \* WebSocket clients
          Intervals,   \* BRIDGE_INTERVALS; "1m" makes prices too
          MinBackoff, MaxBackoff,
          MaxBars      \* bound: candles

ASSUME BridgeAssumption ==
  /\ Clients # {} /\ Intervals # {} /\ IsFiniteSet(Intervals) /\ MaxBars \in Nat
  /\ MinBackoff \in Nat \ {0} /\ MaxBackoff \in Nat /\ MinBackoff <= MaxBackoff

VARIABLES
  link,     \* the session with the provider: "down" or "up"
  backoff,  \* seconds before the next attempt
  inbox,    \* messages received and not handled, [iv, bar]
  bars,     \* candles so far; a candle is its number
  latest,   \* interval -> its newest candle, for snapshots
  cast,     \* the broadcast that is under way
  conns,    \* _connections: interval -> clients in the order they came
  client,   \* client -> "new", "on", "broken", which its endpoint has not seen, or "out"
  watches,  \* client -> interval it came for
  last      \* history: client -> the newest candle it was sent
bridgevars == <<link, backoff, inbox, bars, latest, cast, conns, client, watches, last>>

NoBar == 0
Idle == [at |-> "idle", iv |-> "none", bar |-> NoBar, keys |-> << >>, next |-> 1,
         dead |-> << >>, audience |-> {}, sent |-> {}]
\* Of each of the dead, the first that the list has is taken off.
Without(s, dead) == FoldLeft(RemoveFirst, s, dead)
On(iv) == {c \in Clients : client[c] = "on" /\ watches[c] = iv}

-----------------------------------------------------------------------------
(* The provider, external. *)

Closes(iv) ==
  /\ bars < MaxBars /\ bars' = bars + 1 /\ latest' = [latest EXCEPT ![iv] = bars']
  /\ inbox' = IF link = "up" THEN Append(inbox, [iv |-> iv, bar |-> bars']) ELSE inbox
  /\ UNCHANGED <<link, backoff, cast, conns, client, watches, last>>

\* A session begins: the subscriptions answer with the newest candle of each interval.
Connects ==
  /\ link = "down" /\ link' = "up"
  /\ LET known == {iv \in Intervals : latest[iv] # NoBar} IN
     inbox' \in {s \in [1 .. Cardinality(known) -> [iv : known, bar : {latest[iv] : iv \in known}]] :
                   /\ {s[k].iv : k \in DOMAIN s} = known
                   /\ \A k \in DOMAIN s : s[k].bar = latest[s[k].iv]}
  /\ UNCHANGED <<backoff, bars, latest, cast, conns, client, watches, last>>

-----------------------------------------------------------------------------
(* The bridge, one coroutine. *)

\* The attempt fails, or the session ends with an exception: the next one is later.
Doubled == IF backoff * 2 < MaxBackoff THEN backoff * 2 ELSE MaxBackoff
Fails ==
  /\ cast.at = "idle" /\ link' = "down" /\ backoff' = Doubled /\ inbox' = << >>
  /\ UNCHANGED <<bars, latest, cast, conns, client, watches, last>>
\* The provider closes the session in an orderly way, when all it sent is handled.
Closed ==
  /\ link = "up" /\ inbox = << >> /\ cast.at = "idle"
  /\ link' = "down" /\ backoff' = MinBackoff
  /\ UNCHANGED <<inbox, bars, latest, cast, conns, client, watches, last>>

\* _publish_bar: the candle is broadcast to the clients of its interval.
Publishes ==
  /\ link = "up" /\ cast.at = "idle" /\ inbox # << >> /\ inbox' = Tail(inbox)
  /\ LET m == Head(inbox) IN
     cast' = [Idle EXCEPT !.at = "bar", !.iv = m.iv, !.bar = m.bar, !.keys = <<m.iv>>,
                          !.audience = On(m.iv)]
  /\ UNCHANGED <<link, backoff, bars, latest, conns, client, watches, last>>

\* One send of a broadcast: the list is the live one, walked by position.
Sends ==
  /\ cast.at # "idle" /\ cast.keys # << >> /\ cast.next <= Len(conns[Head(cast.keys)])
  /\ LET c == conns[Head(cast.keys)][cast.next] IN
     IF client[c] = "on"
     THEN /\ last' = IF cast.at = "bar" THEN [last EXCEPT ![c] = cast.bar] ELSE last
          /\ cast' = [cast EXCEPT !.next = @ + 1, !.sent = @ \cup {c}]
     ELSE cast' = [cast EXCEPT !.next = @ + 1, !.dead = Append(@, c)] /\ UNCHANGED last
  /\ UNCHANGED <<link, backoff, inbox, bars, latest, conns, client, watches>>

\* The end of a list: the dead are taken off, though not by a price. A candle of the
\* shortest interval is followed by a price for the clients of every interval.
ListEnds ==
  LET k == Head(cast.keys) IN
  /\ cast.at # "idle" /\ cast.keys # << >> /\ cast.next > Len(conns[k])
  /\ conns' = IF cast.at = "bar" THEN [conns EXCEPT ![k] = Without(@, cast.dead)]
              ELSE conns
  /\ cast' = [cast EXCEPT !.keys = Tail(@), !.next = 1, !.dead = << >>]
  /\ UNCHANGED <<link, backoff, inbox, bars, latest, client, watches, last>>
CastEnds ==
  /\ cast.at # "idle" /\ cast.keys = << >>
  /\ cast' = IF cast.at = "bar" /\ cast.iv = "1m"
             THEN [cast EXCEPT !.at = "price", !.keys = SetToSeq(Intervals),
                               !.sent = {}, !.audience = UNION {On(iv) : iv \in Intervals}]
             ELSE Idle
  /\ UNCHANGED <<link, backoff, inbox, bars, latest, conns, client, watches, last>>

-----------------------------------------------------------------------------
(* The clients' endpoints. *)

Joins(c, iv) ==
  /\ client[c] = "new"
  /\ client' = [client EXCEPT ![c] = "on"] /\ watches' = [watches EXCEPT ![c] = iv]
  /\ conns' = [conns EXCEPT ![iv] = Append(@, c)]
  /\ UNCHANGED <<link, backoff, inbox, bars, latest, cast, last>>
Breaks(c) ==
  /\ client[c] = "on" /\ client' = [client EXCEPT ![c] = "broken"]
  /\ cast' = [cast EXCEPT !.audience = @ \ {c}]
  /\ UNCHANGED <<link, backoff, inbox, bars, latest, conns, watches, last>>
\* The endpoint sees the disconnect and takes the client off the list.
LeavesKept(c) ==
  /\ client[c] \in {"on", "broken"} /\ client' = [client EXCEPT ![c] = "out"]
  /\ cast' = [cast EXCEPT !.audience = @ \ {c}]
  /\ UNCHANGED <<link, backoff, inbox, bars, latest, conns, watches, last>>
Leaves(c) ==
  /\ client[c] \in {"on", "broken"} /\ client' = [client EXCEPT ![c] = "out"]
  /\ conns' = [conns EXCEPT ![watches[c]] = RemoveFirst(@, c)]
  /\ cast' = [cast EXCEPT !.audience = @ \ {c}]
  /\ UNCHANGED <<link, backoff, inbox, bars, latest, watches, last>>

BridgeInit ==
  /\ link = "down" /\ backoff = MinBackoff /\ inbox = << >> /\ bars = 0 /\ cast = Idle
  /\ latest = [iv \in Intervals |-> NoBar] /\ conns = [iv \in Intervals |-> << >>]
  /\ client = [c \in Clients |-> "new"] /\ last = [c \in Clients |-> NoBar]
  /\ watches \in [Clients -> Intervals]
BridgeNext ==
  \/ Connects \/ Fails \/ Closed \/ Publishes \/ Sends \/ ListEnds \/ CastEnds
  \/ \E iv \in Intervals : Closes(iv) \/ \E c \in Clients : Joins(c, iv)
  \/ \E c \in Clients : Breaks(c) \/ Leaves(c)
BridgeSpec == BridgeInit /\ [][BridgeNext]_bridgevars

-----------------------------------------------------------------------------
\* A client is sent the candles of its interval in the order they closed, across lost
\* sessions too; the lists hold the clients that are there, each once and under its
\* interval, whichever endpoints come and go while a broadcast walks them.
ListsAreTrue ==
  \A iv \in Intervals :
    /\ \A i, j \in DOMAIN conns[iv] : conns[iv][i] = conns[iv][j] => i = j
    /\ On(iv) \subseteq ToSet(conns[iv])
    /\ \A i \in DOMAIN conns[iv] :
         client[conns[iv][i]] \in {"on", "broken"} /\ watches[conns[iv][i]] = iv
ClientsSeeTime == [][ListsAreTrue' /\ \A c \in Clients : last'[c] >= last[c]]_bridgevars
=============================================================================
