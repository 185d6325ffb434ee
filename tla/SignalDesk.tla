------------------------------ MODULE SignalDesk ------------------------------
(***************************************************************************)
(* Trading signals in agent-kai's terminal: the ring buffer that the       *)
(* agent's tools query (agent/signal_consumer.py), the handlers that react *)
(* to each signal (agent/signal_handlers.py) and what they dispatch        *)
(* (tui/terminal.py), the tasks for sub-agents among it (SubAgents).       *)
(*                                                                         *)
(* A handler is [name, enabled, kinds, action, agent, gated, cooldown].    *)
(***************************************************************************)
EXTENDS SubAgents, SequencesExt

CONSTANTS Handlers,     \* signal_handlers of the configuration, in order
          Symbols, SignalKinds,
          Depth,        \* max_signals of the ring buffer
          MaxSignals,   \* bound: signals heard
          MaxTime       \* bound: seconds

Signals == [sym : Symbols, kind : SignalKinds]
Handler == [name : STRING, enabled : BOOLEAN, kinds : SUBSET SignalKinds, action : STRING, agent : STRING,
            gated : BOOLEAN, cooldown : Nat]
ASSUME DeskAssumption ==
  /\ Depth \in Nat \ {0} /\ MaxSignals \in Nat /\ MaxTime \in Nat /\ Handlers \in Seq(Handler)

VARIABLES
  wire,       \* signals on their way, published ones among them
  buffer,     \* SignalConsumer._buffer
  lastFired,  \* CooldownTracker._last_fired, by name and symbol
  autotrade,  \* _autotrade_enabled
  clock,
  dispatches, \* workers scheduled to carry out an action, [handler, sig, nr]
  heard,      \* history: every signal with the time and the gate as it was heard
  fired       \* history: the firings, [nr, handler]
deskvars == <<wire, buffer, lastFired, autotrade, clock, dispatches, heard, fired>>

Never == -1
Manager == CHOOSE m \in Managers : TRUE

-----------------------------------------------------------------------------
\* query: the newest first, the filters combined, until there are enough.
Meets(g, sym, kind) == sym \in {"any", g.sym} /\ kind \in {"any", g.kind}
Query(sym, kind, limit) ==
  FoldLeft(LAMBDA found, g : IF Len(found) < limit /\ Meets(g, sym, kind) THEN Append(found, g) ELSE found,
           << >>, Reverse(buffer))

Newest(s) == IF Len(s) <= Depth THEN s ELSE SubSeq(s, Len(s) - Depth + 1, Len(s))

\* _needs_autotrade: by configuration, or because the handler is for the trader.
NeedsAutotrade(h) == h.gated \/ (h.action = "dispatch_agent" /\ h.agent = "trader")
CanFire(h, sym, last) ==
  h.cooldown = 0 \/ last[h.name][sym] = Never \/ clock - last[h.name][sym] >= h.cooldown

\* run: one handler after the other, [last, fire] so far.
ReactsUnmarked(acc, k, sig) ==
  LET h == Handlers[k] IN
  IF h.enabled /\ sig.kind \in h.kinds /\ CanFire(h, sig.sym, acc.last)
       /\ (NeedsAutotrade(h) => autotrade)
  THEN [acc EXCEPT !.fire = @ \cup {k}] ELSE acc
Reacts(acc, k, sig) ==
  LET h == Handlers[k] IN
  IF h.enabled /\ sig.kind \in h.kinds /\ CanFire(h, sig.sym, acc.last)
       /\ (NeedsAutotrade(h) => autotrade)
  THEN [last |-> [acc.last EXCEPT ![h.name][sig.sym] = clock], fire |-> acc.fire \cup {k}]
  ELSE acc
RunHandlers(sig) ==
  FoldLeftDomain(LAMBDA acc, k : Reacts(acc, k, sig), [last |-> lastFired, fire |-> {}], Handlers)

-----------------------------------------------------------------------------
\* A scanner or the token analyzer publishes a signal.
Emit(sig) ==
  /\ Len(heard) + Len(wire) < MaxSignals /\ wire' = Append(wire, sig)
  /\ UNCHANGED <<agentvars, buffer, lastFired, autotrade, clock, dispatches, heard, fired>>

\* _ingest with its callback: into the buffer, then the handlers, without an await.
Ingest ==
  /\ wire # << >> /\ wire' = Tail(wire)
  /\ LET sig == Head(wire)  acc == RunHandlers(sig)  nr == Len(heard) + 1 IN
     /\ buffer' = Newest(Append(buffer, sig))
     /\ lastFired' = acc.last
     /\ heard' = Append(heard, [sig |-> sig, time |-> clock, auto |-> autotrade])
     /\ fired' = fired \cup [nr : {nr}, handler : acc.fire]
     /\ dispatches' = dispatches \cup [handler : acc.fire, sig : {sig}, nr : {nr}]
  /\ UNCHANGED <<agentvars, autotrade, clock>>

\* The worker of a firing: a task for a sub-agent; the signal published again, on a
\* subject that the consumer may itself be subscribed to; or a message, a webhook or
\* a task for the main agent (module Console), which leave nothing behind here.
Dispatches(d) ==
  LET h == Handlers[d.handler] IN
  /\ dispatches' = dispatches \ {d}
  /\ \/ h.action = "dispatch_agent" /\ Ask(Manager, h.agent) /\ UNCHANGED wire
     \/ /\ h.action = "publish" /\ UNCHANGED agentvars
        /\ wire' = IF Len(heard) + Len(wire) < MaxSignals THEN Append(wire, d.sig) ELSE wire
     \/ h.action \notin {"dispatch_agent", "publish"} /\ UNCHANGED <<agentvars, wire>>
  /\ UNCHANGED <<buffer, lastFired, autotrade, clock, heard, fired>>

\* /autotrade on and off.
Autotrade ==
  /\ autotrade' = ~autotrade
  /\ UNCHANGED <<agentvars, wire, buffer, lastFired, clock, dispatches, heard, fired>>
Second ==
  /\ clock < MaxTime /\ clock' = clock + 1
  /\ UNCHANGED <<agentvars, wire, buffer, lastFired, autotrade, dispatches, heard, fired>>

DeskInit ==
  /\ AgentsInit
  /\ wire = << >> /\ buffer = << >> /\ autotrade \in BOOLEAN /\ clock = 0
  /\ lastFired = [n \in {Handlers[k].name : k \in DOMAIN Handlers} |-> [s \in Symbols |-> Never]]
  /\ dispatches = {} /\ heard = << >> /\ fired = {}
DeskActs ==
  \/ (\E sig \in Signals : Emit(sig)) \/ Ingest \/ Autotrade \/ Second
  \/ \E d \in dispatches : Dispatches(d)
DeskNext == DeskActs \/ (AgentsNext /\ UNCHANGED deskvars)
DeskSpec == DeskInit /\ [][DeskNext]_<<agentvars, deskvars>>

-----------------------------------------------------------------------------
\* Whatever a burst of signals, the switch and the clock do: a handler fires for exactly
\* the signals its declaration names: those it matches, with the gate open if it has one,
\* and no firing of its name for that symbol within its cooldown; and a query answers
\* with the newest matches of all that was heard, as far back as the buffer goes.
DueAt(nr, k) ==
  LET h == Handlers[k]  g == heard[nr] IN
  /\ h.enabled /\ g.sig.kind \in h.kinds /\ (NeedsAutotrade(h) => g.auto)
  /\ h.cooldown > 0 =>
       ~ \E f \in fired :
           /\ f.nr < nr \/ (f.nr = nr /\ f.handler < k)
           /\ Handlers[f.handler].name = h.name /\ heard[f.nr].sig.sym = g.sig.sym
           /\ g.time - heard[f.nr].time < h.cooldown
DeskAsPromised ==
  /\ \A nr \in DOMAIN heard, k \in DOMAIN Handlers : [nr |-> nr, handler |-> k] \in fired <=> DueAt(nr, k)
  /\ \A sym \in Symbols \cup {"any"}, kind \in SignalKinds \cup {"any"}, limit \in 1 .. Depth :
       LET at == {nr \in DOMAIN heard :
                    /\ nr > Len(heard) - Depth
                    /\ sym \in {"any", heard[nr].sig.sym} /\ kind \in {"any", heard[nr].sig.kind}}
           answer == Query(sym, kind, limit)
       IN  /\ Len(answer) = IF Cardinality(at) < limit THEN Cardinality(at) ELSE limit
           /\ \A i \in DOMAIN answer : \E nr \in at :
                answer[i] = heard[nr].sig /\ Cardinality({n \in at : n >= nr}) = i
=============================================================================
