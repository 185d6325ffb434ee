------------------------------ MODULE SubAgents ------------------------------
(***************************************************************************)
(* The sub-agents of agent-kai (agent/sub_agents.py), the registries of    *)
(* the sessions that spawn and stop them (daemon/core.py), and the message *)
(* bus between them and whoever gives them tasks (nats_bus/bus.py): the    *)
(* terminal's workers, signal handlers and the main agent's tools.         *)
(*                                                                         *)
(* NATS is external: it delivers a message to every subscription of its    *)
(* subject, each of which handles its messages one after the other, and a  *)
(* request ends with the first reply.                                      *)
(***************************************************************************)
EXTENDS Integers, Sequences, FiniteSets

CONSTANTS Managers,   \* the sessions' SubAgentManagers
          Names,      \* names of sub-agents
          Fallbacks,  \* length of an agent's fallback chain
          MaxAgents,  \* bound: agents ever started
          MaxTasks    \* bound: tasks ever given

Objects == 1 .. MaxAgents
Tasks == 1 .. MaxTasks
None == 0
NoName == "none"  \* the name of an agent not started yet
ASSUME AgentsAssumption ==
  /\ Managers # {} /\ Names # {} /\ NoName \notin Names
  /\ Fallbacks \in Nat /\ MaxAgents \in Nat \ {0} /\ MaxTasks \in Nat \ {0}

VARIABLES
  registry,  \* manager -> name -> the agent it has, SubAgentManager.agents
  agent,     \* SubAgent objects; the subscription of one is its inbox
  task,      \* what was asked, by whom, and how far the asker is
  command    \* manager -> the agent that /model or /think is starting again
agentvars == <<registry, agent, task, command>>

\* A SubAgent: whether it is subscribed and not stopped, the task it is on, the
\* executors it has tried, and the tasks whose tool calls are
\* in its recorder and in its last_session.
Fresh(n) ==
  [name |-> n, running |-> FALSE, inbox |-> << >>, on |-> None, tried |-> 0,
   recorder |-> {}, last |-> [task |-> None, calls |-> {}, output |-> "none"]]
NoTask == [name |-> "none", by |-> "none", at |-> "new", via |-> None, reply |-> "none"]

Unstarted == {o \in Objects : agent[o].name \notin Names}
NextObject == {o \in Unstarted : \A p \in Unstarted : o <= p}
Unasked == {t \in Tasks : task[t].at = "new"}
NextTask == {t \in Unasked : \A u \in Unasked : t <= u}

-----------------------------------------------------------------------------
(* Spawning and stopping *)

\* SubAgent.start: the agent is subscribed, and its status announced.
Subscribed(o, n) == [agent EXCEPT ![o] = [Fresh(n) EXCEPT !.running = TRUE]]
\* A request is delivered to all who are subscribed to the agent's subject.
Delivered(a, t, n) ==
  [o \in Objects |-> IF a[o].name = n THEN [a[o] EXCEPT !.inbox = Append(@, t)] ELSE a[o]]

\* SubAgent.stop, which leaves the subscription alone.
Stopped(o) == [agent EXCEPT ![o].running = FALSE]

\* /model and /think start an agent again: it is stopped, forgotten and spawned.
Respawn(m, n) ==
  /\ command[m] = None /\ registry[m][n] # None
  /\ \E o \in NextObject :
       /\ agent' = [Stopped(registry[m][n]) EXCEPT ![o] = [Fresh(n) EXCEPT !.running = TRUE]]
       /\ command' = [command EXCEPT ![m] = o]
  /\ registry' = [registry EXCEPT ![m][n] = None]
  /\ UNCHANGED task
RespawnEnds(m) ==
  /\ command[m] # None
  /\ registry' = [registry EXCEPT ![m][agent[command[m]].name] = command[m]]
  /\ command' = [command EXCEPT ![m] = None]
  /\ UNCHANGED <<agent, task>>

-----------------------------------------------------------------------------
(* Asking: _run_agent_task, dispatch_agent, spawn_agent with nats_request.   *)

\* An agent that is not registered is spawned first.
Asks(m, n, t) ==
  IF registry[m][n] # None
  THEN /\ task' = [task EXCEPT ![t] = [NoTask EXCEPT !.name = n, !.by = m, !.at = "asked"]]
       /\ agent' = Delivered(agent, t, n)
  ELSE \E o \in NextObject :
       /\ task' = [task EXCEPT ![t] = [NoTask EXCEPT !.name = n, !.by = m, !.at = "spawn", !.via = o]]
       /\ agent' = Subscribed(o, n)
Ask(m, n) == (\E t \in NextTask : Asks(m, n, t)) /\ UNCHANGED <<registry, command>>

\* The spawn is over, whoever else has spawned an agent of the name meanwhile.
SpawnEnds(t) ==
  /\ task[t].at = "spawn"
  /\ registry' = [registry EXCEPT ![task[t].by][task[t].name] = task[t].via]
  /\ task' = [task EXCEPT ![t].at = "asked"]
  /\ agent' = Delivered(agent, t, task[t].name)
  /\ UNCHANGED command

\* The request times out: whoever works on the task goes on.
TimesOut(t) ==
  /\ task[t].at = "asked" /\ task' = [task EXCEPT ![t].at = "over"]
  /\ UNCHANGED <<registry, agent, command>>

-----------------------------------------------------------------------------
(* An agent at work *)

\* _handle_request: a recorder of its own for each task.
Takes(o) ==
  /\ agent[o].name \in Names /\ agent[o].on = None /\ agent[o].inbox # << >>
  /\ agent' = [agent EXCEPT ![o].on = Head(agent[o].inbox), ![o].inbox = Tail(@),
                            ![o].recorder = {}, ![o].tried = 0]
  /\ UNCHANGED <<registry, task, command>>

\* The run of an executor calls a tool.
CallsTool(o) ==
  /\ agent[o].on # None /\ agent' = [agent EXCEPT ![o].recorder = @ \cup {agent[o].on}]
  /\ UNCHANGED <<registry, task, command>>

\* _invoke_with_fallback: whether there is another try after n tries, the last with
\* result r: by the next executor of the chain after an error or an empty answer, and
\* at the end of the chain by the last one once more if its answer was empty.
TriesOnce(n, r) == r # "good" /\ n <= Fallbacks
TriesAgain(n, r) == TriesOnce(n, r) \/ (r = "empty" /\ n = Fallbacks + 1)

Invoked(o, r) ==
  LET a == agent[o]  n == a.tried + 1
      done == [a EXCEPT !.on = None, !.tried = n, !.recorder = {},
                        !.last = [task |-> a.on, calls |-> a.recorder, output |-> r]]
  IN  /\ a.on # None
      /\ IF TriesAgain(n, r)
         THEN agent' = [agent EXCEPT ![o].tried = n] /\ UNCHANGED task
         ELSE /\ agent' = [agent EXCEPT ![o] = done]
              /\ task' = IF task[a.on].at = "asked"
                         THEN [task EXCEPT ![a.on].at = "over", ![a.on].reply = r] ELSE task
      /\ UNCHANGED <<registry, command>>

-----------------------------------------------------------------------------
AgentsInit ==
  /\ registry = [m \in Managers |-> [n \in Names |-> None]]
  /\ agent = [o \in Objects |-> Fresh(NoName)]
  /\ task = [t \in Tasks |-> NoTask]
  /\ command = [m \in Managers |-> None]
AgentWorks ==
  \/ \E o \in Objects : Takes(o) \/ CallsTool(o) \/ \E r \in {"good", "error", "empty"} : Invoked(o, r)
  \/ \E t \in Tasks : SpawnEnds(t) \/ TimesOut(t)
AgentsNext ==
  \/ AgentWorks
  \/ \E m \in Managers : RespawnEnds(m) \/ \E n \in Names : Ask(m, n) \/ Respawn(m, n)
AgentsSpec == AgentsInit /\ [][AgentsNext]_agentvars

-----------------------------------------------------------------------------
\* The books agree, whoever spawns, restarts or asks meanwhile: a registered agent runs
\* under its name; its last_session is that of one task, with no other's tool calls;
\* and it gave up on a task only after all executors, and after an empty answer once more.
AgentsKeepBooks ==
  /\ \A m \in Managers, n \in Names :
       registry[m][n] # None => agent[registry[m][n]].name = n /\ agent[registry[m][n]].running
  /\ \A o \in Objects : LET a == agent[o] IN
       /\ a.recorder \subseteq {a.on} /\ a.last.calls \subseteq {a.last.task}
       /\ a.on = None /\ a.last.task # None /\ a.last.output # "good" =>
            /\ a.tried > Fallbacks
            /\ a.last.output = "empty" => a.tried = Fallbacks + 2
=============================================================================
