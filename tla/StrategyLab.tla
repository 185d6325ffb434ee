----------------------------- MODULE StrategyLab -----------------------------
(***************************************************************************)
(* The strategy optimizer of agent-kai: the in-process runtime of each     *)
(* session (agent/strategy_agent_tools.py), the optimization cycle         *)
(* (agent/strategy_optimizer.py) and the store that all sessions share     *)
(* (agent/strategy_store.py).                                              *)
(*                                                                         *)
(* A cycle gives up the event loop at two awaits, the download of the bars *)
(* and the answer of the LLM; between them other sessions' optimizers and  *)
(* slash commands run. The agent's tools run in worker threads and come in *)
(* between any two transactions of the store.                              *)
(***************************************************************************)
EXTENDS Integers, Sequences, FiniteSets

CONSTANTS Sessions, Names, Muts,
          Agents,         \* the sessions whose agents propose strategies
          MaxVersion,     \* bound: versions of a lineage
          MaxTask,        \* bound: optimizer runs started
          MaxCycles,      \* cycles a run is started for
          MaxMoves,       \* bound: users' moves between pools
          Stagnation,     \* OptimizerConfig.stagnation_threshold
          MaxMutations,   \* OptimizerConfig.max_lineage_iterations
          Schedule, ParamSlots  \* of Schedule mutations, ParamSlots are tuned

ASSUME LabAssumption ==
  /\ MaxVersion \in Nat /\ MaxTask \in Nat /\ MaxMoves \in Nat /\ MaxCycles \in Nat \ {0}
  /\ Stagnation \in Nat \ {0} /\ MaxMutations \in Nat
  /\ Schedule \in Nat \ {0} /\ ParamSlots \in 1 .. Schedule
  /\ Agents \subseteq Sessions /\ Names # {}

VARIABLES store,     \* name -> versions; the position is the version number
          task,      \* optimizer tasks of the process, in the order of creation
          runtime,   \* session -> its InProcessStrategyRuntime
          draft,     \* agent -> a propose_strategy between its read and its insert
          moves      \* users' moves so far
vars == <<store, task, runtime, draft, moves>>

Stages == {"in_sample", "walk_forward", "lockbox"}
Pools == {"candidates", "active", "graveyard"}
Tasks == 1 .. Len(task)
NoDraft == [name |-> CHOOSE n \in Names : TRUE, version |-> 0]
Idle == [task |-> 0, stop |-> "none"]

\* The pcs at which a task holds the event loop: it has not awaited anything
\* since its last await, and no other coroutine or callback can run.
Holding == {"select", "measured", "saved", "persisted"}
LoopFree(t) == \A u \in Tasks : u = t \/ task[u].pc \notin Holding
Loop == \A u \in Tasks : task[u].pc \notin Holding

-----------------------------------------------------------------------------
(* The store. Every operator is one transaction. *)

Version(parent, pool, muts) ==
  [parent |-> parent, pool |-> pool, muts |-> muts, evidence |-> {}, verdict |-> "none"]

\* save_strategy inserts under the key (name, version): it fails when the
\* version exists. Nobody computes a version above the next one.
InsertableAnyway(n, v) == Len(store[n]) < MaxVersion
Insertable(n, v) == v = Len(store[n]) + 1
Inserted(n, v, rec) == [store EXCEPT ![n] = Append(@, rec)]

Judged(lineage) == {v \in DOMAIN lineage : lineage[v].verdict # "none"}
RejectedMuts(lineage) ==
  UNION {lineage[v].muts : v \in {w \in DOMAIN lineage : lineage[w].verdict = "rejected"}}

\* select_next_strategy: the newest candidate of a lineage that has mutations
\* left. Chance decides between the lineages.
Candidates(n) == {v \in DOMAIN store[n] : store[n][v].pool = "candidates"}
Newest(V) == CHOOSE v \in V : \A w \in V : w <= v
Selectable == {n \in Names : /\ Candidates(n) # {} /\ Len(store[n]) < MaxVersion
                             /\ Cardinality(Judged(store[n])) < MaxMutations}

\* _consecutive_rejections, from the newest version back to the first that was
\* accepted or has no mutation record.
Stagnant(lineage) ==
  \E k \in DOMAIN lineage :
    /\ Len(lineage) - k + 1 >= Stagnation
    /\ \A v \in k .. Len(lineage) : lineage[v].verdict = "rejected"

\* _best_lineage_record: some version with an in_sample run, or the last one
\* when there is none. The Sharpe ratios are abstracted.
Best(lineage) ==
  LET ran == {v \in DOMAIN lineage : "in_sample" \in lineage[v].evidence}
  IN  IF ran = {} THEN {Len(lineage)} ELSE ran \cup {Len(lineage)}

Mode(lineage, forced) ==
  IF forced \/ Cardinality(Judged(lineage)) % Schedule >= ParamSlots
  THEN "structural" ELSE "tune"

-----------------------------------------------------------------------------
(* The runtime of a session. *)

Running(s) == runtime[s].task # 0 /\ task[runtime[s].task].pc # "ended"

\* The locals of a cycle: the lineage it works on, the parent, the mode, and of
\* the lineage as it was read its newest version and its rejected edits.
NoCycle == [name |-> CHOOSE n \in Names : TRUE, parent |-> 0, mode |-> "tune",
            top |-> 0, tried |-> {}]
NewTask(s) == [session |-> s, pc |-> "new", out |-> "none", cancel |-> FALSE,
               left |-> MaxCycles, cycle |-> NoCycle]

\* /optimizer start, in the event loop.
Start(s) ==
  /\ Loop /\ ~Running(s) /\ Len(task) < MaxTask
  /\ task' = Append(task, NewTask(s))
  /\ runtime' = [runtime EXCEPT ![s] = [task |-> Len(task) + 1, stop |-> "none"]]
  /\ UNCHANGED <<store, draft, moves>>

\* The agent's optimizer_start runs in a worker thread, where there is no event
\* loop to create a task in: it has reset the fields when it fails.
AgentStart(s) ==
  /\ ~Running(s) /\ runtime[s].stop # "none"
  /\ runtime' = [runtime EXCEPT ![s].stop = "none"]
  /\ UNCHANGED <<store, task, draft, moves>>

\* /optimizer pause and the agent's optimizer_pause. The task gets the
\* cancellation when it runs again, or at its next await.
Pause(s) ==
  /\ Running(s)
  /\ runtime' = [runtime EXCEPT ![s].stop = "paused"]
  /\ task' = [task EXCEPT ![runtime[s].task].cancel = TRUE]
  /\ UNCHANGED <<store, draft, moves>>

\* _finalize_optimizer_task, a callback the event loop runs some time after the
\* task is done. It clears the runtime's task whichever that is by then.
Finalize(t) ==
  /\ Loop /\ task[t].pc = "ended" /\ task[t].out # "final"
  /\ task' = [task EXCEPT ![t].out = "final", ![t].cancel = FALSE]
  /\ LET s == task[t].session IN
     runtime' = [runtime EXCEPT ![s] =
       [task |-> 0, stop |-> IF task[t].out = "cancelled" THEN @.stop ELSE task[t].out]]
  /\ UNCHANGED <<store, draft, moves>>

-----------------------------------------------------------------------------
(* One cycle of StrategyOptimizer.run_one_cycle, from await to await. *)

To(t, pc) == task' = [task EXCEPT ![t].pc = pc]
NextCycle(t) ==
  task' = [task EXCEPT ![t].pc = "select", ![t].left = @ - 1, ![t].cycle = NoCycle]
\* The task ends; a cancellation that was asked for and not yet delivered turns
\* an ordinary end into a cancelled one, an error stays an error.
Ends(t, out) ==
  task' = [task EXCEPT ![t].pc = "ended", ![t].cycle = NoCycle, ![t].left = 0,
             ![t].out = IF @ = "none" /\ out # "error" /\ task[t].cancel
                        THEN "cancelled" ELSE out]
CancelledUnheard(t) ==
  /\ LoopFree(t) /\ task[t].cancel /\ task[t].pc \in {"new", "llm"}
  /\ Ends(t, "cancelled") /\ UNCHANGED <<store, runtime, draft, moves>>
Cancelled(t) ==
  /\ LoopFree(t) /\ task[t].cancel /\ task[t].pc \in {"new", "fetch", "llm"}
  /\ Ends(t, "cancelled") /\ UNCHANGED <<store, runtime, draft, moves>>

\* The next cycle, up to the download of the bars.
Select(t) ==
  /\ LoopFree(t) /\ task[t].pc \in {"new", "select"}
  /\ task[t].pc = "new" => ~task[t].cancel
  /\ IF task[t].left = 0 \/ Selectable = {}
     THEN Ends(t, "completed")
     ELSE \E n \in Selectable :
            LET lineage == store[n]
                sel == Newest(Candidates(n))
            IN  \E p \in IF Stagnant(lineage) THEN Best(lineage) ELSE {sel} :
        task' = [task EXCEPT ![t].pc = "fetch", ![t].cycle =
                    [name |-> n, parent |-> p, mode |-> Mode(lineage, p # sel),
                     top |-> Len(lineage), tried |-> RejectedMuts(lineage)]]
  /\ UNCHANGED <<store, runtime, draft, moves>>

\* The bars arrived: split, evaluate the parent (its run is saved under a stage
\* that nobody reads), diagnose. Few trades or a converged parent skip the cycle;
\* tuned parameters need no await.
Measure(t) ==
  /\ LoopFree(t) /\ task[t].pc = "fetch" /\ ~task[t].cancel
  /\ To(t, IF task[t].cycle.mode = "tune" THEN "measured" ELSE "llm") \/ NextCycle(t)
  /\ UNCHANGED <<store, runtime, draft, moves>>

\* The download or the LLM fails, or the bars are too few to be split: the
\* exception ends the whole loop. So does a child whose longer warmup leaves too
\* few bars for the folds.
Fails(t) ==
  /\ LoopFree(t)
  /\ task[t].pc = "measured" \/ (task[t].pc \in {"fetch", "llm"} /\ ~task[t].cancel)
  /\ Ends(t, "error") /\ UNCHANGED <<store, runtime, draft, moves>>

\* Novel proposals, of which a tuned cycle takes the first and a bundled
\* hypothesis all; without one, or when the edit changes nothing, no child.
Child(t) == task[t].cycle.top + 1
Novel(t) == Muts \ task[t].cycle.tried
Batches(t) == {b \in SUBSET Novel(t) : task[t].cycle.mode = "tune" => Cardinality(b) <= 1}

\* The child is evaluated and saved under the version after the newest one of
\* the lineage that was read before the awaits.
Save(t) ==
  /\ LoopFree(t)
  /\ task[t].pc = "measured" \/ (task[t].pc = "llm" /\ ~task[t].cancel)
  /\ \E b \in Batches(t) :
       LET n == task[t].cycle.name
           v == Child(t)
       IN
       \/ b = {} /\ NextCycle(t) /\ UNCHANGED store
       \/ /\ b # {} /\ Insertable(n, v)
          /\ \E pool \in {"candidates", "graveyard"} :
               store' = Inserted(n, v, Version(task[t].cycle.parent, pool, b))
          /\ To(t, "saved")
       \/ b # {} /\ ~Insertable(n, v) /\ Ends(t, "error") /\ UNCHANGED store
  /\ UNCHANGED <<runtime, draft, moves>>

\* _persist_validation_runs: in sample, each fold, lockbox.
Persist(t) ==
  /\ task[t].pc = "saved" /\ To(t, "persisted")
  /\ store' = [store EXCEPT ![task[t].cycle.name][Child(t)].evidence = @ \cup Stages]
  /\ UNCHANGED <<runtime, draft, moves>>

\* save_mutation, with the decision that chose the child's pool at the insert.
\* Moves are slash commands, so the child is still there.
Verdict(t) ==
  /\ task[t].pc = "persisted"
  /\ store' = [store EXCEPT ![task[t].cycle.name][Child(t)].verdict =
                 IF store[task[t].cycle.name][Child(t)].pool = "graveyard" THEN "rejected" ELSE "accepted"]
  /\ NextCycle(t)
  /\ UNCHANGED <<runtime, draft, moves>>

-----------------------------------------------------------------------------
(* Users and agents. *)

\* propose_strategy reads the lineage and inserts the next version in a second
\* transaction. The agent's call runs in a thread.
ProposeRead(s, n) ==
  /\ draft[s] = NoDraft /\ Len(store[n]) < MaxVersion
  /\ draft' = [draft EXCEPT ![s] = [name |-> n, version |-> Len(store[n]) + 1]]
  /\ UNCHANGED <<store, task, runtime, moves>>
ProposeInsert(s) ==
  /\ draft[s] # NoDraft /\ draft' = [draft EXCEPT ![s] = NoDraft]
  /\ LET n == draft[s].name
         v == draft[s].version
     IN IF Insertable(n, v)
        THEN store' = Inserted(n, v, Version(v - 1, "candidates", {}))
        ELSE UNCHANGED store
  /\ UNCHANGED <<task, runtime, moves>>

\* move_strategy moves the newest version in the pool the target is reached from.
SourceAny(n, to) == {v \in DOMAIN store[n] : store[n][v].pool # to}
Source(n, to) ==
  LET in(pool) == {v \in DOMAIN store[n] : store[n][v].pool = pool} IN
  CASE to = "active" -> in("candidates")
    [] to = "candidates" -> in("active")
    [] to = "graveyard" -> IF in("active") # {} THEN in("active") ELSE in("candidates")
MoveStrategy(n, to) ==
  /\ Loop /\ Source(n, to) # {} /\ moves < MaxMoves /\ moves' = moves + 1
  /\ store' = [store EXCEPT ![n][Newest(Source(n, to))].pool = to]
  /\ UNCHANGED <<task, runtime, draft>>

\* The daemon is killed and started again: the store is all that is left.
Crash ==
  /\ task # << >> \/ \E s \in Agents : draft[s] # NoDraft
  /\ task' = << >> /\ runtime' = [s \in Sessions |-> Idle] /\ draft' = [s \in Agents |-> NoDraft]
  /\ UNCHANGED <<store, moves>>

-----------------------------------------------------------------------------
LabInit ==
  /\ store = [n \in Names |-> << >>]
  /\ task = << >>
  /\ runtime = [s \in Sessions |-> Idle]
  /\ draft = [s \in Agents |-> NoDraft] /\ moves = 0

TaskStep(t) == \/ Cancelled(t) \/ Select(t) \/ Measure(t) \/ Fails(t)
               \/ Save(t) \/ Persist(t) \/ Verdict(t) \/ Finalize(t)
UserStep ==
  \/ \E s \in Sessions : Start(s) \/ AgentStart(s) \/ Pause(s)
  \/ \E s \in Agents : ProposeInsert(s) \/ \E n \in Names : ProposeRead(s, n)
  \/ \E n \in Names, to \in Pools : MoveStrategy(n, to)
LabNext == UserStep \/ Crash \/ \E t \in Tasks : TaskStep(t)

\* The event loop runs whatever is ready; downloads and LLM calls have timeouts.
LabFairness ==
  \A t \in 1 .. MaxTask : WF_vars(t \in Tasks /\ TaskStep(t))
LabSpec == LabInit /\ [][LabNext]_vars /\ LabFairness

-----------------------------------------------------------------------------
\* What was rejected is not tried again: no version repeats an edit that an
\* earlier version of its lineage has on record as rejected, although the
\* history was read before the awaits and other optimizers and proposals write
\* the same lineage meanwhile (_is_novel_mutation, save_strategy).
RejectionIsRemembered ==
  \A n \in Names : \A v, w \in DOMAIN store[n] :
    v < w /\ store[n][v].verdict = "rejected" => store[n][v].muts \cap store[n][w].muts = {}

\* The store implements the promise of a lineage, whichever optimizers, agents
\* and users write it, and whenever the daemon is killed.
Lineage == INSTANCE StrategyLineage WITH versions <- store
KeepsLineage == Lineage!Spec

\* Every optimizer run ends, and the runtime then says so: after its cycles, at
\* an error or when it is paused (run_loop, _finalize_optimizer_task).
RunsFinish == \A s \in Sessions : Running(s) ~> ~Running(s)
=============================================================================
