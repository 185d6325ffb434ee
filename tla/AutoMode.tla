------------------------------ MODULE AutoMode ------------------------------
(***************************************************************************)
(* A turn in detail: the loop of Session.stream_agent_events               *)
(* (daemon/core.py), the runner's run with its endpoints and its tools     *)
(* (agent/core.py), and the policy that tools are subject to in auto mode  *)
(* (agent/tool_policy.py).  At every await of a run anybody may switch auto*)
(* mode on or off, or switch the model.                                    *)
(*                                                                         *)
(* The runner makes new executors whenever auto mode is switched; a run    *)
(* goes on with those it began with.                                       *)
(***************************************************************************)
EXTENDS Naturals, Sequences, FiniteSets

CONSTANTS
  Call,           \* tool calls: a tool with its input
  NeedsApproval,  \* those whose policy says requires_approval_in_auto
  ReadOnly,       \* those whose policy says read_only
  Text,           \* answers that are not empty
  Continues,      \* those whose AUTO_STATE footer says continue
  Concludes,      \* those whose footer says done or pause
  Fallbacks,      \* length of the chain of fallback endpoints
  BaseLimit,      \* iterations of an executor outside auto mode
  ToolBudget,     \* a scheduled job's tool_budget
  MaxBudget,      \* bound: the largest budget of runs that is asked for
  MaxTurns,       \* bound: turns
  MaxSwitches     \* bound: commands of other clients

NoText == "no text"
Answer == Text \cup {NoText}

ASSUME AutoAssumption ==
  /\ NeedsApproval \subseteq Call /\ ReadOnly \subseteq Call
  /\ Continues \subseteq Text /\ Concludes \subseteq Text \ Continues
  /\ Fallbacks \in Nat
  /\ BaseLimit \in Nat \ {0} /\ ToolBudget \in Nat \ {0} /\ MaxBudget \in Nat \ {0}
  /\ MaxTurns \in Nat /\ MaxSwitches \in Nat
  /\ NoText \notin Text

VARIABLES
  auto,      \* the session's auto mode
  runner,    \* the runner's idea of it, and the limit of its executors
  override,  \* override_max_iterations: the executors it was put on, their limit before
  pc,        \* where the turn is
  run,       \* the run of the agent that is going on
  seen,      \* the loop's locals: last_final_text, consecutive_no_tool_turns, ...
  past,      \* history: the runs of this turn that are over
  reason,    \* history: why the loop stopped auto mode
  turns, switches

modes == <<auto, runner, override>>
counters == <<turns, switches>>
vars == <<modes, pc, run, seen, past, reason, counters>>

-----------------------------------------------------------------------------
NoCalls == [c \in Call |-> 0]

\* Mutant of Set: the run that begins is charged already.
SetCharged(readonly, n) == [on |-> TRUE, readonly |-> readonly, left |-> n, limit |-> n - 1]

\* set_auto_mode, which makes new executors with _current_max_iterations.
Set(readonly, n) == [on |-> TRUE, readonly |-> readonly, left |-> n, limit |-> n]
Unset == [on |-> FALSE, readonly |-> FALSE, left |-> 0, limit |-> BaseLimit]

\* _current_max_iterations
CurrentLimit == IF runner.on THEN runner.left ELSE BaseLimit

\* An override sticks to the executors it was put on: "ours" are the runner's.
NoOverride == [on |-> "none", was |-> BaseLimit]
Outdated(o) == [o EXCEPT !.on = IF @ = "none" THEN "none" ELSE "old"]

\* The end of override_max_iterations; old executors are of no interest any more.
Restored == IF override.on = "ours" THEN [runner EXCEPT !.limit = override.was] ELSE runner

Off == [on |-> FALSE, readonly |-> FALSE, left |-> 0]

\* last_final_text, consecutive_no_tool_turns, repeated_tool_calls
Fresh == [text |-> NoText, idle |-> 0, calls |-> NoCalls]

NoRun == [auto |-> FALSE, hidden |-> FALSE, limit |-> BaseLimit, used |-> 0,
          fallbacks |-> 0, calls |-> NoCalls, text |-> NoText]

Init ==
  /\ auto = Off /\ runner = Unset /\ override = NoOverride
  /\ pc = "idle" /\ run = NoRun
  /\ seen = Fresh /\ past = <<>> /\ reason = "none"
  /\ turns = 0 /\ switches = 0

-----------------------------------------------------------------------------
(* What clients can switch, at any time.                                    *)

Switch ==
  /\ switches < MaxSwitches
  /\ switches' = switches + 1
  /\ UNCHANGED <<pc, run, seen, past, reason, turns>>

\* "/auto N" and "/auto readonly N": start_auto_mode.
Start(n, readonly) ==
  /\ Switch
  /\ auto' = [on |-> TRUE, readonly |-> readonly, left |-> n]
  /\ runner' = Set(readonly, n)
  /\ override' = Outdated(override)

\* Mutant of StopAuto: the runner keeps its limit.
StopAutoKeepsLimit ==
  /\ auto' = Off
  /\ runner' = [Unset EXCEPT !.limit = runner.limit]
  /\ override' = Outdated(override)

\* stop_auto_mode
StopAuto ==
  /\ auto' = Off
  /\ runner' = Unset
  /\ override' = Outdated(override)

\* "/auto off", or a client that leaves.
Stop == Switch /\ auto.on /\ StopAuto

\* reload_llm, when the model is switched: new executors, too.
Reload ==
  /\ Switch
  /\ runner' = [runner EXCEPT !.limit = CurrentLimit]
  /\ override' = Outdated(override)
  /\ UNCHANGED auto

-----------------------------------------------------------------------------
(* The beginning of a run.                                                  *)

\* In auto mode the runner is told the budget that is left, by which it gets new
\* executors; the run begins with those the runner has.
BeginRun(mode, r, o, hidden) ==
  LET new == IF mode.on THEN Set(mode.readonly, mode.left) ELSE r IN
  /\ runner' = new
  /\ override' = IF mode.on THEN Outdated(o) ELSE o
  /\ run' = [auto |-> mode.on, hidden |-> hidden, limit |-> new.limit, used |-> 0,
             fallbacks |-> Fallbacks, calls |-> NoCalls, text |-> NoText]
  /\ pc' = "running"

\* stream_agent_events begins, for a client or for a job with a tool budget.
BeginTurn(limit, o) ==
  /\ pc = "idle"
  /\ turns < MaxTurns
  /\ turns' = turns + 1
  /\ BeginRun(auto, [runner EXCEPT !.limit = limit], o, FALSE)
  /\ seen' = Fresh /\ past' = <<>> /\ reason' = "none"
  /\ UNCHANGED <<auto, switches>>

UserInput == BeginTurn(runner.limit, NoOverride)

JobInput == BeginTurn(ToolBudget, [on |-> "ours", was |-> runner.limit])

-----------------------------------------------------------------------------
(* The end of a run, as the loop sees it.                                   *)

\* The turn is over and leaves the runner as r.
EndTurn(r) ==
  /\ runner' = r
  /\ override' = NoOverride
  /\ pc' = "idle" /\ run' = NoRun /\ seen' = Fresh
  /\ UNCHANGED counters

\* Mutant of Noted: the count of runs without a tool starts at one again.
NotedIdle(text) ==
  [text |-> IF text = NoText THEN seen.text ELSE text,
   idle |-> IF run.calls = NoCalls THEN seen.idle + 1 ELSE 1,
   calls |-> [c \in Call |-> seen.calls[c] + run.calls[c]]]

\* What the loop remembers when the run is over.
Noted(text) ==
  [text |-> IF text = NoText THEN seen.text ELSE text,
   idle |-> IF run.calls = NoCalls THEN seen.idle + 1 ELSE 0,
   calls |-> [c \in Call |-> seen.calls[c] + run.calls[c]]]

Repeats(text) ==
  \/ text # NoText /\ text = seen.text
  \/ Noted(text).idle >= 2
  \/ \E c \in Call : run.calls[c] > 0 /\ Noted(text).calls[c] >= 3

\* Mutant of Charged: a run without a tool is free.
ChargedForTools == IF run.calls = NoCalls THEN auto.left ELSE auto.left - 1

\* The run is charged to the budget.
Charged == auto.left - 1

\* Why the loop stops auto mode, "none" if it goes on: the conditions in their order.
Why(text, blocked, late) ==
  CASE blocked -> "blocked"
    [] ~blocked /\ text \in Concludes -> "footer"
    [] ~blocked /\ text \notin Concludes /\ Charged = 0 -> "budget"
    [] ~blocked /\ text \notin Concludes /\ Charged # 0 /\ late -> "clock"
    [] OTHER -> IF Repeats(text) THEN "loop"
                ELSE IF text \notin Continues THEN "no footer" ELSE "none"

RunEnds(text, blocked, late) ==
  LET why == Why(text, blocked, late) IN
  /\ past' = Append(past, [text |-> text, calls |-> run.calls])
  /\ \/ /\ ~auto.on
        /\ EndTurn(Restored)
        /\ UNCHANGED <<auto, reason>>
     \/ /\ auto.on /\ why # "none"
        /\ auto' = Off
        /\ reason' = why
        /\ EndTurn(Unset)
     \/ /\ auto.on /\ why = "none"
        /\ auto' = [auto EXCEPT !.left = Charged]
        /\ seen' = Noted(text)
        /\ BeginRun([auto EXCEPT !.left = Charged], runner, override, TRUE)
        /\ UNCHANGED <<reason, counters>>

-----------------------------------------------------------------------------
(* A run of the agent.                                                      *)

Goes(new, next) ==
  /\ run' = new
  /\ pc' = next
  /\ UNCHANGED <<modes, seen, past, reason, counters>>

\* _check_tool_allowed, at the call.
Allowed(c) == runner.on => c \notin NeedsApproval /\ (runner.readonly => c \in ReadOnly)

\* An iteration of the executor calls a tool.
CallsTool(c, next) ==
  /\ pc = "running" /\ run.used < run.limit
  /\ Goes([run EXCEPT !.used = @ + 1, !.calls[c] = @ + 1], next)

ToolRuns(c) == Allowed(c) /\ CallsTool(c, "running")

\* The RuntimeError is on its way through the executor.
ToolIsBlocked(c) == ~Allowed(c) /\ CallsTool(c, "raising")

\* The answer.  To an input that is not a continuation it is also published on the bus,
\* which is awaited.
Answered(text) ==
  IF run.hidden
  THEN \E late \in BOOLEAN : RunEnds(text, FALSE, late)
  ELSE Goes([run EXCEPT !.text = text], "publishing")

Answers(text) == pc = "running" /\ Answered(text)

Published ==
  /\ pc = "publishing"
  /\ \E late \in BOOLEAN : RunEnds(run.text, FALSE, late)

\* Mutant of NextEndpoint: the chain is not used up.
NextEndpointAgain ==
  Goes([run EXCEPT !.used = 0, !.calls = NoCalls], "running")

\* The next endpoint of the chain gets the same input; after the last one the answer is
\* what there is of one, if anything, or an error message.
NextEndpoint ==
  IF run.fallbacks > 0
  THEN Goes([run EXCEPT !.used = 0, !.fallbacks = @ - 1], "running")
  ELSE \E text \in Answer : Answered(text)

EndpointFails == pc = "running" /\ NextEndpoint

\* A blocked tool ends the run if auto mode is on by the time its error arrives; it is a
\* failure of the endpoint otherwise.
Raised ==
  /\ pc = "raising"
  /\ IF runner.on THEN RunEnds(NoText, TRUE, FALSE) ELSE NextEndpoint

\* CancelledError: run_input stops auto mode.
Cancelled ==
  /\ pc # "idle"
  /\ auto' = Off
  /\ EndTurn(IF auto.on THEN Unset ELSE Restored)
  /\ UNCHANGED <<past, reason>>

\* Another exception ends the turn only.
Fails ==
  /\ pc # "idle"
  /\ EndTurn(Restored)
  /\ UNCHANGED <<auto, past, reason>>

RunStep ==
  \/ \E c \in Call : ToolRuns(c) \/ ToolIsBlocked(c)
  \/ \E text \in Text : Answers(text)
  \/ EndpointFails \/ Raised \/ Published

Next ==
  \/ UserInput \/ JobInput
  \/ RunStep \/ Cancelled \/ Fails
  \/ \E n \in 1 .. MaxBudget, readonly \in BOOLEAN : Start(n, readonly)
  \/ Stop \/ Reload

Spec == Init /\ [][Next]_vars

\* The model and the tools answer in the end (they have time-outs).
FairSpec == Spec /\ WF_vars(RunStep)

-----------------------------------------------------------------------------
(* Properties.                                                              *)

Budget == 0 .. MaxBudget
Limit == Nat \ {0}

TypeOK ==
  /\ auto \in [on : BOOLEAN, readonly : BOOLEAN, left : Budget]
  /\ runner \in [on : BOOLEAN, readonly : BOOLEAN, left : Budget, limit : Limit]
  /\ override \in [on : {"none", "ours", "old"}, was : Limit]
  /\ pc \in {"idle", "running", "raising", "publishing"}
  /\ run \in [auto : BOOLEAN, hidden : BOOLEAN, limit : Limit, used : Nat, fallbacks : Nat,
              calls : [Call -> Nat], text : Answer]
  /\ seen \in [text : Answer, idle : Nat, calls : [Call -> Nat]]
  /\ past \in Seq([text : Answer, calls : [Call -> Nat]])
  /\ reason \in {"none", "blocked", "footer", "budget", "clock", "loop", "no footer"}
  /\ turns \in Nat /\ switches \in Nat

\* The runner, whose policy decides on tools, knows the session's auto mode; its
\* executors have the limit of its mode except while a job's override is on them, and
\* the override's end will bring that limit back, whoever switched what meanwhile.
RunnerInStep ==
  /\ runner.on = auto.on /\ runner.readonly = auto.readonly
  /\ CurrentLimit = IF override.on = "ours" THEN override.was ELSE runner.limit
  /\ pc = "idle" => override.on = "none"

\* A turn whose runs are these goes round in circles: an answer comes twice in a row, two
\* runs in a row call no tool, or a tool is called three times with the same input.
SameAnswer(runs) == \E i \in 2 .. Len(runs) : runs[i].text = runs[i - 1].text
NoTools(runs) ==
  \E i \in 2 .. Len(runs) : runs[i].calls = NoCalls /\ runs[i - 1].calls = NoCalls
CallsOf(runs, c) == UNION {{i} \X (1 .. runs[i].calls[c]) : i \in DOMAIN runs}
SameCall(runs) == \E c \in Call : Cardinality(CallsOf(runs, c)) >= 3

Circles(runs) == SameAnswer(runs) \/ NoTools(runs) \/ SameCall(runs)

\* The loop, which looks at one run at a time, finds circles when and only when there are
\* some in the turn as a whole: it never goes on with one, and never stops for none.
CirclesAreFound ==
  /\ pc # "idle" => ~Circles(past)
  /\ reason = "loop" => Circles(past)

\* The loop keeps within the budget that the session's clients know of.
Loop == INSTANCE TurnLoop WITH busy <- pc # "idle", on <- auto.on,
                              left <- auto.left,
                              over <- Len(past)

LoopAsPromised == Loop!Spec

\* A turn ends: its runs are limited by the iterations of the executors and by the chain
\* of endpoints, the loop by its budget, as long as nobody renews it for ever.
TurnsEnd == pc # "idle" ~> pc = "idle"
=============================================================================
