-------------------------------- MODULE ToolLog --------------------------------
(***************************************************************************)
(* What agent-kai records of a sub-agent's run (agent/learning.py): the    *)
(* calls of tools, which start and end in any order, for the mentor and    *)
(* for the hint that /learn might be worth it (tui/terminal.py).           *)
(***************************************************************************)
EXTENDS Integers, Sequences, FiniteSets

CONSTANTS MaxTools,  \* bound: tool calls of a run
          Nudge      \* NUDGE_THRESHOLD

Tools == 1 .. MaxTools
ASSUME ToolLogAssumption == MaxTools \in Nat /\ Nudge \in Nat

VARIABLES
  named,     \* the library names its runs (run_id); tests do not
  records,   \* ToolCallRecorder.calls
  byRun,     \* _by_run_id: tool call -> its place in records, 0 for none
  fallback,  \* _fallback_idx
  tool,      \* tool call -> what it is: "create" a skill, or "other"
  result     \* tool call -> "new", "running", "done", "refused" or "raised"
logvars == <<named, records, byRun, fallback, tool, result>>

\* The calls of a run start in some order, possibly several at once.
Starts0(t) ==
  /\ result[t] = "new" /\ (\A u \in Tools : u < t => result[u] # "new")
  /\ result' = [result EXCEPT ![t] = "running"]
  /\ records' = Append(records, [of |-> t, output |-> 0, error |-> FALSE])
  /\ IF named THEN byRun' = [byRun EXCEPT ![t] = Len(records')] /\ UNCHANGED fallback
     ELSE fallback' = Append(fallback, Len(records')) /\ UNCHANGED byRun
  /\ UNCHANGED <<named, tool>>

\* _resolve_index: the record of a call that ends.
LatestIndex(t) == Len(records)
Index(t) == IF named THEN byRun[t] ELSE Head(fallback)
\* A tool that answers with an error does not raise one.
Finishes(t, r) ==
  /\ result[t] = "running" /\ result' = [result EXCEPT ![t] = r]
  /\ records' = [records EXCEPT ![Index(t)].output = t, ![Index(t)].error = (r = "raised")]
  /\ IF named THEN byRun' = [byRun EXCEPT ![t] = 0] /\ UNCHANGED fallback
     ELSE fallback' = Tail(fallback) /\ UNCHANGED byRun
  /\ UNCHANGED <<named, tool>>

\* An error of a call that never started, such as one with arguments that do not fit.
Unstarted0(t) ==
  /\ result[t] = "new" /\ named /\ (\A u \in Tools : u < t => result[u] # "new")
  /\ result' = [result EXCEPT ![t] = "raised"]
  /\ records' = Append(records, [of |-> 0, output |-> t, error |-> TRUE])
  /\ UNCHANGED <<named, byRun, fallback, tool>>

\* skill_was_created and _maybe_nudge.
SkillWasCreated == \E k \in DOMAIN records : LET c == records[k] IN
                     c.of # 0 /\ tool[c.of] = "create" /\ ~c.error
Hint == Len(records) >= Nudge /\ ~SkillWasCreated

LogInit ==
  /\ named \in BOOLEAN /\ records = << >> /\ byRun = [t \in Tools |-> 0] /\ fallback = << >>
  /\ tool \in [Tools -> {"create", "other"}] /\ result = [t \in Tools |-> "new"]
LogNext ==
  \E t \in Tools : Starts0(t) \/ Unstarted0(t) \/ \E r \in {"done", "refused", "raised"} : Finishes(t, r)
LogSpec == LogInit /\ [][LogNext]_logvars

-----------------------------------------------------------------------------
\* "The output from tool B would end up glued onto tool A's record": however the calls
\* overlap, each has one record, in the order of their starts, with its own output and
\* outcome; and no hint is given for a run that made a skill.
RecordsAreTrue ==
  named =>
    /\ \A i, j \in DOMAIN records : i < j /\ records[i].of # 0 /\ records[j].of # 0 => records[i].of < records[j].of
    /\ \A k \in DOMAIN records : LET c == records[k] IN
         /\ c.of # 0 => c.output = IF result[c.of] = "running" THEN 0 ELSE c.of
         /\ c.error = (c.output # 0 /\ result[c.output] = "raised")
    /\ Len(records) = Cardinality({t \in Tools : result[t] # "new"})
    /\ (\E t \in Tools : tool[t] = "create" /\ result[t] = "done") => ~Hint
=============================================================================
