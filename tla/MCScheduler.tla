----------------------------- MODULE MCScheduler -----------------------------
(* Small instances of Scheduler: one absolute, one cron and one event job. *)
EXTENDS Scheduler

CONSTANTS a, c, e, s1

MCJobType == [j \in Job |-> IF j = a THEN "absolute" ELSE IF j = c THEN "cron" ELSE "event"]
MCOwner == [j \in Job |-> s1]
MCMaxRuns == [j \in Job |-> IF j = a THEN 1 ELSE IF j = c THEN 0 ELSE 2]
MCAt == [j \in Job |-> 1]
=============================================================================
