------------------------------- MODULE OneShot -------------------------------
(***************************************************************************)
(* What the scheduler promises about a job with an absolute time, whatever *)
(* operators, restarts and clocks do: its durable life only moves forward. *)
(* It is created once, waits (active or paused), and is retired for good;  *)
(* it is completed at most once, and never comes back from retirement.     *)
(* The daemon changes several jobs in one step when it recovers, so a step *)
(* moves every job at once, each along its own life.                       *)
(***************************************************************************)
EXTENDS Naturals

CONSTANT OneShotJob

VARIABLES life, runs

Waiting == {"active", "paused"}
Retired == {"completed", "failed", "cancelled"}
Life    == {"unborn", "removed"} \cup Waiting \cup Retired

Init ==
  /\ life = [j \in OneShotJob |-> "unborn"]
  /\ runs = [j \in OneShotJob |-> 0]

Moves(from, to) ==
  \/ from = to
  \/ from = "unborn" /\ to = "active"
  \/ from = "active" /\ to \in {"paused", "removed"} \cup Retired
  \/ from = "paused" /\ to \in {"active", "cancelled", "removed"}
  \/ from \in Retired /\ to \in {"removed"} \cup Retired

\* A completed run is counted when, and only when, the job enters "completed"
\* with no run behind it.
Counts(j) ==
  \/ runs'[j] = runs[j]
  \/ runs[j] = 0 /\ runs'[j] = 1 /\ life[j] # "completed" /\ life'[j] = "completed"
  \/ life'[j] = "removed" /\ runs'[j] = 0

Next ==
  /\ life' \in [OneShotJob -> Life]
  /\ runs' \in [OneShotJob -> 0 .. 1]
  /\ \A j \in OneShotJob : Moves(life[j], life'[j]) /\ Counts(j)

Spec == Init /\ [][Next]_<<life, runs>>
=============================================================================
