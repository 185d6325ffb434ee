------------------------------ MODULE TurnLoop ------------------------------
(***************************************************************************)
(* What the server and the clients of a session know of its turns and of   *)
(* auto mode (daemon/core.py): while auto mode is on a turn goes on, one   *)
(* run of the agent after the other, each charged to a budget that anybody *)
(* may renew or take away; without a budget it ends with its run.          *)
(***************************************************************************)
EXTENDS Naturals

CONSTANT MaxBudget  \* the largest budget

VARIABLES
  busy,  \* a turn is going on
  on,    \* auto mode
  left,  \* auto_iterations_remaining
  over   \* runs of this turn, or of the last one, that are over

vars == <<busy, on, left, over>>

Init == busy = FALSE /\ on = FALSE /\ left = 0 /\ over = 0

Begin == ~busy /\ busy' = TRUE /\ over' = 0 /\ UNCHANGED <<on, left>>

\* One run is over, and the next one begins.
GoOn == busy /\ on /\ left > 1 /\ left' = left - 1 /\ over' = over + 1 /\ UNCHANGED <<busy, on>>

Off == on' = FALSE /\ left' = 0

\* The turn ends with a run or in the middle of one, and auto mode with it unless it was
\* an exception.
End == busy /\ busy' = FALSE /\ over' \in {over, over + 1} /\ (Off \/ UNCHANGED <<on, left>>)

Start == on' = TRUE /\ left' \in 1 .. MaxBudget /\ UNCHANGED <<busy, over>>

Stop == Off /\ UNCHANGED <<busy, over>>

Next == Begin \/ GoOn \/ End \/ Start \/ Stop

Spec == Init /\ [][Next]_vars
=============================================================================
