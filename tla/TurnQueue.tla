------------------------------ MODULE TurnQueue ------------------------------
(***************************************************************************)
(* What a session promises to whoever talks to it (run_input,              *)
(* daemon/server.py): inputs are served one at a time, in the order in     *)
(* which they came; nobody overtakes, and nobody is dropped while waiting. *)
(***************************************************************************)
EXTENDS Sequences

CONSTANT Actor  \* whoever can give a session an input: clients and jobs

VARIABLE line   \* the one that is being served, and behind it those who wait

Init == line = <<>>

Waits(a) == \E i \in DOMAIN line : line[i] = a

\* An input comes.  Nobody has two of them in one session at a time.
Join(a) == ~Waits(a) /\ line' = Append(line, a)

\* The turn of the first one is over: finished, failed or stopped.
Served == line # <<>> /\ line' = Tail(line)

Next == Served \/ \E a \in Actor : Join(a)

Spec == Init /\ [][Next]_line
=============================================================================
