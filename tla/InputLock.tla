------------------------------ MODULE InputLock ------------------------------
(***************************************************************************)
(* The per-session input lock of the daemon: ManagedSession.input_lock, an *)
(* asyncio.Lock that run_input enters with "async with" (daemon/server.py).*)
(* The lock itself is library code and is modelled from how the daemon     *)
(* uses it: a flag and a first-in first-out queue of waiting tasks.  A     *)
(* release clears the flag and only wakes the first waiter, which takes    *)
(* the lock in a later step of the event loop, so there is a moment at     *)
(* which locked() is false although somebody is next in line.  A task that *)
(* asks at that moment queues behind the waiter.                           *)
(***************************************************************************)
EXTENDS Sequences

CONSTANTS
  Session,  \* names of the sessions of the daemon
  NoOne     \* the holder of a free lock

VARIABLES
  holder,   \* [Session -> actor or NoOne]: who runs a turn in the session
  waiters   \* [Session -> Seq(actor)]: who waits for the lock, oldest first

lockVars == <<holder, waiters>>

LockInit ==
  /\ holder  = [s \in Session |-> NoOne]
  /\ waiters = [s \in Session |-> <<>>]

\* input_lock.locked()
Locked(s) == holder[s] # NoOne

InLine(s, p) == \E i \in DOMAIN waiters[s] : waiters[s][i] = p

InLineOnce(s) == \A i, k \in DOMAIN waiters[s] : waiters[s][i] = waiters[s][k] => i = k

\* The fast path of acquire(): nobody holds the lock and nobody waits for it.
Uncontended(s) == holder[s] = NoOne /\ waiters[s] = <<>>

\* Mutant of Acquire: whoever finds the lock free takes it, past the woken waiter.
AcquireBarging(s, p) ==
  IF holder[s] = NoOne
  THEN holder' = [holder EXCEPT ![s] = p] /\ UNCHANGED waiters
  ELSE waiters' = [waiters EXCEPT ![s] = Append(@, p)] /\ UNCHANGED holder

\* Enter "async with input_lock": take the lock at once, or join the line.
Acquire(s, p) ==
  IF Uncontended(s)
  THEN holder' = [holder EXCEPT ![s] = p] /\ UNCHANGED waiters
  ELSE waiters' = [waiters EXCEPT ![s] = Append(@, p)] /\ UNCHANGED holder

\* The waiter that was woken takes the lock.
Grant(s) ==
  /\ holder[s] = NoOne
  /\ waiters[s] # <<>>
  /\ holder'  = [holder EXCEPT ![s] = Head(waiters[s])]
  /\ waiters' = [waiters EXCEPT ![s] = Tail(@)]

\* Leave the "async with" block.
Release(s) ==
  /\ holder' = [holder EXCEPT ![s] = NoOne]
  /\ UNCHANGED waiters

\* The process is gone, and its locks with it.
LockReset ==
  /\ holder'  = [s \in Session |-> NoOne]
  /\ waiters' = [s \in Session |-> <<>>]
=============================================================================
