---------------------------- MODULE DaemonControl ----------------------------
(***************************************************************************)
(* kaictl and the terminal's auto-start (daemon/control.py): processes     *)
(* that start, stop and look at the one local daemon, through its health   *)
(* endpoint, a pid file and signals. Each call to the operating system is  *)
(* a step; the commands take no lock.                                      *)
(***************************************************************************)
EXTENDS Integers, Sequences, FiniteSets

CONSTANTS Callers,    \* processes that run a command: kaictl, or a terminal that stays
          Terminals,  \* those that stay, and so stay the parent of what they started
          AtOnce,     \* bound: commands under way at once
          MaxSpawns,  \* bound: daemons ever started
          MaxCommands \* bound: commands ever given
ASSUME ControlAssumption ==
  /\ Terminals \subseteq Callers /\ IsFiniteSet(Callers)
  /\ {AtOnce, MaxSpawns, MaxCommands} \subseteq Nat

VARIABLES daemons,  \* the processes started: [st, parent]
          pidFile,  \* kaid.pid: a process, or 0
          command,  \* caller -> [at, pid]: where its command is and the process it has in hand
          answer,   \* caller -> what its last command said
          given     \* commands so far
controlvars == <<daemons, pidFile, command, answer, given>>

\* A process that ended is there, as a zombie, until its parent reaps it or ends.
States == {"starting", "serving", "stopping", "zombie", "gone"}
Alive(p) == daemons[p].st \in {"starting", "serving", "stopping"}
PidIsRunning(p) == daemons[p].st # "gone"
Healthy == \E p \in DOMAIN daemons : daemons[p].st = "serving"
EndOf(p) == IF daemons[p].parent \in Terminals THEN "zombie" ELSE "gone"
With(p, st) == [daemons EXCEPT ![p].st = st]

Busy == {c \in Callers : command[c].at # "idle"}
Goes(c, at, p) == command' = [command EXCEPT ![c] = [at |-> at, pid |-> p]] /\ UNCHANGED <<answer, given>>
Says(c, said) ==
  /\ command' = [command EXCEPT ![c] = [at |-> "idle", pid |-> 0]]
  /\ answer' = [answer EXCEPT ![c] = said] /\ UNCHANGED given

-----------------------------------------------------------------------------
(* start_local_daemon and get_daemon_status. *)

Asks(c, at) ==
  /\ c \notin Busy /\ Cardinality(Busy) < AtOnce /\ given < MaxCommands /\ given' = given + 1
  /\ command' = [command EXCEPT ![c] = [at |-> at, pid |-> 0]]
  /\ UNCHANGED <<daemons, pidFile, answer>>

CheckHealth(c) ==
  /\ command[c].at = "start" /\ Goes(c, IF Healthy THEN "look" ELSE "spawn", 0)
  /\ UNCHANGED <<daemons, pidFile>>

\* A daemon answers already, or the user asks for its status: a pid file that names
\* no process is removed.
LookAtPid(c) ==
  /\ command[c].at = "look"
  /\ IF pidFile # 0 /\ ~PidIsRunning(pidFile) THEN Goes(c, "clear", pidFile) ELSE Says(c, "looked")
  /\ UNCHANGED <<daemons, pidFile>>
ClearStale(c) ==
  /\ command[c].at = "clear" /\ pidFile' = 0 /\ Says(c, "looked") /\ UNCHANGED daemons

Spawn(c) ==
  /\ command[c].at = "spawn" /\ Len(daemons) < MaxSpawns
  /\ daemons' = Append(daemons, [st |-> "starting", parent |-> c])
  /\ Goes(c, "wait", Len(daemons) + 1) /\ UNCHANGED pidFile

\* wait_for_daemon_health asks whether a daemon answers before it asks whether its own
\* process still runs; process.poll() reaps it.
WaitForHealth(c) ==
  LET p == command[c].pid IN
  /\ command[c].at = "wait"
  /\ \/ Healthy /\ Goes(c, "write", p) /\ UNCHANGED daemons
     \/ ~Healthy /\ ~Alive(p) /\ Says(c, "start failed") /\ daemons' = With(p, "gone")
  /\ UNCHANGED pidFile

\* The start takes too long: _terminate_process ends the process and waits for it.
StartTimeoutLeaves(c) ==
  /\ command[c].at = "wait"
  /\ Says(c, "start failed") /\ UNCHANGED <<daemons, pidFile>>
StartTimeout(c) ==
  /\ command[c].at = "wait"
  /\ Says(c, "start failed") /\ daemons' = With(command[c].pid, "gone") /\ UNCHANGED pidFile
WritePid(c) ==
  /\ command[c].at = "write" /\ pidFile' = command[c].pid /\ Says(c, "started")
  /\ UNCHANGED daemons

-----------------------------------------------------------------------------
(* stop_local_daemon: SIGTERM, a wait, SIGKILL, a wait. *)

ReadPid(c) ==
  /\ command[c].at = "stop"
  /\ IF pidFile = 0 THEN Says(c, IF Healthy THEN "not managed" ELSE "already stopped") /\ UNCHANGED daemons
     ELSE IF PidIsRunning(pidFile)
     THEN /\ Goes(c, "term", pidFile)
          /\ daemons' = With(pidFile, IF Alive(pidFile) THEN "stopping" ELSE daemons[pidFile].st)
     ELSE Goes(c, "stale", pidFile) /\ UNCHANGED daemons
  /\ UNCHANGED pidFile
RemoveStale(c) ==
  /\ command[c].at = "stale" /\ pidFile' = 0 /\ Says(c, "already stopped") /\ UNCHANGED daemons

SeesItEnd(c) ==
  /\ command[c].at \in {"term", "kill"} /\ ~PidIsRunning(command[c].pid)
  /\ Goes(c, "forget", command[c].pid) /\ UNCHANGED <<daemons, pidFile>>
ForgetPid(c) ==
  /\ command[c].at = "forget" /\ pidFile' = 0 /\ Says(c, "stopped") /\ UNCHANGED daemons
StopTimeout(c) ==
  LET p == command[c].pid IN
  /\ \/ command[c].at = "term" /\ Goes(c, "kill", p)
          /\ daemons' = With(p, IF Alive(p) THEN EndOf(p) ELSE daemons[p].st)
     \/ command[c].at = "kill" /\ PidIsRunning(p) /\ Says(c, "stop failed") /\ UNCHANGED daemons
  /\ UNCHANGED pidFile

-----------------------------------------------------------------------------
(* The daemons, and terminals that end. *)

\* uvicorn binds the one port, or the process ends because another has it.
Binds(p) ==
  /\ daemons[p].st = "starting" /\ daemons' = With(p, IF Healthy THEN EndOf(p) ELSE "serving")
  /\ UNCHANGED <<pidFile, command, answer, given>>
Dies(p) ==
  /\ Alive(p) /\ daemons' = With(p, EndOf(p))
  /\ UNCHANGED <<pidFile, command, answer, given>>
\* What a terminal started is another's child once it has ended.
TerminalEnds(c) ==
  /\ c \in Terminals \ Busy /\ \E p \in DOMAIN daemons : daemons[p].parent = c
  /\ daemons' = [p \in DOMAIN daemons |->
                   IF daemons[p].parent # c THEN daemons[p]
                   ELSE [st |-> IF Alive(p) THEN daemons[p].st ELSE "gone", parent |-> "init"]]
  /\ UNCHANGED <<pidFile, command, answer, given>>

-----------------------------------------------------------------------------
ControlInit ==
  /\ daemons = << >> /\ pidFile = 0 /\ given = 0
  /\ command = [c \in Callers |-> [at |-> "idle", pid |-> 0]]
  /\ answer = [c \in Callers |-> "nothing yet"]
ControlNext ==
  \/ \E c \in Callers :
       \/ \E at \in {"start", "stop", "look"} : Asks(c, at)
       \/ CheckHealth(c) \/ LookAtPid(c) \/ ClearStale(c) \/ Spawn(c) \/ WaitForHealth(c)
       \/ StartTimeout(c) \/ WritePid(c) \/ ReadPid(c) \/ RemoveStale(c) \/ SeesItEnd(c)
       \/ ForgetPid(c) \/ StopTimeout(c) \/ TerminalEnds(c)
  \/ \E p \in DOMAIN daemons : Binds(p) \/ Dies(p)
ControlSpec == ControlInit /\ [][ControlNext]_controlvars

-----------------------------------------------------------------------------
\* When no command is under way at most one daemon lives, and it is the one that the pid
\* file names; and a command that has just said that the daemon is stopped, or was
\* stopped already, leaves none: for commands given one after the other, whatever daemons
\* do meanwhile and whoever is their parent.
OneDaemonManaged ==
  AtOnce = 1 =>
    /\ Busy = {} => \A p \in DOMAIN daemons : Alive(p) => p = pidFile
    /\ \A c \in Busy : command[c].at \in {"stale", "forget"} => \A p \in DOMAIN daemons : ~Alive(p)
=============================================================================
