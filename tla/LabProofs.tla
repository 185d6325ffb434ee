------------------------------ MODULE LabProofs ------------------------------
(***************************************************************************)
(* Theorems about StrategyLab, for any sessions, agents, lineages, edits   *)
(* and bounds: what was rejected is not tried again, and the store keeps   *)
(* the promise of StrategyLineage; about Backtest, for any bars,           *)
(* strategies and divisions: the executor makes the reference's trades;    *)
(* and about CandlePages, for any history and query: what is fetched is    *)
(* what there was.                                                         *)
(***************************************************************************)
EXTENDS StrategyLab, Backtest, CandlePages, FiniteSetTheorems, SequenceTheorems, WellFoundedInduction, TLAPS

-----------------------------------------------------------------------------
\* A lineage's versions have a newest.
LEMMA NewestIs ==
  ASSUME NEW n \in Nat, NEW V \in SUBSET (1 .. n), V # {}
  PROVE  Newest(V) \in V /\ \A w \in V : w <= Newest(V)
<1> DEFINE T == {n - v : v \in V}
<1>1. T \subseteq Nat /\ T # {}
  <2>1. \A v \in V : n - v \in Nat
    OBVIOUS
  <2>2. PICK v \in V : TRUE
    OBVIOUS
  <2>3. n - v \in T
    OBVIOUS
  <2>4. QED
    BY <2>1, <2>3
<1>2. PICK x \in T : \A y \in T : <<y, x>> \notin OpToRel(<, Nat)
  BY <1>1, NatLessThanWellFounded, WFMin, Zenon
<1>3. \A y \in T : ~(y < x)
  BY <1>1, <1>2, Zenon DEF OpToRel
<1>4. PICK v \in V : x = n - v
  OBVIOUS
<1>5. \A w \in V : w <= v
  <2> TAKE w \in V
  <2>1. n - w \in T
    OBVIOUS
  <2>2. ~(n - w < n - v)
    BY <1>3, <1>4, <2>1
  <2>3. n \in Int /\ v \in Int /\ w \in Int
    OBVIOUS
  <2>4. QED
    BY <2>2, <2>3
<1>6. QED
  BY <1>5 DEF Newest
-----------------------------------------------------------------------------
(* The invariant. *)

Record == [parent : Nat, pool : Pools, muts : SUBSET Muts, evidence : SUBSET Stages,
           verdict : {"none", "accepted", "rejected"}]
Cycle == [name : Names, parent : Nat, mode : {"tune", "structural"}, top : Nat,
          tried : SUBSET Muts]
Run == [session : Sessions,
        pc : {"new", "select", "fetch", "measured", "llm", "saved", "persisted", "ended"},
        out : {"none", "completed", "error", "cancelled", "final"}, cancel : BOOLEAN,
        left : Int, cycle : Cycle]
LabTyped ==
  /\ store \in [Names -> Seq(Record)] /\ task \in Seq(Run)
  /\ draft \in [Agents -> [name : Names, version : Nat]]

\* What a task r in a cycle knows of its lineage s: the rejected edits up to the version
\* that was the newest when it read them; while it judges its child, which is the next
\* one, whatever follows edits nothing.
InCycle(r) == r.pc \in {"fetch", "measured", "llm", "saved", "persisted"}
Reads(r) == r.pc \in {"fetch", "measured", "llm"}
Judges(r) == r.pc \in {"saved", "persisted"}
Informed(r, s) ==
  /\ InCycle(r) => r.cycle.top <= Len(s) /\ r.cycle.parent <= Len(s)
  /\ Reads(r) => \A v \in DOMAIN s :
       v <= r.cycle.top /\ s[v].verdict = "rejected" => s[v].muts \subseteq r.cycle.tried
  /\ Judges(r) =>
       /\ r.cycle.top + 1 \in DOMAIN s /\ s[r.cycle.top + 1].verdict = "none"
       /\ r.pc = "persisted" => Stages \subseteq s[r.cycle.top + 1].evidence
       /\ \A v \in DOMAIN s : v > r.cycle.top + 1 => s[v].muts = {}
\* Two tasks: one of them at most holds the event loop, and who judges a child does so
\* after all the other has read.
Apart(r, q) ==
  /\ ~(r.pc \in Holding /\ q.pc \in Holding)
  /\ Judges(q) /\ InCycle(r) /\ r.cycle.name = q.cycle.name => r.cycle.top <= q.cycle.top
Remembers(s) ==
  \A v, w \in DOMAIN s : v < w /\ s[v].verdict = "rejected" => s[v].muts \cap s[w].muts = {}
LabInv ==
  /\ LabTyped
  /\ \A t \in Tasks : Informed(task[t], store[task[t].cycle.name])
  /\ \A t, u \in Tasks : t # u => Apart(task[t], task[u])
  /\ \A n \in Names : Remembers(store[n])

-----------------------------------------------------------------------------
(* Sequences of versions. *)

\* A version is added that nobody has judged.
LEMMA Added ==
  ASSUME NEW s \in Seq(Record), NEW x \in Record
  PROVE  /\ Append(s, x) \in Seq(Record) /\ Len(Append(s, x)) = Len(s) + 1
         /\ DOMAIN Append(s, x) = 1 .. Len(s) + 1 /\ DOMAIN s = 1 .. Len(s)
         /\ \A v \in DOMAIN s : Append(s, x)[v] = s[v]
         /\ Append(s, x)[Len(s) + 1] = x
  OBVIOUS

LEMMA AddedInformed ==
  ASSUME NEW s \in Seq(Record), NEW x \in Record, NEW r \in Run,
         Informed(r, s), x.verdict = "none", Judges(r) => x.muts = {}
  PROVE  Informed(r, Append(s, x))
<1> DEFINE z == Append(s, x)
<1>0. /\ DOMAIN z = 1 .. Len(s) + 1 /\ DOMAIN s = 1 .. Len(s) /\ Len(s) \in Nat
      /\ Len(z) = Len(s) + 1
      /\ \A v \in DOMAIN s : z[v] = s[v]
      /\ z[Len(s) + 1] = x
  BY Added
<1>1. r.cycle.top \in Nat /\ r.cycle.parent \in Nat
  BY DEF Run, Cycle
<1> HIDE DEF z
<1>2. InCycle(r) => r.cycle.top <= Len(z) /\ r.cycle.parent <= Len(z)
  BY <1>0, <1>1 DEF Informed
<1>3. ASSUME Reads(r), NEW v \in DOMAIN z, v <= r.cycle.top, z[v].verdict = "rejected"
      PROVE  z[v].muts \subseteq r.cycle.tried
  BY <1>0, <1>3 DEF Informed
<1>4. ASSUME Judges(r)
      PROVE  /\ r.cycle.top + 1 \in DOMAIN z /\ z[r.cycle.top + 1].verdict = "none"
             /\ r.pc = "persisted" => Stages \subseteq z[r.cycle.top + 1].evidence
             /\ \A v \in DOMAIN z : v > r.cycle.top + 1 => z[v].muts = {}
  BY <1>0, <1>4 DEF Informed
<1>5. Informed(r, z)
  BY <1>2, <1>3, <1>4 DEF Informed
<1>6. QED
  BY <1>5 DEF z

LEMMA AddedRemembers ==
  ASSUME NEW s \in Seq(Record), NEW x \in Record,
         Remembers(s), x.verdict = "none",
         \A v \in DOMAIN s : s[v].verdict = "rejected" => s[v].muts \cap x.muts = {}
  PROVE  Remembers(Append(s, x))
<1> DEFINE z == Append(s, x)
<1>0. /\ DOMAIN z = 1 .. Len(s) + 1 /\ DOMAIN s = 1 .. Len(s) /\ Len(s) \in Nat
      /\ \A v \in DOMAIN s : z[v] = s[v]
      /\ z[Len(s) + 1] = x
  BY Added
<1> HIDE DEF z
<1>1. ASSUME NEW v \in DOMAIN z, NEW w \in DOMAIN z, v < w, z[v].verdict = "rejected"
      PROVE  z[v].muts \cap z[w].muts = {}
  <2>1. v \in DOMAIN s
    BY <1>0, <1>1
  <2>2. CASE w \in DOMAIN s
    BY <1>0, <1>1, <2>1, <2>2 DEF Remembers
  <2>3. CASE w = Len(s) + 1
    BY <1>0, <1>1, <2>1, <2>3
  <2>4. QED
    BY <1>0, <2>2, <2>3
<1>2. Remembers(z)
  BY <1>1 DEF Remembers
<1>3. QED
  BY <1>2 DEF z

\* What versions edit and what was said of them stays; pools and evidence may change.
Keeps(s, z) ==
  /\ DOMAIN z = DOMAIN s /\ Len(z) = Len(s)
  /\ \A v \in DOMAIN s : /\ z[v].muts = s[v].muts /\ z[v].verdict = s[v].verdict
                          /\ s[v].evidence \subseteq z[v].evidence
LEMMA SameVersions ==
  ASSUME NEW s \in Seq(Record), NEW z \in Seq(Record), Keeps(s, z), NEW r \in Run
  PROVE  /\ Informed(r, s) => Informed(r, z)
         /\ Remembers(s) => Remembers(z)
<1>1. ASSUME Informed(r, s) PROVE Informed(r, z)
  BY <1>1 DEF Informed, Keeps
<1>2. ASSUME Remembers(s) PROVE Remembers(z)
  BY <1>2 DEF Remembers, Keeps
<1>3. QED
  BY <1>1, <1>2

-----------------------------------------------------------------------------
(* A task's step. *)

LEMMA EndsIs ==
  ASSUME LabTyped, NEW t \in Tasks, NEW out \in {"completed", "error", "cancelled"}, Ends(t, out)
  PROVE  /\ task' \in Seq(Run) /\ Tasks' = Tasks
         /\ \A u \in Tasks \ {t} : task'[u] = task[u]
         /\ task'[t].pc = "ended"
<1>1. task[t] \in Run /\ task \in Seq(Run)
  BY DEF LabTyped, Tasks
<1>2. NoCycle \in Cycle
  BY LabAssumption DEF NoCycle, Cycle
<1>3. PICK o \in {"completed", "error", "cancelled"} :
        task' = [task EXCEPT ![t].pc = "ended", ![t].cycle = NoCycle, ![t].left = 0, ![t].out = o]
  BY <1>1 DEF Ends, Tasks
<1> DEFINE r == [task[t] EXCEPT !.pc = "ended", !.cycle = NoCycle, !.left = 0, !.out = o]
<1>4. r \in Run /\ r.pc = "ended"
  <2> DEFINE r1 == [task[t] EXCEPT !.pc = "ended", !.cycle = NoCycle]
             r2 == [r1 EXCEPT !.left = 0]
  <2>1. r1 \in Run /\ r1.pc = "ended"
    BY <1>1, <1>2 DEF Run
  <2>2. r = [r2 EXCEPT !.out = o]
    OBVIOUS
  <2> HIDE DEF r1, r
  <2>3. r2 \in Run /\ r2.pc = "ended"
    BY <2>1 DEF Run
  <2> HIDE DEF r2
  <2>4. QED
    BY <2>2, <2>3 DEF Run
<1>5. task' = [task EXCEPT ![t] = r]
  BY <1>1, <1>3 DEF Tasks
<1> HIDE DEF r
<1>6. QED
  BY <1>1, <1>4, <1>5 DEF Tasks

LEMMA NextCycleIs ==
  ASSUME LabTyped, NEW t \in Tasks, NextCycle(t)
  PROVE  /\ task' \in Seq(Run) /\ Tasks' = Tasks
         /\ \A u \in Tasks \ {t} : task'[u] = task[u]
         /\ task'[t].pc = "select"
<1>1. task[t] \in Run /\ task \in Seq(Run)
  BY DEF LabTyped, Tasks
<1>2. NoCycle \in Cycle
  BY LabAssumption DEF NoCycle, Cycle
<1> DEFINE r == [task[t] EXCEPT !.pc = "select", !.left = @ - 1, !.cycle = NoCycle]
<1>3. r \in Run /\ r.pc = "select"
  <2> DEFINE q == [task[t] EXCEPT !.pc = "select", !.left = @ - 1]
  <2>1. task[t].left - 1 \in Int
    BY <1>1 DEF Run
  <2>2. q \in Run /\ q.pc = "select"
    BY <1>1, <2>1 DEF Run
  <2>3. r = [q EXCEPT !.cycle = NoCycle]
    OBVIOUS
  <2> HIDE DEF q, r
  <2>4. QED
    BY <1>2, <2>2, <2>3 DEF Run
<1>4. task' = [task EXCEPT ![t] = r]
  BY <1>1 DEF Tasks, NextCycle
<1> HIDE DEF r
<1>5. QED
  BY <1>1, <1>3, <1>4 DEF Tasks

LEMMA ToIs ==
  ASSUME LabTyped, NEW t \in Tasks, NEW pc \in {"measured", "llm", "saved", "persisted"}, To(t, pc)
  PROVE  /\ task' \in Seq(Run) /\ Tasks' = Tasks
         /\ \A u \in Tasks \ {t} : task'[u] = task[u]
         /\ task'[t].pc = pc /\ task'[t].cycle = task[t].cycle
<1>1. task[t] \in Run /\ task \in Seq(Run)
  BY DEF LabTyped, Tasks
<1> DEFINE r == [task[t] EXCEPT !.pc = pc]
<1>2. r \in Run /\ r.pc = pc /\ r.cycle = task[t].cycle
  BY <1>1 DEF Run
<1>3. task' = [task EXCEPT ![t] = r]
  BY <1>1 DEF Tasks, To
<1> HIDE DEF r
<1>4. QED
  BY <1>1, <1>2, <1>3 DEF Tasks

\* The task that moves is the only one that may hold the event loop.
LEMMA Moved ==
  ASSUME LabInv, NEW t \in Tasks, LabTyped', Tasks' = Tasks,
         \A u \in Tasks \ {t} : task'[u] = task[u] /\ task[u].pc \notin Holding,
         Informed(task'[t], store'[task'[t].cycle.name]),
         \A u \in Tasks \ {t} : Informed(task[u], store'[task[u].cycle.name]),
         Judges(task'[t]) => \A u \in Tasks \ {t} :
           InCycle(task[u]) /\ task[u].cycle.name = task'[t].cycle.name
             => task[u].cycle.top <= task'[t].cycle.top,
         \A n \in Names : Remembers(store'[n])
  PROVE  LabInv'
<1>1. \A u \in Tasks : Informed(task'[u], store'[task'[u].cycle.name])
  OBVIOUS
<1>2. ASSUME NEW u \in Tasks, NEW w \in Tasks, u # w PROVE Apart(task'[u], task'[w])
  <2>1. CASE u # t /\ w # t
    BY <1>2, <2>1 DEF LabInv
  <2>2. CASE u = t
    BY <1>2, <2>2 DEF Apart, Judges, Holding
  <2>3. CASE w = t
    BY <1>2, <2>3 DEF Apart
  <2>4. QED
    BY <2>1, <2>2, <2>3
<1>3. QED
  BY <1>1, <1>2 DEF LabInv

\* A step that leaves the store alone, and the child to others.
LEMMA MovedOn ==
  ASSUME LabInv, NEW t \in Tasks, task' \in Seq(Run), Tasks' = Tasks,
         UNCHANGED <<store, draft>>,
         \A u \in Tasks \ {t} : task'[u] = task[u] /\ task[u].pc \notin Holding,
         ~Judges(task'[t]), Informed(task'[t], store[task'[t].cycle.name])
  PROVE  LabInv'
  BY Moved DEF LabInv, LabTyped

LEMMA AtRest ==
  ASSUME NEW r, NEW s, r.pc \in {"new", "select", "ended"}
  PROVE  Informed(r, s) /\ ~Judges(r)
  BY DEF Informed, InCycle, Reads, Judges

-----------------------------------------------------------------------------
(* The steps of runtimes, users and agents. *)

\* A step that leaves the store and where the tasks are.
LEMMA Touched ==
  ASSUME LabInv, task' \in Seq(Run), Tasks' = Tasks, UNCHANGED store,
         draft' \in [Agents -> [name : Names, version : Nat]],
         \A u \in Tasks : task'[u].pc = task[u].pc /\ task'[u].cycle = task[u].cycle
  PROVE  LabInv'
<1>1. ASSUME NEW u \in Tasks PROVE Informed(task'[u], store'[task'[u].cycle.name])
  BY <1>1 DEF LabInv, Informed, InCycle, Reads, Judges
<1>2. ASSUME NEW u \in Tasks, NEW w \in Tasks, u # w PROVE Apart(task'[u], task'[w])
  BY <1>2 DEF LabInv, Apart, InCycle, Judges
<1>3. QED
  BY <1>1, <1>2 DEF LabInv, LabTyped

LEMMA StartStep ==
  ASSUME LabInv, NEW s \in Sessions, Start(s)
  PROVE  LabInv'
<1>1. NoCycle \in Cycle
  BY LabAssumption DEF NoCycle, Cycle
<1>2. NewTask(s) \in Run
  BY <1>1, LabAssumption DEF NewTask, Run
<1>3. task \in Seq(Run) /\ Len(task) \in Nat
  BY DEF LabInv, LabTyped
<1>4. /\ task' \in Seq(Run) /\ Tasks' = Tasks \cup {Len(task) + 1}
      /\ \A u \in Tasks : task'[u] = task[u]
      /\ task'[Len(task) + 1] = NewTask(s)
  BY <1>2, <1>3 DEF Start, Tasks
<1>5. LabTyped' /\ UNCHANGED store
  BY <1>4 DEF Start, LabInv, LabTyped
<1>6. task'[Len(task) + 1].pc = "new"
  BY <1>4 DEF NewTask
<1>7. ASSUME NEW u \in Tasks' PROVE Informed(task'[u], store'[task'[u].cycle.name])
  <2>1. CASE u \in Tasks
    BY <1>4, <1>5, <2>1 DEF LabInv
  <2>2. CASE u = Len(task) + 1
    BY <1>6, <2>2, AtRest
  <2>3. QED
    BY <1>4, <2>1, <2>2
<1>8. ASSUME NEW u \in Tasks', NEW w \in Tasks', u # w PROVE Apart(task'[u], task'[w])
  <2>1. CASE u \in Tasks /\ w \in Tasks
    BY <1>4, <1>8, <2>1 DEF LabInv
  <2>2. CASE u = Len(task) + 1 \/ w = Len(task) + 1
    BY <1>6, <2>2 DEF Apart, InCycle, Judges, Holding
  <2>3. QED
    BY <1>4, <2>1, <2>2
<1>9. QED
  BY <1>5, <1>7, <1>8 DEF LabInv

LEMMA PauseStep ==
  ASSUME LabInv, NEW s \in Sessions, Pause(s)
  PROVE  LabInv'
<1> DEFINE x == runtime[s].task
           r == [task[x] EXCEPT !.cancel = TRUE]
<1>1. task \in Seq(Run) /\ draft \in [Agents -> [name : Names, version : Nat]]
  BY DEF LabInv, LabTyped
<1>2. task' = [task EXCEPT ![x] = r] /\ UNCHANGED <<store, draft>>
  BY DEF Pause
<1>3. CASE x \in Tasks
  <2>0. task[x] \in Run
    BY <1>1, <1>3 DEF Tasks
  <2>1. r \in Run /\ r.pc = task[x].pc /\ r.cycle = task[x].cycle
    BY <2>0 DEF Run
  <2> HIDE DEF r, x
  <2>2. /\ task' \in Seq(Run) /\ Tasks' = Tasks
        /\ \A u \in Tasks : task'[u] = IF u = x THEN r ELSE task[u]
    BY <1>1, <1>2, <1>3, <2>1 DEF Tasks
  <2>3. QED
    BY <1>1, <1>2, <2>1, <2>2, Touched
<1>4. CASE x \notin Tasks
  <2> HIDE DEF r, x
  <2>1. task' = task
    BY <1>1, <1>2, <1>4 DEF Tasks
  <2>2. QED
    BY <1>1, <1>2, <2>1, Touched DEF Tasks
<1>5. QED
  BY <1>3, <1>4

LEMMA FinalizeStep ==
  ASSUME LabInv, NEW t \in Tasks, Finalize(t)
  PROVE  LabInv'
<1> DEFINE r == [task[t] EXCEPT !.out = "final", !.cancel = FALSE]
<1>1. task \in Seq(Run) /\ draft \in [Agents -> [name : Names, version : Nat]]
  BY DEF LabInv, LabTyped
<1>2. task' = [task EXCEPT ![t] = r] /\ UNCHANGED <<store, draft>>
  BY <1>1 DEF Finalize, Tasks
<1>3. r \in Run /\ r.pc = task[t].pc /\ r.cycle = task[t].cycle
  <2>1. task[t] \in Run
    BY <1>1 DEF Tasks
  <2>2. QED
    BY <2>1 DEF Run
<1> HIDE DEF r
<1>4. /\ task' \in Seq(Run) /\ Tasks' = Tasks
      /\ \A u \in Tasks : task'[u] = IF u = t THEN r ELSE task[u]
  BY <1>1, <1>2, <1>3 DEF Tasks
<1>5. QED
  BY <1>1, <1>2, <1>3, <1>4, Touched

LEMMA AgentStartStep ==
  ASSUME LabInv, NEW s \in Sessions, AgentStart(s)
  PROVE  LabInv'
<1>1. UNCHANGED <<store, task, draft>>
  BY DEF AgentStart
<1>2. QED
  BY <1>1, Touched DEF LabInv, LabTyped, Tasks

LEMMA ReadStep ==
  ASSUME LabInv, NEW s \in Agents, NEW n \in Names, ProposeRead(s, n)
  PROVE  LabInv'
<1>1. store[n] \in Seq(Record)
  BY DEF LabInv, LabTyped
<1>2. draft' \in [Agents -> [name : Names, version : Nat]]
  BY <1>1 DEF ProposeRead, LabInv, LabTyped
<1>3. QED
  BY <1>2, Touched DEF ProposeRead, LabInv, LabTyped, Tasks

LEMMA CrashStep ==
  ASSUME LabInv, Crash
  PROVE  LabInv'
<1>1. NoDraft \in [name : Names, version : Nat]
  BY LabAssumption DEF NoDraft
<1>2. LabTyped' /\ Tasks' = {}
  BY <1>1 DEF Crash, LabInv, LabTyped, Tasks
<1>3. QED
  BY <1>2 DEF Crash, LabInv

\* A version that nobody has judged and that repeats nothing comes into the store while
\* nobody else judges a child, or it edits nothing.
LEMMA Insertion ==
  ASSUME LabInv, NEW n \in Names, NEW x \in Record, store' = [store EXCEPT ![n] = Append(@, x)],
         x.verdict = "none",
         \A v \in DOMAIN store[n] :
           store[n][v].verdict = "rejected" => store[n][v].muts \cap x.muts = {}
  PROVE  /\ store' \in [Names -> Seq(Record)]
         /\ store'[n] = Append(store[n], x)
         /\ \A m \in Names : Remembers(store'[m])
         /\ \A u \in Tasks : (Judges(task[u]) => x.muts = {})
              => Informed(task[u], store'[task[u].cycle.name])
<1>1. store \in [Names -> Seq(Record)] /\ store[n] \in Seq(Record) /\ task \in Seq(Run)
  BY DEF LabInv, LabTyped
<1> DEFINE z == Append(store[n], x)
<1>2. z \in Seq(Record)
  BY <1>1, Added
<1>3. Remembers(z)
  BY <1>1, AddedRemembers DEF LabInv
<1>4. \A m \in Names : store'[m] = IF m = n THEN z ELSE store[m]
  BY <1>1
<1>5. ASSUME NEW u \in Tasks, Judges(task[u]) => x.muts = {}
      PROVE  Informed(task[u], store'[task[u].cycle.name])
  <2>1. task[u] \in Run /\ task[u].cycle.name \in Names
    <3>1. task[u] \in Run
      BY <1>1 DEF Tasks
    <3>2. task[u].cycle \in Cycle
      BY <3>1 DEF Run
    <3>3. QED
      BY <3>1, <3>2 DEF Cycle
  <2>2. Informed(task[u], store[task[u].cycle.name])
    BY DEF LabInv
  <2>3. CASE task[u].cycle.name = n
    <3>1. Informed(task[u], store[n])
      BY <2>2, <2>3
    <3>2. Informed(task[u], z)
      BY <1>1, <1>5, <2>1, <3>1, AddedInformed
    <3>3. QED
      BY <1>4, <2>3, <3>2
  <2>4. CASE task[u].cycle.name # n
    BY <1>4, <2>1, <2>2, <2>4
  <2>5. QED
    BY <2>3, <2>4
<1> HIDE DEF z
<1>6. store' \in [Names -> Seq(Record)]
  BY <1>1, <1>2 DEF z
<1>7. \A m \in Names : Remembers(store'[m])
  BY <1>3, <1>4 DEF LabInv
<1>8. QED
  BY <1>4, <1>5, <1>6, <1>7 DEF z

LEMMA InsertStep ==
  ASSUME LabInv, NEW s \in Agents, ProposeInsert(s)
  PROVE  LabInv'
<1> DEFINE n == draft[s].name
           v == draft[s].version
           x == Version(v - 1, "candidates", {})
<1>1. /\ n \in Names /\ v \in Nat /\ store[n] \in Seq(Record)
      /\ draft \in [Agents -> [name : Names, version : Nat]]
  BY DEF LabInv, LabTyped
<1>2. draft' \in [Agents -> [name : Names, version : Nat]]
  <2>1. NoDraft \in [name : Names, version : Nat]
    BY LabAssumption DEF NoDraft
  <2>2. QED
    BY <1>1, <2>1 DEF ProposeInsert
<1>3. UNCHANGED <<task, Tasks>>
  BY DEF ProposeInsert, Tasks
<1>4. CASE Insertable(n, v)
  <2>1. v - 1 \in Nat
    BY <1>1, <1>4 DEF Insertable
  <2>2. x \in Record /\ x.verdict = "none" /\ x.muts = {}
    BY <2>1 DEF Version, Record, Pools
  <2>3. store' = [store EXCEPT ![n] = Append(@, x)]
    BY <1>4 DEF ProposeInsert, Inserted
  <2> HIDE DEF n, v, x
  <2>4. /\ store' \in [Names -> Seq(Record)]
        /\ \A m \in Names : Remembers(store'[m])
        /\ \A u \in Tasks : Informed(task[u], store'[task[u].cycle.name])
    BY <1>1, <2>2, <2>3, Insertion
  <2>5. QED
    BY <1>2, <1>3, <2>4 DEF LabInv, LabTyped
<1>5. CASE ~Insertable(n, v)
  <2>1. UNCHANGED store
    BY <1>5 DEF ProposeInsert
  <2>2. QED
    BY <1>2, <1>3, <2>1, Touched DEF LabInv, LabTyped
<1>6. QED
  BY <1>4, <1>5

\* A task's record, and the lineage it works on.
LEMMA TaskIs ==
  ASSUME LabTyped, NEW t \in Tasks
  PROVE  /\ task[t] \in Run /\ task[t].cycle \in Cycle /\ task[t].cycle.name \in Names
         /\ task[t].cycle.top \in Nat /\ task[t].cycle.parent \in Nat
         /\ task[t].cycle.tried \in SUBSET Muts
         /\ store[task[t].cycle.name] \in Seq(Record)
<1>1. task[t] \in Run
  BY DEF LabTyped, Tasks
<1>2. task[t].cycle \in Cycle
  BY <1>1 DEF Run
<1>3. QED
  BY <1>1, <1>2 DEF Cycle, LabTyped

\* Pools and evidence change in a lineage.
LEMMA Altered ==
  ASSUME LabInv, NEW n \in Names, NEW z \in Seq(Record), store' = [store EXCEPT ![n] = z],
         Keeps(store[n], z)
  PROVE  /\ store' \in [Names -> Seq(Record)] /\ store'[n] = z
         /\ \A m \in Names : Remembers(store'[m])
         /\ \A u \in Tasks : Informed(task[u], store'[task[u].cycle.name])
<1>1. store \in [Names -> Seq(Record)] /\ store[n] \in Seq(Record) /\ LabTyped
  BY DEF LabInv, LabTyped
<1>2. \A m \in Names : store'[m] = IF m = n THEN z ELSE store[m]
  BY <1>1
<1>3. \A r \in Run : Informed(r, store[n]) => Informed(r, z)
  BY <1>1, SameVersions
<1>4. Remembers(store[n]) => Remembers(z)
  BY <1>1 DEF Remembers, Keeps
<1>5. ASSUME NEW u \in Tasks PROVE Informed(task[u], store'[task[u].cycle.name])
  BY <1>1, <1>2, <1>3, TaskIs DEF LabInv
<1>6. ASSUME NEW m \in Names PROVE Remembers(store'[m])
  BY <1>2, <1>4 DEF LabInv
<1>7. QED
  BY <1>1, <1>2, <1>5, <1>6

LEMMA SourceIs ==
  ASSUME LabTyped, NEW n \in Names, NEW to \in Pools, Source(n, to) # {}
  PROVE  /\ Newest(Source(n, to)) \in DOMAIN store[n]
         /\ <<store[n][Newest(Source(n, to))].pool, to>> \in Lineage!Moves
<1> DEFINE S == Source(n, to)
<1>1. store[n] \in Seq(Record) /\ Len(store[n]) \in Nat /\ DOMAIN store[n] = 1 .. Len(store[n])
  BY DEF LabTyped
<1>2. \A v \in S : v \in DOMAIN store[n] /\ <<store[n][v].pool, to>> \in Lineage!Moves
  BY DEF Source, Pools, Lineage!Moves
<1> HIDE DEF S
<1>3. Newest(S) \in S
  BY <1>1, <1>2, NewestIs DEF S
<1>4. QED
  BY <1>2, <1>3 DEF S

LEMMA MoveStep ==
  ASSUME LabInv, NEW n \in Names, NEW to \in Pools, MoveStrategy(n, to)
  PROVE  LabInv'
<1> DEFINE s == store[n]
           k == Newest(Source(n, to))
           x == [s[k] EXCEPT !.pool = to]
           z == [s EXCEPT ![k] = x]
<1>1. LabTyped /\ s \in Seq(Record) /\ k \in DOMAIN s
  BY SourceIs DEF LabInv, LabTyped, MoveStrategy
<1>2. UNCHANGED <<task, draft>> /\ store' = [store EXCEPT ![n] = z]
  BY <1>1 DEF MoveStrategy, LabTyped
<1> HIDE DEF s, k
<1>3. s[k] \in Record
  BY <1>1
<1>4. x \in Record /\ x.muts = s[k].muts /\ x.verdict = s[k].verdict /\ x.evidence = s[k].evidence
  BY <1>3 DEF Record
<1> HIDE DEF x
<1>5. /\ z \in Seq(Record) /\ DOMAIN z = DOMAIN s /\ Len(z) = Len(s)
      /\ \A v \in DOMAIN z : z[v] = IF v = k THEN x ELSE s[v]
  BY <1>1, <1>4
<1>6. Keeps(store[n], z)
  BY <1>4, <1>5 DEF s, Keeps
<1> HIDE DEF z
<1>7. /\ store' \in [Names -> Seq(Record)]
      /\ \A m \in Names : Remembers(store'[m])
      /\ \A u \in Tasks : Informed(task[u], store'[task[u].cycle.name])
  BY <1>2, <1>5, <1>6, Altered
<1>8. QED
  BY <1>1, <1>2, <1>7 DEF LabInv, LabTyped, Tasks

-----------------------------------------------------------------------------
(* The steps of a task. *)

LEMMA EndStep ==
  ASSUME LabInv, NEW t \in Tasks, LoopFree(t), UNCHANGED <<store, draft>>,
         NEW out \in {"completed", "error", "cancelled"}, Ends(t, out)
  PROVE  LabInv'
<1>1. LabTyped
  BY DEF LabInv
<1>2. /\ task' \in Seq(Run) /\ Tasks' = Tasks
      /\ \A u \in Tasks \ {t} : task'[u] = task[u]
      /\ task'[t].pc = "ended"
  BY <1>1, EndsIs
<1>3. \A u \in Tasks \ {t} : task[u].pc \notin Holding
  BY DEF LoopFree
<1>4. QED
  BY <1>2, <1>3, AtRest, MovedOn

LEMMA NextStep ==
  ASSUME LabInv, NEW t \in Tasks, LoopFree(t), UNCHANGED <<store, draft>>, NextCycle(t)
  PROVE  LabInv'
<1>1. LabTyped
  BY DEF LabInv
<1>2. /\ task' \in Seq(Run) /\ Tasks' = Tasks
      /\ \A u \in Tasks \ {t} : task'[u] = task[u]
      /\ task'[t].pc = "select"
  BY <1>1, NextCycleIs
<1>3. \A u \in Tasks \ {t} : task[u].pc \notin Holding
  BY DEF LoopFree
<1>4. QED
  BY <1>2, <1>3, AtRest, MovedOn

\* Any version it may go on from is there, or there is none.
LEMMA ParentIs ==
  ASSUME LabTyped, NEW n \in Names, Candidates(n) # {},
         NEW p \in IF Stagnant(store[n]) THEN Best(store[n]) ELSE {Newest(Candidates(n))}
  PROVE  p \in Nat /\ p <= Len(store[n]) /\ p # 0
<1>1. store[n] \in Seq(Record) /\ Len(store[n]) \in Nat /\ DOMAIN store[n] = 1 .. Len(store[n])
  BY DEF LabTyped
<1>2. Candidates(n) \in SUBSET (1 .. Len(store[n]))
  BY <1>1 DEF Candidates
<1>3. Newest(Candidates(n)) \in 1 .. Len(store[n])
  BY <1>1, <1>2, NewestIs
<1>4. \A q \in Best(store[n]) : q \in DOMAIN store[n] \cup {Len(store[n])}
  BY DEF Best
<1>5. QED
  BY <1>1, <1>3, <1>4

LEMMA SelectStep ==
  ASSUME LabInv, NEW t \in Tasks, Select(t)
  PROVE  LabInv'
<1>1. LabTyped /\ LoopFree(t) /\ UNCHANGED <<store, draft>>
  BY DEF Select, LabInv
<1>2. CASE task[t].left = 0 \/ Selectable = {}
  BY <1>1, <1>2, EndStep DEF Select
<1>3. CASE ~(task[t].left = 0 \/ Selectable = {})
  <2>1. PICK n \in Selectable :
          \E p \in IF Stagnant(store[n]) THEN Best(store[n]) ELSE {Newest(Candidates(n))} :
            task' = [task EXCEPT ![t].pc = "fetch", ![t].cycle =
              [name |-> n, parent |-> p, mode |-> Mode(store[n], p # Newest(Candidates(n))),
               top |-> Len(store[n]), tried |-> RejectedMuts(store[n])]]
    BY <1>3 DEF Select
  <2>2. n \in Names /\ Candidates(n) # {} /\ store[n] \in Seq(Record) /\ Len(store[n]) \in Nat
    BY <1>1 DEF Selectable, LabTyped
  <2>3. PICK p \in IF Stagnant(store[n]) THEN Best(store[n]) ELSE {Newest(Candidates(n))} :
            task' = [task EXCEPT ![t].pc = "fetch", ![t].cycle =
              [name |-> n, parent |-> p, mode |-> Mode(store[n], p # Newest(Candidates(n))),
               top |-> Len(store[n]), tried |-> RejectedMuts(store[n])]]
    BY <2>1
  <2>4. p \in Nat /\ p <= Len(store[n])
    BY <1>1, <2>2, ParentIs
  <2> DEFINE c == [name |-> n, parent |-> p, mode |-> Mode(store[n], p # Newest(Candidates(n))),
                   top |-> Len(store[n]), tried |-> RejectedMuts(store[n])]
             r == [task[t] EXCEPT !.pc = "fetch", !.cycle = c]
  <2>5. RejectedMuts(store[n]) \in SUBSET Muts
    <3>1. \A v \in DOMAIN store[n] : store[n][v] \in Record
      BY <2>2
    <3>2. \A v \in DOMAIN store[n] : store[n][v].muts \in SUBSET Muts
      BY <3>1 DEF Record
    <3>3. QED
      BY <3>2 DEF RejectedMuts
  <2>6. Mode(store[n], p # Newest(Candidates(n))) \in {"tune", "structural"}
    BY DEF Mode
  <2>7. c \in Cycle
    BY <2>2, <2>4, <2>5, <2>6 DEF Cycle
  <2>8. \A v \in DOMAIN store[n] :
          store[n][v].verdict = "rejected" => store[n][v].muts \subseteq c.tried
    BY DEF RejectedMuts
  <2>9. c.name = n /\ c.top = Len(store[n]) /\ c.parent <= Len(store[n])
    BY <2>4
  <2>10. task' = [task EXCEPT ![t] = r]
    BY <1>1, <2>3 DEF LabTyped, Tasks
  <2> HIDE DEF c
  <2>11. r \in Run /\ r.pc = "fetch" /\ r.cycle = c
    BY <1>1, <2>7, TaskIs DEF Run
  <2> HIDE DEF r
  <2>12. /\ task' \in Seq(Run) /\ Tasks' = Tasks
         /\ \A u \in Tasks \ {t} : task'[u] = task[u]
         /\ task'[t] = r
    BY <1>1, <2>10, <2>11 DEF LabTyped, Tasks
  <2>13. Informed(r, store[n]) /\ ~Judges(r)
    BY <2>2, <2>8, <2>9, <2>11 DEF Informed, InCycle, Reads, Judges
  <2>14. \A u \in Tasks \ {t} : task[u].pc \notin Holding
    BY <1>1 DEF LoopFree
  <2>15. QED
    BY <1>1, <2>9, <2>11, <2>12, <2>13, <2>14, MovedOn
<1>4. QED
  BY <1>2, <1>3

LEMMA MeasureStep ==
  ASSUME LabInv, NEW t \in Tasks, Measure(t)
  PROVE  LabInv'
<1>1. LabTyped /\ LoopFree(t) /\ UNCHANGED <<store, draft>>
  BY DEF Measure, LabInv
<1>2. ASSUME NEW pc \in {"measured", "llm"}, To(t, pc) PROVE LabInv'
  <2>1. /\ task' \in Seq(Run) /\ Tasks' = Tasks
        /\ \A u \in Tasks \ {t} : task'[u] = task[u]
        /\ task'[t].pc = pc /\ task'[t].cycle = task[t].cycle
    BY <1>1, <1>2, ToIs
  <2>2. task[t].pc = "fetch" /\ Informed(task[t], store[task[t].cycle.name])
    BY DEF Measure, LabInv
  <2>3. Informed(task'[t], store[task[t].cycle.name]) /\ ~Judges(task'[t])
    BY <2>1, <2>2 DEF Informed, InCycle, Reads, Judges
  <2>4. \A u \in Tasks \ {t} : task[u].pc \notin Holding
    BY <1>1 DEF LoopFree
  <2>5. QED
    BY <1>1, <2>1, <2>3, <2>4, MovedOn
<1>3. QED
  BY <1>1, <1>2, NextStep DEF Measure

LEMMA FailsStep ==
  ASSUME LabInv, NEW t \in Tasks, Fails(t)
  PROVE  LabInv'
  BY EndStep DEF Fails

LEMMA CancelledStep ==
  ASSUME LabInv, NEW t \in Tasks, Cancelled(t)
  PROVE  LabInv'
  BY EndStep DEF Cancelled

\* What a child is, and where it goes.
LEMMA ChildIs ==
  ASSUME LabInv, NEW t \in Tasks, Reads(task[t]), NEW b \in Batches(t),
         NEW pool \in {"candidates", "graveyard"},
         Insertable(task[t].cycle.name, Child(t))
  PROVE  LET s == store[task[t].cycle.name]
             x == Version(task[t].cycle.parent, pool, b)
         IN  /\ x \in Record /\ x.verdict = "none"
             /\ task[t].cycle.top = Len(s)
             /\ \A v \in DOMAIN s : s[v].verdict = "rejected" => s[v].muts \cap x.muts = {}
<1> DEFINE s == store[task[t].cycle.name]
           x == Version(task[t].cycle.parent, pool, b)
<1>1. /\ task[t].cycle.parent \in Nat /\ task[t].cycle.top \in Nat /\ s \in Seq(Record)
      /\ Len(s) \in Nat /\ DOMAIN s = 1 .. Len(s)
  BY TaskIs DEF LabInv
<1>2. b \subseteq Muts /\ b \cap task[t].cycle.tried = {}
  BY DEF Batches, Novel
<1>3. x \in Record /\ x.verdict = "none" /\ x.muts = b
  BY <1>1, <1>2 DEF Version, Record, Pools
<1>4. task[t].cycle.top = Len(s)
  BY <1>1 DEF Insertable, Child
<1>5. Informed(task[t], s)
  BY DEF LabInv
<1>6. \A v \in DOMAIN s : s[v].verdict = "rejected" => s[v].muts \subseteq task[t].cycle.tried
  BY <1>1, <1>4, <1>5 DEF Informed
<1>7. QED
  BY <1>2, <1>3, <1>4, <1>6

LEMMA SaveStep ==
  ASSUME LabInv, NEW t \in Tasks, Save(t)
  PROVE  LabInv'
<1> DEFINE n == task[t].cycle.name
           s == store[n]
<1>1. /\ LabTyped /\ LoopFree(t) /\ UNCHANGED draft /\ Reads(task[t])
      /\ \A u \in Tasks \ {t} : task[u].pc \notin Holding
  BY DEF Save, LabInv, Reads, LoopFree
<1>2. PICK b \in Batches(t) :
        \/ NextCycle(t) /\ UNCHANGED store
        \/ /\ Insertable(n, Child(t))
           /\ \E pool \in {"candidates", "graveyard"} :
                store' = Inserted(n, Child(t), Version(task[t].cycle.parent, pool, b))
           /\ To(t, "saved")
        \/ Ends(t, "error") /\ UNCHANGED store
  BY DEF Save
<1>3. CASE NextCycle(t) /\ UNCHANGED store
  BY <1>1, <1>3, NextStep
<1>4. CASE Ends(t, "error") /\ UNCHANGED store
  BY <1>1, <1>4, EndStep
<1>5. ASSUME Insertable(n, Child(t)), To(t, "saved"), NEW pool \in {"candidates", "graveyard"},
             store' = Inserted(n, Child(t), Version(task[t].cycle.parent, pool, b))
      PROVE  LabInv'
  <2> DEFINE x == Version(task[t].cycle.parent, pool, b)
             z == Append(s, x)
  <2>1. /\ x \in Record /\ x.verdict = "none" /\ task[t].cycle.top = Len(s)
        /\ \A v \in DOMAIN s : s[v].verdict = "rejected" => s[v].muts \cap x.muts = {}
    BY <1>1, <1>5, ChildIs
  <2>2. n \in Names /\ s \in Seq(Record) /\ task[t].cycle.parent \in Nat /\ Len(s) \in Nat
    BY <1>1, TaskIs
  <2>3. store' = [store EXCEPT ![n] = Append(@, x)]
    BY <1>5 DEF Inserted
  <2> HIDE DEF x
  <2>4. \A u \in Tasks \ {t} : ~Judges(task[u])
    BY <1>1 DEF Judges, Holding
  <2>5. /\ store' \in [Names -> Seq(Record)] /\ store'[n] = z
        /\ \A m \in Names : Remembers(store'[m])
        /\ \A u \in Tasks \ {t} : Informed(task[u], store'[task[u].cycle.name])
    BY <2>1, <2>2, <2>3, <2>4, Insertion
  <2>6. /\ task' \in Seq(Run) /\ Tasks' = Tasks
        /\ \A u \in Tasks \ {t} : task'[u] = task[u]
        /\ task'[t].pc = "saved" /\ task'[t].cycle = task[t].cycle
    BY <1>1, <1>5, ToIs
  <2>7. Informed(task'[t], z)
    <3>1. /\ z[Len(s) + 1] = x /\ Len(z) = Len(s) + 1 /\ DOMAIN z = 1 .. Len(s) + 1
      BY <2>1, <2>2, Added
    <3>2. Informed(task[t], s) /\ InCycle(task[t])
      BY <1>1 DEF LabInv, InCycle, Reads
    <3> HIDE DEF z, s, n
    <3>3. QED
      BY <2>1, <2>2, <2>6, <3>1, <3>2 DEF Informed, InCycle, Reads, Judges
  <2>8. ASSUME NEW u \in Tasks \ {t}, InCycle(task[u]), task[u].cycle.name = n
        PROVE  task[u].cycle.top <= task[t].cycle.top
    BY <2>1, <2>8 DEF LabInv, Informed
  <2>9. LabTyped'
    BY <1>1, <2>5, <2>6 DEF LabTyped
  <2> HIDE DEF z, s
  <2>10. QED
    BY <1>1, <2>5, <2>6, <2>7, <2>8, <2>9, Moved
<1>6. QED
  BY <1>2, <1>3, <1>4, <1>5

\* Who judges a child has it before it, and no one else holds the event loop.
LEMMA JudgeIs ==
  ASSUME LabInv, NEW t \in Tasks, Judges(task[t])
  PROVE  /\ LabTyped /\ Child(t) \in DOMAIN store[task[t].cycle.name]
         /\ Child(t) \in Nat /\ Child(t) # 0
         /\ store[task[t].cycle.name][Child(t)] \in Record
         /\ store[task[t].cycle.name][Child(t)].verdict = "none"
         /\ task[t].pc = "persisted"
              => Stages \subseteq store[task[t].cycle.name][Child(t)].evidence
         /\ \A u \in Tasks \ {t} : task[u].pc \notin Holding /\ ~Judges(task[u])
<1>1. LabTyped /\ Informed(task[t], store[task[t].cycle.name])
  BY DEF LabInv
<1>2. \A u \in Tasks \ {t} : task[u].pc \notin Holding /\ ~Judges(task[u])
  BY DEF LabInv, Apart, Judges, Holding
<1>3. task[t].cycle.top \in Nat /\ store[task[t].cycle.name] \in Seq(Record)
  BY <1>1, TaskIs
<1>4. QED
  BY <1>1, <1>2, <1>3 DEF Informed, Child

LEMMA PersistStep ==
  ASSUME LabInv, NEW t \in Tasks, Persist(t)
  PROVE  LabInv'
<1> DEFINE n == task[t].cycle.name
           s == store[n]
           k == Child(t)
           x == [s[k] EXCEPT !.evidence = @ \cup Stages]
           z == [s EXCEPT ![k] = x]
<1>1. Judges(task[t]) /\ To(t, "persisted") /\ UNCHANGED draft
  BY DEF Persist, Judges
<1>2. /\ LabTyped /\ k \in DOMAIN s /\ s[k] \in Record /\ s[k].verdict = "none"
      /\ \A u \in Tasks \ {t} : task[u].pc \notin Holding
  BY <1>1, JudgeIs
<1>3. n \in Names /\ s \in Seq(Record) /\ Len(s) \in Nat
  BY <1>2, TaskIs
<1>4. store' = [store EXCEPT ![n] = z]
  BY <1>2, <1>3 DEF Persist, LabTyped
<1>5. /\ x \in Record /\ x.muts = s[k].muts /\ x.verdict = s[k].verdict
      /\ x.evidence = s[k].evidence \cup Stages
  BY <1>2 DEF Record
<1>6. /\ task' \in Seq(Run) /\ Tasks' = Tasks
      /\ \A u \in Tasks \ {t} : task'[u] = task[u]
      /\ task'[t].pc = "persisted" /\ task'[t].cycle = task[t].cycle
  BY <1>1, <1>2, ToIs
<1> HIDE DEF x, k, s, n
<1>7. z \in Seq(Record) /\ Keeps(s, z) /\ z[k] = x
  BY <1>2, <1>3, <1>5 DEF Keeps
<1> HIDE DEF z
<1>8. /\ store' \in [Names -> Seq(Record)] /\ store'[n] = z
      /\ \A m \in Names : Remembers(store'[m])
      /\ \A u \in Tasks : Informed(task[u], store'[task[u].cycle.name])
  BY <1>3, <1>4, <1>7, Altered DEF s
<1>9. Informed(task'[t], z)
  <2>1. Informed(task[t], z)
    BY <1>8 DEF n
  <2>2. task[t].cycle.top + 1 = k
    BY DEF k, Child
  <2>3. QED
    BY <1>1, <1>5, <1>6, <1>7, <2>1, <2>2 DEF Informed, InCycle, Reads, Judges
<1>10. ASSUME NEW u \in Tasks \ {t}, InCycle(task[u]), task[u].cycle.name = n
       PROVE  task[u].cycle.top <= task[t].cycle.top
  BY <1>1, <1>10 DEF LabInv, Apart, n
<1>11. LabTyped'
  BY <1>1, <1>2, <1>6, <1>8 DEF LabTyped
<1>12. QED
  BY <1>2, <1>6, <1>8, <1>9, <1>10, <1>11, Moved DEF n

LEMMA VerdictStep ==
  ASSUME LabInv, NEW t \in Tasks, Verdict(t)
  PROVE  LabInv'
<1> DEFINE n == task[t].cycle.name
           s == store[n]
           k == Child(t)
           y == IF s[k].pool = "graveyard" THEN "rejected" ELSE "accepted"
           x == [s[k] EXCEPT !.verdict = y]
           z == [s EXCEPT ![k] = x]
<1>1. Judges(task[t]) /\ NextCycle(t) /\ UNCHANGED draft
  BY DEF Verdict, Judges
<1>2. /\ LabTyped /\ k \in DOMAIN s /\ s[k] \in Record /\ s[k].verdict = "none"
      /\ \A u \in Tasks \ {t} : task[u].pc \notin Holding /\ ~Judges(task[u])
  BY <1>1, JudgeIs
<1>3. n \in Names /\ s \in Seq(Record) /\ Len(s) \in Nat /\ task[t].cycle.top \in Nat
  BY <1>2, TaskIs
<1>4. store' = [store EXCEPT ![n] = z]
  BY <1>2, <1>3 DEF Verdict, LabTyped
<1>5. x \in Record /\ x.muts = s[k].muts
  BY <1>2 DEF Record
<1>6. /\ task' \in Seq(Run) /\ Tasks' = Tasks
      /\ \A u \in Tasks \ {t} : task'[u] = task[u]
      /\ task'[t].pc = "select"
  BY <1>1, <1>2, NextCycleIs
<1>7. /\ k = task[t].cycle.top + 1
      /\ \A v \in DOMAIN s : v > k => s[v].muts = {}
      /\ Remembers(s)
  BY <1>1, <1>3 DEF LabInv, Informed, Child
<1> HIDE DEF x, y, k
<1>8. /\ z \in Seq(Record) /\ Len(z) = Len(s) /\ DOMAIN z = DOMAIN s /\ DOMAIN s = 1 .. Len(s)
      /\ \A v \in DOMAIN z : z[v] = IF v = k THEN x ELSE s[v]
  BY <1>2, <1>3, <1>5
<1> HIDE DEF z, s
<1>9. Remembers(z)
  <2>1. ASSUME NEW v \in DOMAIN z, NEW w \in DOMAIN z, v < w, z[v].verdict = "rejected"
        PROVE  z[v].muts \cap z[w].muts = {}
    <3>1. z[v].muts = s[v].muts /\ z[w].muts = s[w].muts
      BY <1>5, <1>8
    <3>2. CASE v = k
      BY <1>7, <1>8, <2>1, <3>1, <3>2
    <3>3. CASE v # k
      BY <1>7, <1>8, <2>1, <3>1, <3>3 DEF Remembers
    <3>4. QED
      BY <3>2, <3>3
  <2>2. QED
    BY <2>1 DEF Remembers
<1>10. store \in [Names -> Seq(Record)]
  BY <1>2 DEF LabTyped
<1> HIDE DEF n
<1>11. /\ store' \in [Names -> Seq(Record)]
       /\ \A m \in Names : store'[m] = IF m = n THEN z ELSE store[m]
  BY <1>3, <1>4, <1>8, <1>10
<1>12. \A m \in Names : Remembers(store'[m])
  BY <1>9, <1>11 DEF LabInv
<1>13. ASSUME NEW u \in Tasks \ {t} PROVE Informed(task[u], store'[task[u].cycle.name])
  <2>1. /\ Informed(task[u], store[task[u].cycle.name]) /\ task[u].cycle.name \in Names
        /\ task[u].cycle.top \in Nat /\ ~Judges(task[u])
    BY <1>2, TaskIs DEF LabInv
  <2>2. CASE task[u].cycle.name # n
    BY <1>11, <2>1, <2>2
  <2>3. CASE task[u].cycle.name = n
    <3>1. Informed(task[u], s)
      BY <2>1, <2>3 DEF s
    <3>2. InCycle(task[u]) => task[u].cycle.top <= task[t].cycle.top
      BY <1>1, <2>3 DEF LabInv, Apart, n
    <3>3. Informed(task[u], z)
      <4>1. InCycle(task[u]) => task[u].cycle.top <= Len(z) /\ task[u].cycle.parent <= Len(z)
        BY <1>8, <3>1 DEF Informed
      <4>2. ASSUME Reads(task[u]), NEW v \in DOMAIN z, v <= task[u].cycle.top,
                   z[v].verdict = "rejected"
            PROVE  z[v].muts \subseteq task[u].cycle.tried
        <5>1. v # k
          BY <1>3, <1>7, <1>8, <2>1, <3>2, <4>2 DEF InCycle, Reads
        <5>2. QED
          BY <1>8, <3>1, <4>2, <5>1 DEF Informed
      <4>3. QED
        BY <2>1, <4>1, <4>2 DEF Informed
    <3>4. QED
      BY <1>3, <1>11, <2>3, <3>3
  <2>4. QED
    BY <2>2, <2>3
<1>14. LabTyped'
  BY <1>1, <1>2, <1>6, <1>11 DEF LabTyped
<1>15. Informed(task'[t], store'[task'[t].cycle.name]) /\ ~Judges(task'[t])
  BY <1>6, AtRest
<1>16. QED
  BY <1>2, <1>6, <1>12, <1>13, <1>14, <1>15, Moved

-----------------------------------------------------------------------------
LEMMA LabStart == LabInit => LabInv
<1> SUFFICES ASSUME LabInit PROVE LabInv
  OBVIOUS
<1>1. NoDraft \in [name : Names, version : Nat]
  BY LabAssumption DEF NoDraft
<1>2. LabTyped /\ Tasks = {}
  BY <1>1 DEF LabInit, LabTyped, Tasks
<1>3. \A n \in Names : Remembers(store[n])
  BY DEF LabInit, Remembers
<1>4. QED
  BY <1>2, <1>3 DEF LabInv

LEMMA LabStep == LabInv /\ [LabNext]_vars => LabInv'
<1> SUFFICES ASSUME LabInv, [LabNext]_vars PROVE LabInv'
  OBVIOUS
<1>1. ASSUME NEW s \in Sessions, Start(s) \/ AgentStart(s) \/ Pause(s) PROVE LabInv'
  BY <1>1, StartStep, AgentStartStep, PauseStep
<1>2. ASSUME NEW s \in Agents, ProposeInsert(s) \/ \E n \in Names : ProposeRead(s, n) PROVE LabInv'
  BY <1>2, InsertStep, ReadStep
<1>3. ASSUME NEW n \in Names, NEW to \in Pools, MoveStrategy(n, to) PROVE LabInv'
  BY <1>3, MoveStep
<1>4. ASSUME NEW t \in Tasks, TaskStep(t) PROVE LabInv'
  BY <1>4, CancelledStep, SelectStep, MeasureStep, FailsStep, SaveStep, PersistStep, VerdictStep,
     FinalizeStep DEF TaskStep
<1>5. CASE UNCHANGED vars
  BY <1>5, Touched DEF vars, LabInv, LabTyped, Tasks
<1>6. QED
  BY <1>1, <1>2, <1>3, <1>4, <1>5, CrashStep DEF LabNext, UserStep

\* An edit that was rejected is not tried again in its lineage, for any number of sessions,
\* agents, edits, cycles and versions, whichever of them write the lineage meanwhile, and
\* through kills of the daemon (_is_novel_mutation, save_strategy).
THEOREM RejectedStaysOut == LabSpec => []RejectionIsRemembered
<1>1. LabInv => RejectionIsRemembered
  BY DEF LabInv, Remembers, RejectionIsRemembered
<1>2. QED
  BY <1>1, LabStart, LabStep, PTL DEF LabSpec

-----------------------------------------------------------------------------
(* An optimizer run wears out. *)

\* What is left of a run r: its cycles, and of this one the awaits; at the end the callback.
Phases == [new |-> 6, select |-> 6, fetch |-> 5, llm |-> 4, measured |-> 4, saved |-> 3, persisted |-> 2]
Work(r) == IF r.pc = "ended" THEN IF r.out = "final" THEN 0 ELSE 1
           ELSE 8 * r.left + Phases[r.pc]

\* A cycle is begun only when one is left.
Funded(r) == r.pc # "ended" => r.left >= 0 /\ (InCycle(r) => r.left > 0)
AllFunded == \A t \in Tasks : Funded(task[t])

LEMMA WorkIs ==
  ASSUME NEW r \in Run, Funded(r)
  PROVE  Work(r) \in Nat /\ (r.pc # "ended" => Work(r) > 1 /\ Work(r) = 8 * r.left + Phases[r.pc])
<1>1. r.left \in Int /\ r.pc \in DOMAIN Phases \cup {"ended"} /\ \A p \in DOMAIN Phases : Phases[p] \in 2 .. 6
  BY DEF Run, Phases
<1>2. QED
  BY <1>1 DEF Work, Funded

LEMMA EndsWork ==
  ASSUME LabTyped, NEW t \in Tasks, Funded(task[t]), task[t].pc # "ended",
         NEW out \in {"completed", "error", "cancelled"}, Ends(t, out)
  PROVE  Funded(task'[t]) /\ Work(task'[t]) < Work(task[t])
<1>1. task[t] \in Run /\ task \in Seq(Run)
  BY DEF LabTyped, Tasks
<1>2. task'[t].pc = "ended" /\ task'[t].out # "final"
  BY <1>1 DEF Ends, Tasks, Run
<1>3. Work(task'[t]) = 1 /\ Work(task[t]) > 1
  BY <1>1, <1>2, WorkIs DEF Work
<1>4. QED
  BY <1>2, <1>3, WorkIs, <1>1 DEF Funded

LEMMA NextCycleWorks ==
  ASSUME LabTyped, NEW t \in Tasks, Funded(task[t]), InCycle(task[t]), NextCycle(t)
  PROVE  Funded(task'[t]) /\ Work(task'[t]) < Work(task[t])
<1>1. task[t] \in Run /\ task \in Seq(Run)
  BY DEF LabTyped, Tasks
<1>2. task'[t].pc = "select" /\ task'[t].left = task[t].left - 1
  BY <1>1 DEF NextCycle, Tasks, Run
<1>3. task[t].left \in Int /\ task[t].left > 0 /\ Phases[task[t].pc] \in 2 .. 6 /\ task[t].pc # "ended"
  BY <1>1 DEF Funded, InCycle, Run, Phases
<1>4. Work(task'[t]) = 8 * (task[t].left - 1) + 6 /\ Work(task[t]) = 8 * task[t].left + Phases[task[t].pc]
  BY <1>2, <1>3 DEF Work, Phases
<1>5. QED
  BY <1>2, <1>3, <1>4 DEF Funded, InCycle

\* A step inside a cycle.
LEMMA GoesOnWorks ==
  ASSUME LabTyped, NEW t \in Tasks, Funded(task[t]), task[t].pc # "ended", task[t].left > 0,
         NEW pc \in DOMAIN Phases, task'[t].pc = pc, task'[t].left = task[t].left,
         Phases[pc] < Phases[task[t].pc]
  PROVE  Funded(task'[t]) /\ Work(task'[t]) < Work(task[t])
<1>0. task[t] \in Run
  BY DEF LabTyped, Tasks
<1>1. task[t].left \in Int
  BY <1>0 DEF Run
<1>2. Phases[pc] \in Int /\ Phases[task[t].pc] \in Int /\ pc # "ended"
  BY <1>0 DEF Run, Phases
<1>3. Work(task'[t]) = 8 * task[t].left + Phases[pc] /\ Work(task[t]) = 8 * task[t].left + Phases[task[t].pc]
  BY <1>2 DEF Work
<1>4. QED
  BY <1>1, <1>2, <1>3 DEF Funded

LEMMA ToWorks ==
  ASSUME LabTyped, NEW t \in Tasks, Funded(task[t]), InCycle(task[t]),
         NEW pc \in DOMAIN Phases, To(t, pc), Phases[pc] < Phases[task[t].pc]
  PROVE  Funded(task'[t]) /\ Work(task'[t]) < Work(task[t])
<1>1. task[t] \in Run /\ task \in Seq(Run)
  BY DEF LabTyped, Tasks
<1>2. task'[t].pc = pc /\ task'[t].left = task[t].left /\ task[t].left > 0 /\ task[t].pc # "ended"
  BY <1>1 DEF To, Tasks, Run, InCycle, Funded
<1>3. QED
  BY <1>2, GoesOnWorks

LEMMA SelectWorks ==
  ASSUME LabTyped, NEW t \in Tasks, Funded(task[t]), Select(t)
  PROVE  Funded(task'[t]) /\ Work(task'[t]) < Work(task[t])
<1>1. task[t].pc \in {"new", "select"} /\ task[t] \in Run /\ task \in Seq(Run)
  BY DEF Select, LabTyped, Tasks
<1>2. CASE Ends(t, "completed")
  BY <1>1, <1>2, EndsWork
<1>3. ASSUME task[t].left # 0, NEW c, task' = [task EXCEPT ![t].pc = "fetch", ![t].cycle = c]
      PROVE  Funded(task'[t]) /\ Work(task'[t]) < Work(task[t])
  <2>1. task'[t].pc = "fetch" /\ task'[t].left = task[t].left
    BY <1>1, <1>3 DEF Tasks, Run
  <2>2. task[t].left > 0
    BY <1>1, <1>3 DEF Funded, Run
  <2>3. "fetch" \in DOMAIN Phases /\ Phases["fetch"] < Phases[task[t].pc]
    BY <1>1 DEF Phases
  <2>4. QED
    BY <1>1, <2>1, <2>2, <2>3, GoesOnWorks
<1>4. QED
  BY <1>2, <1>3 DEF Select

LEMMA TaskWorks ==
  ASSUME LabInv, AllFunded, NEW t \in Tasks, TaskStep(t)
  PROVE  Funded(task'[t]) /\ Work(task'[t]) < Work(task[t])
<1>1. LabTyped /\ Funded(task[t]) /\ task[t] \in Run /\ task \in Seq(Run)
  BY DEF LabInv, LabTyped, AllFunded, Tasks
<1>2. CASE Cancelled(t) \/ Fails(t)
  BY <1>1, <1>2, EndsWork DEF Cancelled, Fails
<1>3. CASE Select(t)
  BY <1>1, <1>3, SelectWorks
<1>4. CASE Measure(t)
  <2>1. InCycle(task[t]) /\ task[t].pc = "fetch" /\ (NextCycle(t) \/ To(t, "measured") \/ To(t, "llm"))
    BY <1>4 DEF Measure, InCycle
  <2>2. {"measured", "llm"} \subseteq DOMAIN Phases /\ \A p \in {"measured", "llm"} : Phases[p] < Phases[task[t].pc]
    BY <2>1 DEF Phases
  <2>3. QED
    BY <1>1, <2>1, <2>2, NextCycleWorks, ToWorks
<1>5. CASE Save(t)
  <2>1. InCycle(task[t]) /\ task[t].pc # "ended" /\ (NextCycle(t) \/ To(t, "saved") \/ Ends(t, "error"))
    BY <1>5 DEF Save, InCycle
  <2>2. "saved" \in DOMAIN Phases /\ Phases["saved"] < Phases[task[t].pc]
    BY <1>5 DEF Phases, Save
  <2>3. QED
    BY <1>1, <2>1, <2>2, NextCycleWorks, ToWorks, EndsWork
<1>6. CASE Persist(t)
  <2>1. InCycle(task[t]) /\ To(t, "persisted")
    BY <1>6 DEF Persist, InCycle
  <2>2. "persisted" \in DOMAIN Phases /\ Phases["persisted"] < Phases[task[t].pc]
    BY <1>6 DEF Phases, Persist
  <2>3. QED
    BY <1>1, <2>1, <2>2, ToWorks
<1>7. CASE Verdict(t)
  BY <1>1, <1>7, NextCycleWorks DEF Verdict, InCycle
<1>8. CASE Finalize(t)
  <2>1. task'[t].pc = "ended" /\ task'[t].out = "final" /\ task[t].pc = "ended" /\ task[t].out # "final"
    BY <1>1, <1>8 DEF Finalize, Tasks, Run
  <2>2. QED
    BY <2>1 DEF Work, Funded
<1>9. QED
  BY <1>2, <1>3, <1>4, <1>5, <1>6, <1>7, <1>8 DEF TaskStep

\* A task's step leaves the other tasks alone.
LEMMA OthersAlone ==
  ASSUME LabInv, NEW t \in Tasks, TaskStep(t)
  PROVE  Tasks' = Tasks /\ \A u \in Tasks \ {t} : task'[u] = task[u]
<1>1. LabTyped /\ task \in Seq(Run)
  BY DEF LabInv, LabTyped
<1>2. CASE Cancelled(t) \/ Fails(t)
  BY <1>1, <1>2, EndsIs DEF Cancelled, Fails
<1>3. CASE Select(t)
  <2>1. ASSUME NEW c, task' = [task EXCEPT ![t].pc = "fetch", ![t].cycle = c]
        PROVE  Tasks' = Tasks /\ \A u \in Tasks \ {t} : task'[u] = task[u]
    BY <1>1, <2>1 DEF Tasks
  <2>2. QED
    BY <1>1, <1>3, <2>1, EndsIs DEF Select
<1>4. CASE Measure(t) \/ Save(t) \/ Persist(t) \/ Verdict(t)
  BY <1>1, <1>4, EndsIs, NextCycleIs, ToIs DEF Measure, Save, Persist, Verdict
<1>5. CASE Finalize(t)
  BY <1>1, <1>5 DEF Finalize, Tasks
<1>6. QED
  BY <1>2, <1>3, <1>4, <1>5 DEF TaskStep

\* Users and agents start runs and ask them to end.
LEMMA UsersWork ==
  ASSUME LabInv, AllFunded, UserStep \/ UNCHANGED vars
  PROVE  AllFunded' /\ \A t \in Tasks : Work(task'[t]) = Work(task[t])
<1>1. task \in Seq(Run)
  BY DEF LabInv, LabTyped
<1>2. CASE UNCHANGED task
  BY <1>2 DEF AllFunded, Tasks
<1>3. ASSUME NEW s \in Sessions, Start(s)
      PROVE  AllFunded' /\ \A t \in Tasks : Work(task'[t]) = Work(task[t])
  <2>1. /\ Tasks' = Tasks \cup {Len(task) + 1} /\ task'[Len(task) + 1] = NewTask(s)
        /\ \A t \in Tasks : task'[t] = task[t]
    BY <1>1, <1>3 DEF Start, Tasks
  <2>2. Funded(NewTask(s))
    BY LabAssumption DEF NewTask, Funded, InCycle
  <2>3. QED
    BY <2>1, <2>2 DEF AllFunded
<1>4. ASSUME NEW s \in Sessions, Pause(s)
      PROVE  AllFunded' /\ \A t \in Tasks : Work(task'[t]) = Work(task[t])
  <2>1. task' = [task EXCEPT ![runtime[s].task].cancel = TRUE]
    BY <1>4 DEF Pause
  <2>2. Tasks' = Tasks
    BY <1>1, <2>1 DEF Tasks
  <2>3. ASSUME NEW t \in Tasks
        PROVE  /\ task'[t].pc = task[t].pc /\ task'[t].left = task[t].left /\ task'[t].out = task[t].out
    BY <1>1, <2>1 DEF Tasks, Run
  <2>4. QED
    BY <2>2, <2>3 DEF AllFunded, Funded, InCycle, Work
<1>5. QED
  BY <1>2, <1>3, <1>4 DEF UserStep, AgentStart, ProposeInsert, ProposeRead, MoveStrategy, vars

LEMMA FundedStays == LabInv /\ AllFunded /\ [LabNext]_vars => AllFunded'
<1> SUFFICES ASSUME LabInv, AllFunded, [LabNext]_vars PROVE AllFunded'
  OBVIOUS
<1>1. CASE Crash
  BY <1>1 DEF Crash, AllFunded, Tasks
<1>2. ASSUME NEW t \in Tasks, TaskStep(t) PROVE AllFunded'
  BY <1>2, TaskWorks, OthersAlone DEF AllFunded
<1>3. QED
  BY <1>1, <1>2, UsersWork DEF LabNext

\* The work that is left to an optimizer run is a number that goes down with each of its
\* steps, and nothing that users, agents and other runs do meanwhile adds to it: every run
\* is over after its cycles (run_loop), until the daemon is killed.
RunWears ==
  \A t \in Tasks : task' # << >> =>
    /\ Work(task[t]) \in Nat /\ Work(task'[t]) <= Work(task[t])
    /\ TaskStep(t) => Work(task'[t]) < Work(task[t])
THEOREM RunsWearOut == LabSpec => [][RunWears]_vars
<1>1. LabInit => AllFunded
  BY DEF LabInit, AllFunded, Tasks
<1>2. LabInv /\ AllFunded /\ [LabNext]_vars => [RunWears]_vars
  <2> SUFFICES ASSUME LabInv, AllFunded, [LabNext]_vars, NEW t \in Tasks, task' # << >>
               PROVE  /\ Work(task[t]) \in Nat /\ Work(task'[t]) <= Work(task[t])
                      /\ TaskStep(t) => Work(task'[t]) < Work(task[t])
    BY DEF RunWears
  <2>1. Work(task[t]) \in Nat
    BY WorkIs DEF LabInv, LabTyped, AllFunded, Tasks
  <2>2. ASSUME NEW u \in Tasks, TaskStep(u) PROVE Work(task'[t]) <= Work(task[t])
    <3>1. CASE u = t
      <4>1. Funded(task'[t]) /\ Work(task'[t]) < Work(task[t]) /\ task'[t] \in Run
        BY <2>2, <3>1, TaskWorks, OthersAlone, LabStep DEF LabInv, LabTyped, Tasks
      <4>2. Work(task'[t]) \in Nat
        BY <4>1, WorkIs
      <4>3. QED
        BY <2>1, <4>1, <4>2
    <3>2. CASE u # t
      BY <2>1, <2>2, <3>2, OthersAlone
    <3>3. QED
      BY <3>1, <3>2
  <2>3. ASSUME UserStep \/ UNCHANGED vars PROVE Work(task'[t]) <= Work(task[t])
    BY <2>1, <2>3, UsersWork
  <2>4. ~Crash
    BY DEF Crash
  <2>5. QED
    BY <2>1, <2>2, <2>3, <2>4, TaskWorks DEF LabNext
<1>3. QED
  BY <1>1, <1>2, LabStart, LabStep, FundedStays, PTL DEF LabSpec

-----------------------------------------------------------------------------
(* The store implements the promise of a lineage. *)

\* A version that is inserted extends its lineage.
LEMMA Extends ==
  ASSUME LabTyped, NEW n \in Names, NEW x \in Record, store' = [store EXCEPT ![n] = Append(@, x)],
         x.parent <= Len(store[n]), x.evidence = {}, x.verdict = "none", x.pool # "active"
  PROVE  Lineage!Next
<1> DEFINE s == store[n]
<1>0. x.parent \in Nat
  BY DEF Record
<1>1. /\ s \in Seq(Record) /\ Len(s) \in Nat /\ x.parent \in Nat /\ DOMAIN store = Names
      /\ store \in [Names -> Seq(Record)]
  BY <1>0 DEF LabTyped
<1>2. store'[n] = Append(s, x) /\ store' = [store EXCEPT ![n] = @ \o << x >>]
  <2>1. Append(s, x) = s \o << x >>
    BY <1>1
  <2>2. QED
    BY <1>1, <2>1
<1>3. Len(store'[n]) = Len(s) + 1 /\ store'[n][Len(s) + 1] = x
  BY <1>1, <1>2, Added DEF s
<1>4. Lineage!Extend(n, x)
  <2>1. x.parent \in 0 .. Len(store[n])
    BY <1>1
  <2>2. store' = [store EXCEPT ![n] = @ \o << x >>]
    BY <1>2
  <2> HIDE DEF s
  <2>3. QED
    BY <2>1, <2>2, Zenon DEF Lineage!Extend
<1>5. QED
  BY <1>1, <1>3, <1>4 DEF Lineage!Next

LEMMA InsertExtends ==
  ASSUME LabInv, NEW s \in Agents, ProposeInsert(s)
  PROVE  Lineage!Next \/ UNCHANGED store
<1> DEFINE n == draft[s].name
           v == draft[s].version
           x == Version(v - 1, "candidates", {})
<1>1. LabTyped /\ n \in Names /\ v \in Nat /\ store[n] \in Seq(Record)
  BY DEF LabInv, LabTyped
<1>2. CASE Insertable(n, v)
  <2>1. v - 1 \in Nat /\ v - 1 = Len(store[n])
    BY <1>1, <1>2 DEF Insertable
  <2>2. /\ x \in Record /\ x.verdict = "none" /\ x.evidence = {} /\ x.pool # "active"
        /\ x.parent <= Len(store[n])
    BY <2>1 DEF Version, Record, Pools
  <2>3. store' = [store EXCEPT ![n] = Append(@, x)]
    BY <1>2 DEF ProposeInsert, Inserted
  <2> HIDE DEF x, n
  <2>4. QED
    BY <1>1, <2>2, <2>3, Extends
<1>3. CASE ~Insertable(n, v)
  BY <1>3 DEF ProposeInsert
<1>4. QED
  BY <1>2, <1>3

LEMMA SaveExtends ==
  ASSUME LabInv, NEW t \in Tasks, Save(t)
  PROVE  Lineage!Next \/ UNCHANGED store
<1> DEFINE n == task[t].cycle.name
<1>1. LabTyped /\ Reads(task[t])
  BY DEF Save, LabInv, Reads
<1>2. CASE UNCHANGED store
  BY <1>2
<1>3. ASSUME NEW b \in Batches(t), Insertable(n, Child(t)),
             NEW pool \in {"candidates", "graveyard"},
             store' = Inserted(n, Child(t), Version(task[t].cycle.parent, pool, b))
      PROVE  Lineage!Next
  <2> DEFINE x == Version(task[t].cycle.parent, pool, b)
  <2>1. x \in Record
    BY <1>1, <1>3, ChildIs
  <2>2. x.verdict = "none" /\ x.evidence = {} /\ x.pool # "active" /\ x.parent = task[t].cycle.parent
    BY DEF Version
  <2>3. Informed(task[t], store[n]) /\ n \in Names
    BY <1>1, TaskIs DEF LabInv
  <2>4. x.parent <= Len(store[n])
    BY <1>1, <2>2, <2>3 DEF Informed, InCycle, Reads
  <2>5. store' = [store EXCEPT ![n] = Append(@, x)]
    BY <1>3 DEF Inserted
  <2> HIDE DEF x, n
  <2>6. QED
    BY <1>1, <2>1, <2>2, <2>3, <2>4, <2>5, Extends
<1>4. QED
  BY <1>2, <1>3 DEF Save

LEMMA PersistMeasures ==
  ASSUME LabInv, NEW t \in Tasks, Persist(t)
  PROVE  Lineage!Next
<1> DEFINE n == task[t].cycle.name
<1>1. LabTyped /\ Child(t) \in DOMAIN store[n] /\ n \in Names
  BY JudgeIs, TaskIs DEF Persist, Judges
<1>2. DOMAIN store = Names
  BY <1>1 DEF LabTyped
<1>3. Lineage!Measure(n, Child(t), Stages)
  BY DEF Persist, Lineage!Measure
<1> HIDE DEF n
<1>4. QED
  BY <1>1, <1>2, <1>3 DEF Lineage!Next

LEMMA VerdictJudges ==
  ASSUME LabInv, NEW t \in Tasks, Verdict(t)
  PROVE  Lineage!Next
<1> DEFINE n == task[t].cycle.name
           y == IF store[n][Child(t)].pool = "graveyard" THEN "rejected" ELSE "accepted"
<1>1. /\ LabTyped /\ Child(t) \in DOMAIN store[n] /\ n \in Names
      /\ store[n][Child(t)].verdict = "none" /\ Stages \subseteq store[n][Child(t)].evidence
  BY JudgeIs, TaskIs DEF Verdict, Judges
<1>2. DOMAIN store = Names
  BY <1>1 DEF LabTyped
<1>3. Lineage!Judge(n, Child(t), y) /\ y \in {"accepted", "rejected"}
  BY <1>1 DEF Verdict, Lineage!Judge
<1> HIDE DEF n, y
<1>4. QED
  BY <1>1, <1>2, <1>3 DEF Lineage!Next

LEMMA MoveMoves ==
  ASSUME LabInv, NEW n \in Names, NEW to \in Pools, MoveStrategy(n, to)
  PROVE  Lineage!Next
<1> DEFINE k == Newest(Source(n, to))
<1>1. k \in DOMAIN store[n] /\ <<store[n][k].pool, to>> \in Lineage!Moves
  BY SourceIs DEF LabInv, MoveStrategy
<1>2. DOMAIN store = Names
  BY DEF LabInv, LabTyped
<1>3. Lineage!Move(n, k, to)
  BY <1>1 DEF MoveStrategy, Lineage!Move
<1> HIDE DEF k
<1>4. QED
  BY <1>1, <1>2, <1>3 DEF Lineage!Next, Pools

LEMMA LineageStep == LabInv /\ [LabNext]_vars => [Lineage!Next]_store
<1> SUFFICES ASSUME LabInv, [LabNext]_vars PROVE Lineage!Next \/ UNCHANGED store
  OBVIOUS
<1>1. ASSUME NEW s \in Sessions, Start(s) \/ AgentStart(s) \/ Pause(s) PROVE UNCHANGED store
  BY <1>1 DEF Start, AgentStart, Pause
<1>2. ASSUME NEW s \in Agents, ProposeInsert(s) \/ \E n \in Names : ProposeRead(s, n)
      PROVE  Lineage!Next \/ UNCHANGED store
  BY <1>2, InsertExtends DEF ProposeRead
<1>3. ASSUME NEW t \in Tasks, Cancelled(t) \/ Select(t) \/ Measure(t) \/ Fails(t) \/ Finalize(t)
      PROVE  UNCHANGED store
  BY <1>3 DEF Cancelled, Select, Measure, Fails, Finalize
<1>4. ASSUME NEW t \in Tasks, TaskStep(t) PROVE Lineage!Next \/ UNCHANGED store
  BY <1>3, <1>4, SaveExtends, PersistMeasures, VerdictJudges DEF TaskStep
<1>5. CASE Crash \/ UNCHANGED vars
  BY <1>5 DEF Crash, vars
<1>6. QED
  BY <1>1, <1>2, <1>4, <1>5, MoveMoves DEF LabNext, UserStep

\* The store keeps the promise of a lineage for any number of writers: numbers without
\* gaps, versions that are never rewritten, one verdict, after the evidence, and no way out
\* of the graveyard (save_strategy, save_mutation, move_strategy).
THEOREM LineageIsKept == LabSpec => KeepsLineage
<1>1. LabInit => Lineage!Init
  BY DEF LabInit, Lineage!Init
<1>2. QED
  BY <1>1, LabStart, LabStep, LineageStep, PTL DEF LabSpec, KeepsLineage, Lineage!Spec

-----------------------------------------------------------------------------
(* The executor. A trade that is open was entered where the reference enters *)
(* and has the levels that the reference finds in the bars since then.       *)

Level == Int \cup {None}
BarOK(b) == b.low \in Int /\ b.high \in Int /\ b.close \in Int /\ b.atr \in Int /\ b.go \in BOOLEAN
StrategyOK ==
  /\ strategy.stop \in Level /\ strategy.take \in Level /\ strategy.trail \in Level
  /\ strategy.activation \in Int /\ strategy.hold \in Level
WalkOK ==
  /\ StrategyOK /\ Last \in Nat /\ stage.warmup \in Nat /\ stage.warmup < stage.to - stage.from
  /\ bar \in Nat /\ bar <= Last + 1
  /\ seen \in Seq(Bars) /\ Len(seen) = bar

\* The highs since e and the trailing levels, and which of the latter is reached last.
HighestIs(e, n) ==
  (\E x \in e .. n : At(x).high = HighSince(e, n)) /\ \A x \in e .. n : At(x).high <= HighSince(e, n)
HighsKnown(e, n) == \A x \in e .. n : HighSince(e, x) \in Int
Trails(m, e, n) ==
  /\ \A y \in TrailLevels(e, n) : y \in Int
  /\ IF TrailLevels(e, n) = {} THEN m = None
     ELSE m \in TrailLevels(e, n) /\ \A y \in TrailLevels(e, n) : y <= m

\* The position p was opened at e and has the levels that follow from the bars up to n.
PosFields == {"open", "entry", "ref", "high", "stop", "take", "atr", "trail"}
Follows(p, e, n) ==
  /\ p = [f \in PosFields |-> p[f]] /\ p.open = TRUE /\ p.entry = e
  /\ p.ref = At(e).close /\ p.atr = At(e).atr
  /\ p.stop = IF strategy.stop = None THEN None ELSE At(e).close - strategy.stop * At(e).atr
  /\ p.take = IF strategy.take = None THEN None ELSE At(e).close + strategy.take * At(e).atr
  /\ IF strategy.trail = None THEN p.trail = None
     ELSE p.high = HighSince(e, n) /\ HighestIs(e, n) /\ HighsKnown(e, n) /\ Trails(p.trail, e, n)

\* A trade entered at e is where the one before it, which ended at i, lets one be entered;
\* none of the bars after it up to n closes it; and where there is no trade, no bar let one in.
EnteredAt(i, e) ==
  /\ e \in Nat /\ e \in AtLeast(i, stage.warmup) .. Last - 1 /\ At(e).go
  /\ \A j \in AtLeast(i, stage.warmup) .. e - 1 : ~At(j).go
StaysOpen(e, n) == \A i \in e + 1 .. n : Reason(e, i) = "data_boundary"
Waits(i) == \A j \in AtLeast(i, stage.warmup) .. Last - 1 : j < bar => ~At(j).go

Reasons == {"stop_loss", "take_profit", "trailing_stop", "time_exit", "data_boundary"}
Trade == [entry : Nat, exit : Nat, reason : Reasons]
Free(k) == IF k = 0 THEN 0 ELSE trades[k].exit
TradeOK(t, i) ==
  /\ EnteredAt(i, t.entry) /\ t.exit \in Nat /\ t.entry < t.exit /\ t.exit < bar /\ t.exit <= Last
  /\ StaysOpen(t.entry, t.exit - 1) /\ t.reason = Reason(t.entry, t.exit)
  /\ t.reason # "data_boundary" \/ t.exit = Last
TradesOK == trades \in Seq(Trade) /\ \A k \in 1 .. Len(trades) : TradeOK(trades[k], Free(k - 1))
PositionOK(i) ==
  \/ position = Flat /\ Waits(i)
  \/ /\ Follows(position, position.entry, bar - 1) /\ position.entry < bar /\ bar <= Last
     /\ EnteredAt(i, position.entry) /\ StaysOpen(position.entry, bar - 1)
BtInv == WalkOK /\ TradesOK /\ PositionOK(Free(Len(trades)))

-----------------------------------------------------------------------------
\* The largest and the smallest of some numbers.
LEMMA MaxOfIs ==
  ASSUME NEW S, NEW m \in S, S \subseteq Int, \A x \in S : x <= m
  PROVE  MaxOf(S) = m
<1>1. \A z \in S : (\A x \in S : x <= z) => z = m
  OBVIOUS
<1>2. MaxOf(S) \in S /\ \A x \in S : x <= MaxOf(S)
  BY DEF MaxOf
<1> QED
  BY <1>1, <1>2
LEMMA MinOfIs ==
  ASSUME NEW S, NEW m \in S, S \subseteq Int, \A x \in S : m <= x
  PROVE  MinOf(S) = m
<1>1. \A z \in S : (\A x \in S : z <= x) => z = m
  OBVIOUS
<1>2. MinOf(S) \in S /\ \A x \in S : MinOf(S) <= x
  BY DEF MinOf
<1> QED
  BY <1>1, <1>2

LEMMA AtLeastIs == \A a, b \in Int : AtLeast(a, b) \in {a, b} /\ a <= AtLeast(a, b) /\ b <= AtLeast(a, b)
  BY DEF AtLeast

\* What bars are.
LEMMA BarIs == \A b \in Bars : BarOK(b)
  BY BacktestAssumption DEF BarOK
LEMMA AtIs == ASSUME WalkOK, NEW i \in 0 .. bar - 1 PROVE At(i) \in Bars /\ BarOK(At(i))
<1>1. i + 1 \in 1 .. Len(seen)
  BY DEF WalkOK
<1>2. seen[i + 1] \in Bars
  BY <1>1 DEF WalkOK
<1> QED
  BY <1>2, BarIs DEF At

\* There is more than the warmup in every stage.
LEMMA StageIs ==
  ASSUME NEW n \in Nat, NEW p \in Nat, NEW w \in Nat, NEW k \in Nat \ {0}, NEW s \in StagesOf(n, k, p, w)
  PROVE  s.from \in Int /\ s.to \in Int /\ s.warmup = w /\ w < s.to - s.from
<1> DEFINE t == TuningEnd(n, p)
           l == LockboxEnd(n, p)
           W == Window(t, k)
<1>1. t \in Int /\ l \in Int
  <2>1. (6 * n) \div 10 \in Int /\ (8 * n) \div 10 \in Int
    OBVIOUS
  <2> QED
    BY <2>1 DEF TuningEnd, LockboxEnd, AtLeast, AtMost
<1>2. W \in Int
  BY <1>1 DEF Window
<1>3. t < l /\ W > 0 /\ t - k * W > w
  BY DEF StagesOf, Splits, Folded, FirstTest
<1>4. k * W \in Nat
  BY <1>2, <1>3
<1>5. t > w
  BY <1>1, <1>3, <1>4
<1>6. \/ s = TuningStage(t, w) \/ s = LockboxStage(t, l, w)
      \/ \E i \in 0 .. k - 1 : s = FoldStage(t, k, w, i)
  BY DEF StagesOf
<1>7. CASE s = TuningStage(t, w)
  <2> HIDE DEF t
  <2> QED
    BY <1>1, <1>5, <1>7 DEF TuningStage
<1>8. CASE s = LockboxStage(t, l, w)
  <2> HIDE DEF t, l
  <2> QED
    BY <1>1, <1>3, <1>5, <1>8 DEF LockboxStage, AtLeast
<1>9. ASSUME NEW i \in 0 .. k - 1, s = FoldStage(t, k, w, i) PROVE s.from \in Int /\ s.to \in Int /\ s.warmup = w /\ w < s.to - s.from
  <2> DEFINE F == FirstTest(t, k)
  <2>1. F \in Int
    BY <1>1, <1>2 DEF FirstTest
  <2>2. s.from = F + i * W - w /\ s.to = F + (i + 1) * W /\ s.warmup = w
    BY <1>9 DEF FoldStage
  <2> HIDE DEF F, W
  <2>3. i * W \in Int /\ (i + 1) * W = i * W + W
    BY <1>2
  <2> QED
    BY <1>2, <1>3, <2>1, <2>2, <2>3
<1> QED
  BY <1>6, <1>7, <1>8, <1>9

-----------------------------------------------------------------------------
\* One more bar leaves what the reference says of the bars before it.
Goes(b) == WalkOK /\ b \in Bars /\ bar <= Last /\ seen' = Append(seen, b) /\ UNCHANGED <<strategy, stage>>

LEMMA AtStays ==
  ASSUME NEW b, Goes(b)
  PROVE  (\A i \in 0 .. bar - 1 : At(i)' = At(i)) /\ \A n : n = bar => At(n)' = b
  BY DEF Goes, WalkOK, At

LEMMA HighStays ==
  ASSUME NEW b, Goes(b), NEW e \in Nat, NEW n \in Nat, n < bar
  PROVE  HighSince(e, n)' = HighSince(e, n)
<1>1. \A j \in e .. n : At(j)' = At(j)
  <2>1. \A j \in e .. n : j \in 0 .. bar - 1
    BY DEF Goes, WalkOK
  <2> QED
    BY <2>1, AtStays
<1>2. {At(j).high : j \in e .. n}' = {At(j).high : j \in e .. n}
  BY <1>1
<1> QED
  BY <1>2 DEF HighSince

LEMMA LevelsStay ==
  ASSUME NEW b, Goes(b), NEW e \in Nat, NEW n \in Nat, e <= n, n < bar
  PROVE  TrailLevels(e, n)' = TrailLevels(e, n)
<1>1. \A j \in e .. n : At(j)' = At(j) /\ HighSince(e, j)' = HighSince(e, j)
  <2>1. \A j \in e .. n : j \in 0 .. bar - 1 /\ j \in Nat /\ j < bar
    BY DEF Goes, WalkOK
  <2> QED
    BY <2>1, AtStays, HighStays
<1>2. e \in e .. n /\ \A j \in e + 1 .. n : j \in e .. n
  OBVIOUS
<1>3. strategy' = strategy
  BY DEF Goes
<1>4. {x \in e + 1 .. n : HighSince(e, x) >= At(e).close + strategy.activation * At(e).atr}'
      = {x \in e + 1 .. n : HighSince(e, x) >= At(e).close + strategy.activation * At(e).atr}
  BY <1>1, <1>2, <1>3
<1> QED
  BY <1>1, <1>2, <1>3, <1>4 DEF TrailLevels

LEMMA ReasonStays ==
  ASSUME NEW b, Goes(b), NEW e \in Nat, NEW n \in Nat, e <= n, n < bar
  PROVE  Reason(e, n)' = Reason(e, n)
<1>1. At(e)' = At(e) /\ At(n)' = At(n) /\ TrailLevels(e, n)' = TrailLevels(e, n) /\ strategy' = strategy
  <2>1. e \in 0 .. bar - 1 /\ n \in 0 .. bar - 1
    BY DEF Goes, WalkOK
  <2> QED
    BY <2>1, AtStays, LevelsStay DEF Goes
<1>2. StopHit(e, n)' = StopHit(e, n) /\ TakeHit(e, n)' = TakeHit(e, n)
  BY <1>1 DEF StopHit, TakeHit
<1>3. TrailHit(e, n)' = TrailHit(e, n) /\ TimeHit(e, n)' = TimeHit(e, n)
  BY <1>1 DEF TrailHit, TimeHit
<1> QED
  BY <1>2, <1>3 DEF Reason

LEMMA StepsOK ==
  ASSUME NEW b, Goes(b), bar' = bar + 1
  PROVE  WalkOK'
  BY DEF Goes, WalkOK, StrategyOK, Last

\* What was entered, or closed, before stays so.
LEMMA EntryStays ==
  ASSUME NEW b, Goes(b), NEW i \in Nat, NEW e, EnteredAt(i, e), e < bar
  PROVE  EnteredAt(i, e)'
<1>1. bar \in Nat /\ Last' = Last /\ stage' = stage /\ Last \in Int /\ stage.warmup \in Nat /\ e \in Nat
  BY DEF Goes, WalkOK, Last, EnteredAt
<1>2. AtLeast(i, stage.warmup)' = AtLeast(i, stage.warmup) /\ AtLeast(i, stage.warmup) \in Nat
  BY <1>1 DEF AtLeast
<1>3. \A j \in AtLeast(i, stage.warmup) .. e : At(j)' = At(j)
  <2>1. \A j \in AtLeast(i, stage.warmup) .. e : j \in 0 .. bar - 1
    BY <1>1, <1>2
  <2> QED
    BY <2>1, AtStays
<1>4. e \in AtLeast(i, stage.warmup) .. e /\ \A j \in AtLeast(i, stage.warmup) .. e - 1 : j \in AtLeast(i, stage.warmup) .. e
  BY <1>1, <1>2 DEF EnteredAt
<1> QED
  BY <1>1, <1>2, <1>3, <1>4 DEF EnteredAt

LEMMA OpenStays ==
  ASSUME NEW b, Goes(b), NEW e \in Nat, NEW n \in Int, n < bar, StaysOpen(e, n)
  PROVE  StaysOpen(e, n)'
<1> SUFFICES ASSUME NEW i \in e + 1 .. n PROVE Reason(e, i)' = "data_boundary"
  BY DEF StaysOpen
<1>1. i \in Nat /\ e <= i /\ i < bar
  BY DEF Goes, WalkOK
<1> QED
  BY <1>1, ReasonStays DEF StaysOpen

LEMMA TradeIs == \A t \in Trade : t.entry \in Nat /\ t.exit \in Nat /\ t.reason \in Reasons
  BY DEF Trade

LEMMA TradeStays ==
  ASSUME NEW b, Goes(b), bar' = bar + 1, NEW i \in Nat, NEW t, TradeOK(t, i)
  PROVE  TradeOK(t, i)'
<1>1. t.entry \in Nat /\ t.exit \in Nat /\ bar \in Nat /\ t.entry < t.exit /\ t.exit < bar
  BY DEF TradeOK, EnteredAt, Goes, WalkOK
<1>2. EnteredAt(i, t.entry)'
  <2>1. t.entry < bar
    BY <1>1
  <2> QED
    BY <2>1, EntryStays DEF TradeOK
<1>3. StaysOpen(t.entry, t.exit - 1)'
  <2> DEFINE m == t.exit - 1
  <2>1. m \in Int /\ m < bar /\ StaysOpen(t.entry, m)
    BY <1>1 DEF TradeOK
  <2> HIDE DEF m
  <2>2. StaysOpen(t.entry, m)'
    BY <1>1, <2>1, OpenStays
  <2> QED
    BY <2>2 DEF m
<1>4. Reason(t.entry, t.exit)' = Reason(t.entry, t.exit)
  BY <1>1, ReasonStays
<1>5. Last' = Last
  BY DEF Goes, Last
<1> QED
  BY <1>1, <1>2, <1>3, <1>4, <1>5 DEF TradeOK

\* The trades so far, and perhaps one more.
LEMMA TradesGrow ==
  ASSUME NEW b, Goes(b), bar' = bar + 1, TradesOK,
         \/ trades' = trades
         \/ \E t \in Trade, i \in Nat : trades' = Append(trades, t) /\ i = Free(Len(trades)) /\ TradeOK(t, i)'
  PROVE  TradesOK'
<1>1. trades \in Seq(Trade) /\ Len(trades) \in Nat
  BY DEF TradesOK
<1>2. \A k \in 0 .. Len(trades) : Free(k) \in Nat
  BY <1>1, TradeIs DEF Free
<1>3. ASSUME NEW k \in 1 .. Len(trades) PROVE TradeOK(trades[k], Free(k - 1))'
  <2> DEFINE t == trades[k]
             i == Free(k - 1)
  <2>1. t' = t /\ i' = i /\ i \in Nat
    <3>1. \A m \in 1 .. Len(trades) : trades'[m] = trades[m]
      BY <1>1
    <3>2. k - 1 \in 0 .. Len(trades) /\ (k - 1 # 0 => k - 1 \in 1 .. Len(trades))
      BY <1>1
    <3> QED
      BY <1>2, <3>1, <3>2 DEF Free
  <2>2. TradeOK(t, i)
    BY DEF TradesOK
  <2> HIDE DEF t, i
  <2>3. \A s, j : j \in Nat /\ TradeOK(s, j) => TradeOK(s, j)'
    BY TradeStays
  <2>4. \A s, j : s = t /\ j = i => TradeOK(s, j)'
    BY <2>1, <2>2, <2>3
  <2> QED
    BY <2>1, <2>4 DEF t, i
<1>4. CASE trades' = trades
  BY <1>1, <1>3, <1>4 DEF TradesOK
<1>5. ASSUME NEW t \in Trade, NEW i \in Nat, trades' = Append(trades, t), i = Free(Len(trades)), TradeOK(t, i)'
      PROVE  TradesOK'
  <2> DEFINE m == Len(trades)
  <2>1. /\ trades' \in Seq(Trade) /\ Len(trades') = m + 1 /\ trades'[m + 1] = t /\ m \in Nat
        /\ \A k \in 1 .. m : trades'[k] = trades[k]
    BY <1>1, <1>5
  <2>2. ASSUME NEW x, x = m PROVE Free(x)' = i
    <3>1. x # 0 => x \in 1 .. m
      BY <2>1, <2>2
    <3> QED
      BY <1>5, <2>1, <2>2, <3>1 DEF Free
  <2>3. ASSUME NEW k \in 1 .. m + 1 PROVE TradeOK(trades[k], Free(k - 1))'
    <3>1. CASE k = m + 1
      <4> DEFINE u == trades[k]
                 j == Free(k - 1)
      <4>1. u' = t /\ j' = i
        <5>1. k - 1 = m
          BY <2>1, <3>1
        <5>2. Free(k - 1)' = i
          BY <2>2, <5>1
        <5> QED
          BY <2>1, <3>1, <5>2
      <4> HIDE DEF u, j
      <4>2. TradeOK(u, j)'
        <5>1. \A x, y : x = t /\ y = i => TradeOK(x, y)'
          BY <1>5
        <5> QED
          BY <4>1, <5>1
      <4> QED
        BY <4>2 DEF u, j
    <3>2. CASE k # m + 1
      BY <1>3, <2>1, <3>2
    <3> QED
      BY <3>1, <3>2
  <2> QED
    BY <2>1, <2>3 DEF TradesOK
<1> QED
  BY <1>4, <1>5

-----------------------------------------------------------------------------
\* The position follows the bar it is opened at, and every bar after that.
LEMMA OpenedFollows ==
  ASSUME NEW b, Goes(b), NEW n, n = bar, NEW p, p = Opened(b)
  PROVE  Follows(p, n, n)'
<1>1. n \in Nat /\ n \in 0 .. n /\ At(n)' = b /\ BarOK(b) /\ strategy' = strategy
  BY AtStays, BarIs DEF Goes, WalkOK
<1>2. HighSince(n, n)' = b.high
  <2>1. {At(j).high : j \in n .. n}' = {b.high}
    BY <1>1
  <2>2. b.high \in Int
    BY <1>1 DEF BarOK
  <2>3. MaxOf({b.high}) = b.high
    BY <2>2, MaxOfIs
  <2> QED
    BY <2>1, <2>3 DEF HighSince
<1>3. HighestIs(n, n)' /\ HighsKnown(n, n)'
  <2>1. b.high \in Int /\ n .. n = {n}
    BY <1>1 DEF BarOK
  <2> QED
    BY <1>1, <1>2, <2>1 DEF HighestIs, HighsKnown
<1>4. Trails(None, n, n)'
  <2>1. n + 1 .. n = {}
    BY <1>1
  <2>2. TrailLevels(n, n)' = {}
    BY <2>1 DEF TrailLevels
  <2> QED
    BY <2>2 DEF Trails
<1>5. /\ p = [f \in PosFields |-> p[f]] /\ p.open = TRUE /\ p.entry = n /\ p.ref = b.close /\ p.atr = b.atr
      /\ p.high = b.high /\ p.trail = None
      /\ p.stop = IF strategy.stop = None THEN None ELSE b.close - strategy.stop * b.atr
      /\ p.take = IF strategy.take = None THEN None ELSE b.close + strategy.take * b.atr
  BY DEF Opened, PosFields
<1> QED
  BY <1>1, <1>2, <1>3, <1>4, <1>5 DEF Follows

LEMMA TrailedFollows ==
  ASSUME NEW b, Goes(b), NEW n, n = bar, NEW e \in Nat, e < bar, NEW q, Follows(q, e, bar - 1),
         NEW p, p = Trailed(q, b)
  PROVE  Follows(p, e, n)'
<1> DEFINE m == n - 1
<1>1. /\ n \in Nat /\ m \in Nat /\ e <= m /\ n = m + 1 /\ m < bar /\ Follows(q, e, m)
      /\ At(n)' = b /\ BarOK(b) /\ strategy' = strategy
      /\ At(e)' = At(e) /\ \A j \in e .. m : At(j)' = At(j)
  <2>1. \A j \in e .. m : j \in 0 .. bar - 1
    BY DEF Goes, WalkOK
  <2>2. e \in 0 .. bar - 1
    BY DEF Goes, WalkOK
  <2> QED
    BY <2>1, <2>2, AtStays, BarIs DEF Goes, WalkOK
<1> HIDE DEF m
<1>2. CASE strategy.trail = None
  <2>1. p = q
    BY <1>2 DEF Trailed
  <2> QED
    BY <1>1, <1>2, <2>1 DEF Follows
<1>3. CASE strategy.trail # None
  <2> DEFINE H == HighSince(e, m)
             h == AtLeast(H, b.high)
             level == h - strategy.trail * b.atr
             on == At(e).close + strategy.activation * At(e).atr
  <2>1. q.high = H /\ HighestIs(e, m) /\ HighsKnown(e, m) /\ Trails(q.trail, e, m) /\ b.high \in Int
    BY <1>1, <1>3 DEF Follows, BarOK
  <2>2. H \in Int /\ h \in {H, b.high} /\ H <= h /\ b.high <= h /\ h \in Int
    BY <1>1, <2>1, AtLeastIs DEF HighsKnown
  <2>3. /\ p = [f \in PosFields |-> p[f]] /\ p.high = h
        /\ p.trail = IF h < on THEN q.trail ELSE Ratchet(q.trail, level)
        /\ \A f \in PosFields \ {"high", "trail"} : p[f] = q[f]
    <3>1. q = [f \in PosFields |-> q[f]] /\ q.high = H /\ q.ref = At(e).close /\ q.atr = At(e).atr
      BY <1>1, <2>1 DEF Follows
    <3> DEFINE x == IF h < on THEN q.trail ELSE Ratchet(q.trail, level)
    <3>2. p = [q EXCEPT !.high = h, !.trail = x]
      BY <1>3, <3>1 DEF Trailed
    <3> HIDE DEF x, h
    <3>3. p = [f \in PosFields |-> p[f]] /\ p.high = h /\ p.trail = x
          /\ \A f \in PosFields \ {"high", "trail"} : p[f] = q[f]
      BY <3>1, <3>2 DEF PosFields
    <3> QED
      BY <3>3 DEF x
  <2> HIDE DEF h
  <2>4. HighSince(e, n)' = h /\ HighestIs(e, n)'
    <3> DEFINE S == {At(j).high : j \in e .. n}
    <3>1. e .. n = (e .. m) \cup {n} /\ n \notin e .. m
      BY <1>1
    <3>2. \A j \in e .. m : At(j)'.high = At(j).high /\ At(j).high <= H /\ At(j).high \in Int
      <4>1. \A j \in e .. m : j \in 0 .. bar - 1
        BY <1>1
      <4> QED
        BY <1>1, <2>1, <4>1, AtIs DEF HighestIs, Goes, BarOK
    <3>3. \E j \in e .. m : At(j)'.high = H
      BY <1>1, <2>1 DEF HighestIs
    <3>4. \A j \in e .. n : At(j)'.high \in Int /\ At(j)'.high <= h
      BY <1>1, <2>1, <2>2, <3>1, <3>2
    <3>5. \E j \in e .. n : At(j)'.high = h
      BY <1>1, <2>2, <3>1, <3>3
    <3>6. MaxOf(S') = h
      BY <3>4, <3>5, MaxOfIs
    <3>7. HighSince(e, n)' = h
      BY <3>6 DEF HighSince
    <3> QED
      BY <3>4, <3>5, <3>7 DEF HighestIs
  <2>5. \A x \in e .. m : HighSince(e, x)' = HighSince(e, x) /\ HighSince(e, x) \in Int
    <3>1. \A x \in e .. m : x \in Nat /\ x < bar
      BY <1>1
    <3> QED
      BY <2>1, <3>1, HighStays DEF HighsKnown
  <2>6. HighsKnown(e, n)'
    <3>1. \A x \in e .. n : x = n \/ x \in e .. m
      BY <1>1
    <3> QED
      BY <2>2, <2>4, <2>5, <3>1 DEF HighsKnown
  <2>7. TrailLevels(e, n)' = TrailLevels(e, m) \cup IF h >= on THEN {level} ELSE {}
    <3>1. TrailLevels(e, m)' = TrailLevels(e, m)
      BY <1>1, LevelsStay
    <3>2. e + 1 .. n = (e + 1 .. m) \cup {n} /\ n \notin e + 1 .. m
      BY <1>1
    <3>3. on' = on
      BY <1>1
    <3> HIDE DEF on
    <3>4. TrailLevels(e, n)' = TrailLevels(e, m)' \cup IF h >= on THEN {level} ELSE {}
      BY <1>1, <2>4, <3>2, <3>3 DEF TrailLevels, on
    <3> QED
      BY <3>1, <3>4
  <2>8. on \in Int /\ level \in Int
    <3>1. e \in 0 .. bar - 1 /\ WalkOK
      BY <1>1 DEF Goes, WalkOK
    <3>2. At(e).close \in Int /\ At(e).atr \in Int /\ b.atr \in Int
      BY <1>1, <3>1, AtIs DEF BarOK
    <3>3. strategy.trail \in Int /\ strategy.activation \in Int
      BY <1>3, <3>1 DEF WalkOK, StrategyOK, Level
    <3> QED
      BY <2>2, <3>2, <3>3
  <2>9. Trails(p.trail, e, n)'
    <3> HIDE DEF on, level
    <3>1. CASE h < on
      <4>1. TrailLevels(e, n)' = TrailLevels(e, m) /\ p.trail = q.trail
        BY <2>2, <2>3, <2>7, <2>8, <3>1
      <4> QED
        BY <2>1, <4>1 DEF Trails
    <3>2. CASE ~(h < on)
      <4>1. TrailLevels(e, n)' = TrailLevels(e, m) \cup {level} /\ p.trail = Ratchet(q.trail, level)
        BY <2>2, <2>3, <2>7, <2>8, <3>2
      <4>2. CASE TrailLevels(e, m) = {}
        BY <2>1, <2>8, <4>1, <4>2 DEF Trails, Ratchet
      <4>3. CASE TrailLevels(e, m) # {}
        <5>1. q.trail \in Int /\ q.trail \in TrailLevels(e, m) /\ q.trail # None
          BY <2>1, <4>3, BacktestAssumption DEF Trails
        <5>2. p.trail = AtLeast(q.trail, level)
          BY <4>1, <5>1 DEF Ratchet
        <5>3. p.trail \in {q.trail, level} /\ q.trail <= p.trail /\ level <= p.trail
          BY <2>8, <5>1, <5>2, AtLeastIs
        <5> QED
          BY <2>1, <2>8, <4>1, <4>3, <5>1, <5>3 DEF Trails
      <4> QED
        BY <4>2, <4>3
    <3> QED
      BY <3>1, <3>2
  <2>10. /\ p.open = TRUE /\ p.entry = e /\ p.ref = At(e).close /\ p.atr = At(e).atr
         /\ p.stop = IF strategy.stop = None THEN None ELSE At(e).close - strategy.stop * At(e).atr
         /\ p.take = IF strategy.take = None THEN None ELSE At(e).close + strategy.take * At(e).atr
    BY <1>1, <2>3 DEF Follows, PosFields
  <2> QED
    BY <1>1, <1>3, <2>3, <2>4, <2>6, <2>9, <2>10 DEF Follows
<1> QED
  BY <1>2, <1>3
-----------------------------------------------------------------------------
\* The executor and the reference agree on whether, and why, a trade closes at this bar.
LEMMA ExitAgrees ==
  ASSUME NEW b, Goes(b), NEW n, n = bar, NEW e \in Nat, e < bar, NEW p, Follows(p, e, n)'
  PROVE  /\ ExitOf(p, b) = "none" => Reason(e, n)' = "data_boundary"
         /\ ExitOf(p, b) # "none" => Reason(e, n)' = ExitOf(p, b) /\ ExitOf(p, b) \in Reasons \ {"data_boundary"}
<1>1. n \in Nat /\ At(n)' = b /\ BarOK(b) /\ strategy' = strategy /\ StrategyOK
  BY AtStays, BarIs DEF Goes, WalkOK
<1>2. At(e)' = At(e) /\ BarOK(At(e))
  <2>1. e \in 0 .. bar - 1 /\ WalkOK
    BY DEF Goes, WalkOK
  <2> QED
    BY <2>1, AtStays, AtIs
<1>3. /\ p.entry = e
      /\ p.stop = IF strategy.stop = None THEN None ELSE At(e).close - strategy.stop * At(e).atr
      /\ p.take = IF strategy.take = None THEN None ELSE At(e).close + strategy.take * At(e).atr
      /\ IF strategy.trail = None THEN p.trail = None ELSE Trails(p.trail, e, n)'
  BY <1>1, <1>2 DEF Follows
<1>4. StopHit(e, n)' <=> p.stop # None /\ b.low <= p.stop
  <2>1. CASE strategy.stop = None
    BY <1>1, <1>2, <1>3, <2>1 DEF StopHit
  <2>2. CASE strategy.stop # None
    <3>1. At(e).close - strategy.stop * At(e).atr \in Int
      BY <1>1, <1>2, <2>2 DEF BarOK, StrategyOK, Level
    <3>2. p.stop # None
      BY <1>3, <2>2, <3>1, BacktestAssumption
    <3> QED
      BY <1>1, <1>2, <1>3, <2>2, <3>2 DEF StopHit
  <2> QED
    BY <2>1, <2>2
<1>5. TakeHit(e, n)' <=> p.take # None /\ b.high >= p.take
  <2>1. CASE strategy.take = None
    BY <1>1, <1>2, <1>3, <2>1 DEF TakeHit
  <2>2. CASE strategy.take # None
    <3>1. At(e).close + strategy.take * At(e).atr \in Int
      BY <1>1, <1>2, <2>2 DEF BarOK, StrategyOK, Level
    <3>2. p.take # None
      BY <1>3, <2>2, <3>1, BacktestAssumption
    <3> QED
      BY <1>1, <1>2, <1>3, <2>2, <3>2 DEF TakeHit
  <2> QED
    BY <2>1, <2>2
<1>6. TrailHit(e, n)' <=> p.trail # None /\ b.low <= p.trail
  <2>1. CASE strategy.trail = None
    BY <1>1, <1>3, <2>1 DEF TrailHit
  <2>2. CASE strategy.trail # None
    <3> DEFINE L == TrailLevels(e, n)
    <3>1. /\ \A y \in L' : y \in Int
          /\ IF L' = {} THEN p.trail = None ELSE p.trail \in L' /\ \A y \in L' : y <= p.trail
      BY <1>3, <2>2 DEF Trails
    <3>2. TrailHit(e, n)' <=> \E x \in L' : b.low <= x
      BY <1>1, <2>2 DEF TrailHit
    <3>3. b.low \in Int
      BY <1>1 DEF BarOK
    <3> HIDE DEF L
    <3> QED
      BY <3>1, <3>2, <3>3, BacktestAssumption
  <2> QED
    BY <2>1, <2>2
<1>7. TimeHit(e, n)' <=> strategy.hold # None /\ bar - p.entry >= strategy.hold
  BY <1>1, <1>3 DEF TimeHit, StrategyOK, Level, Goes, WalkOK
<1> DEFINE s == StopHit(e, n)'
           t == TakeHit(e, n)'
           r == TrailHit(e, n)'
           d == TimeHit(e, n)'
<1>8. ExitOf(p, b) = IF s THEN "stop_loss" ELSE IF t THEN "take_profit" ELSE IF r THEN "trailing_stop"
                     ELSE IF d THEN "time_exit" ELSE "none"
  <2> HIDE DEF s, t, r, d
  <2>1. (s <=> p.stop # None /\ b.low <= p.stop) /\ (t <=> p.take # None /\ b.high >= p.take)
        /\ (r <=> p.trail # None /\ b.low <= p.trail) /\ (d <=> strategy.hold # None /\ bar - p.entry >= strategy.hold)
    BY <1>4, <1>5, <1>6, <1>7 DEF s, t, r, d
  <2> QED
    BY <2>1 DEF ExitOf
<1>9. Reason(e, n)' = IF s THEN "stop_loss" ELSE IF t THEN "take_profit" ELSE IF r THEN "trailing_stop"
                      ELSE IF d THEN "time_exit" ELSE "data_boundary"
  BY DEF Reason
<1> HIDE DEF s, t, r, d
<1> QED
  BY <1>8, <1>9 DEF Reasons

-----------------------------------------------------------------------------
\* One bar.
LEMMA FreeIs == ASSUME WalkOK, TradesOK PROVE Free(Len(trades)) \in Nat /\ Free(Len(trades)) <= bar
<1>1. Len(trades) \in Nat /\ bar \in Nat
  BY DEF TradesOK, WalkOK
<1>2. CASE Len(trades) = 0
  BY <1>1, <1>2 DEF Free
<1>3. CASE Len(trades) # 0
  <2>1. Len(trades) \in 1 .. Len(trades)
    BY <1>1, <1>3
  <2>2. trades[Len(trades)].exit \in Nat /\ trades[Len(trades)].exit < bar
    BY <2>1 DEF TradesOK, TradeOK
  <2> QED
    BY <1>1, <1>3, <2>2 DEF Free
<1> QED
  BY <1>2, <1>3

\* Where a bar may let one in, either it does, or one waits on.
LEMMA Enters ==
  ASSUME NEW b, Goes(b), bar' = bar + 1, NEW n, n = bar, NEW i \in Nat, i <= bar,
         \A j \in AtLeast(i, stage.warmup) .. Last - 1 : j < bar => ~At(j).go
  PROVE  /\ MayEnter(b) => EnteredAt(i, n)' /\ n < Last
         /\ ~MayEnter(b) => Waits(i)'
<1>1. n \in Nat /\ At(n)' = b /\ BarOK(b) /\ stage' = stage /\ Last' = Last /\ Last \in Nat /\ stage.warmup \in Nat
  BY AtStays, BarIs DEF Goes, WalkOK, Last
<1> DEFINE a == AtLeast(i, stage.warmup)
<1>2. a' = a /\ a \in Nat /\ i <= a /\ stage.warmup <= a /\ a \in {i, stage.warmup}
  BY <1>1, AtLeastIs DEF AtLeast
<1>3. \A j \in a .. Last - 1 : j < n => ~At(j)'.go
  <2>1. \A j \in a .. Last - 1 : j < n => j \in 0 .. bar - 1
    BY <1>1, <1>2
  <2> QED
    BY <2>1, AtStays
<1> HIDE DEF a
<1>4. ASSUME MayEnter(b) PROVE EnteredAt(i, n)' /\ n < Last
  <2>1. n >= stage.warmup /\ n < Last /\ b.go
    BY <1>4 DEF MayEnter
  <2>2. n \in a .. Last - 1 /\ \A j \in a .. n - 1 : j \in a .. Last - 1 /\ j < n
    BY <1>1, <1>2, <2>1
  <2> QED
    BY <1>1, <1>2, <1>3, <2>1, <2>2 DEF EnteredAt, a
<1>5. ASSUME ~MayEnter(b) PROVE Waits(i)'
  <2>1. \A j \in a .. Last - 1 : j < n + 1 => j < n \/ (j = n /\ n >= stage.warmup /\ n < Last)
    BY <1>1, <1>2
  <2>2. ~(n >= stage.warmup /\ n < Last /\ b.go)
    BY <1>5 DEF MayEnter
  <2>3. \A j \in a .. Last - 1 : j < n + 1 => ~At(j)'.go
    BY <1>1, <1>3, <2>1, <2>2
  <2> QED
    BY <1>1, <1>2, <2>3 DEF Waits, a
<1> QED
  BY <1>4, <1>5
LEMMA PositionIs ==
  ASSUME NEW b, Goes(b), bar' = bar + 1, NEW n, n = bar, NEW j, NEW q, position' = q,
         \/ q = Flat /\ Waits(j)'
         \/ \E x : Follows(q, x, n)' /\ x \in Nat /\ x <= n /\ n < Last /\ EnteredAt(j, x)' /\ StaysOpen(x, n)'
  PROVE  PositionOK(j)'
<1>1. n \in Nat /\ Last' = Last /\ Last \in Nat
  BY DEF Goes, WalkOK, Last
<1>2. CASE q = Flat /\ Waits(j)'
  BY <1>2 DEF PositionOK, Flat
<1>3. ASSUME NEW x, Follows(q, x, n)', x \in Nat, x <= n, n < Last, EnteredAt(j, x)', StaysOpen(x, n)'
      PROVE  PositionOK(j)'
  <2> DEFINE u == position
             v == position.entry
             w == bar - 1
  <2>1. u' = q /\ v' = x /\ w' = n
    BY <1>1, <1>3 DEF Follows
  <2>2. v' < bar' /\ bar' <= Last'
    BY <1>1, <1>3, <2>1
  <2> HIDE DEF u, v, w
  <2>3. Follows(u, v, w)' /\ EnteredAt(j, v)' /\ StaysOpen(v, w)'
    <3>1. \A q0, x0, n0 : q0 = q /\ x0 = x /\ n0 = n => Follows(q0, x0, n0)' /\ EnteredAt(j, x0)' /\ StaysOpen(x0, n0)'
      BY <1>3
    <3> QED
      BY <2>1, <3>1
  <2> QED
    BY <2>2, <2>3 DEF PositionOK, u, v, w
<1> QED
  BY <1>2, <1>3

\* The step, in terms of the position p after the trailing stop and of why it is closed.
LEMMA StepIs ==
  ASSUME WalkOK, NEW b, Step(b)
  PROVE  /\ bar <= Last /\ seen' = Append(seen, b) /\ bar' = bar + 1 /\ UNCHANGED <<strategy, stage>>
         /\ ~position.open => /\ trades' = trades
                              /\ position' = IF MayEnter(b) THEN Opened(b) ELSE Flat
         /\ position.open =>
              \E p, r : /\ p = Trailed(position, b) /\ (p.open => r = ExitOf(p, b))
                        /\ p.open => 
                          IF r # "none"
                          THEN /\ trades' = Closed(p, r)
                               /\ position' = IF MayEnter(b) THEN Opened(b) ELSE Flat
                          ELSE IF bar = Last THEN trades' = Closed(p, "data_boundary") /\ position' = Flat
                          ELSE trades' = trades /\ position' = p
<1> DEFINE p == IF position.open THEN Trailed(position, b) ELSE position
           reason == IF p.open THEN ExitOf(p, b) ELSE "none"
           flat == ~p.open \/ reason # "none"
           left == IF flat /\ MayEnter(b) THEN Opened(b) ELSE IF flat THEN Flat ELSE p
           done == IF reason = "none" THEN trades ELSE Closed(p, reason)
<1>1. /\ bar <= Last /\ seen' = Append(seen, b) /\ bar' = bar + 1 /\ UNCHANGED <<strategy, stage>>
      /\ IF left.open /\ bar = Last
         THEN position' = Flat /\ trades' = Append(done, [entry |-> left.entry, exit |-> bar, reason |-> "data_boundary"])
         ELSE position' = left /\ trades' = done
  BY DEF Step
<1>2. MayEnter(b) => bar # Last
  BY <1>1 DEF MayEnter, WalkOK
<1>3. Opened(b).open /\ ~Flat.open
  BY DEF Opened, Flat
<1>4. CASE ~position.open
  <2>1. p = position /\ reason = "none" /\ flat /\ done = trades
    BY <1>4
  <2>2. left = IF MayEnter(b) THEN Opened(b) ELSE Flat
    BY <2>1
  <2> HIDE DEF p, reason, flat, left, done
  <2>3. ~(left.open /\ bar = Last)
    BY <1>2, <1>3, <2>2
  <2> QED
    BY <1>1, <1>4, <2>1, <2>2, <2>3
<1>5. CASE position.open
  <2>1. p = Trailed(position, b) /\ (p.open => reason = ExitOf(p, b))
    BY <1>5
  <2>2. ASSUME p.open, reason # "none"
        PROVE  trades' = Closed(p, reason) /\ position' = IF MayEnter(b) THEN Opened(b) ELSE Flat
    <3>1. done = Closed(p, reason) /\ left = IF MayEnter(b) THEN Opened(b) ELSE Flat
      BY <2>2
    <3> HIDE DEF p, reason, flat, left, done
    <3>2. ~(left.open /\ bar = Last)
      BY <1>2, <1>3, <3>1
    <3> QED
      BY <1>1, <3>1, <3>2
  <2>3. ASSUME p.open, reason = "none"
        PROVE  IF bar = Last THEN trades' = Closed(p, "data_boundary") /\ position' = Flat
               ELSE trades' = trades /\ position' = p
    <3>1. done = trades /\ left = p
      BY <2>3
    <3> HIDE DEF p, reason, flat, left, done
    <3> QED
      BY <1>1, <2>3, <3>1 DEF Closed
  <2>4. p.open => IF reason # "none"
                  THEN trades' = Closed(p, reason) /\ position' = IF MayEnter(b) THEN Opened(b) ELSE Flat
                  ELSE IF bar = Last THEN trades' = Closed(p, "data_boundary") /\ position' = Flat
                  ELSE trades' = trades /\ position' = p
    BY <2>2, <2>3
  <2> HIDE DEF p, reason, flat, left, done
  <2> QED
    BY <1>1, <1>5, <2>1, <2>4
<1> QED
  BY <1>4, <1>5

LEMMA StepKeeps == ASSUME BtInv, NEW b \in Bars, Step(b) PROVE BtInv'
<1>1. WalkOK /\ TradesOK /\ PositionOK(Free(Len(trades)))
  BY DEF BtInv
<1>2. Goes(b) /\ bar' = bar + 1
  BY <1>1, StepIs DEF Goes
<1>3. WalkOK'
  BY <1>2, StepsOK
<1>4. PICK n, i : n = bar /\ i = Free(Len(trades)) /\ i \in Nat /\ i <= bar /\ PositionOK(i)
  BY <1>1, FreeIs
<1>5. n \in Nat /\ n <= Last /\ Last \in Nat
  BY <1>2, <1>4 DEF Goes, WalkOK
\* Once there is no position: where the last trade ended, one is opened or not.
<1>6. ASSUME NEW j \in Nat, j <= bar, \A k \in AtLeast(j, stage.warmup) .. Last - 1 : k < bar => ~At(k).go,
             position' = IF MayEnter(b) THEN Opened(b) ELSE Flat
      PROVE  PositionOK(j)'
  <2>1. CASE MayEnter(b)
    <3>1. PICK q : q = Opened(b)
      OBVIOUS
    <3>2. Follows(q, n, n)' /\ position' = q
      BY <1>2, <1>4, <1>6, <2>1, <3>1, OpenedFollows
    <3>3. EnteredAt(j, n)' /\ n < Last
      BY <1>2, <1>4, <1>6, <2>1, Enters
    <3>4. StaysOpen(n, n)'
      BY <1>5 DEF StaysOpen
    <3> QED
      BY <1>2, <1>4, <1>5, <3>2, <3>3, <3>4, PositionIs
  <2>2. CASE ~MayEnter(b)
    <3>1. Waits(j)'
      BY <1>2, <1>4, <1>6, <2>2, Enters
    <3>2. PICK q : q = Flat
      OBVIOUS
    <3> QED
      BY <1>2, <1>4, <1>6, <2>2, <3>1, <3>2, PositionIs
  <2> QED
    BY <2>1, <2>2
<1>7. ASSUME NEW j, Free(Len(trades))' = j, PositionOK(j)', TradesOK' PROVE BtInv'
  <2> DEFINE u == Free(Len(trades))
  <2>1. u' = j
    BY <1>7
  <2>2. \A k : k = j => PositionOK(k)'
    BY <1>7
  <2> HIDE DEF u
  <2>3. PositionOK(u)'
    BY <2>1, <2>2
  <2> QED
    BY <1>3, <1>7, <2>3 DEF BtInv, u
<1>8. CASE ~position.open
  <2>1. Waits(i)
    BY <1>4, <1>8 DEF PositionOK, Follows
  <2>2. trades' = trades /\ position' = IF MayEnter(b) THEN Opened(b) ELSE Flat
    BY <1>1, <1>8, StepIs
  <2>3. PositionOK(i)'
    BY <1>4, <1>6, <2>1, <2>2 DEF Waits
  <2>4. TradesOK'
    BY <1>1, <1>2, <2>2, TradesGrow
  <2>5. Free(Len(trades))' = i
    BY <1>4, <2>2 DEF Free
  <2> QED
    BY <1>7, <2>3, <2>4, <2>5
<1>9. CASE position.open
  <2> DEFINE e == position.entry
  <2>1. Follows(position, e, bar - 1) /\ e < bar /\ EnteredAt(i, e) /\ StaysOpen(e, bar - 1) /\ e \in Nat
    BY <1>4, <1>9 DEF PositionOK, Flat, EnteredAt
  <2>2. PICK p, r : /\ p = Trailed(position, b) /\ (p.open => r = ExitOf(p, b))
                    /\ p.open =>
                         IF r # "none"
                         THEN /\ trades' = Closed(p, r)
                              /\ position' = IF MayEnter(b) THEN Opened(b) ELSE Flat
                         ELSE IF bar = Last THEN trades' = Closed(p, "data_boundary") /\ position' = Flat
                         ELSE trades' = trades /\ position' = p
    BY <1>1, <1>9, StepIs
  <2>3. PICK x, q : x = e /\ q = position
    OBVIOUS
  <2>4. Follows(p, x, n)'
    BY <1>2, <1>4, <2>1, <2>2, <2>3, TrailedFollows
  <2>5. p.open = TRUE /\ p.entry = x
    BY <2>4 DEF Follows
  <2>6. /\ r = "none" => Reason(x, n)' = "data_boundary"
        /\ r # "none" => Reason(x, n)' = r /\ r \in Reasons \ {"data_boundary"}
    BY <1>2, <1>4, <2>1, <2>2, <2>3, <2>4, <2>5, ExitAgrees
  <2>7. EnteredAt(i, x)'
    BY <1>2, <1>4, <2>1, <2>3, EntryStays
  <2>8. StaysOpen(x, n - 1)'
    <3> DEFINE m == n - 1
    <3>1. m \in Int /\ m < bar /\ StaysOpen(x, m)
      BY <1>4, <1>5, <2>1, <2>3
    <3> HIDE DEF m
    <3>2. StaysOpen(x, m)'
      BY <1>2, <2>1, <2>3, <3>1, OpenStays
    <3> QED
      BY <3>2 DEF m
  <2>9. Last' = Last
    BY <1>2 DEF Goes, Last
  <2>10. ASSUME NEW s \in Reasons, Reason(x, n)' = s, s # "data_boundary" \/ n = Last, trades' = Closed(p, s)
         PROVE  TradesOK' /\ Free(Len(trades))' = n
    <3> DEFINE t == [entry |-> x, exit |-> n, reason |-> s]
    <3>1. trades' = Append(trades, t)
      BY <1>4, <2>5, <2>10 DEF Closed
    <3>2. t \in Trade /\ t.entry = x /\ t.exit = n /\ t.reason = s
      BY <1>5, <2>1, <2>3 DEF Trade
    <3> HIDE DEF t
    <3>3. TradeOK(t, i)'
      BY <1>2, <1>4, <1>5, <2>1, <2>3, <2>7, <2>8, <2>9, <2>10, <3>2 DEF TradeOK
    <3>4. TradesOK'
      BY <1>1, <1>2, <1>4, <3>1, <3>2, <3>3, TradesGrow
    <3>5. trades \in Seq(Trade) /\ Len(trades') = Len(trades) + 1 /\ trades'[Len(trades) + 1] = t /\ Len(trades) \in Nat
      BY <1>1, <3>1, <3>2 DEF TradesOK
    <3> QED
      BY <3>2, <3>4, <3>5 DEF Free
  <2>11. \A j \in AtLeast(n, stage.warmup) .. Last - 1 : ~(j < bar)
    <3>1. AtLeast(n, stage.warmup) \in Int /\ n <= AtLeast(n, stage.warmup)
      BY <1>1, <1>5, AtLeastIs DEF WalkOK
    <3> QED
      BY <1>4, <1>5, <3>1
  <2>12. CASE r # "none"
    <3>1. TradesOK' /\ Free(Len(trades))' = n
      BY <2>2, <2>5, <2>6, <2>10, <2>12
    <3>2. PositionOK(n)'
      BY <1>4, <1>5, <1>6, <2>2, <2>5, <2>11, <2>12
    <3> QED
      BY <1>7, <3>1, <3>2
  <2>13. CASE r = "none" /\ bar = Last
    <3>1. TradesOK' /\ Free(Len(trades))' = n
      BY <1>4, <2>2, <2>5, <2>6, <2>10, <2>13 DEF Reasons
    <3>2. Waits(n)'
      <4>1. AtLeast(n, stage.warmup)' = AtLeast(n, stage.warmup)
        BY <1>2 DEF Goes, AtLeast
      <4>2. AtLeast(n, stage.warmup) \in Int /\ n <= AtLeast(n, stage.warmup)
        BY <1>1, <1>5, AtLeastIs DEF WalkOK
      <4> QED
        BY <1>4, <1>5, <2>9, <2>13, <4>1, <4>2 DEF Waits
    <3>3. position' = Flat
      BY <2>2, <2>5, <2>13
    <3>4. PositionOK(n)'
      BY <3>2, <3>3 DEF PositionOK, Flat
    <3> QED
      BY <1>7, <3>1, <3>4
  <2>14. CASE r = "none" /\ bar # Last
    <3>1. trades' = trades /\ position' = p
      BY <2>2, <2>5, <2>14
    <3>2. TradesOK' /\ Free(Len(trades))' = i
      BY <1>1, <1>2, <1>4, <3>1, TradesGrow DEF Free
    <3>3. StaysOpen(x, n)'
      <4>1. \A k \in x + 1 .. n : k = n \/ k \in x + 1 .. n - 1
        BY <1>5, <2>1, <2>3
      <4> QED
        BY <2>6, <2>8, <2>14, <4>1 DEF StaysOpen
    <3>4. n < Last /\ x <= n /\ x \in Nat
      BY <1>4, <1>5, <2>1, <2>3, <2>14
    <3>5. PositionOK(i)'
      BY <1>2, <1>4, <2>4, <2>7, <3>1, <3>3, <3>4, PositionIs
    <3> QED
      BY <1>7, <3>2, <3>5
  <2> QED
    BY <2>12, <2>13, <2>14
<1> QED
  BY <1>8, <1>9

LEMMA BtStart == BtInit => BtInv
<1> SUFFICES ASSUME BtInit PROVE BtInv
  OBVIOUS
<1>1. PICK n \in Totals, p \in Warmups, w \in Warmups, k \in Folds : stage \in StagesOf(n, k, p, w)
  BY DEF BtInit
<1>2. stage.from \in Int /\ stage.to \in Int /\ stage.warmup = w /\ w \in Nat /\ w < stage.to - stage.from
  BY <1>1, StageIs, BacktestAssumption
<1>3. StrategyOK
  BY BacktestAssumption DEF BtInit, StrategyOK, Level
<1>4. Last \in Nat
  BY <1>2 DEF Last
<1>5. bar = 0 /\ seen = << >> /\ trades = << >> /\ position = Flat
  BY DEF BtInit
<1>6. WalkOK
  BY <1>2, <1>3, <1>4, <1>5 DEF WalkOK
<1>7. TradesOK /\ Len(trades) = 0
  BY <1>5 DEF TradesOK
<1>8. Waits(Free(Len(trades)))
  <2>1. AtLeast(0, w) \in Nat
    BY <1>2 DEF AtLeast
  <2> QED
    BY <1>2, <1>5, <1>7, <2>1 DEF Waits, Free
<1> QED
  BY <1>5, <1>6, <1>7, <1>8 DEF BtInv, PositionOK

\* At the end the reference has the same trades.
LEMMA TradesAgree == BtInv => TradesAreFirstHits
<1> SUFFICES ASSUME BtInv PROVE TradesAreFirstHits
  OBVIOUS
<1>1. WalkOK /\ TradesOK /\ PositionOK(Free(Len(trades)))
  BY DEF BtInv
<1>2. stage.warmup < stage.to - stage.from
  BY <1>1 DEF WalkOK
<1>3. ASSUME Done PROVE ~position.open /\ Waits(Free(Len(trades)))
  BY <1>1, <1>3 DEF PositionOK, Flat, Done, WalkOK
<1>4. ASSUME NEW k \in 0 .. Len(trades) PROVE Free(k) \in Nat /\ AtLeast(Free(k), stage.warmup) \in Nat
  <2>1. Free(k) \in Nat
    BY <1>1, TradeIs DEF Free, TradesOK
  <2> QED
    BY <1>1, <2>1 DEF WalkOK, AtLeast
<1>5. ASSUME Done PROVE Entries(Free(Len(trades))) = {}
  BY <1>1, <1>3, <1>4, <1>5 DEF Entries, Waits, Done, WalkOK, TradesOK
<1>6. ASSUME NEW k \in 0 .. Len(trades), k # Len(trades)
      PROVE  LET t == trades[k + 1] IN
             /\ Entries(Free(k)) # {} /\ t.entry = MinOf(Entries(Free(k)))
             /\ t.exit = MinOf(Exits(t.entry)) /\ t.reason = Reason(t.entry, t.exit)
  <2> DEFINE t == trades[k + 1]
             i == Free(k)
  <2>1. TradeOK(t, i) /\ t.entry \in Nat /\ t.exit \in Nat /\ Last \in Nat
    <3>1. k + 1 \in 1 .. Len(trades) /\ (k + 1) - 1 = k
      BY <1>1, <1>6 DEF TradesOK
    <3>2. TradeOK(trades[k + 1], Free(k))
      BY <1>1, <3>1 DEF TradesOK
    <3> QED
      BY <1>1, <3>2 DEF TradeOK, EnteredAt, WalkOK
  <2> HIDE DEF t
  <2>2. AtLeast(i, stage.warmup) \in Nat
    BY <1>4
  <2> HIDE DEF i
  <2>3. t.entry \in Entries(i) /\ Entries(i) \subseteq Int /\ \A j \in Entries(i) : t.entry <= j
    BY <2>1, <2>2 DEF TradeOK, EnteredAt, Entries
  <2>4. t.exit \in Exits(t.entry) /\ Exits(t.entry) \subseteq Int /\ \A j \in Exits(t.entry) : t.exit <= j
    <3>1. t.exit \in Exits(t.entry)
      BY <2>1 DEF TradeOK, Exits
    <3>2. \A j \in Exits(t.entry) : t.exit <= j
      BY <2>1 DEF TradeOK, Exits, StaysOpen
    <3> QED
      BY <2>1, <3>1, <3>2 DEF Exits
  <2>5. t.entry = MinOf(Entries(i)) /\ t.exit = MinOf(Exits(t.entry)) /\ t.reason = Reason(t.entry, t.exit)
    BY <2>1, <2>3, <2>4, MinOfIs DEF TradeOK
  <2> QED
    BY <2>3, <2>5 DEF t, i
<1>7. \A k : Free(k) = IF k = 0 THEN 0 ELSE trades[k].exit
  BY DEF Free
<1> QED
  BY <1>2, <1>3, <1>5, <1>6, <1>7 DEF TradesAreFirstHits

\* Whatever the bars, the strategy and the division into stages: every trade of the executor is
\* the one the reference names, and none is left open (strategy_executor.py, execute_strategy).
THEOREM TradesAreRight == BtSpec => []TradesAreFirstHits
<1>1. BtInv /\ [BtNext]_btvars => BtInv'
  <2> SUFFICES ASSUME BtInv, [BtNext]_btvars PROVE BtInv'
    OBVIOUS
  <2>1. CASE UNCHANGED btvars
    <3> USE <2>1 DEF btvars
    <3>1. WalkOK'
      BY DEF BtInv, WalkOK, StrategyOK, Last
    <3>2. Last' = Last /\ Free(Len(trades))' = Free(Len(trades)) /\ \A i : At(i)' = At(i) /\ Free(i)' = Free(i)
      BY DEF Last, At, Free
    <3>3. \A e, n : HighSince(e, n)' = HighSince(e, n)
      BY <3>2 DEF HighSince
    <3>4. \A e, n : TrailLevels(e, n)' = TrailLevels(e, n)
      BY <3>2, <3>3 DEF TrailLevels
    <3>5. \A e, n : Reason(e, n)' = Reason(e, n)
      <4>1. \A e, n : StopHit(e, n)' = StopHit(e, n) /\ TakeHit(e, n)' = TakeHit(e, n)
        BY <3>2 DEF StopHit, TakeHit
      <4>2. \A e, n : TrailHit(e, n)' = TrailHit(e, n) /\ TimeHit(e, n)' = TimeHit(e, n)
        BY <3>2, <3>4 DEF TrailHit, TimeHit
      <4> QED
        BY <4>1, <4>2 DEF Reason
    <3>6. \A i, e, n : EnteredAt(i, e)' = EnteredAt(i, e) /\ Waits(i)' = Waits(i) /\ StaysOpen(e, n)' = StaysOpen(e, n)
      BY <3>2, <3>5 DEF EnteredAt, Waits, StaysOpen, AtLeast
    <3>7. \A t, i : TradeOK(t, i)' = TradeOK(t, i)
      BY <3>2, <3>5, <3>6 DEF TradeOK
    <3>8. TradesOK'
      BY <3>2, <3>7 DEF BtInv, TradesOK
    <3>9. \A p, e, n : Follows(p, e, n)' = Follows(p, e, n)
      BY <3>2, <3>3, <3>4 DEF Follows, HighestIs, HighsKnown, Trails
    <3>10. PositionOK(Free(Len(trades)))'
      BY <3>2, <3>6, <3>9 DEF BtInv, PositionOK
    <3> QED
      BY <3>1, <3>8, <3>10 DEF BtInv
  <2> QED
    BY <2>1, StepKeeps DEF BtNext
<1>2. QED
  BY <1>1, BtStart, TradesAgree, PTL DEF BtSpec

-----------------------------------------------------------------------------
(* Histories of candles, page after page. First, sets of numbers in        *)
(* ascending order.                                                        *)
Whole(S) == S \subseteq Int /\ IsFiniteSet(S)
UpTo(S, t) == {u \in S : u <= t}
Rising(s) == \A i, j \in DOMAIN s : i < j => s[i] < s[j]

LEMMA WholePart ==
  ASSUME NEW S, Whole(S), NEW T, T \subseteq S
  PROVE  Whole(T) /\ Cardinality(T) \in Nat /\ Cardinality(S) \in Nat /\ Cardinality(T) <= Cardinality(S)
         /\ (Cardinality(S) = Cardinality(T) => S = T)
<1>1. IsFiniteSet(T) /\ Cardinality(T) <= Cardinality(S) /\ (Cardinality(S) = Cardinality(T) => S = T)
  BY FS_Subset DEF Whole
<1>2. QED
  BY <1>1, FS_CardinalityType DEF Whole

LEMMA NumbersOf ==
  ASSUME NEW S, S \subseteq Int, NEW s \in Seq(S)
  PROVE  /\ s \in Seq(Int) /\ Len(s) \in Nat /\ DOMAIN s = 1 .. Len(s)
         /\ \A i \in 1 .. Len(s) : s[i] \in S /\ s[i] \in Int
<1>1. Len(s) \in Nat /\ DOMAIN s = 1 .. Len(s) /\ s \in [1 .. Len(s) -> S]
  OBVIOUS
<1>2. s \in [1 .. Len(s) -> Int]
  BY <1>1
<1>3. QED
  BY <1>1, <1>2

\* A rank is a number from 1 on, and grows with the element.
LEMMA Ranks ==
  ASSUME NEW S, Whole(S), NEW t \in S
  PROVE  /\ Cardinality(UpTo(S, t)) \in 1 .. Cardinality(S)
         /\ \A u \in S : u < t => Cardinality(UpTo(S, u)) < Cardinality(UpTo(S, t))
<1>1. UpTo(S, t) \subseteq S /\ t \in UpTo(S, t)
  BY DEF UpTo, Whole
<1>2. Whole(UpTo(S, t)) /\ Cardinality(UpTo(S, t)) \in Nat /\ Cardinality(UpTo(S, t)) <= Cardinality(S)
      /\ Cardinality(S) \in Nat
  BY <1>1, WholePart
<1>3. Cardinality(UpTo(S, t)) # 0
  BY <1>1, <1>2, FS_EmptySet DEF Whole
<1>4. ASSUME NEW u \in S, u < t PROVE Cardinality(UpTo(S, u)) < Cardinality(UpTo(S, t))
  <2>1. UpTo(S, u) \subseteq UpTo(S, t) /\ t \notin UpTo(S, u)
    <3>1. t \in Int /\ u \in Int /\ S \subseteq Int
      BY DEF Whole
    <3>2. ~(t <= u) /\ \A x \in S : x <= u => x <= t
      BY <3>1, <1>4
    <3>3. QED
      BY <3>2 DEF UpTo
  <2>2. Cardinality(UpTo(S, u)) \in Nat /\ Cardinality(UpTo(S, u)) <= Cardinality(UpTo(S, t))
        /\ (Cardinality(UpTo(S, t)) = Cardinality(UpTo(S, u)) => UpTo(S, t) = UpTo(S, u))
    BY <2>1, <1>2, WholePart
  <2>3. QED
    BY <2>1, <2>2, <1>1, <1>2
<1>5. QED
  BY <1>2, <1>3, <1>4

LEMMA RanksDiffer ==
  ASSUME NEW S, Whole(S), NEW t \in S, NEW u \in S, Cardinality(UpTo(S, t)) = Cardinality(UpTo(S, u))
  PROVE  t = u
<1>1. t \in Int /\ u \in Int
  BY DEF Whole
<1>2. Cardinality(UpTo(S, t)) \in 1 .. Cardinality(S) /\ Cardinality(S) \in Nat
  BY Ranks, FS_CardinalityType DEF Whole
<1>3. ~(t < u) /\ ~(u < t)
  BY <1>2, Ranks
<1>4. QED
  BY <1>1, <1>3

\* Every rank is taken: there are as many as elements, and no two share one.
LEMMA RankTaken ==
  ASSUME NEW S, Whole(S), NEW i \in 1 .. Cardinality(S)
  PROVE  \E t \in S : Cardinality(UpTo(S, t)) = i
<1> DEFINE f == [t \in S |-> Cardinality(UpTo(S, t))]
           n == Cardinality(S)
<1>1. n \in Nat /\ IsFiniteSet(1 .. n) /\ Cardinality(1 .. n) = n /\ IsFiniteSet(S)
  BY FS_CardinalityType, FS_Interval DEF Whole
<1>2. f \in Injection(S, 1 .. n)
  <2>1. f \in [S -> 1 .. n]
    BY Ranks
  <2>2. \A t, u \in S : f[t] = f[u] => t = u
    BY RanksDiffer
  <2>3. QED
    BY <2>1, <2>2 DEF Injection, IsInjective
<1>3. f \in Surjection(S, 1 .. n)
  BY <1>1, <1>2, FS_Injection
<1>4. QED
  BY <1>3 DEF Surjection

LEMMA AscendingIs ==
  ASSUME NEW S, Whole(S)
  PROVE  /\ Ascending(S) \in Seq(S) /\ Len(Ascending(S)) = Cardinality(S) /\ Cardinality(S) \in Nat
         /\ \A i \in 1 .. Cardinality(S) : Cardinality(UpTo(S, Ascending(S)[i])) = i /\ Ascending(S)[i] \in S
         /\ Rising(Ascending(S)) /\ Range(Ascending(S)) = S
<1> DEFINE n == Cardinality(S)
           s == Ascending(S)
<1>1. n \in Nat
  BY FS_CardinalityType DEF Whole
<1>2. s = [i \in 1 .. n |-> CHOOSE t \in S : Cardinality(UpTo(S, t)) = i]
  BY DEF Ascending, UpTo
<1>3. ASSUME NEW i \in 1 .. n PROVE s[i] \in S /\ Cardinality(UpTo(S, s[i])) = i
  <2>1. \E t \in S : Cardinality(UpTo(S, t)) = i
    BY RankTaken
  <2>2. s[i] = CHOOSE t \in S : Cardinality(UpTo(S, t)) = i
    BY <1>2
  <2>3. QED
    BY <2>1, <2>2
<1>4. s \in [1 .. n -> S] /\ s \in Seq(S) /\ Len(s) = n /\ DOMAIN s = 1 .. n
  BY <1>1, <1>2, <1>3
<1>5. Rising(s)
  <2> SUFFICES ASSUME NEW i \in 1 .. n, NEW j \in 1 .. n, i < j PROVE s[i] < s[j]
    BY <1>4 DEF Rising
  <2>1. s[i] \in S /\ s[j] \in S /\ Cardinality(UpTo(S, s[i])) = i /\ Cardinality(UpTo(S, s[j])) = j /\ i # j
    BY <1>3
  <2>2. ~(s[j] < s[i])
    BY <2>1, Ranks
  <2>3. s[i] # s[j] /\ s[i] \in Int /\ s[j] \in Int
    BY <2>1 DEF Whole
  <2>4. QED
    BY <2>2, <2>3
<1>6. Range(s) = S
  <2>1. ASSUME NEW t \in S PROVE \E i \in 1 .. n : s[i] = t
    <3>1. Cardinality(UpTo(S, t)) \in 1 .. n
      BY Ranks
    <3>2. QED
      BY <3>1, <1>3, RanksDiffer
  <2>2. QED
    BY <2>1, <1>3, <1>4 DEF Range
<1>7. QED
  BY <1>1, <1>3, <1>4, <1>5, <1>6

\* A rising sequence of numbers is its set in ascending order.
LEMMA RisingIs ==
  ASSUME NEW s \in Seq(Int), Rising(s)
  PROVE  Whole(Range(s)) /\ Cardinality(Range(s)) = Len(s) /\ s = Ascending(Range(s))
<1> DEFINE S == Range(s)
           n == Len(s)
<1>1. n \in Nat /\ DOMAIN s = 1 .. n /\ s \in [1 .. n -> Int] /\ S \subseteq Int
  BY DEF Range
<1>2. ASSUME NEW i \in 1 .. n, NEW j \in 1 .. n, s[i] = s[j] PROVE i = j
  BY <1>1, <1>2 DEF Rising
<1>3. ASSUME NEW m \in 0 .. n PROVE IsFiniteSet({s[i] : i \in 1 .. m}) /\ Cardinality({s[i] : i \in 1 .. m}) = m
  <2> DEFINE T == {s[i] : i \in 1 .. m}
             g == [i \in 1 .. m |-> s[i]]
  <2>1. m \in Nat /\ 1 .. m \subseteq 1 .. n
    BY <1>1
  <2>2. g \in Bijection(1 .. m, T)
    <3>1. g \in Injection(1 .. m, T)
      BY <2>1, <1>2 DEF Injection, IsInjective
    <3>2. g \in Surjection(1 .. m, T)
      BY DEF Surjection
    <3>3. QED
      BY <3>1, <3>2 DEF Bijection
  <2>3. IsFiniteSet(1 .. m) /\ Cardinality(1 .. m) = m
    BY <2>1, FS_Interval
  <2>4. QED
    BY <2>2, <2>3, FS_Bijection DEF ExistsBijection
<1>4. S = {s[i] : i \in 1 .. n} /\ n \in 0 .. n
  BY <1>1 DEF Range
<1>5. Whole(S) /\ Cardinality(S) = n
  BY <1>1, <1>3, <1>4 DEF Whole
<1>6. ASSUME NEW i \in 1 .. n PROVE s[i] = Ascending(S)[i]
  <2>1. UpTo(S, s[i]) = {s[j] : j \in 1 .. i}
    <3>1. ASSUME NEW j \in 1 .. n PROVE s[j] <= s[i] <=> j <= i
      BY <1>1, <3>1 DEF Rising
    <3>2. QED
      BY <3>1, <1>4, <1>1 DEF UpTo
  <2>2. Cardinality(UpTo(S, s[i])) = i /\ s[i] \in S
    <3>1. i \in 0 .. n
      BY <1>1
    <3>2. Cardinality({s[j] : j \in 1 .. i}) = i
      BY <3>1, <1>3
    <3>3. QED
      BY <3>2, <2>1, <1>4
  <2>3. Cardinality(UpTo(S, Ascending(S)[i])) = i /\ Ascending(S)[i] \in S
    BY <1>5, AscendingIs
  <2>4. QED
    BY <2>2, <2>3, <1>5, RanksDiffer
<1>7. Ascending(S) \in [1 .. n -> Int]
  BY <1>1, <1>5, AscendingIs
<1>8. QED
  BY <1>1, <1>5, <1>6, <1>7

-----------------------------------------------------------------------------
\* T is the upper end of S.
Tops(T, S) == T \subseteq S /\ \A t \in T, u \in S \ T : u < t

LEMMA TopsNest ==
  ASSUME NEW S, Whole(S), NEW A, NEW B, Tops(A, S), Tops(B, S), Cardinality(A) <= Cardinality(B)
  PROVE  A \subseteq B
<1>1. A \subseteq B \/ B \subseteq A
  <2>1. ASSUME NEW a \in A \ B, NEW b \in B \ A PROVE FALSE
    <3>1. a < b /\ b < a /\ a \in Int /\ b \in Int
      BY DEF Tops, Whole
    <3>2. QED
      BY <3>1
  <2>2. QED
    BY <2>1
<1>2. Whole(A) /\ Whole(B) /\ Cardinality(A) \in Nat /\ Cardinality(B) \in Nat
  BY WholePart DEF Tops
<1>3. ASSUME B \subseteq A PROVE A = B
  <2>1. Cardinality(B) <= Cardinality(A) /\ (Cardinality(A) = Cardinality(B) => A = B)
    BY <1>2, <1>3, WholePart
  <2>2. QED
    BY <2>1, <1>2
<1>4. QED
  BY <1>1, <1>3

\* The last n of a set in order are its upper end, in order.
LEMMA LastOnes ==
  ASSUME NEW S, Whole(S), NEW n \in Nat
  PROVE  LET s == NewestOf(Ascending(S), n)  T == Range(s) IN
         /\ s = Ascending(T) /\ Tops(T, S) /\ Cardinality(T) = Min2(n, Cardinality(S)) /\ Len(s) = Cardinality(T)
         /\ Whole(T)
<1> DEFINE a == Ascending(S)
           l == Cardinality(S)
           m == Min2(n, l)
           s == NewestOf(a, n)
           T == Range(s)
<1>0. l \in Nat /\ a \in Seq(S) /\ Len(a) = l /\ Rising(a) /\ Range(a) = S /\ S \subseteq Int
  BY AscendingIs DEF Whole
<1>1. /\ l \in Nat /\ Len(a) = l /\ Rising(a) /\ Range(a) = S /\ S \subseteq Int /\ DOMAIN a = 1 .. l
      /\ a \in Seq(Int) /\ \A i \in 1 .. l : a[i] \in S /\ a[i] \in Int
  BY <1>0, NumbersOf
<1>2. m \in Nat /\ m <= l /\ s = SubSeq(a, l - m + 1, l)
  BY <1>1 DEF Min2, NewestOf
<1> HIDE DEF a, l, m, s
<1>3. s \in Seq(Int) /\ Len(s) = m /\ DOMAIN s = 1 .. m /\ \A i \in 1 .. m : s[i] = a[l - m + i]
  <2>1. a \in Seq(Int) /\ l - m + 1 \in Int /\ l \in Int
    BY <1>1, <1>2
  <2>2. s = [i \in 1 .. m |-> a[l - m + i]]
    <3>1. \A i \in 1 .. m : l - m + 1 + i - 1 = l - m + i
      BY <1>1, <1>2
    <3>2. l - (l - m + 1) + 1 = m
      BY <1>1, <1>2
    <3>3. QED
      BY <1>1, <1>2, <2>1, <3>1, <3>2, SubSeqProperties
  <2>3. \A i \in 1 .. m : l - m + i \in 1 .. l /\ a[l - m + i] \in Int
    BY <1>1, <1>2
  <2>4. QED
    BY <2>2, <2>3, <1>2
<1>4. Rising(s)
  <2>1. ASSUME NEW i \in 1 .. m, NEW j \in 1 .. m, i < j PROVE a[l - m + i] < a[l - m + j]
    <3>1. l - m + i \in 1 .. l /\ l - m + j \in 1 .. l /\ l - m + i < l - m + j
      BY <1>1, <1>2, <2>1
    <3>2. QED
      BY <3>1, <1>1 DEF Rising
  <2>2. QED
    BY <2>1, <1>3 DEF Rising
<1>5. Whole(T) /\ Cardinality(T) = m /\ s = Ascending(T)
  BY <1>3, <1>4, RisingIs
<1>6. Tops(T, S)
  <2>1. T = {a[k] : k \in l - m + 1 .. l}
    <3>1. ASSUME NEW i \in 1 .. m PROVE l - m + i \in l - m + 1 .. l
      BY <1>1, <1>2
    <3>2. ASSUME NEW k \in l - m + 1 .. l PROVE k - (l - m) \in 1 .. m /\ l - m + (k - (l - m)) = k
      BY <1>1, <1>2
    <3>3. T = {s[i] : i \in 1 .. m}
      BY <1>3 DEF Range
    <3>4. QED
      BY <3>1, <3>2, <3>3, <1>3
  <2>2. S = {a[k] : k \in 1 .. l}
    BY <1>1 DEF Range
  <2>3. \A k \in l - m + 1 .. l : k \in 1 .. l
    BY <1>1, <1>2
  <2>4. ASSUME NEW t \in T, NEW u \in S \ T PROVE u < t
    <3>1. PICK k \in l - m + 1 .. l : t = a[k]
      BY <2>1
    <3>2. PICK j \in 1 .. l : u = a[j]
      BY <2>2
    <3>3. j \notin l - m + 1 .. l
      BY <2>1, <3>2
    <3>4. j < k /\ k \in 1 .. l
      BY <3>3, <1>1, <1>2
    <3>5. QED
      BY <3>1, <3>2, <3>4, <1>1 DEF Rising
  <2>5. QED
    BY <2>1, <2>2, <2>3, <2>4 DEF Tops
<1>7. QED
  BY <1>3, <1>5, <1>6 DEF s, m, l, a

\* Two sets in order, the one below the other, one after the other.
LEMMA JoinIs ==
  ASSUME NEW A, NEW B, Whole(A), Whole(B), \A x \in A, y \in B : x < y
  PROVE  Ascending(A) \o Ascending(B) = Ascending(A \cup B) /\ Whole(A \cup B)
         /\ Cardinality(A \cup B) = Cardinality(A) + Cardinality(B)
<1> DEFINE a == Ascending(A)
           b == Ascending(B)
           s == a \o b
           n == Cardinality(A)
           m == Cardinality(B)
<1>1. n \in Nat /\ m \in Nat /\ a \in Seq(A) /\ b \in Seq(B) /\ Len(a) = n /\ Len(b) = m
      /\ Rising(a) /\ Rising(b) /\ Range(a) = A /\ Range(b) = B /\ A \subseteq Int /\ B \subseteq Int
  BY AscendingIs DEF Whole
<1> HIDE DEF a, b, n, m
<1>2. /\ a \in Seq(Int) /\ b \in Seq(Int) /\ DOMAIN a = 1 .. n /\ DOMAIN b = 1 .. m
      /\ \A i \in 1 .. n : a[i] \in A /\ a[i] \in Int
      /\ \A j \in 1 .. m : b[j] \in B /\ b[j] \in Int
  BY <1>1, NumbersOf
<1>3. s \in Seq(Int) /\ Len(s) = n + m /\ DOMAIN s = 1 .. n + m
      /\ \A i \in 1 .. n + m : s[i] = IF i <= n THEN a[i] ELSE b[i - n]
  <2>1. Len(s) = n + m /\ \A i \in 1 .. n + m : s[i] = IF i <= n THEN a[i] ELSE b[i - n]
    BY <1>1, <1>2, ConcatProperties
  <2>2. s \in Seq(Int)
    BY <1>2, ConcatProperties
  <2>3. QED
    BY <2>1, <2>2
<1>4. \A i \in 1 .. n : a[i] \in A /\ \A j \in 1 .. m : b[j] \in B
  BY <1>1, <1>2
<1> HIDE DEF s
<1>5. Rising(s)
  <2> SUFFICES ASSUME NEW i \in 1 .. n + m, NEW j \in 1 .. n + m, i < j PROVE s[i] < s[j]
    BY <1>3 DEF Rising
  <2>1. CASE j <= n
    <3>1. i \in 1 .. n /\ j \in 1 .. n /\ i <= n
      BY <2>1, <1>1
    <3>2. a[i] < a[j]
      BY <3>1, <1>1, <1>2 DEF Rising
    <3>3. QED
      BY <3>1, <3>2, <2>1, <1>3
  <2>2. CASE n < i
    <3>1. i - n \in 1 .. m /\ j - n \in 1 .. m /\ i - n < j - n /\ ~(i <= n) /\ ~(j <= n)
      BY <2>2, <1>1
    <3>2. QED
      BY <3>1, <1>1, <1>2, <1>3 DEF Rising
  <2>3. CASE i <= n /\ ~(j <= n)
    <3>1. i \in 1 .. n /\ j - n \in 1 .. m
      BY <2>3, <1>1
    <3>2. s[i] = a[i] /\ s[j] = b[j - n] /\ a[i] \in A /\ b[j - n] \in B
      BY <3>1, <2>3, <1>1, <1>2, <1>3
    <3>3. QED
      BY <3>2
  <2>4. QED
    BY <2>1, <2>2, <2>3, <1>1
<1>6. Range(s) = A \cup B
  <2>1. A = {a[i] : i \in 1 .. n} /\ B = {b[i] : i \in 1 .. m} /\ Range(s) = {s[i] : i \in 1 .. n + m}
    BY <1>1, <1>2, <1>3 DEF Range
  <2>2. ASSUME NEW i \in 1 .. n + m PROVE s[i] \in A \cup B
    <3>1. CASE i <= n
      BY <3>1, <2>1, <1>1, <1>3
    <3>2. CASE ~(i <= n)
      <4>1. i - n \in 1 .. m /\ s[i] = b[i - n]
        BY <3>2, <1>1, <1>3
      <4>2. QED
        BY <4>1, <2>1
    <3>3. QED
      BY <3>1, <3>2
  <2>3. ASSUME NEW i \in 1 .. n PROVE i \in 1 .. n + m /\ s[i] = a[i]
    BY <1>1, <1>3
  <2>4. ASSUME NEW i \in 1 .. m PROVE i + n \in 1 .. n + m /\ s[i + n] = b[i]
    <3> DEFINE k == i + n
    <3>1. k \in 1 .. n + m /\ ~(k <= n) /\ k - n = i
      BY <1>1
    <3> HIDE DEF k
    <3>2. s[k] = b[k - n]
      BY <3>1, <1>3
    <3>3. QED
      BY <3>1, <3>2 DEF k
  <2>5. QED
    BY <2>1, <2>2, <2>3, <2>4
<1>7. QED
  BY <1>1, <1>3, <1>5, <1>6, RisingIs DEF s, a, b, n, m

-----------------------------------------------------------------------------
\* Asking for pages. What has come is the upper end of what there was in the bounds when
\* the first page was asked for, in order; the next page ends just below it.
There == Between(snapshot, ask.from, ask.to)
Taken == Range(rows)
Queries == [limit : 1 .. MaxLimit, from : {NoBound} \cup Stamps, to : {NoBound} \cup Stamps, long : BOOLEAN]
PagesTyped ==
  /\ candles \subseteq Stamps /\ snapshot \subseteq candles /\ ask \in Queries
  /\ cursor \in {NoBound} \cup 0 .. MaxTs /\ remaining \in Nat /\ paging \in BOOLEAN
  /\ \A t \in candles \ snapshot, u \in snapshot : u < t
GoesDown ==
  /\ IF Taken = {} THEN cursor = ask.to ELSE cursor + 1 \in Taken /\ \A t \in Taken : cursor < t
  /\ remaining > 0
  /\ remaining = IF Taken = {} THEN Min2(Wanted(ask), Cap) ELSE Wanted(ask) - Cardinality(Taken)
PagesInv ==
  /\ PagesTyped
  /\ Whole(Taken) /\ Tops(Taken, There) /\ rows = Ascending(Taken) /\ Cardinality(Taken) <= Wanted(ask)
  /\ paging => GoesDown
  /\ ~paging => Taken = There \/ Cardinality(Taken) = Wanted(ask)

LEMMA StampsWhole == Whole(Stamps) /\ \A S : S \subseteq Stamps => Whole(S) /\ Cardinality(S) \in Nat
<1>1. Whole(Stamps)
  BY PagesAssumption, FS_Interval DEF Whole, Stamps
<1>2. QED
  BY <1>1, WholePart

LEMMA WantedIs ==
  ASSUME ask \in Queries
  PROVE  Wanted(ask) \in Nat \ {0} /\ Min2(ask.limit, Cap) \in Nat \ {0} /\ ask.limit \in Nat \ {0}
<1>1. ask.limit \in Nat \ {0} /\ Cap \in Nat \ {0} /\ Ratio \in Nat \ {0}
  BY PagesAssumption DEF Queries
<1>2. Min2(ask.limit, Cap) \in Nat \ {0}
  BY <1>1 DEF Min2
<1> DEFINE m == Min2(ask.limit, Cap)
<1> HIDE DEF m
<1>3. \A x, y \in Nat \ {0} : x * y \in Nat \ {0}
  OBVIOUS
<1>4. m * Ratio \in Nat \ {0}
  BY <1>1, <1>2, <1>3 DEF m
<1>5. QED
  BY <1>1, <1>2, <1>4 DEF Wanted, m

LEMMA PagesStart == PagesInit => PagesInv
<1> SUFFICES ASSUME PagesInit PROVE PagesInv
  OBVIOUS
<1>1. ask \in Queries /\ candles \subseteq Stamps /\ rows = << >> /\ snapshot = candles /\ cursor = ask.to
      /\ remaining = Min2(Wanted(ask), Cap) /\ paging = TRUE
  BY DEF PagesInit, Queries
<1>2. Taken = {}
  BY <1>1 DEF Taken, Range
<1>3. Wanted(ask) \in Nat \ {0} /\ Cap \in Nat \ {0}
  BY <1>1, WantedIs, PagesAssumption
<1>4. PagesTyped
  <2>1. remaining \in Nat
    BY <1>1, <1>3 DEF Min2
  <2>2. cursor \in {NoBound} \cup 0 .. MaxTs
    BY <1>1, PagesAssumption DEF Queries, Stamps
  <2>3. QED
    BY <1>1, <2>1, <2>2 DEF PagesTyped
<1>5. Whole({}) /\ Cardinality({}) = 0 /\ << >> = Ascending({})
  <2>1. Whole({}) /\ Cardinality({}) = 0
    BY FS_EmptySet DEF Whole
  <2>2. Ascending({}) \in Seq({}) /\ Len(Ascending({})) = 0
    BY <2>1, AscendingIs
  <2>3. QED
    BY <2>1, <2>2
<1>6. GoesDown
  <2>1. remaining > 0
    BY <1>1, <1>3 DEF Min2
  <2>2. QED
    BY <1>1, <1>2, <2>1 DEF GoesDown
<1>7. Tops({}, There)
  BY DEF Tops
<1>8. QED
  BY <1>1, <1>2, <1>3, <1>4, <1>5, <1>6, <1>7 DEF PagesInv

\* What the next page is chosen from: all that was there and has not come.
LEMMA StillThere ==
  ASSUME PagesInv, paging
  PROVE  LET known == IF rows = << >> THEN candles ELSE snapshot
         IN  Between(candles, ask.from, cursor) = Between(known, ask.from, ask.to) \ Taken
<1>1. PagesTyped /\ GoesDown /\ Tops(Taken, There) /\ rows = Ascending(Taken) /\ Whole(Taken)
  BY DEF PagesInv
<1>2. rows = << >> <=> Taken = {}
  <2>1. Len(rows) = Cardinality(Taken) /\ rows \in Seq(Taken)
    BY <1>1, AscendingIs
  <2>2. Cardinality(Taken) = 0 <=> Taken = {}
    BY <1>1, FS_EmptySet DEF Whole
  <2>3. QED
    BY <2>1, <2>2
<1>3. CASE Taken = {}
  BY <1>1, <1>2, <1>3 DEF GoesDown
<1>4. CASE Taken # {}
  <2>1. rows # << >> /\ cursor + 1 \in Taken /\ \A t \in Taken : cursor < t
    BY <1>1, <1>2, <1>4 DEF GoesDown
  <2>2. Taken \subseteq There /\ There \subseteq snapshot /\ candles \subseteq Int /\ snapshot \subseteq candles
        /\ candles \subseteq Stamps
    BY <1>1 DEF Tops, There, Between, PagesTyped, Stamps
  <2>3. cursor \in Nat /\ cursor # NoBound /\ cursor + 1 \in snapshot /\ cursor + 1 \in There
    <3>1. cursor + 1 \in Stamps /\ cursor \in Int
      BY <1>1, <2>1, <2>2 DEF PagesTyped, NoBound
    <3>2. QED
      BY <3>1, <2>1, <2>2 DEF Stamps, NoBound
  <2>4. ASSUME NEW t \in Between(candles, ask.from, cursor) PROVE t \in There \ Taken
    <3>1. t \in candles /\ t >= ask.from /\ t <= cursor /\ t \in Int
      BY <2>2, <2>3 DEF Between
    <3>2. t \notin Taken
      BY <3>1, <2>1, <2>3
    <3>3. t \in snapshot
      <4>1. ASSUME t \notin snapshot PROVE FALSE
        <5>1. cursor + 1 < t
          BY <4>1, <3>1, <2>3, <1>1 DEF PagesTyped
        <5>2. QED
          BY <5>1, <3>1, <2>3
      <4>2. QED
        BY <4>1
    <3>4. ask.to # NoBound => t <= ask.to
      <4>1. ask.to # NoBound => cursor + 1 <= ask.to /\ ask.to \in Int
        BY <2>3, <1>1 DEF There, Between, PagesTyped, Queries, Stamps
      <4>2. QED
        BY <4>1, <3>1, <2>3
    <3>5. QED
      BY <3>1, <3>2, <3>3, <3>4 DEF There, Between
  <2>5. ASSUME NEW t \in There \ Taken PROVE t \in Between(candles, ask.from, cursor)
    <3>1. t < cursor + 1 /\ t \in Int /\ t \in candles /\ t >= ask.from
      BY <1>1, <2>1, <2>2 DEF Tops, There, Between
    <3>2. t <= cursor
      BY <3>1, <2>3
    <3>3. QED
      BY <3>1, <3>2 DEF Between
  <2>6. QED
    BY <2>1, <2>4, <2>5 DEF There
<1>5. QED
  BY <1>3, <1>4

LEMMA LowestFirst ==
  ASSUME NEW S, Whole(S), S # {}
  PROVE  Ascending(S) # << >> /\ Head(Ascending(S)) \in S /\ \A t \in S : Head(Ascending(S)) <= t
<1> DEFINE a == Ascending(S)
           n == Cardinality(S)
<1>1. a \in Seq(S) /\ Len(a) = n /\ n \in Nat /\ Rising(a) /\ Range(a) = S /\ S \subseteq Int
  BY AscendingIs DEF Whole
<1>2. n # 0
  BY FS_EmptySet DEF Whole
<1> HIDE DEF a, n
<1>3. a # << >> /\ Head(a) = a[1] /\ DOMAIN a = 1 .. n /\ 1 \in 1 .. n /\ \A i \in 1 .. n : a[i] \in S /\ a[i] \in Int
  <2>1. DOMAIN a = 1 .. n /\ \A i \in 1 .. n : a[i] \in S /\ a[i] \in Int
    BY <1>1, NumbersOf
  <2>2. a # << >> /\ 1 \in 1 .. n
    BY <1>1, <1>2
  <2>3. Head(a) = a[1]
    BY <1>1, <2>2
  <2>4. QED
    BY <2>1, <2>2, <2>3
<1>4. ASSUME NEW t \in S PROVE a[1] <= t
  <2>1. PICK i \in 1 .. n : t = a[i]
    BY <1>1, <1>3 DEF Range
  <2>2. CASE i = 1
    BY <2>1, <2>2, <1>3
  <2>3. CASE 1 < i
    BY <2>1, <2>3, <1>1, <1>3 DEF Rising
  <2>4. QED
    BY <2>2, <2>3
<1>5. QED
  BY <1>3, <1>4 DEF a

LEMMA PageComes == PagesInv /\ AskPage => PagesInv'
<1> SUFFICES ASSUME PagesInv, AskPage PROVE PagesInv'
  OBVIOUS
<1> DEFINE known == IF rows = << >> THEN candles ELSE snapshot
           S == Between(known, ask.from, ask.to)
           C == Between(candles, ask.from, cursor)
           n == Min2(remaining, Page)
           D == Range(Batch)
           W == Wanted(ask)
           U == D \cup Taken
<1>1. PagesTyped /\ GoesDown /\ Tops(Taken, There) /\ rows = Ascending(Taken) /\ Whole(Taken)
      /\ Cardinality(Taken) <= W /\ paging
  BY DEF PagesInv, AskPage
<1>2. /\ ask' = ask /\ candles' = candles /\ snapshot' = known
      /\ IF Ascending(D \ Taken) = << >> THEN paging' = FALSE /\ UNCHANGED <<rows, cursor, remaining>>
         ELSE /\ rows' = Ascending(D \ Taken) \o rows
              /\ remaining' = IF Len(rows') < W THEN W - Len(rows') ELSE 0
              /\ paging' = /\ remaining' > 0 /\ Len(Batch) = n
                           /\ (ask.from = NoBound \/ Head(Ascending(D \ Taken)) > ask.from)
              /\ cursor' = IF paging' THEN Head(Ascending(D \ Taken)) - 1 ELSE cursor
  BY DEF AskPage, Taken, CursorBefore
<1>3. C = S \ Taken
  BY <1>1, StillThere
<1>4. known \subseteq candles /\ candles \subseteq Stamps /\ S \subseteq Stamps /\ S \subseteq known
      /\ \A t \in candles \ known, u \in known : u < t
  BY <1>1 DEF PagesTyped, Between
<1>5. Tops(Taken, S) /\ Taken \subseteq S
  <2>1. CASE rows = << >>
    <3>1. Taken = {}
      BY <2>1 DEF Taken, Range
    <3>2. QED
      BY <3>1 DEF Tops
  <2>2. CASE rows # << >>
    BY <2>2, <1>1 DEF There, Tops
  <2>3. QED
    BY <2>1, <2>2
<1>6. Whole(S) /\ Whole(C) /\ C \subseteq S
  BY <1>3, <1>4, StampsWhole, WholePart
<1>7. n \in Nat \ {0} /\ remaining \in Nat \ {0} /\ n <= remaining
  BY <1>1, PagesAssumption DEF PagesTyped, GoesDown, Min2
<1>8. Batch = Ascending(D) /\ Tops(D, C) /\ Cardinality(D) = Min2(n, Cardinality(C)) /\ Len(Batch) = Cardinality(D)
      /\ Whole(D) /\ D \subseteq C
  <2>1. Batch = NewestOf(Ascending(C), n)
    BY DEF Batch
  <2> DEFINE b == NewestOf(Ascending(C), n)
  <2>2. n \in Nat /\ Whole(C)
    BY <1>6, <1>7
  <2>3. b = Ascending(Range(b)) /\ Tops(Range(b), C) /\ Cardinality(Range(b)) = Min2(n, Cardinality(C))
        /\ Len(b) = Cardinality(Range(b)) /\ Whole(Range(b))
    BY <2>2, LastOnes
  <2>4. Batch = b
    BY <2>1
  <2> HIDE DEF b, n, C
  <2>5. QED
    BY <2>3, <2>4 DEF Tops
<1>9. D \ Taken = D /\ D \cap Taken = {}
  BY <1>3, <1>8
<1>10. Cardinality(C) \in Nat /\ Cardinality(D) \in Nat /\ Cardinality(Taken) \in Nat /\ (Cardinality(C) = 0 <=> C = {})
       /\ (Cardinality(D) = 0 <=> D = {}) /\ W \in Nat \ {0} /\ (Cardinality(Taken) = 0 <=> Taken = {})
  <2>1. Cardinality(C) \in Nat /\ Cardinality(D) \in Nat /\ Cardinality(Taken) \in Nat
    BY <1>1, <1>6, <1>8, FS_CardinalityType DEF Whole
  <2>2. (Cardinality(C) = 0 <=> C = {}) /\ (Cardinality(D) = 0 <=> D = {}) /\ (Cardinality(Taken) = 0 <=> Taken = {})
    BY <1>1, <1>6, <1>8, FS_EmptySet DEF Whole
  <2>3. QED
    BY <2>1, <2>2, <1>1, WantedIs DEF PagesTyped
<1>11. Ascending(D) = << >> <=> C = {}
  <2>1. Len(Ascending(D)) = Cardinality(D) /\ Ascending(D) \in Seq(D)
    BY <1>8, AscendingIs
  <2>2. Cardinality(D) = 0 <=> Cardinality(C) = 0
    BY <1>7, <1>8, <1>10 DEF Min2
  <2>3. QED
    BY <2>1, <2>2, <1>10
<1>12. There' = S /\ Taken' = Range(rows')
  BY <1>2 DEF There, Taken
<1>13. /\ candles' \subseteq Stamps /\ snapshot' \subseteq candles' /\ ask' \in Queries
       /\ \A t \in candles' \ snapshot', u \in snapshot' : u < t
  BY <1>1, <1>2, <1>4 DEF PagesTyped
<1>14. CASE C = {}
  <2>1. paging' = FALSE /\ rows' = rows /\ cursor' = cursor /\ remaining' = remaining
    BY <1>2, <1>9, <1>11, <1>14
  <2>2. Taken' = Taken /\ Taken = S
    BY <2>1, <1>3, <1>5, <1>14 DEF Taken
  <2>3. PagesTyped'
    <3>1. cursor' \in {NoBound} \cup 0 .. MaxTs /\ remaining' \in Nat /\ paging' \in BOOLEAN
      BY <2>1, <1>1 DEF PagesTyped
    <3>2. QED
      BY <3>1, <1>13 DEF PagesTyped
  <2>4. Wanted(ask') = W /\ Wanted(ask)' = W
    BY <1>2
  <2>5. QED
    BY <2>1, <2>2, <2>3, <2>4, <1>1, <1>5, <1>12 DEF PagesInv
<1>15. CASE C # {}
  <2> DEFINE e == Head(Ascending(D))
  <2>1. /\ rows' = Ascending(D) \o rows
        /\ remaining' = IF Len(rows') < W THEN W - Len(rows') ELSE 0
        /\ paging' = (remaining' > 0 /\ Len(Batch) = n /\ (ask.from = NoBound \/ e > ask.from))
        /\ cursor' = IF paging' THEN e - 1 ELSE cursor
    <3>1. Ascending(D \ Taken) # << >>
      BY <1>9, <1>11, <1>15
    <3>2. QED
      BY <3>1, <1>2, <1>9
  <2>goes. paging' <=> remaining' > 0 /\ Len(Batch) = n /\ (ask.from = NoBound \/ e > ask.from)
    BY <2>1
  <2>2. D # {} /\ e \in D /\ \A t \in D : e <= t
    <3>1. Whole(D) /\ D # {}
      BY <1>7, <1>8, <1>10, <1>15 DEF Min2
    <3>2. QED
      BY <3>1, LowestFirst
  <2>3. \A x \in D, y \in Taken : x < y
    BY <1>3, <1>5, <1>8 DEF Tops
  <2>4. rows' = Ascending(U) /\ Whole(U) /\ Cardinality(U) = Cardinality(D) + Cardinality(Taken)
    BY <2>1, <2>3, <1>1, <1>8, JoinIs
  <2>5. Taken' = U /\ Len(rows') = Cardinality(U)
    BY <2>4, <1>12, AscendingIs
  <2>6. Tops(U, S)
    <3>1. U \subseteq S
      BY <1>3, <1>5, <1>8
    <3>2. ASSUME NEW t \in U, NEW u \in S \ U PROVE u < t
      <4>1. u \in C \ D /\ u \in S \ Taken
        BY <3>2, <1>3
      <4>2. QED
        BY <4>1, <1>5, <1>8 DEF Tops
    <3>3. QED
      BY <3>1, <3>2 DEF Tops
  <2>7. Cardinality(U) <= W /\ Cardinality(U) \in Nat \ {0} /\ U # {}
    <3>1. Cardinality(D) <= remaining
      BY <1>7, <1>8, <1>10 DEF Min2
    <3>2. remaining <= W - Cardinality(Taken)
      BY <1>1, <1>10, PagesAssumption DEF GoesDown, Min2
    <3>3. Cardinality(D) # 0
      BY <2>2, <1>10
    <3>4. QED
      BY <3>1, <3>2, <3>3, <2>2, <2>4, <1>7, <1>10
  <2>8. e \in Stamps /\ e \in Int /\ e >= 1 /\ e <= MaxTs
    BY <2>2, <1>8, <1>6, <1>4 DEF Stamps
  <2>9. remaining' \in Nat /\ (remaining' > 0 => remaining' = W - Cardinality(U)) /\ (remaining' = 0 => Cardinality(U) = W)
    BY <2>1, <2>5, <2>7, <1>10
  <2>10. PagesTyped'
    <3>1. cursor' \in {NoBound} \cup 0 .. MaxTs
      BY <2>1, <2>8, <1>1, PagesAssumption DEF PagesTyped
    <3>2. paging' \in BOOLEAN
      BY <2>1
    <3>3. QED
      BY <3>1, <3>2, <2>9, <1>13 DEF PagesTyped
  <2>11. ASSUME paging' PROVE GoesDown'
    <3>0. cursor' = e - 1 /\ remaining' > 0
      BY <2>goes, <2>1, <2>11
    <3>1. cursor' = e - 1 /\ cursor' + 1 = e /\ e \in U /\ remaining' > 0
      BY <3>0, <2>2, <2>8
    <3>2. ASSUME NEW t \in U PROVE cursor' < t
      <4>1. e <= t /\ t \in Int
        <5>1. t \in Int /\ (t \in D => e <= t)
          BY <2>2, <2>4 DEF Whole
        <5>2. t \in Taken => e < t
          BY <2>2, <2>3
        <5>3. QED
          BY <5>1, <5>2, <2>8, <3>2
      <4>2. QED
        BY <4>1, <3>1, <2>8
    <3>3. Wanted(ask)' = W
      BY <1>2
    <3>4. QED
      BY <3>1, <3>2, <3>3, <2>5, <2>7, <2>9 DEF GoesDown
  <2>12. ASSUME ~paging' PROVE U = S \/ Cardinality(U) = W
    <3>1. CASE remaining' = 0
      BY <3>1, <2>9
    <3>2. CASE Len(Batch) # n
      <4>1. Cardinality(D) = Cardinality(C)
        BY <3>2, <1>7, <1>8, <1>10 DEF Min2
      <4>2. D = C
        BY <4>1, <1>6, <1>8, WholePart
      <4>3. QED
        BY <4>2, <1>3, <1>5
    <3>3. CASE ask.from # NoBound /\ ~(e > ask.from)
      <4>1. ask.from \in Int
        BY <1>1 DEF PagesTyped, Queries, Stamps, NoBound
      <4>2. \A u \in S : u >= ask.from /\ u \in Int
        BY <1>6 DEF Between, Whole
      <4>3. \A u \in S \ U : u < e
        BY <2>2, <2>6 DEF Tops
      <4>4. S \ U = {}
        BY <4>1, <4>2, <4>3, <3>3, <2>8
      <4>5. QED
        BY <4>4, <2>6 DEF Tops
    <3>4. QED
      <4>1. remaining' = 0 \/ remaining' > 0
        BY <2>9
      <4>2. QED
        BY <3>1, <3>2, <3>3, <4>1, <2>goes, <2>12
  <2>13. Wanted(ask)' = W
    BY <1>2
  <2>14. QED
    BY <2>4, <2>5, <2>6, <2>7, <2>10, <2>11, <2>12, <2>13, <1>12 DEF PagesInv
<1>16. QED
  BY <1>14, <1>15

LEMMA PagesStep == PagesInv /\ [PagesNext]_pagevars => PagesInv'
<1> SUFFICES ASSUME PagesInv, [PagesNext]_pagevars PROVE PagesInv'
  OBVIOUS
<1>1. CASE AskPage
  BY <1>1, PageComes
<1>2. CASE CandleCloses
  <2>1. /\ UNCHANGED <<ask, rows, cursor, remaining, paging, snapshot>>
        /\ \E t \in Stamps : (\A u \in candles : t > u) /\ candles' = candles \cup {t}
    BY <1>2 DEF CandleCloses
  <2>2. PagesTyped'
    <3>1. PICK t \in Stamps : (\A u \in candles : t > u) /\ candles' = candles \cup {t}
      BY <2>1
    <3>2. candles \subseteq Stamps /\ snapshot \subseteq candles /\ \A v \in candles \ snapshot, u \in snapshot : u < v
      BY DEF PagesInv, PagesTyped
    <3>3. \A u \in snapshot : u < t
      BY <3>1, <3>2 DEF Stamps
    <3>4. \A v \in candles' \ snapshot', u \in snapshot' : u < v
      BY <2>1, <3>1, <3>2, <3>3
    <3>5. QED
      BY <2>1, <3>1, <3>2, <3>4 DEF PagesInv, PagesTyped
  <2>3. QED
    BY <2>1, <2>2 DEF PagesInv, Taken, There, GoesDown
<1>3. CASE UNCHANGED pagevars
  BY <1>3 DEF pagevars, PagesInv, PagesTyped, Taken, There, GoesDown
<1>4. QED
  BY <1>1, <1>2, <1>3 DEF PagesNext

-----------------------------------------------------------------------------
\* What a call returns.
LEMMA NewestAll ==
  ASSUME NEW S, Whole(S), NEW n \in Nat, Cardinality(S) <= n
  PROVE  NewestOf(Ascending(S), n) = Ascending(S)
<1> DEFINE s == NewestOf(Ascending(S), n)
<1>1. s = Ascending(Range(s)) /\ Tops(Range(s), S) /\ Cardinality(Range(s)) = Min2(n, Cardinality(S))
  BY LastOnes
<1>2. Cardinality(Range(s)) = Cardinality(S)
  BY <1>1, FS_CardinalityType DEF Min2, Whole
<1> HIDE DEF s
<1>3. Range(s) = S
  BY <1>1, <1>2, WholePart DEF Tops
<1>4. QED
  BY <1>1, <1>3 DEF s

\* An upper end that has n elements, or all of them, is the newest n.
LEMMA NewestAre ==
  ASSUME NEW S, Whole(S), NEW n \in Nat, NEW T, Tops(T, S), T = S \/ Cardinality(T) = n, Cardinality(T) <= n
  PROVE  NewestOf(Ascending(S), n) = Ascending(T)
<1> DEFINE s == NewestOf(Ascending(S), n)
<1>1. s = Ascending(Range(s)) /\ Tops(Range(s), S) /\ Cardinality(Range(s)) = Min2(n, Cardinality(S))
  BY LastOnes
<1>2. Cardinality(T) \in Nat /\ Cardinality(S) \in Nat /\ Cardinality(T) <= Cardinality(S)
  BY WholePart DEF Tops
<1>3. Cardinality(Range(s)) = Cardinality(T)
  BY <1>1, <1>2 DEF Min2
<1> HIDE DEF s
<1>4. T \subseteq Range(s) /\ Range(s) \subseteq T
  BY <1>1, <1>2, <1>3, TopsNest
<1>5. QED
  BY <1>1, <1>4 DEF s

LEMMA InBounds ==
  ASSUME PagesInv
  PROVE  /\ Whole(There) /\ There \subseteq Stamps /\ Taken \subseteq There /\ Between(Taken, ask.from, ask.to) = Taken
         /\ ask \in Queries /\ Cardinality(Taken) \in Nat
<1>1. PagesTyped /\ Tops(Taken, There)
  BY DEF PagesInv
<1>2. There \subseteq Stamps
  BY <1>1 DEF PagesTyped, There, Between
<1>3. Whole(There) /\ Taken \subseteq There
  BY <1>1, <1>2, StampsWhole DEF Tops
<1>4. Between(Taken, ask.from, ask.to) = Taken
  BY <1>3 DEF There, Between
<1>5. QED
  BY <1>1, <1>2, <1>3, <1>4, WholePart DEF PagesTyped

LEMMA AllAreTaken ==
  ASSUME PagesInv
  PROVE  NewestOf(Ascending(Between(Range(rows), ask.from, ask.to)), Wanted(ask)) = Ascending(Taken)
<1>1. Between(Range(rows), ask.from, ask.to) = Taken
  BY InBounds DEF Taken
<1>2. Whole(Taken) /\ Cardinality(Taken) <= Wanted(ask) /\ Wanted(ask) \in Nat
  BY InBounds, WantedIs DEF PagesInv
<1>3. QED
  BY <1>1, <1>2, NewestAll

LEMMA ShortBars ==
  ASSUME PagesInv, ~paging, ~ask.long
  PROVE  Returned = NewestOf(Ascending(There), ask.limit)
<1>1. Wanted(ask) = ask.limit
  BY DEF Wanted
<1>2. Returned = Ascending(Taken)
  BY AllAreTaken DEF Returned
<1>3. Whole(There) /\ Wanted(ask) \in Nat /\ Tops(Taken, There) /\ Cardinality(Taken) <= Wanted(ask)
      /\ (Taken = There \/ Cardinality(Taken) = Wanted(ask))
  BY InBounds, WantedIs DEF PagesInv
<1>4. QED
  BY <1>1, <1>2, <1>3, NewestAre

\* Buckets are in the order of their candles, and have room for Ratio of them.
LEMMA Division ==
  ASSUME NEW a \in Nat, NEW r \in Nat \ {0}
  PROVE  a \div r \in Nat /\ a % r \in 0 .. r - 1 /\ a = r * (a \div r) + (a % r)
<1>1. a \div r \in Int /\ a % r \in Int
  BY SMT
<1>2. a % r >= 0 /\ a % r < r
  BY SMT
<1>3. a = r * (a \div r) + (a % r)
  BY SMT
<1>4. a \div r >= 0
  BY SMT
<1>5. QED
  BY <1>1, <1>2, <1>3, <1>4

LEMMA Divided ==
  ASSUME NEW t \in Stamps
  PROVE  /\ Bucket(t) \in Nat /\ (t - 1) % Ratio \in 0 .. Ratio - 1
         /\ t = Ratio * Bucket(t) + ((t - 1) % Ratio) + 1
<1>1. t - 1 \in Nat /\ Ratio \in Nat \ {0}
  BY PagesAssumption DEF Stamps
<1>2. /\ Bucket(t) \in Nat /\ (t - 1) % Ratio \in 0 .. Ratio - 1
      /\ t - 1 = Ratio * Bucket(t) + ((t - 1) % Ratio)
  BY <1>1, Division DEF Bucket
<1> DEFINE b == Bucket(t)
           x == (t - 1) % Ratio
<1> HIDE DEF b, x
<1>3. t - 1 = Ratio * b + x /\ t \in Int /\ b \in Nat /\ x \in Int /\ Ratio * b \in Int
  BY <1>1, <1>2 DEF b, x, Stamps
<1>4. t = Ratio * b + x + 1
  BY <1>3
<1>5. QED
  BY <1>2, <1>4 DEF b, x

LEMMA BucketsInOrder ==
  ASSUME NEW t \in Stamps, NEW u \in Stamps, u < t
  PROVE  Bucket(u) <= Bucket(t)
<1> DEFINE a == Bucket(t)
           b == Bucket(u)
           x == (t - 1) % Ratio
           y == (u - 1) % Ratio
<1>1. a \in Nat /\ b \in Nat /\ x \in 0 .. Ratio - 1 /\ y \in 0 .. Ratio - 1 /\ Ratio \in Nat \ {0}
      /\ t = Ratio * a + x + 1 /\ u = Ratio * b + y + 1
  <2>1. a \in Nat /\ x \in 0 .. Ratio - 1 /\ t = Ratio * a + x + 1
    BY Divided
  <2>2. b \in Nat /\ y \in 0 .. Ratio - 1 /\ u = Ratio * b + y + 1
    BY Divided
  <2>3. QED
    BY <2>1, <2>2, PagesAssumption
<1> HIDE DEF a, b, x, y
<1>2. ASSUME ~(b <= a) PROVE FALSE
  <2>1. PICK d \in Nat : b = a + 1 + d
    <3>1. b - a - 1 \in Nat /\ b = a + 1 + (b - a - 1)
      BY <1>1, <1>2
    <3>2. QED
      BY <3>1
  <2>2. Ratio * b = Ratio * a + Ratio + Ratio * d /\ Ratio * d \in Nat /\ Ratio * a \in Nat
    BY <1>1, <2>1
  <2>3. QED
    BY <1>1, <2>2
<1>3. QED
  BY <1>2 DEF a, b

LEMMA Crowd ==
  ASSUME NEW A, A \subseteq Stamps, NEW Q, IsFiniteSet(Q), \A t \in A : Bucket(t) \in Q
  PROVE  Cardinality(A) \in Nat /\ Cardinality(Q) \in Nat /\ Cardinality(A) <= Cardinality(Q) * Ratio
<1> DEFINE R == 0 .. Ratio - 1
           f == [t \in A |-> <<Bucket(t), (t - 1) % Ratio>>]
<1>1. IsFiniteSet(R) /\ Cardinality(R) = Ratio
  BY PagesAssumption, FS_Interval
<1>2. IsFiniteSet(Q \X R) /\ Cardinality(Q \X R) = Cardinality(Q) * Ratio
  BY <1>1, FS_Product
<1>3. f \in Injection(A, Q \X R)
  <2>1. f \in [A -> Q \X R]
    BY Divided
  <2>2. ASSUME NEW t \in A, NEW u \in A, f[t] = f[u] PROVE t = u
    <3>1. Bucket(t) = Bucket(u) /\ (t - 1) % Ratio = (u - 1) % Ratio
      BY <2>2
    <3>2. t = Ratio * Bucket(t) + ((t - 1) % Ratio) + 1 /\ u = Ratio * Bucket(u) + ((u - 1) % Ratio) + 1
      BY Divided
    <3>3. QED
      BY <3>1, <3>2
  <2>3. QED
    BY <2>1, <2>2 DEF Injection, IsInjective
<1>4. Cardinality(A) <= Cardinality(Q \X R)
  BY <1>2, <1>3, FS_Injection
<1>5. QED
  BY <1>2, <1>4, StampsWhole, FS_CardinalityType

BucketsOf(A) == {Bucket(t) : t \in A}
InBucket(A, b) == {t \in A : Bucket(t) = b}
BarsOf(N, A) == [k \in DOMAIN N |-> Ascending(InBucket(A, N[k]))]

LEMMA BucketsWhole ==
  ASSUME NEW A, A \subseteq Stamps
  PROVE  Whole(BucketsOf(A))
<1>1. IsFiniteSet(A) /\ \A t \in A : Bucket(t) \in Nat
  BY StampsWhole, Divided DEF Whole
<1> DEFINE f == [t \in A |-> Bucket(t)]
<1>2. f \in Surjection(A, BucketsOf(A))
  BY DEF Surjection, BucketsOf
<1>3. IsFiniteSet(BucketsOf(A))
  BY <1>1, <1>2, FS_Surjection
<1>4. QED
  BY <1>1, <1>3 DEF Whole, BucketsOf

\* The newest of the bars are the bars of the newest buckets.
LEMMA NewestBars ==
  ASSUME NEW N \in Seq(Int), NEW A, NEW n \in Nat
  PROVE  NewestOf(BarsOf(N, A), n) = BarsOf(NewestOf(N, n), A)
<1> DEFINE l == Len(N)
           m == Min2(n, l)
           g == BarsOf(N, A)
           X == {Ascending(InBucket(A, N[k])) : k \in DOMAIN N}
<1>1. l \in Nat /\ DOMAIN N = 1 .. l
  OBVIOUS
<1>2. g \in Seq(X) /\ Len(g) = l /\ \A k \in 1 .. l : g[k] = Ascending(InBucket(A, N[k]))
  BY <1>1 DEF BarsOf
<1>3. m \in Nat /\ m <= l
  BY <1>1 DEF Min2
<1>4. NewestOf(g, n) = SubSeq(g, l - m + 1, l) /\ NewestOf(N, n) = SubSeq(N, l - m + 1, l)
  BY <1>2 DEF NewestOf
<1> HIDE DEF l, m, g, X
<1>5. /\ l - m + 1 \in Int /\ l \in Int /\ l - (l - m + 1) + 1 = m /\ \A i \in 1 .. m : l - m + 1 + i - 1 = l - m + i
      /\ \A i \in 1 .. m : l - m + i \in 1 .. l
  BY <1>1, <1>3
<1>6. SubSeq(g, l - m + 1, l) = [i \in 1 .. m |-> g[l - m + i]]
  BY <1>1, <1>2, <1>3, <1>5, SubSeqProperties
<1>7. SubSeq(N, l - m + 1, l) = [i \in 1 .. m |-> N[l - m + i]]
  BY <1>1, <1>3, <1>5, SubSeqProperties DEF l
<1>8. BarsOf(NewestOf(N, n), A) = [i \in 1 .. m |-> Ascending(InBucket(A, N[l - m + i]))]
  BY <1>4, <1>7 DEF BarsOf
<1>9. \A i \in 1 .. m : g[l - m + i] = Ascending(InBucket(A, N[l - m + i]))
  BY <1>2, <1>5
<1>10. NewestOf(g, n) = BarsOf(NewestOf(N, n), A)
  BY <1>4, <1>6, <1>8, <1>9
<1>11. QED
  BY <1>10 DEF g

\* The buckets of the upper end T are the upper end of the buckets of S.
LEMMA TopBuckets ==
  ASSUME NEW S, S \subseteq Stamps, NEW T, Tops(T, S)
  PROVE  Tops(BucketsOf(T), BucketsOf(S))
<1>1. BucketsOf(T) \subseteq BucketsOf(S)
  BY DEF Tops, BucketsOf
<1>2. ASSUME NEW b \in BucketsOf(T), NEW c \in BucketsOf(S) \ BucketsOf(T) PROVE c < b
  <2>1. PICK t \in T : b = Bucket(t)
    BY DEF BucketsOf
  <2>2. PICK u \in S : c = Bucket(u)
    BY DEF BucketsOf
  <2>3. u \notin T
    BY <2>2 DEF BucketsOf
  <2>4. u < t /\ t \in Stamps /\ u \in Stamps
    BY <2>3 DEF Tops
  <2>5. c <= b /\ c # b /\ c \in Nat /\ b \in Nat
    BY <2>1, <2>2, <2>4, BucketsInOrder, Divided
  <2>6. QED
    BY <2>5
<1>3. QED
  BY <1>1, <1>2 DEF Tops

\* As many candles as m buckets hold fill the newest m buckets.
LEMMA BucketsFull ==
  ASSUME NEW S, S \subseteq Stamps, NEW T, Tops(T, S), NEW m \in Nat \ {0},
         T = S \/ Cardinality(T) = m * Ratio,
         NEW M, Tops(M, BucketsOf(S)), Cardinality(M) <= m, NEW b \in M
  PROVE  InBucket(T, b) = InBucket(S, b)
<1>1. SUFFICES ASSUME NEW u \in S \ T, Bucket(u) = b PROVE FALSE
  BY DEF InBucket, Tops
<1>2. Cardinality(T) = m * Ratio /\ T \subseteq S /\ u \in Stamps /\ Ratio \in Nat \ {0}
  BY <1>1, PagesAssumption DEF Tops
<1> DEFINE A == T \cup {u}
<1>3. \A t \in A : Bucket(t) \in M
  <2>1. ASSUME NEW t \in T PROVE Bucket(t) \in M
    <3>1. u < t /\ t \in Stamps /\ t \in S
      BY <1>1, <1>2 DEF Tops
    <3>2. b <= Bucket(t) /\ b \in Nat /\ Bucket(t) \in Nat /\ Bucket(t) \in BucketsOf(S)
      BY <3>1, <1>1, <1>2, BucketsInOrder, Divided DEF BucketsOf
    <3>3. Bucket(t) \notin M => Bucket(t) < b
      BY <3>2 DEF Tops
    <3>4. QED
      BY <3>2, <3>3
  <2>2. QED
    BY <2>1, <1>1
<1>4. IsFiniteSet(M)
  BY BucketsWhole, WholePart DEF Tops, Whole
<1>5. Cardinality(A) <= Cardinality(M) * Ratio /\ Cardinality(M) \in Nat
  BY <1>2, <1>3, <1>4, Crowd
<1>6. Cardinality(A) = m * Ratio + 1
  <2>1. IsFiniteSet(T) /\ u \notin T
    BY <1>1, <1>2, StampsWhole DEF Whole
  <2>2. QED
    BY <2>1, <1>2, FS_AddElement
<1>7. Cardinality(M) * Ratio <= m * Ratio
  <2> DEFINE c == Cardinality(M)
  <2>1. PICK d \in Nat : m = c + d
    <3>1. m - c \in Nat /\ m = c + (m - c)
      BY <1>5
    <3>2. QED
      BY <3>1
  <2>2. c \in Nat
    BY <1>5
  <2> HIDE DEF c
  <2>3. m * Ratio = c * Ratio + d * Ratio /\ d * Ratio \in Nat /\ c * Ratio \in Nat
    BY <2>1, <2>2, <1>2
  <2>4. c * Ratio <= m * Ratio
    BY <2>3
  <2>5. QED
    BY <2>4 DEF c
<1> DEFINE x == Cardinality(M) * Ratio
           y == m * Ratio
           z == Cardinality(A)
<1>8. x \in Int /\ y \in Int /\ z <= x /\ x <= y /\ z = y + 1
  BY <1>2, <1>5, <1>6, <1>7
<1> HIDE DEF x, y, z
<1>9. QED
  BY <1>8

LEMMA LongBars ==
  ASSUME PagesInv, ~paging, ask.long
  PROVE  LET N == NewestOf(Ascending(BucketsOf(There)), Min2(ask.limit, Cap))
         IN  Returned = BarsOf(N, There)
<1> DEFINE S == There
           T == Taken
           m == Min2(ask.limit, Cap)
           P == BucketsOf(T)
           Q == BucketsOf(S)
           N == NewestOf(Ascending(P), m)
           M == Range(N)
<1>1. Whole(S) /\ S \subseteq Stamps /\ T \subseteq S /\ Tops(T, S) /\ m \in Nat \ {0} /\ Wanted(ask) = m * Ratio
      /\ (T = S \/ Cardinality(T) = m * Ratio)
  BY InBounds, WantedIs DEF PagesInv, Wanted
<1>2. Whole(P) /\ Whole(Q) /\ Tops(P, Q)
  BY <1>1, BucketsWhole, TopBuckets
<1>3. Returned = NewestOf(BarsOf(Ascending(P), T), m)
  <2>1. Returned = NewestOf(Aggregated(Ascending(T)), m)
    BY AllAreTaken DEF Returned
  <2>2. Range(Ascending(T)) = T
    BY AscendingIs DEF PagesInv
  <2>3. Aggregated(Ascending(T)) = BarsOf(Ascending(P), T)
    BY <2>2 DEF Aggregated, BarsOf, BucketsOf, InBucket
  <2>4. QED
    BY <2>1, <2>3
<1>4. Returned = BarsOf(N, T)
  <2>1. Ascending(P) \in Seq(Int)
    BY <1>2, AscendingIs, NumbersOf DEF Whole
  <2>2. QED
    BY <2>1, <1>1, <1>3, NewestBars
<1>5. N = Ascending(M) /\ Tops(M, P) /\ Cardinality(M) = Min2(m, Cardinality(P)) /\ Whole(M)
  BY <1>1, <1>2, LastOnes
<1> HIDE DEF N, M, P, Q, S, T, m
<1>6. Tops(M, Q)
  BY <1>2, <1>5 DEF Tops
<1>7. Cardinality(P) \in Nat /\ Cardinality(M) <= m /\ Cardinality(M) \in Nat
  BY <1>1, <1>2, <1>5, FS_CardinalityType DEF Min2, Whole
<1>8. NewestOf(Ascending(Q), m) = N
  <2>1. M = Q \/ Cardinality(M) = m
    <3>1. CASE T = S
      <4>1. P = Q
        BY <3>1 DEF P, Q
      <4>2. CASE Cardinality(M) = Cardinality(P)
        BY <4>1, <4>2, <1>2, <1>5, WholePart DEF Tops
      <4>3. CASE Cardinality(M) # Cardinality(P)
        BY <4>3, <1>5 DEF Min2
      <4>4. QED
        BY <4>2, <4>3
    <3>2. CASE Cardinality(T) = m * Ratio
      <4>1. Cardinality(T) <= Cardinality(P) * Ratio
        <5>1. T \subseteq Stamps /\ IsFiniteSet(P) /\ \A t \in T : Bucket(t) \in P
          BY <1>1, <1>2 DEF P, BucketsOf, Whole
        <5>2. QED
          BY <5>1, Crowd
      <4>2. m <= Cardinality(P)
        <5> DEFINE c == Cardinality(P)
        <5>1. ASSUME ~(m <= c) PROVE FALSE
          <6>1. PICK d \in Nat : m = c + 1 + d
            <7>1. m - c - 1 \in Nat /\ m = c + 1 + (m - c - 1)
              BY <5>1, <1>1, <1>7
            <7>2. QED
              BY <7>1
          <6>2. c \in Nat /\ Ratio \in Nat \ {0}
            BY <1>7, PagesAssumption
          <6>3. m * Ratio <= c * Ratio
            BY <3>2, <4>1
          <6> HIDE DEF c
          <6>4. m * Ratio = c * Ratio + Ratio + d * Ratio /\ d * Ratio \in Nat /\ c * Ratio \in Nat
            BY <6>1, <6>2
          <6>5. QED
            BY <6>2, <6>3, <6>4
        <5>2. QED
          BY <5>1
      <4>3. QED
        BY <4>2, <1>1, <1>5, <1>7 DEF Min2
    <3>3. QED
      BY <3>1, <3>2, <1>1
  <2>2. QED
    BY <2>1, <1>1, <1>2, <1>5, <1>6, <1>7, NewestAre
<1>9. BarsOf(N, T) = BarsOf(N, S)
  <2>1. ASSUME NEW k \in DOMAIN N PROVE InBucket(T, N[k]) = InBucket(S, N[k])
    <3>1. N[k] \in M
      BY DEF M, Range
    <3>2. QED
      BY <3>1, <1>1, <1>6, <1>7, BucketsFull DEF Q
  <2>2. QED
    BY <2>1 DEF BarsOf
<1>10. QED
  BY <1>4, <1>8, <1>9 DEF Q, S, m

\* Whatever closes between two pages and wherever the gaps are: a call returns the newest
\* bars in its bounds, none twice and none left out, and every bar of the long interval is
\* made of all the short candles its bucket has within the bounds, for any page, cap,
\* ratio of the intervals, query and history.
THEOREM HistoryIsExact == PagesSpec => []PagesAreExact
<1>1. PagesInv => PagesAreExact
  <2> SUFFICES ASSUME PagesInv, ~paging
               PROVE  IF ask.long
                      THEN Returned = BarsOf(NewestOf(Ascending(BucketsOf(There)), Min2(ask.limit, Cap)), There)
                      ELSE Returned = NewestOf(Ascending(There), ask.limit)
    BY DEF PagesAreExact, There, BarsOf, BucketsOf, InBucket
  <2>1. QED
    BY ShortBars, LongBars
<1>2. QED
  BY <1>1, PagesStart, PagesStep, PTL DEF PagesSpec
=============================================================================
