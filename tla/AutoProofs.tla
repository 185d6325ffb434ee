----------------------------- MODULE AutoProofs -----------------------------
(***************************************************************************)
(* Theorems about AutoMode, for any tools, answers, endpoints and bounds.  *)
(***************************************************************************)
EXTENDS AutoMode, TLAPS, SequenceTheorems, FiniteSetTheorems, WellFoundedInduction

Over == [text : Answer, calls : [Call -> Nat]]

\* The session's auto mode, the runner's and the override agree; a budget is left while
\* auto mode is on.
ModesOK ==
  /\ auto \in [on : BOOLEAN, readonly : BOOLEAN, left : Budget]
  /\ runner \in [on : BOOLEAN, readonly : BOOLEAN, left : Budget, limit : Limit]
  /\ override \in [on : {"none", "ours", "old"}, was : Limit]
  /\ runner.on = auto.on /\ runner.readonly = auto.readonly
  /\ IF auto.on THEN auto.left # 0 ELSE auto = Off
  /\ runner.on => runner.left # 0
  /\ CurrentLimit = IF override.on = "ours" THEN override.was ELSE runner.limit

\* The run that is going on.
RunOK ==
  /\ pc \in {"idle", "running", "raising", "publishing"}
  /\ run \in [auto : BOOLEAN, hidden : BOOLEAN, limit : Limit, used : Nat, fallbacks : Nat,
              calls : [Call -> Nat], text : Answer]
  /\ pc = "idle" => override.on = "none"
  /\ turns \in Nat /\ switches \in Nat

\* What the loop remembers is what the last run was like, and the runs before are in order.
SeenOK ==
  pc # "idle" =>
    /\ past = <<>> => seen = Fresh
    /\ past # <<>> =>
         /\ seen.text = past[Len(past)].text
         /\ past[Len(past)].calls = NoCalls <=> seen.idle = 1
         /\ seen.idle \in {0, 1}
    /\ ~SameAnswer(past) /\ ~NoTools(past)

LoopOK ==
  /\ seen \in [text : Answer, idle : Nat, calls : [Call -> Nat]]
  /\ past \in Seq(Over)
  /\ reason \in {"none", "blocked", "footer", "budget", "clock", "loop", "no footer"}
  /\ SeenOK

\* The inductive invariant.
Inv == ModesOK /\ RunOK /\ LoopOK

-----------------------------------------------------------------------------
\* Off and on: what auto mode and the runner are like after a switch.
LEMMA Switched ==
  ASSUME ModesOK
  PROVE  /\ NoCalls \in [Call -> Nat]
         /\ Off \in [on : BOOLEAN, readonly : BOOLEAN, left : Budget]
         /\ Unset \in [on : BOOLEAN, readonly : BOOLEAN, left : Budget, limit : Limit]
         /\ \A n \in 1 .. MaxBudget, b \in BOOLEAN :
              Set(b, n) \in [on : BOOLEAN, readonly : BOOLEAN, left : Budget, limit : Limit]
         /\ NoOverride \in [on : {"none", "ours", "old"}, was : Limit]
         /\ NoRun \in [auto : BOOLEAN, hidden : BOOLEAN, limit : Limit, used : Nat,
                       fallbacks : Nat, calls : [Call -> Nat], text : Answer]
         /\ Fresh \in [text : Answer, idle : Nat, calls : [Call -> Nat]]
BY AutoAssumption
   DEF NoCalls, Off, Unset, Set, NoOverride, NoRun, Fresh, Budget, Limit, Answer

\* New executors leave an override behind.
LEMMA OutdatedOverride ==
  ASSUME NEW o \in [on : {"none", "ours", "old"}, was : Limit]
  PROVE  /\ Outdated(o) \in [on : {"none", "ours", "old"}, was : Limit]
         /\ Outdated(o).on # "ours"
         /\ o.on = "none" => Outdated(o).on = "none"
BY DEF Outdated

\* The end of an override brings the limit back.
LEMMA RestoredRunner ==
  ASSUME ModesOK
  PROVE  /\ Restored \in [on : BOOLEAN, readonly : BOOLEAN, left : Budget, limit : Limit]
         /\ Restored.on = runner.on /\ Restored.readonly = runner.readonly
         /\ Restored.left = runner.left /\ Restored.limit = CurrentLimit
<1>1. CASE override.on = "ours"
  BY <1>1 DEF ModesOK, Restored
<1>2. CASE override.on # "ours"
  BY <1>2 DEF ModesOK, Restored
<1>3. QED
  BY <1>1, <1>2

\* The end of a turn leaves the modes in step.
LEMMA EndTurnModes ==
  ASSUME ModesOK, NEW r, EndTurn(r),
         \/ r = Unset /\ auto' = Off
         \/ r = Restored /\ auto' = auto
  PROVE  ModesOK'
<1>1. CASE r = Unset /\ auto' = Off
  BY <1>1, Switched DEF EndTurn, ModesOK, CurrentLimit, NoOverride, Unset, Off
<1>2. CASE r = Restored /\ auto' = auto
  <2>1. /\ runner' = Restored /\ override' = NoOverride /\ auto' = auto
        /\ NoOverride.on = "none"
    BY <1>2 DEF EndTurn, NoOverride
  <2>2. CurrentLimit' = CurrentLimit
    BY <2>1, RestoredRunner DEF CurrentLimit
  <2>3. QED
    BY <2>1, <2>2, Switched, RestoredRunner DEF ModesOK
<1>3. QED
  BY <1>1, <1>2

-----------------------------------------------------------------------------
\* Whoever switches modes between two steps of the turn leaves them in step.
LEMMA SwitchInv ==
  ASSUME Inv,
         \/ \E n \in 1 .. MaxBudget, b \in BOOLEAN : Start(n, b)
         \/ Stop \/ Reload
  PROVE  Inv'
<1>1. ModesOK'
  <2>1. CASE \E n \in 1 .. MaxBudget, b \in BOOLEAN : Start(n, b)
    <3> PICK n \in 1 .. MaxBudget, b \in BOOLEAN : Start(n, b)
      BY <2>1
    <3>1. /\ auto' = [on |-> TRUE, readonly |-> b, left |-> n]
          /\ runner' = Set(b, n) /\ override' = Outdated(override)
      BY DEF Start
    <3>2. /\ auto' \in [on : BOOLEAN, readonly : BOOLEAN, left : Budget]
          /\ runner' \in [on : BOOLEAN, readonly : BOOLEAN, left : Budget, limit : Limit]
          /\ runner'.on /\ runner'.readonly = b /\ runner'.left = n /\ runner'.limit = n
      BY <3>1, AutoAssumption DEF Set, Budget, Limit
    <3>3. override' \in [on : {"none", "ours", "old"}, was : Limit] /\ override'.on # "ours"
      BY <3>1, OutdatedOverride DEF Inv, ModesOK
    <3>4. QED
      BY <3>1, <3>2, <3>3, AutoAssumption DEF ModesOK, CurrentLimit
  <2>2. CASE Stop
    <3>1. auto' = Off /\ runner' = Unset /\ override' = Outdated(override)
      BY <2>2 DEF Stop, StopAuto
    <3>2. override' \in [on : {"none", "ours", "old"}, was : Limit] /\ override'.on # "ours"
      BY <3>1, OutdatedOverride DEF Inv, ModesOK
    <3>3. ~auto'.on /\ ~auto'.readonly /\ ~runner'.on /\ ~runner'.readonly
      BY <3>1 DEF Off, Unset
    <3>4. runner'.limit = BaseLimit
      BY <3>1 DEF Unset
    <3>5. QED
      BY <3>1, <3>2, <3>3, <3>4, Switched DEF Inv, ModesOK, CurrentLimit
  <2>3. CASE Reload
    <3>1. /\ auto' = auto /\ runner' = [runner EXCEPT !.limit = CurrentLimit]
          /\ override' = Outdated(override)
      BY <2>3 DEF Reload
    <3>2. override' \in [on : {"none", "ours", "old"}, was : Limit] /\ override'.on # "ours"
      BY <3>1, OutdatedOverride DEF Inv, ModesOK
    <3>3. CurrentLimit \in Limit
      BY AutoAssumption DEF Inv, ModesOK, CurrentLimit, Budget, Limit
    <3>4. CurrentLimit' = CurrentLimit
      BY <3>1 DEF CurrentLimit, Inv, ModesOK
    <3>5. QED
      BY <3>1, <3>2, <3>3, <3>4 DEF Inv, ModesOK
  <2>4. QED
    BY <2>1, <2>2, <2>3
<1>2. /\ Switch /\ override' = Outdated(override)
  BY DEF Start, Stop, StopAuto, Reload
<1>3. RunOK'
  BY <1>2, OutdatedOverride DEF Switch, Inv, RunOK, ModesOK
<1>4. LoopOK'
  BY <1>2 DEF Switch, Inv, LoopOK, SeenOK
<1>5. QED
  BY <1>1, <1>3, <1>4 DEF Inv

\* A run that begins finds the modes in step.
LEMMA BeginRunInv ==
  ASSUME ModesOK, RunOK,
         NEW mode \in [on : BOOLEAN, readonly : BOOLEAN, left : Budget],
         NEW r \in [on : BOOLEAN, readonly : BOOLEAN, left : Budget, limit : Limit],
         NEW o \in [on : {"none", "ours", "old"}, was : Limit],
         NEW hidden \in BOOLEAN,
         BeginRun(mode, r, o, hidden), auto' = mode, turns' \in Nat, switches' \in Nat,
         IF mode.on THEN mode.left # 0 ELSE mode = Off,
         r.on = runner.on /\ r.left = runner.left,
         ~mode.on => /\ ~runner.on /\ ~r.readonly
                     /\ BaseLimit = IF o.on = "ours" THEN o.was ELSE r.limit
  PROVE  ModesOK' /\ RunOK'
<1> DEFINE new == IF mode.on THEN Set(mode.readonly, mode.left) ELSE r
<1>1. /\ runner' = new /\ override' = (IF mode.on THEN Outdated(o) ELSE o)
      /\ pc' = "running"
      /\ run' = [auto |-> mode.on, hidden |-> hidden, limit |-> new.limit, used |-> 0,
                 fallbacks |-> Fallbacks, calls |-> NoCalls, text |-> NoText]
  BY DEF BeginRun
<1>2. new \in [on : BOOLEAN, readonly : BOOLEAN, left : Budget, limit : Limit]
  BY DEF Set, Budget, Limit
<1>3. override' \in [on : {"none", "ours", "old"}, was : Limit]
  BY <1>1, OutdatedOverride
<1>4. ModesOK'
  <2>1. CASE mode.on
    <3>1. override'.on # "ours" /\ runner' = Set(mode.readonly, mode.left)
      BY <1>1, <2>1, OutdatedOverride
    <3>2. /\ runner'.on = TRUE /\ runner'.readonly = mode.readonly
          /\ runner'.left = mode.left /\ runner'.limit = mode.left
      BY <3>1 DEF Set
    <3>3. QED
      BY <1>1, <1>2, <1>3, <2>1, <3>1, <3>2 DEF ModesOK, CurrentLimit
  <2>2. CASE ~mode.on
    <3>1. runner' = r /\ override' = o /\ ~mode.readonly
      BY <1>1, <2>2 DEF Off
    <3>2. QED
      BY <1>3, <2>2, <3>1 DEF ModesOK, CurrentLimit
  <2>3. QED
    BY <2>1, <2>2
<1>5. new.limit \in Limit /\ NoCalls \in [Call -> Nat]
  BY <1>2, Switched
<1>6. RunOK'
  BY <1>1, <1>5, AutoAssumption DEF RunOK, Answer
<1>7. QED
  BY <1>4, <1>6

\* A turn that begins.
LEMMA BeginTurnInv ==
  ASSUME Inv, UserInput \/ JobInput
  PROVE  Inv'
<1>1. PICK limit, o :
        /\ BeginTurn(limit, o)
        /\ \/ limit = runner.limit /\ o = NoOverride
           \/ limit = ToolBudget /\ o = [on |-> "ours", was |-> runner.limit]
  BY DEF UserInput, JobInput
<1> DEFINE r == [runner EXCEPT !.limit = limit]
<1>2. /\ BeginRun(auto, r, o, FALSE) /\ auto' = auto /\ pc = "idle"
      /\ turns' = turns + 1 /\ switches' = switches
      /\ seen' = Fresh /\ past' = <<>> /\ reason' = "none"
  BY <1>1 DEF BeginTurn
<1>3. /\ o \in [on : {"none", "ours", "old"}, was : Limit]
      /\ limit \in Limit
      /\ limit = runner.limit \/ o.on = "ours"
      /\ o.on = "ours" => o.was = runner.limit
  BY <1>1, AutoAssumption, Switched DEF Inv, ModesOK, Limit, NoOverride
<1>4. r \in [on : BOOLEAN, readonly : BOOLEAN, left : Budget, limit : Limit]
  BY <1>3 DEF Inv, ModesOK
<1>5. r.on = runner.on /\ r.left = runner.left /\ r.readonly = runner.readonly
  BY DEF Inv, ModesOK
<1>6. r.limit = limit
  BY DEF Inv, ModesOK
<1>7. ~auto.on => runner.limit = BaseLimit
  BY <1>2 DEF Inv, ModesOK, RunOK, CurrentLimit
<1>8. ~auto.on => /\ ~runner.on /\ ~r.readonly
                  /\ BaseLimit = IF o.on = "ours" THEN o.was ELSE r.limit
  BY <1>3, <1>5, <1>6, <1>7 DEF Inv, ModesOK, Off
<1>9. /\ auto \in [on : BOOLEAN, readonly : BOOLEAN, left : Budget]
      /\ IF auto.on THEN auto.left # 0 ELSE auto = Off
      /\ turns' \in Nat /\ switches' \in Nat /\ FALSE \in BOOLEAN
  BY <1>2 DEF Inv, ModesOK, RunOK
<1>10. ModesOK' /\ RunOK'
  <2> HIDE DEF r
  <2>1. ModesOK /\ RunOK
    BY DEF Inv
  <2>2. QED
    BY <1>2, <1>3, <1>4, <1>5, <1>8, <1>9, <2>1, BeginRunInv
<1>11. LoopOK'
  <2>1. past' \in Seq(Over) /\ Len(past') = 0
    BY <1>2
  <2>2. ~SameAnswer(past') /\ ~NoTools(past')
    BY <2>1 DEF SameAnswer, NoTools
  <2>3. QED
    BY <1>2, <2>1, <2>2, Switched DEF Inv, LoopOK, SeenOK
<1>12. QED
  BY <1>10, <1>11 DEF Inv

-----------------------------------------------------------------------------
\* The loop goes on with an answer that says so, when nothing repeats and a run is left.
LEMMA GoesOn ==
  ASSUME NEW text, NEW blocked \in BOOLEAN, NEW late \in BOOLEAN,
         Why(text, blocked, late) = "none"
  PROVE  ~blocked /\ Charged # 0 /\ ~Repeats(text) /\ text \in Continues
<1>1. ~blocked
  BY DEF Why
<1>2. text \notin Concludes
  BY <1>1 DEF Why
<1>3. Charged # 0
  BY <1>1, <1>2 DEF Why
<1>4. ~late
  BY <1>1, <1>2, <1>3 DEF Why
<1>5. "none" = IF Repeats(text) THEN "loop" ELSE IF text \notin Continues THEN "no footer" ELSE "none"
  BY <1>1, <1>2, <1>3, <1>4 DEF Why
<1>6. QED
  BY <1>1, <1>3, <1>5

\* The reasons the loop can have.
LEMMA Reasons ==
  ASSUME NEW text, NEW blocked \in BOOLEAN, NEW late \in BOOLEAN
  PROVE  Why(text, blocked, late) \in
           {"none", "blocked", "footer", "budget", "clock", "loop", "no footer"}
<1>1. CASE blocked
  BY <1>1 DEF Why
<1>2. CASE ~blocked /\ text \in Concludes
  BY <1>2 DEF Why
<1>3. CASE ~blocked /\ text \notin Concludes /\ Charged = 0
  BY <1>3 DEF Why
<1>4. CASE ~blocked /\ text \notin Concludes /\ Charged # 0 /\ late
  BY <1>4 DEF Why
<1>5. CASE ~blocked /\ text \notin Concludes /\ Charged # 0 /\ ~late
  BY <1>5 DEF Why
<1>6. QED
  BY <1>1, <1>2, <1>3, <1>4, <1>5

\* When the loop goes on, what it remembers is right for one run more.
LEMMA NotedSeen ==
  ASSUME Inv, pc # "idle", NEW text \in Text, ~Repeats(text),
         past' = Append(past, [text |-> text, calls |-> run.calls]), seen' = Noted(text)
  PROVE  /\ seen' \in [text : Answer, idle : Nat, calls : [Call -> Nat]]
         /\ past' \in Seq(Over)
         /\ SeenOK'
<1> DEFINE last == [text |-> text, calls |-> run.calls]
<1>1. past \in Seq(Over) /\ last \in Over
  BY DEF Inv, LoopOK, RunOK, Over, Answer
<1>2. /\ past' = Append(past, last) /\ past' \in Seq(Over) /\ Len(past') = Len(past) + 1
      /\ past'[Len(past')] = last /\ \A i \in 1 .. Len(past) : past'[i] = past[i]
  BY <1>1
<1>3. seen \in [text : Answer, idle : Nat, calls : [Call -> Nat]] /\ run.calls \in [Call -> Nat]
  BY DEF Inv, LoopOK, RunOK
<1>4. /\ seen'.text = text
      /\ seen'.idle = IF run.calls = NoCalls THEN seen.idle + 1 ELSE 0
      /\ seen' \in [text : Answer, idle : Nat, calls : [Call -> Nat]]
  BY <1>3, AutoAssumption DEF Noted, Answer
<1>5. text # seen.text /\ ~(seen'.idle >= 2)
  BY AutoAssumption DEF Repeats
<1>6. /\ past = <<>> => seen = Fresh
      /\ past # <<>> => /\ seen.text = past[Len(past)].text
                        /\ past[Len(past)].calls = NoCalls <=> seen.idle = 1
                        /\ seen.idle \in {0, 1}
      /\ ~SameAnswer(past) /\ ~NoTools(past)
  BY DEF Inv, LoopOK, SeenOK
<1>7. seen'.idle \in {0, 1} /\ (run.calls = NoCalls <=> seen'.idle = 1)
  <2>1. seen'.idle \in Nat
    BY <1>3, <1>4
  <2>2. QED
    BY <1>3, <1>4, <1>5, <2>1
<1>8. ASSUME NEW i \in 2 .. Len(past')
      PROVE  /\ past'[i].text # past'[i - 1].text
             /\ ~(past'[i].calls = NoCalls /\ past'[i - 1].calls = NoCalls)
  <2>1. CASE i \in 2 .. Len(past)
    <3>1. past'[i] = past[i] /\ past'[i - 1] = past[i - 1]
      BY <1>1, <1>2, <2>1
    <3>2. QED
      BY <1>6, <2>1, <3>1 DEF SameAnswer, NoTools
  <2>2. CASE i = Len(past')
    <3>1. past # <<>> /\ i - 1 = Len(past)
      BY <1>1, <1>2, <1>8, <2>2
    <3>2. past'[i] = last /\ past'[i - 1] = past[Len(past)]
      <4>1. Len(past) \in Nat \ {0}
        BY <1>1, <3>1
      <4>2. past'[Len(past)] = past[Len(past)]
        BY <1>2, <4>1
      <4>3. QED
        BY <1>2, <2>2, <3>1, <4>2
    <3>3. past'[i].text # past'[i - 1].text
      BY <1>5, <1>6, <3>1, <3>2
    <3>4. ~(run.calls = NoCalls /\ past[Len(past)].calls = NoCalls)
      BY <1>4, <1>5, <1>6, <3>1
    <3>5. QED
      BY <3>2, <3>3, <3>4
  <2>3. QED
    BY <1>1, <1>2, <1>8, <2>1, <2>2
<1>9. ~SameAnswer(past') /\ ~NoTools(past')
  BY <1>8 DEF SameAnswer, NoTools
<1>10. past' # <<>> /\ past'[Len(past')].text = seen'.text
       /\ past'[Len(past')].calls = run.calls
  BY <1>1, <1>2, <1>4
<1>11. SeenOK'
  BY <1>7, <1>9, <1>10 DEF SeenOK, NoCalls
<1>12. QED
  BY <1>2, <1>4, <1>11

\* The end of a turn needs nothing of the loop any more.
LEMMA EndTurnInv ==
  ASSUME Inv, NEW r, EndTurn(r),
         \/ r = Unset /\ auto' = Off
         \/ r = Restored /\ auto' = auto,
         past' \in Seq(Over),
         reason' \in {"none", "blocked", "footer", "budget", "clock", "loop", "no footer"}
  PROVE  Inv'
<1>1. ModesOK'
  BY EndTurnModes DEF Inv
<1>2. ModesOK
  BY DEF Inv
<1>3. RunOK'
  BY <1>2, Switched DEF EndTurn, Inv, RunOK, NoOverride, counters
<1>4. LoopOK'
  BY <1>2, Switched DEF EndTurn, Inv, LoopOK, SeenOK
<1>5. QED
  BY <1>1, <1>3, <1>4 DEF Inv

\* The three ways of the end of a run.
LEMMA RunEndsInv ==
  ASSUME Inv, pc # "idle", NEW text, NEW blocked \in BOOLEAN, NEW late \in BOOLEAN,
         text \in Answer,
         RunEnds(text, blocked, late)
  PROVE  Inv'
<1> DEFINE why == Why(text, blocked, late)
           mode == [auto EXCEPT !.left = Charged]
<1>1. /\ past' = Append(past, [text |-> text, calls |-> run.calls])
      /\ \/ ~auto.on /\ EndTurn(Restored) /\ UNCHANGED <<auto, reason>>
         \/ auto.on /\ why # "none" /\ auto' = Off /\ reason' = why /\ EndTurn(Unset)
         \/ /\ auto.on /\ why = "none" /\ auto' = mode /\ seen' = Noted(text)
            /\ BeginRun(mode, runner, override, TRUE) /\ UNCHANGED <<reason, counters>>
  BY DEF RunEnds
<1>2. past' \in Seq(Over)
  <2>1. past \in Seq(Over) /\ [text |-> text, calls |-> run.calls] \in Over
    BY DEF Inv, LoopOK, RunOK, Over, Answer
  <2>2. QED
    BY <1>1, <2>1
<1>3. CASE ~auto.on
  BY <1>1, <1>2, <1>3, EndTurnInv DEF Inv, LoopOK
<1>4. CASE auto.on /\ why # "none"
  BY <1>1, <1>2, <1>4, Reasons, EndTurnInv
<1>5. CASE auto.on /\ why = "none"
  <2>1. /\ auto' = mode /\ seen' = Noted(text) /\ BeginRun(mode, runner, override, TRUE)
        /\ UNCHANGED <<reason, counters>>
    BY <1>1, <1>5
  <2>2. ~blocked /\ Charged # 0 /\ ~Repeats(text) /\ text \in Text
    BY <1>5, GoesOn, AutoAssumption
  <2>3. auto.left \in Nat \ {0} /\ auto.left <= MaxBudget
    BY <1>5, AutoAssumption DEF Inv, ModesOK, Budget
  <2>4. Charged \in Budget
    BY <2>3, AutoAssumption DEF Charged, Budget
  <2>5. /\ mode \in [on : BOOLEAN, readonly : BOOLEAN, left : Budget]
        /\ mode.on /\ mode.left # 0
    BY <1>5, <2>2, <2>4 DEF Inv, ModesOK
  <2>6. /\ runner \in [on : BOOLEAN, readonly : BOOLEAN, left : Budget, limit : Limit]
        /\ override \in [on : {"none", "ours", "old"}, was : Limit]
        /\ ModesOK /\ RunOK /\ turns' \in Nat /\ switches' \in Nat
    BY <2>1 DEF Inv, ModesOK, RunOK, counters
  <2>7. ModesOK' /\ RunOK'
    <3> HIDE DEF mode
    <3>1. QED
      BY <2>1, <2>5, <2>6, BeginRunInv
  <2>8. LoopOK'
    <3>1. reason' = reason
      BY <2>1
    <3>2. QED
      BY <1>1, <2>1, <2>2, <3>1, NotedSeen DEF Inv, LoopOK
  <2>9. QED
    BY <2>7, <2>8 DEF Inv
<1>6. QED
  BY <1>3, <1>4, <1>5

\* A step within a run leaves modes and loop alone.
LEMMA GoesInv ==
  ASSUME Inv, pc # "idle", NEW new, NEW next \in {"running", "raising", "publishing"},
         Goes(new, next),
         new \in [auto : BOOLEAN, hidden : BOOLEAN, limit : Limit, used : Nat, fallbacks : Nat,
                 calls : [Call -> Nat], text : Answer]
  PROVE  Inv'
<1>1. UNCHANGED <<auto, runner, override, seen, past, reason, turns, switches>>
  BY DEF Goes, modes, counters
<1>2. pc' = next /\ run' = new
  BY DEF Goes
<1>3. ModesOK'
  BY <1>1 DEF Inv, ModesOK, CurrentLimit
<1>4. RunOK'
  BY <1>1, <1>2 DEF Inv, RunOK
<1>5. LoopOK'
  BY <1>1, <1>2 DEF Inv, LoopOK, SeenOK, SameAnswer, NoTools, NoCalls
<1>6. QED
  BY <1>3, <1>4, <1>5 DEF Inv

\* An answer, whether it is published or not.
LEMMA AnsweredInv ==
  ASSUME Inv, pc # "idle", NEW text \in Answer, Answered(text)
  PROVE  Inv'
<1>1. CASE run.hidden
  <2>1. PICK late \in BOOLEAN : RunEnds(text, FALSE, late)
    BY <1>1 DEF Answered
  <2>2. QED
    BY <2>1, RunEndsInv
<1>2. CASE ~run.hidden
  <2>1. Goes([run EXCEPT !.text = text], "publishing")
    BY <1>2 DEF Answered
  <2>2. [run EXCEPT !.text = text] \in
          [auto : BOOLEAN, hidden : BOOLEAN, limit : Limit, used : Nat, fallbacks : Nat,
           calls : [Call -> Nat], text : Answer]
    BY DEF Inv, RunOK
  <2>3. QED
    BY <2>1, <2>2, GoesInv
<1>3. QED
  BY <1>1, <1>2

\* Another endpoint, or the answer there is.
LEMMA NextEndpointInv ==
  ASSUME Inv, pc # "idle", NextEndpoint
  PROVE  Inv'
<1>1. CASE run.fallbacks > 0
  <2> DEFINE new == [run EXCEPT !.used = 0, !.fallbacks = @ - 1]
  <2>1. Goes(new, "running")
    BY <1>1 DEF NextEndpoint
  <2>2. run.fallbacks - 1 \in Nat
    BY <1>1 DEF Inv, RunOK
  <2>3. new \in [auto : BOOLEAN, hidden : BOOLEAN, limit : Limit, used : Nat, fallbacks : Nat,
               calls : [Call -> Nat], text : Answer]
    BY <2>2 DEF Inv, RunOK
  <2>4. QED
    BY <2>1, <2>3, GoesInv
<1>2. CASE ~(run.fallbacks > 0)
  <2>1. PICK text \in Answer : Answered(text)
    BY <1>2 DEF NextEndpoint
  <2>2. QED
    BY <2>1, AnsweredInv
<1>3. QED
  BY <1>1, <1>2

\* A tool call is counted.
LEMMA CallsToolInv ==
  ASSUME Inv, NEW c \in Call, NEW next \in {"running", "raising"}, CallsTool(c, next)
  PROVE  Inv'
<1> DEFINE new == [run EXCEPT !.used = @ + 1, !.calls[c] = @ + 1]
<1>1. pc # "idle" /\ Goes(new, next)
  BY DEF CallsTool
<1>2. run.used + 1 \in Nat /\ run.calls \in [Call -> Nat]
  BY DEF Inv, RunOK
<1>3. [run.calls EXCEPT ![c] = @ + 1] \in [Call -> Nat]
  BY <1>2
<1>4. new \in [auto : BOOLEAN, hidden : BOOLEAN, limit : Limit, used : Nat, fallbacks : Nat,
             calls : [Call -> Nat], text : Answer]
  BY <1>2, <1>3 DEF Inv, RunOK
<1>5. QED
  <2> HIDE DEF new
  <2>1. QED
    BY <1>1, <1>4, GoesInv

-----------------------------------------------------------------------------
LEMMA InvInit == Init => Inv
<1> SUFFICES ASSUME Init PROVE Inv
  OBVIOUS
<1>1. /\ BaseLimit \in Limit /\ NoCalls \in [Call -> Nat]
      /\ NoText \in Answer /\ 0 \in Budget
  BY AutoAssumption DEF Limit, NoCalls, Answer, Budget
<1>2. ModesOK
  BY <1>1 DEF Init, ModesOK, Off, Unset, NoOverride, CurrentLimit
<1>3. RunOK
  BY <1>1 DEF Init, RunOK, NoRun, NoOverride
<1>4. LoopOK
  BY <1>1 DEF Init, LoopOK, SeenOK, Fresh
<1>5. QED
  BY <1>2, <1>3, <1>4 DEF Inv

\* Every step of the turn and of the clients keeps the invariant.
LEMMA InvNext == Inv /\ [Next]_vars => Inv'
<1> SUFFICES ASSUME Inv, [Next]_vars PROVE Inv'
  OBVIOUS
<1>1. CASE UserInput \/ JobInput
  BY <1>1, BeginTurnInv
<1>2. CASE RunStep
  <2>1. ASSUME NEW c \in Call, ToolRuns(c) \/ ToolIsBlocked(c) PROVE Inv'
    BY <2>1, CallsToolInv DEF ToolRuns, ToolIsBlocked
  <2>2. ASSUME NEW text \in Text, Answers(text) PROVE Inv'
    BY <2>2, AnsweredInv DEF Answers, Answer
  <2>3. CASE EndpointFails
    BY <2>3, NextEndpointInv DEF EndpointFails
  <2>4. CASE Raised
    <3>1. pc # "idle"
      BY <2>4 DEF Raised
    <3>2. CASE runner.on
      <4>1. RunEnds(NoText, TRUE, FALSE)
        BY <2>4, <3>2 DEF Raised
      <4>2. QED
        BY <3>1, <4>1, RunEndsInv DEF Answer
    <3>3. CASE ~runner.on
      BY <2>4, <3>1, <3>3, NextEndpointInv DEF Raised
    <3>4. QED
      BY <3>2, <3>3
  <2>5. CASE Published
    <3>1. PICK late \in BOOLEAN : RunEnds(run.text, FALSE, late)
      BY <2>5 DEF Published
    <3>2. pc # "idle" /\ run.text \in Answer
      BY <2>5 DEF Published, Inv, RunOK
    <3>3. QED
      BY <3>1, <3>2, RunEndsInv
  <2>6. QED
    BY <1>2, <2>1, <2>2, <2>3, <2>4, <2>5 DEF RunStep
<1>3. CASE Cancelled
  <2>1. /\ auto' = Off /\ UNCHANGED <<past, reason>>
        /\ EndTurn(IF auto.on THEN Unset ELSE Restored)
    BY <1>3 DEF Cancelled
  <2>2. CASE auto.on
    BY <2>1, <2>2, EndTurnInv DEF Inv, LoopOK
  <2>3. CASE ~auto.on
    <3>1. auto' = auto
      BY <2>1, <2>3 DEF Inv, ModesOK
    <3>2. QED
      BY <2>1, <2>3, <3>1, EndTurnInv DEF Inv, LoopOK
  <2>4. QED
    BY <2>2, <2>3
<1>4. CASE Fails
  <2>1. EndTurn(Restored) /\ auto' = auto /\ past' = past /\ reason' = reason
    BY <1>4 DEF Fails
  <2>2. QED
    BY <2>1, EndTurnInv DEF Inv, LoopOK
<1>5. CASE \/ \E n \in 1 .. MaxBudget, b \in BOOLEAN : Start(n, b)
           \/ Stop \/ Reload
  BY <1>5, SwitchInv
<1>6. CASE UNCHANGED vars
  <2>1. UNCHANGED <<auto, runner, override, pc, run, seen, past, reason, turns, switches>>
    BY <1>6 DEF vars, modes, counters
  <2>2. ModesOK'
    BY <2>1 DEF Inv, ModesOK, CurrentLimit
  <2>3. RunOK'
    BY <2>1 DEF Inv, RunOK
  <2>4. LoopOK'
    BY <2>1 DEF Inv, LoopOK, SeenOK, SameAnswer, NoTools, NoCalls
  <2>5. QED
    BY <2>2, <2>3, <2>4 DEF Inv
<1>7. QED
  BY <1>1, <1>2, <1>3, <1>4, <1>5, <1>6 DEF Next

-----------------------------------------------------------------------------
\* The invariant holds in every state the loop, the runner and the clients reach.
THEOREM Reachable == Spec => []Inv
<1>1. QED
  BY InvInit, InvNext, PTL DEF Spec

\* The state of the session, of the runner and of the loop keeps its type, whoever switches
\* auto mode or the model at whatever await of a run.
THEOREM AutoTyped == Spec => []TypeOK
<1>1. Inv => TypeOK
  BY DEF Inv, ModesOK, RunOK, LoopOK, TypeOK, Answer, Over
<1>2. QED
  BY <1>1, Reachable, PTL

\* The runner, whose policy decides on tools, is never out of step with the session's auto
\* mode, and the limit that a job's override hides comes back.
THEOREM InStep == Spec => []RunnerInStep
<1>1. Inv => RunnerInStep
  BY DEF Inv, ModesOK, RunOK, RunnerInStep
<1>2. QED
  BY <1>1, Reachable, PTL

-----------------------------------------------------------------------------
(* Circles. What the loop remembers of the turn is a text, a number and a     *)
(* count per call: enough to know whether its runs go round in circles.       *)

\* The count is that of the calls in all runs so far, none of which reached the limit.
CallsOK ==
  /\ \A c \in Call : IsFiniteSet(CallsOf(past, c))
  /\ pc # "idle" => /\ reason = "none"
                    /\ \A c \in Call : Cardinality(CallsOf(past, c)) = seen.calls[c] /\ seen.calls[c] < 3
  /\ reason = "loop" => Circles(past)

\* One run more adds its calls.
LEMMA CallsGrow ==
  ASSUME NEW runs \in Seq(Over), NEW r \in Over, NEW c \in Call, IsFiniteSet(CallsOf(runs, c))
  PROVE  /\ IsFiniteSet(CallsOf(Append(runs, r), c))
         /\ Cardinality(CallsOf(Append(runs, r), c)) = Cardinality(CallsOf(runs, c)) + r.calls[c]
<1> DEFINE n == Len(runs) + 1
           added == {n} \X (1 .. r.calls[c])
<1>1. /\ DOMAIN Append(runs, r) = DOMAIN runs \cup {n} /\ n \notin DOMAIN runs
      /\ Append(runs, r)[n] = r /\ \A i \in DOMAIN runs : Append(runs, r)[i] = runs[i]
  OBVIOUS
<1>2. r.calls[c] \in Nat
  BY DEF Over
<1>3. CallsOf(Append(runs, r), c) = CallsOf(runs, c) \cup added
  BY <1>1 DEF CallsOf
<1>4. CallsOf(runs, c) \cap added = {}
  BY <1>1 DEF CallsOf
<1>5. IsFiniteSet(added) /\ Cardinality(added) = r.calls[c]
  <2>1. IsFiniteSet({n}) /\ Cardinality({n}) = 1
    BY FS_Singleton
  <2>2. IsFiniteSet(1 .. r.calls[c]) /\ Cardinality(1 .. r.calls[c]) = r.calls[c]
    <3> DEFINE k == r.calls[c]
    <3>1. 1 \in Int /\ k \in Int
      BY <1>2
    <3>2. IsFiniteSet(1 .. k) /\ Cardinality(1 .. k) = IF 1 > k THEN 0 ELSE k - 1 + 1
      <4> HIDE DEF k
      <4>1. QED
        BY <3>1, FS_Interval
    <3>3. QED
      BY <1>2, <3>2
  <2>3. IsFiniteSet(added) /\ Cardinality(added) = 1 * r.calls[c]
    BY <2>1, <2>2, FS_Product
  <2>4. QED
    BY <1>2, <2>3
<1>6. Cardinality(CallsOf(runs, c)) \in Nat /\ Cardinality({}) = 0
  BY FS_CardinalityType, FS_EmptySet
<1>7. /\ IsFiniteSet(CallsOf(runs, c) \cup added)
      /\ Cardinality(CallsOf(runs, c) \cup added) =
           Cardinality(CallsOf(runs, c)) + Cardinality(added) - Cardinality({})
  <2> HIDE DEF added
  <2>1. QED
    BY <1>4, <1>5, FS_Union
<1>8. QED
  <2> HIDE DEF added
  <2>1. QED
    BY <1>2, <1>3, <1>5, <1>6, <1>7

\* No run, no call.
LEMMA NoCallsYet ==
  \A c \in Call : IsFiniteSet(CallsOf(<<>>, c)) /\ Cardinality(CallsOf(<<>>, c)) = 0
<1>1. \A c \in Call : CallsOf(<<>>, c) = {}
  BY DEF CallsOf
<1>2. QED
  BY <1>1, FS_EmptySet

\* What the steps do to the runs that are over: a turn begins, a run is added, or they
\* stay as they are.
LEMMA Kinds ==
  ASSUME Inv, [Next]_vars
  PROVE  \/ past' = <<>> /\ seen' = Fresh /\ reason' = "none"
         \/ pc # "idle" /\ \E text \in Answer, b \in BOOLEAN, late \in BOOLEAN : RunEnds(text, b, late)
         \/ UNCHANGED <<past, seen, reason>> /\ (pc' # "idle" => pc # "idle")
         \/ UNCHANGED <<past, reason>> /\ pc' = "idle"
<1> DEFINE Stays == UNCHANGED <<past, seen, reason>> /\ (pc' # "idle" => pc # "idle")
           Ends == pc # "idle" /\ \E text \in Answer, b \in BOOLEAN, late \in BOOLEAN : RunEnds(text, b, late)
<1>1. ASSUME pc # "idle", NEW text \in Answer, Answered(text) PROVE Stays \/ Ends
  BY <1>1 DEF Answered, Goes
<1>2. ASSUME pc # "idle", NextEndpoint PROVE Stays \/ Ends
  <2>1. CASE run.fallbacks > 0
    BY <1>2, <2>1 DEF NextEndpoint, Goes
  <2>2. CASE ~(run.fallbacks > 0)
    <3>1. PICK text \in Answer : Answered(text)
      BY <1>2, <2>2 DEF NextEndpoint
    <3>2. QED
      BY <1>1, <1>2, <3>1
  <2>3. QED
    BY <2>1, <2>2
<1>3. CASE UserInput \/ JobInput
  BY <1>3 DEF UserInput, JobInput, BeginTurn
<1>4. CASE RunStep
  <2>1. ASSUME NEW c \in Call, ToolRuns(c) \/ ToolIsBlocked(c) PROVE Stays
    BY <2>1 DEF ToolRuns, ToolIsBlocked, CallsTool, Goes
  <2>2. ASSUME NEW text \in Text, Answers(text) PROVE Stays \/ Ends
    BY <2>2, <1>1 DEF Answers, Answer
  <2>3. CASE EndpointFails
    BY <2>3, <1>2 DEF EndpointFails
  <2>4. CASE Raised
    <3>1. pc # "idle" /\ (RunEnds(NoText, TRUE, FALSE) \/ NextEndpoint)
      BY <2>4 DEF Raised
    <3>2. QED
      BY <3>1, <1>2 DEF Answer
  <2>5. CASE Published
    <3>1. pc # "idle" /\ run.text \in Answer /\ \E late \in BOOLEAN : RunEnds(run.text, FALSE, late)
      BY <2>5 DEF Published, Inv, RunOK
    <3>2. QED
      BY <3>1
  <2>6. QED
    BY <1>4, <2>1, <2>2, <2>3, <2>4, <2>5 DEF RunStep
<1>5. CASE Cancelled \/ Fails
  BY <1>5 DEF Cancelled, Fails, EndTurn
<1>6. CASE \/ \E n \in 1 .. MaxBudget, b \in BOOLEAN : Start(n, b)
           \/ Stop \/ Reload
  BY <1>6 DEF Start, Stop, Reload, Switch
<1>7. CASE UNCHANGED vars
  BY <1>7 DEF vars
<1>8. QED
  BY <1>3, <1>4, <1>5, <1>6, <1>7 DEF Next

\* What the loop notices when a run is over, the turn as a whole shows.
LEMMA RepeatsShow ==
  ASSUME Inv, CallsOK, pc # "idle", NEW text \in Answer, Repeats(text)
  PROVE  Circles(Append(past, [text |-> text, calls |-> run.calls]))
<1> DEFINE last == [text |-> text, calls |-> run.calls]
           runs == Append(past, last)
<1>1. past \in Seq(Over) /\ last \in Over /\ run.calls \in [Call -> Nat]
  BY DEF Inv, LoopOK, RunOK, Over, Answer
<1>2. /\ Len(runs) = Len(past) + 1 /\ runs[Len(runs)] = last
      /\ past # <<>> => Len(runs) \in 2 .. Len(runs) /\ runs[Len(runs) - 1] = past[Len(past)]
  BY <1>1
<1>3. /\ past = <<>> => seen = Fresh
      /\ past # <<>> => /\ seen.text = past[Len(past)].text
                        /\ past[Len(past)].calls = NoCalls <=> seen.idle = 1
                        /\ seen.idle \in {0, 1}
  BY DEF Inv, LoopOK, SeenOK
<1>4. CASE text # NoText /\ text = seen.text
  <2>1. past # <<>>
    BY <1>3, <1>4 DEF Fresh
  <2>2. runs[Len(runs)].text = runs[Len(runs) - 1].text
    BY <1>2, <1>3, <1>4, <2>1
  <2>3. QED
    BY <1>2, <2>1, <2>2 DEF Circles, SameAnswer
<1>5. CASE Noted(text).idle >= 2
  <2>1. Noted(text).idle = IF run.calls = NoCalls THEN seen.idle + 1 ELSE 0
    BY DEF Noted
  <2>2. run.calls = NoCalls /\ seen.idle + 1 >= 2
    BY <1>5, <2>1
  <2>3. past # <<>>
    BY <1>3, <2>2 DEF Fresh
  <2>4. past[Len(past)].calls = NoCalls
    BY <1>3, <2>2, <2>3
  <2>5. runs[Len(runs)].calls = NoCalls /\ runs[Len(runs) - 1].calls = NoCalls
    BY <1>2, <2>2, <2>3, <2>4
  <2>6. QED
    BY <1>2, <2>3, <2>5 DEF Circles, NoTools
<1>6. CASE \E c \in Call : run.calls[c] > 0 /\ Noted(text).calls[c] >= 3
  <2>1. PICK c \in Call : Noted(text).calls[c] >= 3
    BY <1>6
  <2>2. Noted(text).calls[c] = seen.calls[c] + run.calls[c]
    BY DEF Noted
  <2>3. Cardinality(CallsOf(runs, c)) = seen.calls[c] + run.calls[c]
    BY <1>1, CallsGrow DEF CallsOK
  <2>4. QED
    BY <2>1, <2>2, <2>3 DEF Circles, SameCall
<1>7. QED
  BY <1>4, <1>5, <1>6 DEF Repeats

\* The three ways of the end of a run keep the count.
LEMMA RunEndsCalls ==
  ASSUME Inv, CallsOK, pc # "idle", NEW text \in Answer, NEW blocked \in BOOLEAN, NEW late \in BOOLEAN,
         RunEnds(text, blocked, late)
  PROVE  CallsOK'
<1> DEFINE why == Why(text, blocked, late)
           last == [text |-> text, calls |-> run.calls]
<1>1. /\ past' = Append(past, last)
      /\ \/ ~auto.on /\ pc' = "idle" /\ reason' = reason
         \/ auto.on /\ why # "none" /\ pc' = "idle" /\ reason' = why
         \/ auto.on /\ why = "none" /\ seen' = Noted(text) /\ reason' = reason
  BY DEF RunEnds, EndTurn
<1>2. past \in Seq(Over) /\ last \in Over /\ seen.calls \in [Call -> Nat] /\ run.calls \in [Call -> Nat]
  BY DEF Inv, LoopOK, RunOK, Over, Answer
<1>3. \A c \in Call : /\ IsFiniteSet(CallsOf(past, c)) /\ Cardinality(CallsOf(past, c)) = seen.calls[c]
                      /\ seen.calls[c] < 3
  BY DEF CallsOK
<1>4. \A c \in Call : /\ IsFiniteSet(CallsOf(past', c))
                      /\ Cardinality(CallsOf(past', c)) = seen.calls[c] + run.calls[c]
  BY <1>1, <1>2, <1>3, CallsGrow
<1>5. reason = "none"
  BY DEF CallsOK
<1>6. CASE ~auto.on
  BY <1>1, <1>4, <1>5, <1>6 DEF CallsOK
<1>7. CASE auto.on /\ why # "none"
  <2>1. why = "loop" => Repeats(text)
    BY DEF Why
  <2>2. why = "loop" => Circles(past')
    BY <1>1, <2>1, RepeatsShow
  <2>3. QED
    BY <1>1, <1>4, <1>7, <2>2 DEF CallsOK
<1>8. CASE auto.on /\ why = "none"
  <2>1. ~Repeats(text) /\ seen' = Noted(text) /\ reason' = "none"
    BY <1>1, <1>5, <1>8, GoesOn
  <2>2. ASSUME NEW c \in Call
        PROVE  seen'.calls[c] = seen.calls[c] + run.calls[c] /\ seen'.calls[c] < 3
    <3>1. seen'.calls[c] = seen.calls[c] + run.calls[c] /\ seen'.calls[c] = Noted(text).calls[c]
      BY <2>1 DEF Noted
    <3>2. ~(run.calls[c] > 0 /\ seen'.calls[c] >= 3)
      BY <2>1, <3>1 DEF Repeats
    <3>3. seen.calls[c] \in Nat /\ run.calls[c] \in Nat /\ seen.calls[c] < 3
      BY <1>2, <1>3
    <3>4. QED
      BY <3>1, <3>2, <3>3
  <2>3. QED
    BY <1>4, <2>1, <2>2 DEF CallsOK
<1>9. QED
  BY <1>1, <1>6, <1>7, <1>8

LEMMA CallsInit == Init => CallsOK
BY NoCallsYet DEF Init, CallsOK

LEMMA CallsNext == Inv /\ CallsOK /\ [Next]_vars => CallsOK'
<1> SUFFICES ASSUME Inv, CallsOK, [Next]_vars PROVE CallsOK'
  OBVIOUS
<1>1. CASE past' = <<>> /\ seen' = Fresh /\ reason' = "none"
  <2>1. \A c \in Call : seen'.calls[c] = 0
    BY <1>1 DEF Fresh, NoCalls
  <2>2. QED
    BY <1>1, <2>1, NoCallsYet DEF CallsOK
<1>2. CASE pc # "idle" /\ \E text \in Answer, b \in BOOLEAN, late \in BOOLEAN : RunEnds(text, b, late)
  BY <1>2, RunEndsCalls
<1>3. CASE UNCHANGED <<past, seen, reason>> /\ (pc' # "idle" => pc # "idle")
  BY <1>3 DEF CallsOK
<1>4. CASE UNCHANGED <<past, reason>> /\ pc' = "idle"
  BY <1>4 DEF CallsOK
<1>5. QED
  BY <1>1, <1>2, <1>3, <1>4, Kinds

\* The loop looks at one run at a time, with three locals for the past, and that is as good
\* as looking at the whole turn: it never goes on when an answer came twice in a row, two
\* runs in a row called no tool or a tool was called three times with the same input, and
\* it never gives a circle as the reason to stop where there is none.
THEOREM CirclesAlwaysFound == Spec => []CirclesAreFound
<1>1. Inv /\ CallsOK => CirclesAreFound
  <2> SUFFICES ASSUME Inv, CallsOK PROVE CirclesAreFound
    OBVIOUS
  <2>1. ASSUME pc # "idle" PROVE ~Circles(past)
    <3>1. ~SameAnswer(past) /\ ~NoTools(past)
      BY <2>1 DEF Inv, LoopOK, SeenOK
    <3>2. \A c \in Call : Cardinality(CallsOf(past, c)) = seen.calls[c] /\ seen.calls[c] < 3
                          /\ seen.calls[c] \in Nat
      BY <2>1 DEF CallsOK, Inv, LoopOK
    <3>3. QED
      BY <3>1, <3>2 DEF Circles, SameCall
  <2>2. QED
    BY <2>1 DEF CirclesAreFound, CallsOK
<1>2. Init => CallsOK
  BY CallsInit
<1>3. Inv /\ CallsOK /\ [Next]_vars => CallsOK'
  BY CallsNext
<1>4. QED
  BY <1>1, <1>2, <1>3, Reachable, PTL DEF Spec

-----------------------------------------------------------------------------
\* A run that is over ends the turn, or is charged to a budget that has another one.
LEMMA RunEndsPromised ==
  ASSUME Inv, pc # "idle", NEW text \in Answer, NEW blocked \in BOOLEAN, NEW late \in BOOLEAN,
         RunEnds(text, blocked, late)
  PROVE  Loop!End \/ Loop!GoOn
<1> DEFINE why == Why(text, blocked, late)
           mode == [auto EXCEPT !.left = Charged]
<1>1. /\ past' = Append(past, [text |-> text, calls |-> run.calls])
      /\ \/ ~auto.on /\ EndTurn(Restored) /\ UNCHANGED <<auto, reason>>
         \/ auto.on /\ why # "none" /\ auto' = Off /\ reason' = why /\ EndTurn(Unset)
         \/ /\ auto.on /\ why = "none" /\ auto' = mode
            /\ BeginRun(mode, runner, override, TRUE)
  BY DEF RunEnds
<1>2. Len(past') = Len(past) + 1
  <2>1. past \in Seq(Over) /\ [text |-> text, calls |-> run.calls] \in Over
    BY DEF Inv, LoopOK, RunOK, Over
  <2>2. QED
    BY <1>1, <2>1
<1>3. CASE ~auto.on
  BY <1>1, <1>2, <1>3 DEF EndTurn, Loop!End
<1>4. CASE auto.on /\ why # "none"
  <2>1. pc' = "idle" /\ auto' = Off
    BY <1>1, <1>4 DEF EndTurn
  <2>2. auto'.on = FALSE /\ auto'.left = 0
    BY <2>1 DEF Off
  <2>3. QED
    BY <1>2, <2>1, <2>2 DEF Loop!End, Loop!Off
<1>5. CASE auto.on /\ why = "none"
  <2>1. auto' = mode /\ pc' = "running"
    BY <1>1, <1>5 DEF BeginRun
  <2>2. Charged # 0
    BY <1>5, GoesOn
  <2>3. /\ auto \in [on : BOOLEAN, readonly : BOOLEAN, left : Budget]
        /\ auto.left \in Nat \ {0} /\ Charged = auto.left - 1
    BY <1>5, AutoAssumption DEF Inv, ModesOK, Budget, Charged
  <2>4. auto'.on = auto.on /\ auto'.left = auto.left - 1 /\ auto.left > 1
    BY <2>1, <2>2, <2>3
  <2>5. QED
    BY <1>2, <1>5, <2>1, <2>4 DEF Loop!GoOn
<1>6. QED
  BY <1>3, <1>4, <1>5

\* A step within a run is none of the clients' business.
LEMMA GoesUnseen ==
  ASSUME pc # "idle", NEW new, NEW next \in {"running", "raising", "publishing"}, Goes(new, next)
  PROVE  UNCHANGED Loop!vars
BY DEF Goes, modes, Loop!vars

LEMMA AnsweredPromised ==
  ASSUME Inv, pc # "idle", NEW text \in Answer, Answered(text)
  PROVE  [Loop!Next]_(Loop!vars)
<1>1. CASE run.hidden
  <2>1. PICK late \in BOOLEAN : RunEnds(text, FALSE, late)
    BY <1>1 DEF Answered
  <2>2. QED
    BY <2>1, RunEndsPromised DEF Loop!Next, Answer
<1>2. CASE ~run.hidden
  BY <1>2, GoesUnseen DEF Answered
<1>3. QED
  BY <1>1, <1>2

LEMMA NextEndpointPromised ==
  ASSUME Inv, pc # "idle", NextEndpoint
  PROVE  [Loop!Next]_(Loop!vars)
<1>1. CASE run.fallbacks > 0
  BY <1>1, GoesUnseen DEF NextEndpoint
<1>2. CASE ~(run.fallbacks > 0)
  <2>1. PICK text \in Answer : Answered(text)
    BY <1>2 DEF NextEndpoint
  <2>2. QED
    BY <2>1, AnsweredPromised
<1>3. QED
  BY <1>1, <1>2

\* What clients switch, the abstract loop allows.
LEMMA SwitchPromised ==
  ASSUME Inv,
         \/ \E n \in 1 .. MaxBudget, b \in BOOLEAN : Start(n, b)
         \/ Stop \/ Reload
  PROVE  [Loop!Next]_(Loop!vars)
<1>1. pc' = pc /\ past' = past
  BY DEF Start, Stop, Reload, Switch
<1>2. CASE \E n \in 1 .. MaxBudget, b \in BOOLEAN : Start(n, b)
  <2>1. PICK n \in 1 .. MaxBudget, b \in BOOLEAN : Start(n, b)
    BY <1>2
  <2>2. auto'.on = TRUE /\ auto'.left = n
    BY <2>1 DEF Start
  <2>3. QED
    BY <1>1, <2>2 DEF Loop!Start, Loop!Next
<1>3. CASE Stop
  <2>1. auto'.on = FALSE /\ auto'.left = 0
    BY <1>3 DEF Stop, StopAuto, Off
  <2>2. QED
    BY <1>1, <2>1 DEF Loop!Stop, Loop!Off, Loop!Next
<1>4. CASE Reload
  BY <1>1, <1>4 DEF Reload, Loop!vars
<1>5. QED
  BY <1>2, <1>3, <1>4

\* Every step of the detailed loop is one of the abstract loop, or none.
LEMMA StepPromised == Inv /\ [Next]_vars => [Loop!Next]_(Loop!vars)
<1> SUFFICES ASSUME Inv, [Next]_vars PROVE [Loop!Next]_(Loop!vars)
  OBVIOUS
<1>1. CASE UserInput \/ JobInput
  <2>1. pc = "idle" /\ pc' = "running" /\ auto' = auto /\ past' = <<>>
    BY <1>1 DEF UserInput, JobInput, BeginTurn, BeginRun
  <2>2. QED
    BY <2>1 DEF Loop!Begin, Loop!Next
<1>2. CASE RunStep
  <2>1. ASSUME NEW c \in Call, ToolRuns(c) \/ ToolIsBlocked(c)
        PROVE  [Loop!Next]_(Loop!vars)
    BY <2>1, GoesUnseen DEF ToolRuns, ToolIsBlocked, CallsTool
  <2>2. ASSUME NEW text \in Text, Answers(text) PROVE [Loop!Next]_(Loop!vars)
    BY <2>2, AnsweredPromised DEF Answers, Answer
  <2>3. CASE EndpointFails
    BY <2>3, NextEndpointPromised DEF EndpointFails
  <2>4. CASE Raised
    <3>1. pc # "idle" /\ (RunEnds(NoText, TRUE, FALSE) \/ NextEndpoint)
      BY <2>4 DEF Raised
    <3>2. QED
      BY <3>1, RunEndsPromised, NextEndpointPromised DEF Loop!Next, Answer
  <2>5. CASE Published
    <3>1. pc # "idle" /\ \E late \in BOOLEAN : RunEnds(run.text, FALSE, late)
      BY <2>5 DEF Published
    <3>2. QED
      BY <3>1, RunEndsPromised DEF Loop!Next, Inv, RunOK
  <2>6. QED
    BY <1>2, <2>1, <2>2, <2>3, <2>4, <2>5 DEF RunStep
<1>3. CASE Cancelled
  <2>1. pc # "idle" /\ pc' = "idle" /\ past' = past /\ auto'.on = FALSE /\ auto'.left = 0
    BY <1>3 DEF Cancelled, EndTurn, Off
  <2>2. QED
    BY <2>1 DEF Loop!End, Loop!Off, Loop!Next
<1>4. CASE Fails
  BY <1>4 DEF Fails, EndTurn, Loop!End, Loop!Next
<1>5. CASE \/ \E n \in 1 .. MaxBudget, b \in BOOLEAN : Start(n, b)
           \/ Stop \/ Reload
  BY <1>5, SwitchPromised
<1>6. CASE UNCHANGED vars
  BY <1>6 DEF vars, modes, Loop!vars
<1>7. QED
  BY <1>1, <1>2, <1>3, <1>4, <1>5, <1>6 DEF Next

\* The loop implements what its clients know of it: it goes on only within a budget that
\* was granted and is charged for every run, and otherwise the turn ends.
THEOREM KeepsPromise == Spec => LoopAsPromised
<1>1. Init => Loop!Init
  BY DEF Init, Off, Loop!Init
<1>2. QED
  BY <1>1, Reachable, StepPromised, PTL DEF Spec, LoopAsPromised, Loop!Spec

-----------------------------------------------------------------------------
\* A turn wears out: the budget of runs, the endpoints left for the run, and what is left
\* to do at this one, read in this order, go down with every step of the turn.

\* The iterations left at an endpoint, two for each, and the answer's way to the bus.
Rest == 2 * (run.limit - run.used) + IF pc = "publishing" THEN 0 ELSE 1
Effort == <<auto.left, <<run.fallbacks, Rest>>>>

Below == OpToRel(<, Nat)
Less == LexPairOrdering(Below, LexPairOrdering(Below, Below, Nat, Nat), Nat, Nat \X Nat)

\* What is left cannot go down for ever.
THEOREM EffortsAreFounded == IsWellFoundedOn(Less, Nat \X (Nat \X Nat))
<1>1. IsWellFoundedOn(Below, Nat)
  BY NatLessThanWellFounded, Zenon DEF Below
<1>2. IsWellFoundedOn(LexPairOrdering(Below, Below, Nat, Nat), Nat \X Nat)
  BY <1>1, WFLexPairOrdering, Zenon
<1> QED
  BY <1>1, <1>2, WFLexPairOrdering, Zenon DEF Less

\* One of the three goes down, and those before it stay.
LEMMA Lower ==
  ASSUME NEW a \in Nat, NEW b \in Nat, NEW c \in Nat, NEW x \in Nat, NEW y \in Nat, NEW z \in Nat,
         \/ x < a
         \/ x = a /\ y < b
         \/ x = a /\ y = b /\ z < c
  PROVE  <<<<x, <<y, z>>>>, <<a, <<b, c>>>>>> \in Less
<1>1. \A m, n \in Nat : m < n => <<m, n>> \in Below
  BY DEF Below, OpToRel
<1>2. y < b \/ (y = b /\ z < c) => <<<<y, z>>, <<b, c>>>> \in LexPairOrdering(Below, Below, Nat, Nat)
  BY <1>1 DEF LexPairOrdering
<1> QED
  BY <1>1, <1>2 DEF Less, LexPairOrdering

\* The executor stops at its limit.
Limited == run.used <= run.limit

\* What a step makes of the run's iterations, and what one of the turn uses up.
Counts ==
  \/ run'.used = 0
  \/ run'.limit = run.limit /\ run'.used = run.used
  \/ run'.limit = run.limit /\ run'.used = run.used + 1 /\ run.used < run.limit
Spends ==
  \/ pc' = "idle"
  \/ auto'.left < auto.left
  \/ auto' = auto /\ run'.fallbacks < run.fallbacks
  \/ /\ auto' = auto /\ run'.fallbacks = run.fallbacks /\ run'.limit = run.limit /\ pc # "publishing"
     /\ \/ run'.used = run.used + 1
        \/ run'.used = run.used /\ pc' = "publishing"

LEMMA LimitedStays ==
  ASSUME Inv, Inv', Limited, Counts
  PROVE  Limited'
BY DEF Inv, RunOK, Limited, Limit, Counts

LEMMA SpendsEffort ==
  ASSUME Inv, Inv', Limited, Limited', Spends
  PROVE  pc' = "idle" \/ <<Effort', Effort>> \in Less
<1> SUFFICES ASSUME pc' # "idle" PROVE <<Effort', Effort>> \in Less
  OBVIOUS
<1>1. /\ auto.left \in Nat /\ auto'.left \in Nat /\ run.fallbacks \in Nat /\ run'.fallbacks \in Nat
      /\ run.used \in Nat /\ run'.used \in Nat /\ run.limit \in Nat /\ run'.limit \in Nat
  BY AutoAssumption DEF Inv, ModesOK, RunOK, Limit, Budget
<1>2. Rest \in Nat /\ Rest' \in Nat
  BY <1>1 DEF Rest, Limited
<1>3. \/ auto'.left < auto.left
      \/ auto'.left = auto.left /\ run'.fallbacks < run.fallbacks
      \/ auto'.left = auto.left /\ run'.fallbacks = run.fallbacks /\ Rest' < Rest
  BY <1>1 DEF Spends, Rest
<1> HIDE DEF Rest
<1>4. QED
  BY <1>1, <1>2, <1>3, Lower DEF Effort

LEMMA EndTurnSpends ==
  ASSUME NEW r, EndTurn(r)
  PROVE  Spends /\ Counts
BY DEF EndTurn, Spends, Counts, NoRun

\* The end of a run ends the turn, or is charged.
LEMMA RunEndsSpends ==
  ASSUME Inv, NEW text, NEW blocked, NEW late, RunEnds(text, blocked, late)
  PROVE  Spends /\ Counts
<1>1. CASE ~auto.on /\ EndTurn(Restored)
  BY <1>1, EndTurnSpends
<1>2. CASE EndTurn(Unset)
  BY <1>2, EndTurnSpends
<1>3. CASE /\ auto.on /\ auto' = [auto EXCEPT !.left = Charged]
           /\ BeginRun([auto EXCEPT !.left = Charged], runner, override, TRUE)
  <2>1. auto.left \in Nat /\ auto'.left = auto.left - 1
    BY <1>3, AutoAssumption DEF Charged, Inv, ModesOK, Budget
  <2>2. run'.used = 0
    BY <1>3 DEF BeginRun
  <2>3. QED
    BY <2>1, <2>2 DEF Spends, Counts
<1>4. QED
  BY <1>1, <1>2, <1>3 DEF RunEnds

LEMMA AnsweredSpends ==
  ASSUME Inv, pc # "publishing", NEW text, Answered(text)
  PROVE  Spends /\ Counts
<1>1. CASE run.hidden
  BY <1>1, RunEndsSpends DEF Answered
<1>2. CASE ~run.hidden
  <2>1. run' = [run EXCEPT !.text = text] /\ pc' = "publishing" /\ auto' = auto
    BY <1>2 DEF Answered, Goes, modes
  <2>2. run'.used = run.used /\ run'.limit = run.limit /\ run'.fallbacks = run.fallbacks
    BY <2>1 DEF Inv, RunOK
  <2>3. QED
    BY <2>1, <2>2 DEF Spends, Counts
<1>3. QED
  BY <1>1, <1>2

LEMMA NextEndpointSpends ==
  ASSUME Inv, pc # "publishing", NextEndpoint
  PROVE  Spends /\ Counts
<1>1. CASE run.fallbacks > 0
  <2>1. run' = [run EXCEPT !.used = 0, !.fallbacks = @ - 1] /\ auto' = auto
    BY <1>1 DEF NextEndpoint, Goes, modes
  <2>2. run'.used = 0 /\ run'.fallbacks < run.fallbacks
    BY <2>1 DEF Inv, RunOK
  <2>3. QED
    BY <2>1, <2>2 DEF Spends, Counts
<1>2. CASE ~(run.fallbacks > 0)
  BY <1>2, AnsweredSpends DEF NextEndpoint
<1>3. QED
  BY <1>1, <1>2

LEMMA StepSpends ==
  ASSUME Inv, RunStep
  PROVE  Spends /\ Counts
<1>1. ASSUME NEW c \in Call, NEW next, CallsTool(c, next) PROVE Spends /\ Counts
  <2>1. /\ run' = [run EXCEPT !.used = @ + 1, !.calls[c] = @ + 1]
        /\ auto' = auto /\ pc = "running" /\ run.used < run.limit
    BY <1>1 DEF CallsTool, Goes, modes
  <2>2. run'.used = run.used + 1 /\ run'.limit = run.limit /\ run'.fallbacks = run.fallbacks
    BY <2>1 DEF Inv, RunOK
  <2>3. QED
    BY <2>1, <2>2 DEF Spends, Counts
<1>2. ASSUME NEW c \in Call, ToolRuns(c) \/ ToolIsBlocked(c) PROVE Spends /\ Counts
  BY <1>1, <1>2 DEF ToolRuns, ToolIsBlocked
<1>3. ASSUME NEW text \in Text, Answers(text) PROVE Spends /\ Counts
  BY <1>3, AnsweredSpends DEF Answers
<1>4. CASE EndpointFails
  BY <1>4, NextEndpointSpends DEF EndpointFails
<1>5. CASE Raised
  BY <1>5, NextEndpointSpends, RunEndsSpends DEF Raised
<1>6. CASE Published
  BY <1>6, RunEndsSpends DEF Published
<1>7. QED
  BY <1>2, <1>3, <1>4, <1>5, <1>6 DEF RunStep

\* Who renews the budget: a client that starts auto mode.
Renewed == \E n \in 1 .. MaxBudget, readonly \in BOOLEAN : Start(n, readonly)

LEMMA OtherSteps ==
  ASSUME Inv, [Next]_vars, ~RunStep
  PROVE  /\ Counts
         /\ pc # "idle" /\ ~Renewed => pc' = "idle" \/ auto'.left < auto.left \/ Effort' = Effort
<1>0. auto.left \in Nat /\ (~auto.on => auto.left = 0) /\ (auto.on => auto.left # 0)
  BY AutoAssumption DEF Inv, ModesOK, Budget, Off
<1>1. CASE UserInput \/ JobInput
  <2>1. pc = "idle" /\ run'.used = 0
    BY <1>1 DEF UserInput, JobInput, BeginTurn, BeginRun
  <2>2. QED
    BY <2>1 DEF Counts
<1>2. CASE Cancelled
  BY <1>2, EndTurnSpends DEF Cancelled, EndTurn
<1>3. CASE Fails
  BY <1>3, EndTurnSpends DEF Fails, EndTurn
<1>4. CASE Renewed
  BY <1>4 DEF Renewed, Start, Switch, Counts
<1>5. CASE Stop
  <2>1. run' = run /\ auto'.left < auto.left
    BY <1>0, <1>5 DEF Stop, StopAuto, Switch, Off
  <2>2. QED
    BY <2>1 DEF Counts
<1>6. CASE Reload
  BY <1>6 DEF Reload, Switch, Counts, Effort, Rest
<1>7. CASE UNCHANGED vars
  BY <1>7 DEF vars, modes, Counts, Effort, Rest
<1>8. QED
  BY <1>1, <1>2, <1>3, <1>4, <1>5, <1>6, <1>7 DEF Next, Renewed

LEMMA LimitedAlways == Spec => [](Inv /\ Limited)
<1>1. Init => Limited
  BY AutoAssumption DEF Init, Limited, NoRun
<1>2. Inv /\ Inv' /\ Limited /\ [Next]_vars => Limited'
  BY StepSpends, OtherSteps, LimitedStays
<1>3. QED
  BY <1>1, <1>2, Reachable, PTL DEF Spec

\* What a turn has left to do goes down with each of its steps, and nothing that others do
\* meanwhile adds to it, but a client who starts auto mode anew: the runs are limited by
\* the budget, the endpoints by their chain, the iterations by the executor's limit.
TurnWears ==
  pc # "idle" /\ pc' # "idle" =>
    /\ RunStep => <<Effort', Effort>> \in Less
    /\ ~Renewed => <<Effort', Effort>> \in Less \/ Effort' = Effort
THEOREM TurnsWearOut == Spec => [][TurnWears]_vars
<1>1. Inv /\ Inv' /\ Limited /\ Limited' /\ [Next]_vars => [TurnWears]_vars
  <2> SUFFICES ASSUME Inv, Inv', Limited, Limited', [Next]_vars PROVE TurnWears
    OBVIOUS
  <2>1. CASE RunStep
    BY <2>1, StepSpends, SpendsEffort DEF TurnWears
  <2>2. CASE ~RunStep
    BY <2>2, OtherSteps, SpendsEffort DEF TurnWears, Spends
  <2>3. QED
    BY <2>1, <2>2
<1>2. QED
  BY <1>1, LimitedAlways, PTL DEF Spec
=============================================================================
