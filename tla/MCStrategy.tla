----------------------------- MODULE MCStrategy -----------------------------
(***************************************************************************)
(* The strategy laboratory for TLC: either the optimizers of two sessions  *)
(* at work on one lineage, or the evaluation of one version on one stage.  *)
(***************************************************************************)
EXTENDS StrategyLab, Backtest

VARIABLE scene
mcvars == <<vars, btvars, scene>>

MCBars ==
  {[low |-> 1, high |-> 2, close |-> 2, atr |-> 1, go |-> TRUE],
   [low |-> 2, high |-> 3, close |-> 2, atr |-> 1, go |-> TRUE],
   [low |-> 1, high |-> 4, close |-> 3, atr |-> 2, go |-> TRUE],
   [low |-> 0, high |-> 1, close |-> 1, atr |-> 1, go |-> FALSE],
   [low |-> 3, high |-> 4, close |-> 3, atr |-> 1, go |-> FALSE]}
MCStrategies ==
  {[stop |-> 1, take |-> 1, trail |-> None, activation |-> 0, hold |-> 2],
   [stop |-> 2, take |-> None, trail |-> 1, activation |-> 1, hold |-> None],
   [stop |-> None, take |-> 2, trail |-> 2, activation |-> 0, hold |-> 3]}

MCInit ==
  /\ scene \in {"lab", "backtest"}
  /\ LabInit
  /\ IF scene = "backtest" THEN BtInit
     ELSE /\ strategy \in Strategies /\ strategy.hold = 2
          /\ stage = [from |-> 0, to |-> 1, warmup |-> 0]
          /\ bar = 0 /\ position = Flat /\ trades = << >> /\ seen = << >>
MCNext ==
  \/ scene = "lab" /\ LabNext /\ UNCHANGED <<btvars, scene>>
  \/ scene = "backtest" /\ BtNext /\ UNCHANGED <<vars, scene>>
MCSpec == MCInit /\ [][MCNext]_mcvars /\ LabFairness
=============================================================================
