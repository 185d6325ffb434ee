------------------------------- MODULE Backtest -------------------------------
(***************************************************************************)
(* The evaluation of one strategy version: how the bars are divided into   *)
(* tuning and lockbox (agent/strategy_optimizer.py) and into walk-forward  *)
(* folds (agent/strategy_walkforward.py), and the executor that walks over *)
(* the bars of one such stage (agent/strategy_executor.py), bar by bar.    *)
(*                                                                         *)
(* Prices are small integers and the exit levels are offsets from the      *)
(* entry's close; indicators, money and metrics are abstracted. A bar says *)
(* whether the entry conditions hold at it.                                *)
(***************************************************************************)
EXTENDS Integers, Sequences, FiniteSets

CONSTANTS Bars,        \* the bars the market may produce: [low, high, close, atr, go]
          Strategies,  \* [stop, take, trail, activation, hold], None where absent
          Totals,      \* numbers of bars downloaded
          Warmups, Folds,
          MaxBars,     \* bound: longest stage walked over
          None

ASSUME BacktestAssumption ==
  /\ Totals \subseteq Nat /\ Warmups \subseteq Nat /\ Folds \subseteq Nat \ {0} /\ None \notin Int
  /\ Bars \subseteq [low : Int, high : Int, close : Int, atr : Int, go : BOOLEAN]
  /\ LET Level == Int \cup {None} IN
     Strategies \subseteq [stop : Level, take : Level, trail : Level, activation : Int, hold : Level]

VARIABLES strategy, stage, bar, position, trades, seen
btvars == <<strategy, stage, bar, position, trades, seen>>

-----------------------------------------------------------------------------
(* The division of the bars. Bars are numbered from 0, ends are exclusive. *)

AtLeast(a, b) == IF a >= b THEN a ELSE b
AtMost(a, b) == IF a <= b THEN a ELSE b

\* _split_ohlcv: 60 % tuning, 20 % lockbox; the rest is not used.
TuningEnd(n, w) == AtLeast(w + 1, (6 * n) \div 10)
LockboxEnd(n, w) == AtMost(AtLeast(TuningEnd(n, w) + 1, (8 * n) \div 10), n)
Splits(n, w) == n > 2 * w /\ TuningEnd(n, w) < LockboxEnd(n, w)

\* _build_fold_ranges, on the n tuning bars.
Window(n, k) == n \div (k + 1)
FirstTest(n, k) == n - k * Window(n, k)
Folded(n, k, w) == Window(n, k) > 0 /\ FirstTest(n, k) > w

\* What execute_strategy is given: the bars [from, to), of which the first w only
\* warm the indicators up. Folds and lockbox prepend the bars before what they
\* score; a lockbox takes all tuning bars when they are fewer than it needs.
FoldStage(n, k, w, i) ==
  [from |-> FirstTest(n, k) + i * Window(n, k) - w,
   to |-> FirstTest(n, k) + (i + 1) * Window(n, k), warmup |-> w]
LockboxStage(t, l, w) == [from |-> AtLeast(t - w, 0), to |-> l, warmup |-> w]
TuningStage(t, w) == [from |-> 0, to |-> t, warmup |-> w]

\* The bars are divided by the parent's warmup p and the child is evaluated with
\* its own, w, which a mutation may have made longer: then too few bars for the
\* folds raise an error and nothing is scored.
StagesOf(n, k, p, w) ==
  LET t == TuningEnd(n, p) IN
  IF Splits(n, p) /\ Folded(t, k, w)
  THEN {TuningStage(t, w), LockboxStage(t, LockboxEnd(n, p), w)}
         \cup {FoldStage(t, k, w, i) : i \in 0 .. k - 1}
  ELSE {}

-----------------------------------------------------------------------------
(* The executor. *)

Last == stage.to - stage.from - 1
Flat == [open |-> FALSE]

\* _open_position: the levels are fixed at the entry, from its close and its ATR.
Opened(b) ==
  [open |-> TRUE, entry |-> bar, ref |-> b.close, high |-> b.high,
   stop |-> IF strategy.stop = None THEN None ELSE b.close - strategy.stop * b.atr,
   take |-> IF strategy.take = None THEN None ELSE b.close + strategy.take * b.atr,
   atr |-> b.atr, trail |-> None]

\* The trailing stop never goes back.
RatchetLoose(old, level) == level
Ratchet(old, level) == IF old = None THEN level ELSE AtLeast(old, level)

\* The trailing stop follows the highest high, including this bar's, once the
\* activation is reached, at the distance of this bar's ATR.
\* (Active and priced fall together: an ATR is there after the warmup.)
Trailed(p, b) ==
  LET high == AtLeast(p.high, b.high)
      level == high - strategy.trail * b.atr
  IN  IF strategy.trail = None THEN p
      ELSE [p EXCEPT !.high = high,
              !.trail = IF high < p.ref + strategy.activation * p.atr THEN @
                        ELSE Ratchet(@, level)]

\* _check_exit, in its order; the reason says at which price the trade closes.
ExitOf(p, b) ==
  CASE p.stop # None /\ b.low <= p.stop -> "stop_loss"
    [] p.take # None /\ b.high >= p.take /\ ~(p.stop # None /\ b.low <= p.stop) -> "take_profit"
    [] OTHER ->
         IF p.trail # None /\ b.low <= p.trail THEN "trailing_stop"
         ELSE IF strategy.hold # None /\ bar - p.entry >= strategy.hold THEN "time_exit"
         ELSE "none"

Closed(p, reason) == Append(trades, [entry |-> p.entry, exit |-> bar, reason |-> reason])

\* An entry needs a scored bar that has another one after it.
MayEnter(b) == bar >= stage.warmup /\ bar < Last /\ b.go

\* One bar of execute_strategy: exit, entry (also on the bar of an exit), and on
\* the last bar the close of what is open.
Step(b) ==
  LET p == IF position.open THEN Trailed(position, b) ELSE position
      reason == IF p.open THEN ExitOf(p, b) ELSE "none"
      flat == ~p.open \/ reason # "none"
      left == IF flat /\ MayEnter(b) THEN Opened(b) ELSE IF flat THEN Flat ELSE p
      done == IF reason = "none" THEN trades ELSE Closed(p, reason)
  IN  /\ bar <= Last
      /\ seen' = Append(seen, b)
      /\ bar' = bar + 1
      /\ IF left.open /\ bar = Last
         THEN /\ position' = Flat
              /\ trades' = Append(done, [entry |-> left.entry, exit |-> bar, reason |-> "data_boundary"])
         ELSE position' = left /\ trades' = done
      /\ UNCHANGED <<strategy, stage>>

BtInit ==
  /\ strategy \in Strategies
  /\ \E n \in Totals, p, w \in Warmups, k \in Folds :
       /\ stage \in StagesOf(n, k, p, w) /\ stage.to - stage.from <= MaxBars
  /\ bar = 0 /\ position = Flat /\ trades = << >> /\ seen = << >>

BtNext == \E b \in Bars : Step(b)
BtSpec == BtInit /\ [][BtNext]_btvars

-----------------------------------------------------------------------------
(* The reference: the trades of a series of bars, stated of the series.      *)

At(i) == seen[i + 1]
Done == bar > Last
MaxOf(S) == CHOOSE m \in S : \A x \in S : x <= m
MinOf(S) == CHOOSE m \in S : \A x \in S : m <= x

HighSince(e, i) == MaxOf({At(j).high : j \in e .. i})
TrailLevels(e, i) ==
  {HighSince(e, j) - strategy.trail * At(j).atr :
     j \in {x \in e + 1 .. i : HighSince(e, x) >= At(e).close + strategy.activation * At(e).atr}}

StopHit(e, i) == strategy.stop # None /\ At(i).low <= At(e).close - strategy.stop * At(e).atr
TakeHit(e, i) == strategy.take # None /\ At(i).high >= At(e).close + strategy.take * At(e).atr
TrailHit(e, i) == strategy.trail # None /\ \E x \in TrailLevels(e, i) : At(i).low <= x
TimeHit(e, i) == strategy.hold # None /\ i >= e + strategy.hold

Reason(e, i) ==
  CASE StopHit(e, i) -> "stop_loss"
    [] ~StopHit(e, i) /\ TakeHit(e, i) -> "take_profit"
    [] ~StopHit(e, i) /\ ~TakeHit(e, i) /\ TrailHit(e, i) -> "trailing_stop"
    [] ~StopHit(e, i) /\ ~TakeHit(e, i) /\ ~TrailHit(e, i) /\ TimeHit(e, i) -> "time_exit"
    [] OTHER -> "data_boundary"

Exits(e) == {i \in e + 1 .. Last : Reason(e, i) # "data_boundary"} \cup {Last}
Entries(i) == {j \in AtLeast(i, stage.warmup) .. Last - 1 : At(j).go}

\* A trade opens at the first signal after the warmup and the trade before it,
\* closes at the first bar that reaches one of its levels as they follow from
\* the bars since its entry, for the reason that comes first, and nothing stays
\* open (execute_strategy, _check_exit); and there is more than the warmup to trade on.
TradesAreFirstHits ==
  stage.warmup < stage.to - stage.from /\ (Done =>
    /\ ~position.open
    /\ \A k \in 0 .. Len(trades) :
         LET free == IF k = 0 THEN 0 ELSE trades[k].exit IN
         IF k = Len(trades) THEN Entries(free) = {}
         ELSE LET t == trades[k + 1] IN
              /\ Entries(free) # {} /\ t.entry = MinOf(Entries(free))
              /\ t.exit = MinOf(Exits(t.entry)) /\ t.reason = Reason(t.entry, t.exit))
=============================================================================
