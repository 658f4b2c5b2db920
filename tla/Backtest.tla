-------------------------------- MODULE Backtest --------------------------------
(***************************************************************************)
(* The walk-forward backtest of backend/backtest: the signal engine run on  *)
(* a growing window of captured bars, one position at a time, and the       *)
(* statistics of the trades.  Bars are counted from 1, so the code's bar i  *)
(* is bar i + 1 here.                                                       *)
(***************************************************************************)
EXTENDS MarketAnalysis

CONSTANTS
    SignalOn(_),     \* generate_signal of a window: bias, score and atr
    Warmup,          \* bars before the first signal (250)
    MaxBarsHeld,     \* bars after which a position is given up (48)
    LeastScore,      \* least score that opens a position (65)
    StopMultiple,    \* stop distance in ATRs, in units of the model (1.5)
    TargetMultiple,  \* target distance in ATRs (3)
    RoundTrip,       \* the spread charged once per trade
    MinimumTrades,   \* trades below which statistics are withheld (20)
    RiskPart         \* one trade risks 1/RiskPart of the equity (100)

(* BacktestParams.validated. *)
ASSUME ParamsAssumption ==
    /\ Warmup \in Nat \ {0}
    /\ MaxBarsHeld \in Nat \ {0}
    /\ StopMultiple \in Nat \ {0}
    /\ TargetMultiple \in Nat \ {0}
    /\ RiskPart \in Nat \ {0}
    /\ LeastScore \in Int /\ RoundTrip \in Int

(* OpenPosition, and what _resolve_exit returns. *)
Position == [direction : {"LONG", "SHORT"}, entry_index : Nat, entry : Int,
             stop : Int, target : Int, risk : Int]
Exit == [reason : {"STOP", "TARGET", "TIME"}, price : Int]

ASSUME NothingAssumption == None \notin Int /\ None \notin Position /\ None \notin Exit

Side(direction) == IF direction = "LONG" THEN 1 ELSE -1

-----------------------------------------------------------------------------
(* Mutant: the bar that fills the order is part of the window. *)
EntryPeeking(bars, i) ==
    LET signal == SignalOn(SubSeq(bars, 1, i + 1))
        price  == bars[i + 1].open
        risk   == signal.atr * StopMultiple
    IN  IF signal.bias = "WAIT" \/ signal.score < LeastScore \/ signal.atr <= 0
        THEN None
        ELSE [direction |-> signal.bias, entry_index |-> i + 1, entry |-> price,
              stop   |-> price - Side(signal.bias) * risk,
              target |-> price + Side(signal.bias) * signal.atr * TargetMultiple,
              risk   |-> risk]

(* What a signal on the bars up to i opens at the open of bar i + 1. *)
EntryAfter(bars, i) ==
    LET signal == SignalOn(SubSeq(bars, 1, i))
        price  == bars[i + 1].open
        risk   == signal.atr * StopMultiple
    IN  IF signal.bias = "WAIT" \/ signal.score < LeastScore \/ signal.atr <= 0
        THEN None
        ELSE [direction |-> signal.bias, entry_index |-> i + 1, entry |-> price,
              stop   |-> price - Side(signal.bias) * risk,
              target |-> price + Side(signal.bias) * signal.atr * TargetMultiple,
              risk   |-> risk]

HitStop(open, bar) ==
    IF open.direction = "LONG" THEN bar.low <= open.stop ELSE bar.high >= open.stop
HitTarget(open, bar) ==
    IF open.direction = "LONG" THEN bar.high >= open.target ELSE bar.low <= open.target

Closed(reason, price) == [reason |-> reason, price |-> price]

(* Mutant: the target is looked at before the stop. *)
OutcomeHopeful(open, bar, held) ==
    IF HitTarget(open, bar) THEN Closed("TARGET", open.target)
    ELSE IF HitStop(open, bar) THEN Closed("STOP", open.stop)
    ELSE IF held >= MaxBarsHeld THEN Closed("TIME", bar.close)
    ELSE None

(* _resolve_exit, and the time limit: within one bar the stop counts as     *)
(* touched first.                                                           *)
Outcome(open, bar, held) ==
    IF HitStop(open, bar) THEN Closed("STOP", open.stop)
    ELSE IF HitTarget(open, bar) THEN Closed("TARGET", open.target)
    ELSE IF held >= MaxBarsHeld THEN Closed("TIME", bar.close)
    ELSE None

(* One turn of the loop of run_backtest: a bar with an open position is     *)
(* only looked at for its exit, any other one for an entry on the next.     *)
Visit(bars, walk, i) ==
    LET outcome == Outcome(walk.open, bars[i], i - walk.open.entry_index)
    IN  IF walk.open # None
        THEN IF outcome = None THEN walk
             ELSE [open |-> None,
                   trades |-> Append(walk.trades,
                       [position   |-> walk.open,
                        exit_index |-> i,
                        exit       |-> outcome,
                        move |-> Side(walk.open.direction)
                                     * (outcome.price - walk.open.entry) - RoundTrip])]
        ELSE IF i + 1 > Len(bars) THEN walk
             ELSE [walk EXCEPT !.open = EntryAfter(bars, i)]

(* The loop, after each bar. *)
Walk(bars) ==
    LET walk[i \in 0..Len(bars)] ==
                  IF i <= Warmup THEN [open |-> None, trades |-> <<>>]
                  ELSE Visit(bars, walk[i - 1], i)
    IN  walk

(* run_backtest: the trades, and the position left open at the end, which   *)
(* no statistic counts.  Too little history runs nothing.                   *)
RunBacktest(candles) ==
    LET bars == Frame(candles)
        ended == Walk(bars)[Len(bars)]
    IN  IF Len(bars) < Warmup + MaxBarsHeld + 2
        THEN [ran |-> FALSE, open |-> None, trades |-> <<>>]
        ELSE [ran |-> TRUE, open |-> ended.open, trades |-> ended.trades]

-----------------------------------------------------------------------------
(* max_drawdown_percent of results in R.  The equity after k trades is a    *)
(* number of parts of RiskPart^k, here of RiskPart^Len(results) throughout; *)
(* the answer is a fraction.                                                *)
Parts(count) ==
    LET power[k \in 0..count] == IF k = 0 THEN 1 ELSE RiskPart * power[k - 1]
    IN  power[count]

Compounded(equity, r) ==
    LET next == (equity * (RiskPart + r)) \div RiskPart
    IN  IF next < 0 THEN 0 ELSE next

Deepened(curve, r) ==
    LET equity == Compounded(curve.equity, r)
        peak   == IF equity > curve.peak THEN equity ELSE curve.peak
        deeper == (peak - equity) * curve.of > curve.fall * peak
    IN  [equity |-> equity, peak |-> peak,
         fall   |-> IF deeper THEN peak - equity ELSE curve.fall,
         of     |-> IF deeper THEN peak ELSE curve.of]

MaxDrawdown(results) ==
    LET whole == Parts(Len(results))
        curve[k \in 0..Len(results)] ==
            IF k = 0 THEN [equity |-> whole, peak |-> whole, fall |-> 0, of |-> whole]
            ELSE Deepened(curve[k - 1], results[k])
        deepest == curve[Len(results)]
    IN  [fall |-> deepest.fall, of |-> deepest.of]

(* Mutant: a trade that breaks even does not end a run of losses. *)
LossesKeptByFlat(runs, r) ==
    LET current == IF r < 0 THEN runs.current + 1 ELSE IF r = 0 THEN runs.current ELSE 0
    IN  [longest |-> IF current > runs.longest THEN current ELSE runs.longest,
         current |-> current]

(* max_consecutive_losses *)
Losses(runs, r) ==
    LET current == IF r < 0 THEN runs.current + 1 ELSE 0
    IN  [longest |-> IF current > runs.longest THEN current ELSE runs.longest,
         current |-> current]

LongestLoss(results) ==
    LET runs[k \in 0..Len(results)] ==
            IF k = 0 THEN [longest |-> 0, current |-> 0] ELSE Losses(runs[k - 1], results[k])
    IN  runs[Len(results)].longest

(* compute_metrics: counts are reported of any number of trades, the rest   *)
(* from MinimumTrades on.  A profit factor is a fraction, or None without   *)
(* a loss.                                                                  *)
Metrics(results) ==
    LET wins   == SelectSeq(results, LAMBDA r : r > 0)
        losses == SelectSeq(results, LAMBDA r : r < 0)
        enough == results # <<>> /\ Len(results) >= MinimumTrades
    IN  [trades     |-> Len(results),
         wins       |-> Len(wins),
         losses     |-> Len(losses),
         breakeven  |-> Len(results) - Len(wins) - Len(losses),
         total      |-> SumFunction(results),
         sufficient |-> enough,
         profit_factor |-> IF enough /\ losses # <<>>
                           THEN [won |-> SumFunction(wins), lost |-> -SumFunction(losses)] ELSE None,
         max_drawdown  |-> IF enough THEN MaxDrawdown(results) ELSE None,
         max_consecutive_losses |-> IF enough THEN LongestLoss(results) ELSE 0]
=============================================================================
