-------------------------------- MODULE Readings --------------------------------
(***************************************************************************)
(* The pure parts of the backend together: analysis, signal, combination of *)
(* timeframes, plan and backtest.  They keep no state, so the behaviours    *)
(* here are those of their callers: a history of bars grows by one          *)
(* observation at a time, and every other function is asked about one input *)
(* after another.                                                           *)
(***************************************************************************)
EXTENDS SignalEngine, Backtest

CONSTANTS
    Shapes,         \* bars: open, high, low, close
    MaxBars,        \* bound: the bars of a history
    Starts,         \* observations a history starts from
    Markets,        \* inputs of a signal
    Nets,           \* net directions of a timeframe's signal
    Setups,         \* signals to plan
    PlanQuotes,     \* quotes to plan at, None included
    Equities,       \* equities to size for, None included
    Results,        \* results of a trade, in R
    MaxResults,     \* bound: trades in a summary
    PlanStopAtr, PlanTargetAtr, MinStopSpreadMultiple, RiskPercent,
    PaperStopAtr, PaperTargetAtr, PaperSpreadMultiple,  \* PaperConfig
    PaperMinScore

Prices == [open : Int, high : Int, low : Int, close : Int]
Observations == [open : Int, high : Int, low : Int, close : Int,
                 time : Nat, complete : BOOLEAN]

(* A bar closes within its range, and what a history starts from is complete *)
(* and ends with its newest bar.                                            *)
Sound(bar) == bar.close \in bar.low..bar.high

ASSUME HistoriesAssumption ==
    /\ Shapes \subseteq Prices
    /\ \A shape \in Shapes : Sound(shape)
    /\ Starts \subseteq Seq(Observations)
    /\ \A start \in Starts : \A k \in DOMAIN start :
          Sound(start[k]) /\ start[k].complete /\ start[k].time <= start[Len(start)].time

ASSUME InputsAssumption ==
    /\ Markets \subseteq [ema : [1..4 -> Int \cup {None}], price : Int,
                          slope : Int \cup {None}, rsi : Int \cup {None},
                          histogram : Int \cup {None}, roc : Int \cup {None},
                          structure : [support : Int \cup {None}, resistance : Int \cup {None},
                                       recent_high : Int, recent_low : Int],
                          atrs : Seq(Int), agreement : Int \cup {None}]
    /\ Nets \subseteq -One..One
    /\ Results \subseteq Int

(* The multiples are positive (PaperConfig.validated), and planning has its  *)
(* own.  A signal on no bars is a WAIT (generate_signal).                   *)
ASSUME PlansAssumption ==
    /\ {PlanStopAtr, PlanTargetAtr, MinStopSpreadMultiple} \subseteq Nat \ {0}
    /\ {PaperStopAtr, PaperTargetAtr, PaperSpreadMultiple} \subseteq Nat \ {0}
    /\ PaperMinScore \in Nat
    /\ Setups \subseteq [bias : {"LONG", "SHORT", "WAIT"}, score : Int, bars : Nat,
                         price : Int \cup {None}, atr : Int \cup {None}]
    /\ \A setup \in Setups : setup.bars = 0 => setup.bias = "WAIT"
    /\ PlanQuotes \subseteq [sell : Int, buy : Int] \cup {None}

Plan == INSTANCE TradePlan
Paper == INSTANCE PaperEngine
    WITH StopAtr <- PaperStopAtr, TargetAtr <- PaperTargetAtr,
         MinSpreadMultiple <- PaperSpreadMultiple, MinScore <- PaperMinScore

VARIABLES question, input
vars == <<question, input>>

Init == question = "none" /\ input = None

Ask(name, inputs) ==
    /\ question = "none"
    /\ question' = name
    /\ input' \in inputs

Answered == question # "none" /\ question' = "none" /\ input' = None

AskHistory == Ask("history", Starts)
AskSignal == Ask("signal", Markets)
AskTimeframes ==
    Ask("timeframes", [DOMAIN Weights -> [bars : {Enough - 1, Enough}, net : Nets]])
AskPlan == Ask("plan", [signal : Setups, quote : PlanQuotes, equity : Equities])
AskMetrics == Ask("metrics", BoundedSeq(Results, MaxResults))

Candle(shape, time, complete) ==
    [open |-> shape.open, high |-> shape.high, low |-> shape.low, close |-> shape.close,
     time |-> time, complete |-> complete]
Newest == input[Len(input)]
Bars == Frame(input)

(* The store takes in the next bar, forming or complete. *)
NextBar ==
    /\ question = "history"
    /\ input # <<>> => Newest.complete /\ Newest.time < MaxBars
    /\ \E shape \in Shapes, complete \in BOOLEAN :
          LET time == IF input = <<>> THEN 1 ELSE Newest.time + 1
          IN  input' = Append(input, Candle(shape, time, complete))
    /\ UNCHANGED question

(* It takes in the newest bar again, which has developed or was corrected. *)
SameBar ==
    /\ question = "history"
    /\ input # <<>>
    /\ \E shape \in Shapes :
          /\ shape.open = Newest.open
          /\ input' = [input EXCEPT ![Len(input)] = Candle(shape, Newest.time, TRUE)]
    /\ UNCHANGED question

Next ==
    \/ AskHistory \/ AskSignal \/ AskTimeframes \/ AskPlan \/ AskMetrics
    \/ NextBar \/ SameBar \/ Answered

Spec == Init /\ [][Next]_vars

-----------------------------------------------------------------------------
(* A swing, once enough bars after it confirm it, stays one whatever comes, *)
(* and none appears later among the bars that were already decided          *)
(* (find_swings): the swings a signal leans on do not repaint.              *)
SwingsStay ==
    [][question = "history" /\ question' = "history"
          /\ SubSeq(Bars', 1, Len(Bars)) = Bars =>
       LET decided == 1 .. Len(Bars) - Strength
       IN  /\ SwingHighs(Bars) = SwingHighs(Bars') \cap decided
           /\ SwingLows(Bars) = SwingLows(Bars') \cap decided]_vars

(* The support lies below the price and the resistance above it, no swing   *)
(* is lost between the clusters, and no level lies outside the range its    *)
(* swings come from (cluster_levels, analyse_structure).                    *)
LevelsHold ==
    question = "history" /\ Bars # <<>> =>
        LET bars == Recent(Bars)
            structure == Structure(Bars)
            price == bars[Len(bars)].close
            touches(levels) == SumFunction([k \in DOMAIN levels |-> levels[k].touches])
        IN  /\ structure.support # None => structure.support < price
            /\ structure.resistance # None => structure.resistance > price
            /\ structure.recent_high > structure.recent_low =>
                  /\ touches(structure.resistance_levels) = Cardinality(SwingHighs(bars))
                  /\ touches(structure.support_levels) = Cardinality(SwingLows(bars))
            /\ PricesOf(structure.resistance_levels) \cup PricesOf(structure.support_levels)
                  \subseteq structure.recent_low .. structure.recent_high

-----------------------------------------------------------------------------
Positions(run) ==
    {run.trades[k].position : k \in DOMAIN run.trades} \cup ({run.open} \ {None})

(* What a backtest did is not changed by what it could not know: a position *)
(* is taken on the bars before the one that fills it and its open alone,    *)
(* and a trade that closed on complete bars stays as it is when the next    *)
(* bar comes, forming or complete (run_backtest, rule 1 of its module).     *)
NoLookAhead ==
    [][question = "history" /\ question' = "history" =>
       LET before == RunBacktest(input)
           after  == RunBacktest(input')
           known  == Len(Bars)
       IN  before.ran =>
             /\ {p \in Positions(after) : p.entry_index <= known} = Positions(before)
             /\ SubSeq(Bars', 1, known) = Bars =>
                   IsPrefix(before.trades, after.trades)]_vars

(* The trades are those of a reader with the whole chart in hand: each one  *)
(* ends on the first bar that touches a level, at the stop if it touches    *)
(* both, or at the close of the last bar it may be held; they never         *)
(* overlap; and every signal that qualifies while no position is held is    *)
(* taken (run_backtest, _resolve_exit).                                     *)
TradesAreHonest ==
    question = "history" =>
      LET run == RunBacktest(input)
          bars == Bars
          touched(p, k) == HitStop(p, bars[k]) \/ HitTarget(p, bars[k])
          honest(trade) ==
            LET p == trade.position
                last == trade.exit_index
            IN  /\ last \in p.entry_index .. p.entry_index + MaxBarsHeld
                /\ \A k \in p.entry_index .. last - 1 : ~touched(p, k)
                /\ trade.move = -p.risk - RoundTrip <=> trade.exit.reason = "STOP"
                /\ HitStop(p, bars[last]) => trade.exit.reason = "STOP"
                /\ trade.exit.reason = "TIME" =>
                      ~touched(p, last) /\ last = p.entry_index + MaxBarsHeld
          held(i) ==
            \/ run.open # None /\ run.open.entry_index <= i
            \/ \E k \in DOMAIN run.trades :
                  i \in run.trades[k].position.entry_index .. run.trades[k].exit_index
      IN  /\ \A k \in DOMAIN run.trades : honest(run.trades[k])
          /\ \A j, k \in DOMAIN run.trades :
                j < k => run.trades[j].exit_index < run.trades[k].position.entry_index - 1
          /\ run.ran => \A i \in Warmup + 1 .. Len(bars) - 1 :
                EntryAfter(bars, i) \in Positions(run) \/ EntryAfter(bars, i) = None \/ held(i)

-----------------------------------------------------------------------------
SignalIn(market, atr, regime) ==
    Signal(Trend(market.ema, market.price, market.slope),
           Momentum(market.rsi, None, market.histogram, market.roc),
           ScoreStructure(market.structure, market.price, atr),
           regime, market.agreement)

SignalOf(market) ==
    LET volatility == Volatility(market.atrs)
    IN  SignalIn(market, volatility.atr, volatility.regime)

Negative(value) == IF value = None THEN None ELSE -value

(* The same market upside down. *)
Mirror(market) ==
    [market EXCEPT
        !.ema = [k \in 1..4 |-> Negative(market.ema[k])],
        !.price = -@, !.slope = Negative(@),
        !.rsi = IF @ = None THEN None ELSE 100 - @,
        !.histogram = Negative(@), !.roc = Negative(@), !.agreement = Negative(@),
        !.structure = [support |-> Negative(market.structure.resistance),
                       resistance |-> Negative(market.structure.support),
                       recent_high |-> -market.structure.recent_low,
                       recent_low |-> -market.structure.recent_high]]

(* Longs and shorts are treated alike: the same market upside down has the  *)
(* opposite bias at the same score (scoring.py, generate_signal).  A price  *)
(* exactly at the EMA200, which the code counts as below it, is left out.   *)
LongsMirrorShorts ==
    question = "signal" /\ input.price # input.ema[4] =>
        LET signal == SignalOf(input)
            mirrored == SignalOf(Mirror(input))
        IN  /\ mirrored.bias = CASE signal.bias = "LONG"  -> "SHORT"
                                 [] signal.bias = "SHORT" -> "LONG"
                                 [] OTHER                 -> "WAIT"
            /\ mirrored.score = signal.score
            /\ mirrored.total = -signal.total

(* The combined bias is backed by the timeframes that could be read: those  *)
(* on its side hold at least the weight the agreement claims, a timeframe   *)
(* without enough bars changes nothing, and readings that all pass the      *)
(* threshold on one side give that side (analyse_timeframes).               *)
ConsensusBacksBias ==
    question = "timeframes" =>
        LET combined == Timeframes(input)
            read == {tf \in Included(input) : Weights[tf] > 0}
        IN  /\ combined.bias # "WAIT" =>
                  /\ combined.consensus * One >= combined.agreement * Sign(combined.agreement)
                  /\ combined.score \in 62..100
            /\ combined = Timeframes([tf \in DOMAIN Weights |->
                              IF tf \in Included(input) THEN input[tf]
                              ELSE [bars |-> 0, net |-> One]])
            /\ read # {} /\ (\A tf \in read : input[tf].net >= DirectionThreshold) =>
                  combined.bias = "LONG"

(* The constants of planning are those of the paper engine, as plan.py:35    *)
(* says they are.                                                           *)
SameMultiples ==
    <<PlanStopAtr, PlanTargetAtr, MinStopSpreadMultiple>>
        = <<PaperStopAtr, PaperTargetAtr, PaperSpreadMultiple>>

(* Where planning and the paper engine have the same multiples, what opens  *)
(* on a signal at a quote is exactly the plan shown for it, at the levels   *)
(* shown, if the score reaches the paper engine's minimum.  The score is    *)
(* the one gate that planning lacks: below it a viable plan is shown and    *)
(* nothing opens (build_plan, plan_trade).                                  *)
PlanIsWhatOpens ==
    SameMultiples /\ question = "plan" /\ input.quote # None =>
        LET plan == Plan!BuildPlan(input.signal, input.quote, input.equity)
            asked == input.signal
            signal == [bias |-> asked.bias, score |-> asked.score,
                       atr |-> IF asked.atr = None THEN 0 ELSE asked.atr]
            terms == Paper!PlanTrade(signal, input.quote)
        IN  /\ Paper!Qualifies(signal, input.quote)
                  <=> plan.viable /\ asked.score >= PaperMinScore
            /\ plan.viable => /\ plan.entry = terms.entry
                              /\ plan.stop = terms.stop
                              /\ plan.target = terms.target

(* The statistics of a backtest are those of its equity curve: the drawdown *)
(* is the deepest fall from an earlier point to a later one and the losing  *)
(* streak the longest run of losses.  Below the minimum the profit factor   *)
(* and the drawdown are withheld, and the losing streak is reported as 0,   *)
(* whatever it was (metrics.py).                                            *)
MetricsAreTrue ==
    question = "metrics" =>
        LET metrics == Metrics(input)
            count == Len(input)
            curve[k \in 0..count] ==
                IF k = 0 THEN Parts(count)
                ELSE Max({0, (curve[k - 1] * (RiskPart + input[k])) \div RiskPart})
            fall == metrics.max_drawdown
            losing(j, k) == \A i \in j..k : input[i] < 0
        IN  IF ~metrics.sufficient
            THEN /\ metrics.profit_factor = None /\ metrics.max_drawdown = None
                 /\ metrics.max_consecutive_losses = 0
            ELSE /\ \A j, k \in 0..count :
                       j <= k => (curve[j] - curve[k]) * fall.of <= fall.fall * curve[j]
                 /\ \E j, k \in 0..count :
                       j <= k /\ (curve[j] - curve[k]) * fall.of = fall.fall * curve[j]
                 /\ \A j, k \in 1..count :
                       losing(j, k) => k - j + 1 <= metrics.max_consecutive_losses
                 /\ metrics.max_consecutive_losses > 0 =>
                       \E j, k \in 1..count :
                           losing(j, k) /\ k - j + 1 = metrics.max_consecutive_losses
=============================================================================
