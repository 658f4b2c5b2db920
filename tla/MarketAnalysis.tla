---------------------------- MODULE MarketAnalysis ----------------------------
(***************************************************************************)
(* The market readings of backend/analysis: the frame of bars, trend,       *)
(* momentum, volatility and structure.                                      *)
(*                                                                          *)
(* Every operator is a function of what the indicator library computed      *)
(* (EMA, RSI, MACD, ATR), which stays outside: the model starts where the   *)
(* code starts to decide.  A directional reading in [-1, 1] is an integer   *)
(* in [-One, One], and a quotient is rounded to the nearest of them.         *)
(* Deadbands around zero are zero: a reading inside one is the reading 0.   *)
(***************************************************************************)
EXTENDS Integers, SequencesExt, FiniteSetsExt

CONSTANTS
    None,           \* a reading the indicator library could not make
    Strength,       \* bars needed on each side of a swing (2 in the code)
    Lookback,       \* newest bars whose swings make the levels (100)
    TolerancePart,  \* levels merge within 1/TolerancePart of the range (50)
    MedianBars      \* ATR readings needed to grade volatility (20)

ASSUME AnalysisAssumption ==
    /\ Strength \in Nat \ {0}
    /\ Lookback \in Nat \ {0}
    /\ TolerancePart \in Nat \ {0}
    /\ MedianBars \in Nat \ {0}

One == 1200
Clamp(value) == IF value < -One THEN -One ELSE IF value > One THEN One ELSE value
Sign(value) == IF value = None \/ value = 0 THEN 0 ELSE IF value > 0 THEN 1 ELSE -1

(* Python's round: to the even neighbour at one half. *)
RoundHalf(numerator, denominator) ==
    LET whole == numerator \div denominator
        twice == 2 * (numerator % denominator)
    IN  IF twice < denominator \/ (twice = denominator /\ whole % 2 = 0)
        THEN whole ELSE whole + 1

-----------------------------------------------------------------------------
(* The n-th smallest number of a set. *)
Nth(S, n) == CHOOSE x \in S : Cardinality({y \in S : y < x}) = n - 1

(* Python's sort, which is stable.  TLC's SortSeq has no definition a proof  *)
(* could expand.                                                            *)
Sorted(numbers) ==
    LET upTo(k) == {j \in DOMAIN numbers :
                       numbers[j] < numbers[k] \/ (numbers[j] = numbers[k] /\ j <= k)}
    IN  [n \in 1..Len(numbers) |->
            numbers[CHOOSE k \in DOMAIN numbers : Cardinality(upTo(k)) = n]]

(* candles_to_frame: the complete bars, oldest first, the last observation  *)
(* of a bar that was observed twice.                                        *)
Frame(candles) ==
    LET usable == {k \in DOMAIN candles : candles[k].complete}
        times  == {candles[k].time : k \in usable}
        last(time) == Max({k \in usable : candles[k].time = time})
    IN  [n \in 1..Cardinality(times) |-> candles[last(Nth(times, n))]]

-----------------------------------------------------------------------------
(* analyse_trend, of the four EMAs fastest first, the newest close and the  *)
(* sign of the slope of the EMA50.  The stack is the EMAs that are known;   *)
(* its pairs are of neighbours.                                             *)
Trend(ema, price, slope) ==
    LET stack == {k \in 1..4 : ema[k] # None}
        pairs == {p \in stack \X stack :
                     p[1] < p[2] /\ \A k \in stack : ~(p[1] < k /\ k < p[2])}
        count == Cardinality(pairs)
        fastest == ema[Min(stack)]
        descending == Cardinality({p \in pairs : ema[p[1]] > ema[p[2]]})
        ascending  == Cardinality({p \in pairs : ema[p[1]] < ema[p[2]]})
    IN  IF pairs = {}
        THEN [direction |-> "UNKNOWN", signed_alignment |-> 0, slope |-> None,
              ema200_side |-> 0, price |-> price]
        ELSE [direction |->
                  CASE descending = count /\ price > fastest -> "BULLISH"
                    [] ascending = count /\ price < fastest  -> "BEARISH"
                    [] OTHER -> "MIXED",
              signed_alignment |-> RoundHalf((descending - ascending) * One, count),
              slope |-> slope,
              ema200_side |-> IF ema[4] = None THEN 0
                              ELSE IF price > ema[4] THEN 1 ELSE -1,
              price |-> price]

(* analyse_momentum, of the RSI, the two newest values of the MACD          *)
(* histogram and the rate of change.                                        *)
Momentum(rsi, previous, histogram, roc) ==
    LET strength == IF rsi = None THEN 0 ELSE RoundHalf((rsi - 50) * One, 50)
        score == RoundHalf(strength, 2) + (One \div 4) * (Sign(histogram) + Sign(roc))
    IN  [direction |->
             CASE {rsi, histogram, roc} = {None} -> "UNKNOWN"
               [] score > One \div 5             -> "RISING"
               [] score < -(One \div 5)          -> "FALLING"
               [] OTHER                          -> "NEUTRAL",
         score      |-> score,
         rsi        |-> rsi,
         overbought |-> rsi # None /\ rsi >= 70,
         oversold   |-> rsi # None /\ rsi <= 30,
         flipped    |-> Sign(previous) * Sign(histogram) = -1]

(* analyse_volatility: the newest ATR against the median of the readings    *)
(* of the lookback.  An even number of readings has the mean of the middle  *)
(* two for its median, so twice the median is compared.                     *)
Volatility(atrs) ==
    LET sorted == Sorted(atrs)
        count  == Len(atrs)
        twice  == sorted[(count + 1) \div 2] + sorted[count \div 2 + 1]
        atr    == IF count = 0 THEN None ELSE atrs[count]
    IN  [atr    |-> atr,
         regime |-> IF count < MedianBars \/ twice <= 0 THEN "UNKNOWN"
                    ELSE IF 20 * atr <= 7 * twice THEN "LOW"
                    ELSE IF 20 * atr >= 14 * twice THEN "HIGH"
                    ELSE "NORMAL"]

-----------------------------------------------------------------------------
(* Mutant: the window of a swing is cut short at the newest bar. *)
SwingsUnconfirmed(values) ==
    {i \in 1 + Strength .. Len(values) :
        /\ \A j \in i - Strength .. i + Strength :
              j <= Len(values) => values[j] <= values[i]
        /\ \A j \in i - Strength .. i - 1 : values[i] > values[j]}

(* find_swings: a bar is a swing when no bar within Strength of it goes     *)
(* beyond it and every earlier one of them stays short of it; a low is the  *)
(* high of the chart turned over.                                           *)
Swings(values) ==
    {i \in 1 + Strength .. Len(values) - Strength :
        /\ \A j \in i - Strength .. i + Strength : values[j] <= values[i]
        /\ \A j \in i - Strength .. i - 1 : values[i] > values[j]}

Highs(bars) == [k \in DOMAIN bars |-> bars[k].high]
Lows(bars) == [k \in DOMAIN bars |-> bars[k].low]

SwingHighs(bars) == Swings(Highs(bars))
SwingLows(bars) == Swings([k \in DOMAIN bars |-> -bars[k].low])

(* Mutant: a swing that joins a level is not counted as a touch. *)
JoinUncounted(levels, price, span) ==
    LET level == levels[Len(levels)]
    IN  IF levels = <<>> THEN <<[sum |-> price, touches |-> 1]>>
        ELSE IF TolerancePart * (price * level.touches - level.sum) <= span * level.touches
        THEN [levels EXCEPT ![Len(levels)] =
                 [sum |-> level.sum + price, touches |-> level.touches]]
        ELSE Append(levels, [sum |-> price, touches |-> 1])

(* cluster_levels: a swing within the tolerance of the running mean of the  *)
(* newest cluster joins it.                                                 *)
Join(levels, price, span) ==
    LET level == levels[Len(levels)]
    IN  IF /\ levels # <<>>
           /\ TolerancePart * (price * level.touches - level.sum) <= span * level.touches
        THEN [levels EXCEPT ![Len(levels)] =
                 [sum |-> level.sum + price, touches |-> level.touches + 1]]
        ELSE Append(levels, [sum |-> price, touches |-> 1])

(* The clusters of the swings' prices, which a sort puts in order. *)
ClusterLevels(prices, span) ==
    LET sorted == Sorted(prices)
        levels[k \in 0..Len(prices)] ==
            IF k = 0 THEN <<>> ELSE Join(levels[k - 1], sorted[k], span)
    IN  IF span <= 0 THEN <<>> ELSE levels[Len(prices)]

PricesOf(levels) == {levels[k].sum \div levels[k].touches : k \in DOMAIN levels}

Recent(chart) ==
    SubSeq(chart, IF Len(chart) > Lookback THEN Len(chart) - Lookback + 1 ELSE 1, Len(chart))

(* analyse_structure, of the newest bars: the nearest level of lows below   *)
(* the newest close and the nearest level of highs above it.                *)
Structure(chart) ==
    LET bars == Recent(chart)
        price == bars[Len(bars)].close
        highest == Max(Range(Highs(bars)))
        lowest  == Min(Range(Lows(bars)))
        at(swings, values) == [n \in 1..Cardinality(swings) |-> values[Nth(swings, n)]]
        resistances == ClusterLevels(at(SwingHighs(bars), Highs(bars)), highest - lowest)
        supports == ClusterLevels(at(SwingLows(bars), Lows(bars)), highest - lowest)
        above == {level \in PricesOf(resistances) : level > price}
        below == {level \in PricesOf(supports) : level < price}
    IN  [support     |-> IF below = {} THEN None ELSE Max(below),
         resistance  |-> IF above = {} THEN None ELSE Min(above),
         recent_high |-> highest,
         recent_low  |-> lowest,
         resistance_levels |-> resistances,
         support_levels    |-> supports]
=============================================================================
