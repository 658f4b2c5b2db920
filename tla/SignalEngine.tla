----------------------------- MODULE SignalEngine -----------------------------
(***************************************************************************)
(* The scoring of backend/signals: five components of 0 to 20 points, a     *)
(* bias out of the four that have a direction, and the combination of       *)
(* several timeframes.                                                      *)
(***************************************************************************)
EXTENDS MarketAnalysis

CONSTANTS
    Weights,        \* SignalConfig.timeframe_weights: timeframe -> weight
    Enough          \* the bars a timeframe needs to be counted (100)

(* SignalConfig.validated. *)
ASSUME WeightsAssumption ==
    /\ IsFiniteSet(DOMAIN Weights) /\ Enough \in Nat \ {0}
    /\ \A timeframe \in DOMAIN Weights : Weights[timeframe] \in Nat
    /\ \E timeframe \in DOMAIN Weights : Weights[timeframe] > 0

DirectionThreshold == (24 * One) \div 100
ProximityEffect == (35 * One) \div 100

-----------------------------------------------------------------------------
(* score_trend: half the stack, three tenths the slope, a fifth the side of *)
(* the EMA200.                                                              *)
ScoreTrend(trend) ==
    Clamp(RoundHalf(5 * trend.signed_alignment + 3 * One * Sign(trend.slope)
                    + 2 * One * trend.ema200_side, 10))

(* Mutant: only an overbought market damps the reading. *)
ScoreMomentumOneSided(momentum) ==
    LET direction == Clamp(momentum.score)
    IN  IF momentum.overbought /\ direction > 0
        THEN RoundHalf(3 * direction, 4) ELSE direction

(* score_momentum: a quarter less conviction in the direction of a move     *)
(* that is already stretched.                                               *)
ScoreMomentum(momentum) ==
    LET direction == Clamp(momentum.score)
        stretched == \/ momentum.overbought /\ direction > 0
                     \/ momentum.oversold /\ direction < 0
    IN  IF stretched THEN RoundHalf(3 * direction, 4) ELSE direction

(* score_structure: the place of the price in its range, pulled by a level  *)
(* within one ATR unless there is one on both sides.                        *)
ScoreStructure(structure, price, atr) ==
    LET span == structure.recent_high - structure.recent_low
        place == Clamp(RoundHalf(One * (2 * (price - structure.recent_low) - span), span))
        reach == IF atr = None THEN 0 ELSE atr
        near(distance) == atr # None /\ atr > 0 /\ distance \in 0..reach
        resisted  == structure.resistance # None /\ near(structure.resistance - price)
        supported == structure.support # None /\ near(price - structure.support)
    IN  IF span <= 0 THEN 0
        ELSE IF resisted /\ ~supported THEN Clamp(place - ProximityEffect)
        ELSE IF supported /\ ~resisted THEN Clamp(place + ProximityEffect)
        ELSE place

(* REGIME_QUALITY, in points. *)
ScoreVolatility(regime) ==
    CASE regime = "NORMAL" -> 19 [] regime = "LOW" -> 9
      [] regime = "HIGH" -> 8    [] OTHER -> 10

(* to_component_score: the agreement of a direction with the bias. *)
ComponentScore(direction, sign) ==
    IF sign = 0 THEN 10 ELSE RoundHalf(10 * (Clamp(direction * sign) + One), One)

BiasOf(net, threshold) ==
    IF net >= threshold THEN "LONG" ELSE IF net <= -threshold THEN "SHORT" ELSE "WAIT"

(* generate_signal, with enough bars.  `total` is four times the code's net *)
(* direction; a lean too weak for a bias still gives the components a side. *)
Signal(trend, momentum, structure, regime, agreement) ==
    LET directions == <<ScoreTrend(trend), ScoreMomentum(momentum), structure,
                        IF agreement = None THEN 0 ELSE Clamp(agreement)>>
        total == directions[1] + directions[2] + directions[3] + directions[4]
        scores == [k \in 1..4 |-> ComponentScore(directions[k], Sign(total))]
    IN  [bias   |-> BiasOf(total, 4 * DirectionThreshold),
         total  |-> total,
         scores |-> scores,
         score  |-> scores[1] + scores[2] + scores[3] + scores[4] + ScoreVolatility(regime)]

-----------------------------------------------------------------------------
(* analyse_timeframes.  A reading is what one timeframe's own signal says:  *)
(* its bars and its net direction.  `agreement` is a sum of weighted        *)
(* directions, to be divided by `weight`.                                   *)
Included(readings) == {tf \in DOMAIN Weights : readings[tf].bars >= Enough}
Pulls(readings) == [tf \in DOMAIN Weights |-> Weights[tf] * readings[tf].net]

(* Mutant: a timeframe that is left out still weighs. *)
TimeframesDiluted(readings) ==
    LET weight == SumFunctionOnSet(Weights, DOMAIN Weights)
        agreement == SumFunctionOnSet(Pulls(readings), Included(readings))
        bias == BiasOf(agreement, weight * DirectionThreshold)
        side == Sign(agreement)
    IN  [bias |-> bias, agreement |-> agreement, weight |-> weight,
         score |-> RoundHalf(50 * (agreement * side + weight * One), weight * One),
         consensus |-> IF bias = "WAIT" THEN 0
                       ELSE SumFunctionOnSet(Weights,
                                {tf \in Included(readings) : readings[tf].net * side > 0}),
         included |-> Included(readings)]

Timeframes(readings) ==
    LET weight == SumFunctionOnSet(Weights, Included(readings))
        agreement == SumFunctionOnSet(Pulls(readings), Included(readings))
        bias == BiasOf(agreement, weight * DirectionThreshold)
        side == Sign(agreement)
    IN  IF weight = 0
        THEN [bias |-> "WAIT", agreement |-> 0, weight |-> 0, score |-> 50,
              consensus |-> 0, included |-> {}]
        ELSE [bias |-> bias, agreement |-> agreement, weight |-> weight,
              score |-> RoundHalf(50 * (agreement * side + weight * One), weight * One),
              consensus |-> IF bias = "WAIT" THEN 0
                            ELSE SumFunctionOnSet(Weights,
                                     {tf \in Included(readings) : readings[tf].net * side > 0}),
              included |-> Included(readings)]

(* signal_with_timeframes: no agreement, rather than a neutral one, when    *)
(* nothing could be included.                                               *)
AgreementOf(combined) ==
    IF combined.included = {}
    THEN None
    ELSE RoundHalf(combined.agreement, combined.weight)
=============================================================================
