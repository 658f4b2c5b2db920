------------------------------ MODULE PaperEngine ------------------------------
(***************************************************************************)
(* The pure trade arithmetic of backend/paper/engine.py.                    *)
(*                                                                          *)
(* Prices are integers: a price is counted in the smallest step the code    *)
(* keeps (it rounds to 8 decimals), and an ATR in the unit that makes       *)
(* atr * StopAtr a price distance.  A missing ATR is 0: plan_trade treats   *)
(* `None` and `<= 0` alike.  The size of a position is the risk budget      *)
(* divided by the risk per unit, so pnl = move * size and                   *)
(* r_multiple = move / risk; the model keeps the move, whose sign and       *)
(* comparison with the risk are what pnl and r_multiple say.                *)
(***************************************************************************)
EXTENDS Integers

CONSTANTS
    StopAtr,            \* stop distance, in multiples of ATR
    TargetAtr,          \* target distance, in multiples of ATR
    MinSpreadMultiple,  \* least number of spreads between entry and stop
    MinScore            \* least signal score that opens a position

(* PaperConfig.validated: multiples are positive, and the spread multiple   *)
(* is at least 1.                                                           *)
ASSUME ConfigAssumption ==
    /\ StopAtr \in Nat \ {0}
    /\ TargetAtr \in Nat \ {0}
    /\ MinSpreadMultiple \in Nat \ {0}
    /\ MinScore \in Nat

Direction == {"LONG", "SHORT"}
Quote == [sell : Int, buy : Int]
Signal == [bias : Direction \cup {"WAIT"}, score : Nat, atr : Nat]
Terms == [direction : Direction, entry : Int, stop : Int, target : Int]

-----------------------------------------------------------------------------
Spread(quote) == quote.buy - quote.sell

(* A long closes by selling at the bid, a short by buying at the ask. *)
ExitPrice(direction, quote) ==
    IF direction = "LONG" THEN quote.sell ELSE quote.buy

(* A long enters at the ask, a short at the bid. *)
EntryPrice(direction, quote) ==
    IF direction = "LONG" THEN quote.buy ELSE quote.sell

RiskPerUnit(signal) == signal.atr * StopAtr

(* Mutant: the spread guard is forgotten. *)
QualifiesAnySpread(signal, quote) ==
    signal.bias # "WAIT" /\ signal.score >= MinScore /\ signal.atr > 0

(* plan_trade returns a position rather than None. *)
Qualifies(signal, quote) ==
    /\ signal.bias # "WAIT"
    /\ signal.score >= MinScore
    /\ signal.atr > 0
    /\ Spread(quote) > 0 =>
          RiskPerUnit(signal) >= Spread(quote) * MinSpreadMultiple

(* Mutant: a short is planned with the target of a long. *)
PlanTradeOneSided(signal, quote) ==
    LET entry == EntryPrice(signal.bias, quote)
        risk  == RiskPerUnit(signal)
    IN  [direction |-> signal.bias,
         entry     |-> entry,
         stop      |-> IF signal.bias = "LONG" THEN entry - risk ELSE entry + risk,
         target    |-> entry + signal.atr * TargetAtr]

(* The position plan_trade returns for a signal that qualifies. *)
PlanTrade(signal, quote) ==
    LET entry  == EntryPrice(signal.bias, quote)
        risk   == RiskPerUnit(signal)
        reward == signal.atr * TargetAtr
    IN  [direction |-> signal.bias,
         entry     |-> entry,
         stop      |-> IF signal.bias = "LONG" THEN entry - risk ELSE entry + risk,
         target    |-> IF signal.bias = "LONG" THEN entry + reward ELSE entry - reward]

-----------------------------------------------------------------------------
AtOrWorse(direction, price, level) ==
    IF direction = "LONG" THEN price <= level ELSE price >= level

AtOrBetter(direction, price, level) ==
    IF direction = "LONG" THEN price >= level ELSE price <= level

StopHit(trade, price) == AtOrWorse(trade.direction, price, trade.stop)
TargetHit(trade, price) == AtOrBetter(trade.direction, price, trade.target)

(* Mutant: a price exactly at the target does not reach it. *)
EvaluateExitStrict(trade, quote) ==
    LET price == ExitPrice(trade.direction, quote)
    IN  IF StopHit(trade, price) THEN "STOP"
        ELSE IF TargetHit(trade, price) /\ price # trade.target THEN "TARGET"
        ELSE "NONE"

(* evaluate_exit: the stop is looked at first. *)
EvaluateExit(trade, quote) ==
    LET price == ExitPrice(trade.direction, quote)
    IN  IF StopHit(trade, price) THEN "STOP"
        ELSE IF TargetHit(trade, price) THEN "TARGET"
        ELSE "NONE"

(* realise: what the position gained or lost per unit. *)
Realise(trade, price) ==
    IF trade.direction = "LONG" THEN price - trade.entry ELSE trade.entry - price

Abs(n) == IF n < 0 THEN -n ELSE n

(* PaperTrade.risk_per_unit *)
Risk(trade) == Abs(trade.entry - trade.stop)
=============================================================================
