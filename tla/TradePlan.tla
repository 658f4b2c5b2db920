------------------------------- MODULE TradePlan -------------------------------
(***************************************************************************)
(* The trade plan of backend/planning/plan.py: what a signal would look     *)
(* like as a trade, or why it is not one.  Nothing is placed by it; the     *)
(* paper engine plans again when it opens a position, so the two must not   *)
(* disagree.                                                                *)
(*                                                                          *)
(* A signal is a record of bias, score, bars, price and atr, where price    *)
(* and atr may be None; a quote and the equity may be None.  PlanStopAtr    *)
(* and PlanTargetAtr are STOP_ATR and TARGET_ATR in the paper engine's      *)
(* units.                                                                   *)
(***************************************************************************)
EXTENDS Integers

CONSTANTS None, PlanStopAtr, PlanTargetAtr, MinStopSpreadMultiple, RiskPercent

Refused(viability) ==
    [viability |-> viability, viable |-> FALSE, entry |-> None, stop |-> None,
     target |-> None, risk_amount |-> None]

(* The side of the book the trade would fill at, or the newest close. *)
Entry(signal, quote) ==
    IF quote = None THEN signal.price
    ELSE IF signal.bias = "LONG" THEN quote.buy ELSE quote.sell

(* Mutant: the stop must clear one spread less. *)
TooWideForgiving(signal, quote) ==
    /\ quote # None
    /\ quote.buy - quote.sell > 0
    /\ signal.atr * PlanStopAtr
          < (quote.buy - quote.sell) * (MinStopSpreadMultiple - 1)

(* The stop would lie within too few spreads of the entry. *)
TooWide(signal, quote) ==
    /\ quote # None
    /\ quote.buy - quote.sell > 0
    /\ signal.atr * PlanStopAtr < (quote.buy - quote.sell) * MinStopSpreadMultiple

(* build_plan; risk_amount is in hundredths of the account's currency and    *)
(* the size is risk_amount divided by the stop distance.                     *)
BuildPlan(signal, quote, equity) ==
    LET entry == Entry(signal, quote)
        side  == IF signal.bias = "LONG" THEN 1 ELSE -1
    IN  IF signal.bias = "WAIT" THEN Refused("NO_DIRECTION")
        ELSE IF signal.bars = 0 THEN Refused("INSUFFICIENT_HISTORY")
        ELSE IF signal.atr = None \/ signal.atr <= 0 \/ entry = None
        THEN Refused("NO_VOLATILITY_READING")
        ELSE IF TooWide(signal, quote)
        THEN [Refused("SPREAD_TOO_WIDE") EXCEPT !.entry = entry]
        ELSE [viability   |-> "TRADEABLE",
              viable      |-> TRUE,
              entry       |-> entry,
              stop        |-> entry - side * signal.atr * PlanStopAtr,
              target      |-> entry + side * signal.atr * PlanTargetAtr,
              risk_amount |-> IF equity = None \/ equity = 0 THEN None
                              ELSE equity * RiskPercent]

=============================================================================
