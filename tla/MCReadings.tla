------------------------------ MODULE MCReadings ------------------------------
(* A small instance of Readings for TLC. *)
EXTENDS Readings

(* Bars on a small price grid: a rise, a fall, one that spans everything,   *)
(* and a gap down.                                                          *)
MCShapes == {[open |-> 3, high |-> 4, low |-> 2, close |-> 4],
             [open |-> 3, high |-> 3, low |-> 1, close |-> 2],
             [open |-> 3, high |-> 7, low |-> 0, close |-> 3],
             [open |-> 1, high |-> 2, low |-> 1, close |-> 1]}

(* The captured observations may repeat a bar and need not be in order. *)
MCStarts ==
    LET seen(open, high, low, close, time) ==
            [open |-> open, high |-> high, low |-> low, close |-> close,
             time |-> time, complete |-> TRUE]
    IN  {<<>>,
         <<seen(3, 4, 2, 4, 1), seen(3, 7, 0, 3, 1)>>,
         <<seen(1, 2, 1, 1, 2), seen(3, 4, 2, 4, 1), seen(3, 3, 1, 2, 2)>>}

(* A stand-in for the engine that depends on the newest bars of the window: *)
(* it follows the last close, with an ATR that may be 0 and a score that    *)
(* may be too low.                                                          *)
MCSignalOn(window) ==
    LET newest == window[Len(window)]
        before == window[Len(window) - 1].close
    IN  [bias  |-> IF newest.close > before THEN "LONG"
                   ELSE IF newest.close < before THEN "SHORT" ELSE "WAIT",
         score |-> IF newest.open < 2 THEN 60 ELSE 70,
         atr   |-> (newest.high - newest.low) \div 2]

MCWeights == [m1 |-> 2, m5 |-> 6, m15 |-> 7, h1 |-> 0]

MCStructures(price) ==
    {[support |-> None, resistance |-> None,
      recent_high |-> price + 6, recent_low |-> price - 6],
     [support |-> price - 1, resistance |-> price + 4,
      recent_high |-> price + 10, recent_low |-> price - 2],
     [support |-> price - 4, resistance |-> price + 2,
      recent_high |-> price + 3, recent_low |-> price - 9],
     [support |-> price - 1, resistance |-> price + 1,
      recent_high |-> price + 2, recent_low |-> price - 2],
     [support |-> None, resistance |-> None,
      recent_high |-> price, recent_low |-> price]}

MCMarkets ==
    UNION {[ema : {<<40, 30, 20, 10>>, <<10, 20, 30, 40>>, <<30, 20, 40, None>>,
                   <<20, 30, 20, 30>>},
            price : {price}, slope : {-1, None, 1},
            rsi : {20, 45, 75, None}, histogram : {-1, None, 1}, roc : {0, 1},
            structure : MCStructures(price),
            atrs : {<<2, 2, 2>>, <<5, 5, 2>>, <<1, 1, 2>>, <<2>>},
            agreement : {None, -900, 600}]
           : price \in {5, 25, 45}}

MCSetups ==
    [bias : {"LONG", "SHORT", "WAIT"}, score : {69, 70}, bars : {300},
     price : {None, 10}, atr : {None, 0, 1, 2}]
    \cup [bias : {"WAIT"}, score : {50}, bars : {0}, price : {None}, atr : {None}]

MCPlanQuotes ==
    {None, [sell |-> 10, buy |-> 11], [sell |-> 10, buy |-> 12],
     [sell |-> 10, buy |-> 13], [sell |-> 10, buy |-> 10], [sell |-> 11, buy |-> 10]}

MCNets == {-1200, -288, 0, 288, 600}
MCResults == {-5, -1, 0, 2}
MCEquities == {None, 0, 1000}
=============================================================================
