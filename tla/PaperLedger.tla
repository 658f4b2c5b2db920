------------------------------ MODULE PaperLedger ------------------------------
(***************************************************************************)
(* What the paper record promises, without threads, locks, quotes or        *)
(* crashes: a table that only grows, in which a position is opened on a     *)
(* series that has none running, keeps the terms it was opened on, and is   *)
(* closed at most once, at a price that fits the reason recorded.           *)
(***************************************************************************)
EXTENDS PaperEngine, Sequences

CONSTANT Series     \* the (symbol, timeframe) pairs

VARIABLE trades     \* the rows of paper_trades, in the order of their id

CloseReason == {"STOP", "TARGET", "MANUAL"}

OpenRow(series, terms) ==
    [series |-> series, terms |-> terms, status |-> "OPEN",
     reason |-> "NONE", exit |-> 0, move |-> 0]

ClosedRow(row, reason, price) ==
    [row EXCEPT !.status = "CLOSED", !.reason = reason, !.exit = price,
                !.move = Realise(row.terms, price)]

HasOpen(series) ==
    \E i \in DOMAIN trades : trades[i].series = series /\ trades[i].status = "OPEN"

(* The stop is a loss and the target a gain. *)
Sound(terms) ==
    IF terms.direction = "LONG"
    THEN terms.stop < terms.entry /\ terms.entry < terms.target
    ELSE terms.target < terms.entry /\ terms.entry < terms.stop

Init == trades = << >>

(* The new row is read off the next table, so that the promise does not     *)
(* have to enumerate every price a position could carry.                    *)
Open(series) ==
    /\ ~HasOpen(series)
    /\ Len(trades') = Len(trades) + 1
    /\ LET terms == trades'[Len(trades')].terms
       IN  Sound(terms) /\ trades' = Append(trades, OpenRow(series, terms))

Close(i, reason) ==
    /\ trades[i].status = "OPEN"
    /\ Len(trades') = Len(trades)
    /\ LET price == trades'[i].exit
       IN  /\ reason = "STOP" => StopHit(trades[i].terms, price)
           /\ reason = "TARGET" => TargetHit(trades[i].terms, price)
           /\ trades' = [trades EXCEPT ![i] = ClosedRow(trades[i], reason, price)]

Next ==
    \/ \E series \in Series : Open(series)
    \/ \E i \in DOMAIN trades, reason \in CloseReason : Close(i, reason)

Spec == Init /\ [][Next]_trades
=============================================================================
