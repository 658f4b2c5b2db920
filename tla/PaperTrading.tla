----------------------------- MODULE PaperTrading -----------------------------
(***************************************************************************)
(* backend/paper/service.py with the handlers of backend/api/server.py that *)
(* call it.  FastAPI runs these handlers in a pool of threads, so any       *)
(* number of them interleave: a poll of /api/signal and POST                *)
(* /api/paper/open (maybe_open), POST /api/paper/close (close_manually) and *)
(* POST /internal/ingest/snapshot (update_from_quotes).                     *)
(*                                                                          *)
(* A handler takes its quotes from the data source BEFORE it waits for the  *)
(* service's lock.  Under the lock every read and every transaction on      *)
(* paper_trades is a step of its own, so that a snapshot can arrive, or the *)
(* process can die, between any two of them.                                *)
(***************************************************************************)
EXTENDS PaperEngine, Sequences, FiniteSets

CONSTANTS
    Threads,     \* handler threads
    Series,      \* (symbol, timeframe) pairs
    Symbols,
    SymbolOf,    \* [Series -> Symbols]
    Quotes,      \* the quotes Fortrade may show
    Signals,     \* the signals the engine may produce
    AutoOpen,    \* PaperConfig.auto_open
    Interval,    \* PaperConfig.evaluation_interval_seconds
    MaxTrades,   \* bound: rows of paper_trades
    MaxClock,    \* bound: the clock
    NoQuote, NoThread, NoRequest, Never

ASSUME ServiceAssumption ==
    /\ SymbolOf \in [Series -> Symbols]
    /\ Quotes \subseteq Quote
    /\ Signals \subseteq Signal
    /\ AutoOpen \in BOOLEAN
    /\ Interval \in Nat
    /\ MaxTrades \in Nat
    /\ MaxClock \in Nat

ASSUME SentinelAssumption ==
    /\ NoQuote \notin Quotes
    /\ NoThread \notin Threads
    /\ Never \notin Nat

VARIABLES
    trades,     \* paper_trades, by id
    quotes,     \* PushedDataSource._quotes, by symbol
    lastEval,   \* PaperTradingService._last_evaluation
    clock,      \* datetime.now()
    lock,       \* PaperTradingService._lock: the thread that holds it
    pc,         \* where each handler thread is
    req,        \* what it is serving
    entries     \* history: the positions opened since the process started

vars == <<trades, quotes, lastEval, clock, lock, pc, req, entries>>

(* The service's table is the ledger's; threads, lock and quotes are hidden. *)
Ledger == INSTANCE PaperLedger WITH trades <- trades, Series <- Series

Board == [Symbols -> Quotes \cup {NoQuote}]
EmptyBoard == [symbol \in Symbols |-> NoQuote]

(* Where a thread is once it holds the lock: `open` before the switch and   *)
(* the interval are looked at, `check` before has_open, `insert` before     *)
(* plan_trade, `close` and `sweep` before open_positions is read, `closing` *)
(* in the loop over the positions read.                                     *)
Critical == {"open", "check", "insert", "close", "sweep", "closing"}

OpenRequest == [op : {"open"}, series : Series, signal : Signals,
                quote : Quotes, force : BOOLEAN, at : Nat]
CloseRequest == [op : {"close"}, id : Nat, board : Board]
SweepRequest == [op : {"sweep"}, board : Board, todo : SUBSET Nat]

OpenIds == {i \in DOMAIN trades : trades[i].status = "OPEN"}
HasOpen(series) == \E i \in OpenIds : trades[i].series = series

(* The quote a board holds for the symbol of a position. *)
QuoteFor(i, board) == board[SymbolOf[trades[i].series]]

Init ==
    /\ trades = << >>
    /\ quotes = EmptyBoard
    /\ lastEval = [series \in Series |-> Never]
    /\ clock = 0
    /\ lock = NoThread
    /\ pc = [t \in Threads |-> "idle"]
    /\ req = [t \in Threads |-> NoRequest]
    /\ entries = {}

-----------------------------------------------------------------------------
(* Handlers arrive, and read the quotes.                                    *)

Arrive(t, request) ==
    /\ pc[t] = "idle"
    /\ pc' = [pc EXCEPT ![t] = "waiting"]
    /\ req' = [req EXCEPT ![t] = request]

(* get_signal (force = FALSE) and open_paper_position (force = TRUE): the   *)
(* signal is whatever the engine says of the bars; without a live quote     *)
(* neither calls maybe_open.                                                *)
RequestOpen(t, series, signal, force) ==
    /\ quotes[SymbolOf[series]] # NoQuote
    /\ Arrive(t, [op |-> "open", series |-> series, signal |-> signal,
                  quote |-> quotes[SymbolOf[series]], force |-> force,
                  at |-> 0])
    /\ UNCHANGED <<trades, quotes, lastEval, clock, lock, entries>>

(* close_paper_position: any id may be asked for. *)
RequestClose(t, id) ==
    /\ Arrive(t, [op |-> "close", id |-> id, board |-> quotes])
    /\ UNCHANGED <<trades, quotes, lastEval, clock, lock, entries>>

(* ingest_snapshot: the source takes the whole list at once, under its own  *)
(* lock; a snapshot without quotes changes none and checks no exit.         *)
Ingest(t, board) ==
    /\ board # EmptyBoard
    /\ quotes' = board
    /\ Arrive(t, [op |-> "sweep", board |-> board, todo |-> {}])
    /\ UNCHANGED <<trades, lastEval, clock, lock, entries>>

Acquire(t) ==
    /\ pc[t] = "waiting"
    /\ lock = NoThread
    /\ lock' = t
    /\ pc' = [pc EXCEPT ![t] = req[t].op]
    /\ UNCHANGED <<trades, quotes, lastEval, clock, req, entries>>

(* The handler leaves the `with` block, by a return or by an exception. *)
Release(t) ==
    /\ lock' = NoThread
    /\ pc' = [pc EXCEPT ![t] = "idle"]
    /\ req' = [req EXCEPT ![t] = NoRequest]

-----------------------------------------------------------------------------
(* maybe_open                                                               *)

(* The switch and the interval, which an explicit request bypasses. *)
Due(request) ==
    \/ request.force
    \/ /\ AutoOpen
       /\ lastEval[request.series] # Never =>
             clock - lastEval[request.series] >= Interval

NotDue(t) ==
    /\ pc[t] = "open"
    /\ ~Due(req[t])
    /\ Release(t)
    /\ UNCHANGED <<trades, quotes, lastEval, clock, entries>>

(* Mutant: an explicit request does not restart the interval. *)
EvaluateForcedUnnoted(t) ==
    /\ pc[t] = "open"
    /\ Due(req[t])
    /\ lastEval' = IF req[t].force THEN lastEval
                   ELSE [lastEval EXCEPT ![req[t].series] = clock]
    /\ req' = [req EXCEPT ![t].at = clock]
    /\ pc' = [pc EXCEPT ![t] = "check"]
    /\ UNCHANGED <<trades, quotes, clock, lock, entries>>

(* The evaluation is noted whatever comes of it, a forced one included. *)
Evaluate(t) ==
    /\ pc[t] = "open"
    /\ Due(req[t])
    /\ lastEval' = [lastEval EXCEPT ![req[t].series] = clock]
    /\ req' = [req EXCEPT ![t].at = clock]
    /\ pc' = [pc EXCEPT ![t] = "check"]
    /\ UNCHANGED <<trades, quotes, clock, lock, entries>>

(* Mutant: the early return keeps the lock. *)
AlreadyOpenLeaks(t) ==
    /\ pc[t] = "check"
    /\ HasOpen(req[t].series)
    /\ pc' = [pc EXCEPT ![t] = "idle"]
    /\ req' = [req EXCEPT ![t] = NoRequest]
    /\ UNCHANGED <<trades, quotes, lastEval, clock, lock, entries>>

AlreadyOpen(t) ==
    /\ pc[t] = "check"
    /\ HasOpen(req[t].series)
    /\ Release(t)
    /\ UNCHANGED <<trades, quotes, lastEval, clock, entries>>

NoneOpen(t) ==
    /\ pc[t] = "check"
    /\ ~HasOpen(req[t].series)
    /\ pc' = [pc EXCEPT ![t] = "insert"]
    /\ UNCHANGED <<trades, quotes, lastEval, clock, lock, req, entries>>

Decline(t) ==
    /\ pc[t] = "insert"
    /\ ~Qualifies(req[t].signal, req[t].quote)
    /\ Release(t)
    /\ UNCHANGED <<trades, quotes, lastEval, clock, entries>>

NewRow(request) ==
    [series |-> request.series,
     terms  |-> PlanTrade(request.signal, request.quote),
     status |-> "OPEN", reason |-> "NONE", exit |-> 0, move |-> 0]

OpenPosition(t) ==
    /\ pc[t] = "insert"
    /\ Qualifies(req[t].signal, req[t].quote)
    /\ trades' = Append(trades, NewRow(req[t]))
    /\ entries' = entries \cup
                    {[id |-> Len(trades) + 1, series |-> req[t].series,
                      force |-> req[t].force, at |-> req[t].at]}
    /\ Release(t)
    /\ UNCHANGED <<quotes, lastEval, clock>>

-----------------------------------------------------------------------------
(* close_position: UPDATE ... WHERE id = ? AND status = 'OPEN'. *)
ClosedRow(row, price, reason) ==
    [row EXCEPT !.status = "CLOSED", !.reason = reason, !.exit = price,
                !.move = Realise(row.terms, price)]

ClosePosition(i, price, reason) ==
    trades' = IF trades[i].status = "OPEN"
              THEN [trades EXCEPT ![i] = ClosedRow(trades[i], price, reason)]
              ELSE trades

(* close_manually *)
CanClose(request) ==
    /\ request.id \in OpenIds
    /\ QuoteFor(request.id, request.board) # NoQuote

CloseManually(t) ==
    /\ pc[t] = "close"
    /\ CanClose(req[t])
    /\ LET i == req[t].id
       IN  ClosePosition(i, ExitPrice(trades[i].terms.direction,
                                      QuoteFor(i, req[t].board)), "MANUAL")
    /\ Release(t)
    /\ UNCHANGED <<quotes, lastEval, clock, entries>>

NothingToClose(t) ==
    /\ pc[t] = "close"
    /\ ~CanClose(req[t])
    /\ Release(t)
    /\ UNCHANGED <<trades, quotes, lastEval, clock, entries>>

(* update_from_quotes: the open positions are read once; those the          *)
(* payload's quotes close are then closed, each in a transaction of its     *)
(* own, in the order of the SELECT (newest first).                          *)
Hit(i, board) ==
    /\ QuoteFor(i, board) # NoQuote
    /\ EvaluateExit(trades[i].terms, QuoteFor(i, board)) # "NONE"

Sweep(t) ==
    /\ pc[t] = "sweep"
    /\ req' = [req EXCEPT ![t].todo = {i \in OpenIds : Hit(i, req[t].board)}]
    /\ pc' = [pc EXCEPT ![t] = "closing"]
    /\ UNCHANGED <<trades, quotes, lastEval, clock, lock, entries>>

CloseNext(t, i) ==
    /\ pc[t] = "closing"
    /\ i \in req[t].todo
    /\ \A j \in req[t].todo : j <= i
    /\ LET terms == trades[i].terms
           quote == QuoteFor(i, req[t].board)
       IN  ClosePosition(i, ExitPrice(terms.direction, quote),
                         EvaluateExit(terms, quote))
    /\ req' = [req EXCEPT ![t].todo = @ \ {i}]
    /\ UNCHANGED <<quotes, lastEval, clock, lock, pc, entries>>

SweepDone(t) ==
    /\ pc[t] = "closing"
    /\ req[t].todo = {}
    /\ Release(t)
    /\ UNCHANGED <<trades, quotes, lastEval, clock, entries>>

-----------------------------------------------------------------------------
(* A statement fails: the transaction is rolled back, the exception leaves  *)
(* the `with` block and the handler logs it (or answers 500).               *)
Fail(t) ==
    /\ pc[t] \in Critical \ {"open"}
    /\ pc[t] = "closing" => req[t].todo # {}
    /\ Release(t)
    /\ UNCHANGED <<trades, quotes, lastEval, clock, entries>>

(* The backend dies and is started again: only the table is left. *)
Crash ==
    /\ quotes' = EmptyBoard
    /\ lastEval' = [series \in Series |-> Never]
    /\ lock' = NoThread
    /\ pc' = [t \in Threads |-> "idle"]
    /\ req' = [t \in Threads |-> NoRequest]
    /\ entries' = {}
    /\ UNCHANGED <<trades, clock>>

Tick ==
    /\ clock < MaxClock
    /\ clock' = clock + 1
    /\ UNCHANGED <<trades, quotes, lastEval, lock, pc, req, entries>>

-----------------------------------------------------------------------------
(* Bound: a request to open arrives only while the table has room for it.   *)
Room ==
    Len(trades) + Cardinality({t \in Threads : req[t] \in OpenRequest}) < MaxTrades

Request(t) ==
    \/ /\ Room
       /\ \E series \in Series, signal \in Signals, force \in BOOLEAN :
             RequestOpen(t, series, signal, force)
    \/ \E id \in 1..MaxTrades : RequestClose(t, id)
    \/ \E board \in Board : Ingest(t, board)

(* The steps a thread takes once it holds the lock. *)
Work(t) ==
    \/ NotDue(t) \/ Evaluate(t) \/ AlreadyOpen(t) \/ NoneOpen(t)
    \/ Decline(t) \/ OpenPosition(t)
    \/ CloseManually(t) \/ NothingToClose(t)
    \/ Sweep(t) \/ SweepDone(t)
    \/ \E i \in 1..MaxTrades : CloseNext(t, i)

Next ==
    \/ \E t \in Threads : Request(t) \/ Acquire(t) \/ Work(t) \/ Fail(t)
    \/ Crash
    \/ Tick

(* A running thread runs on; nothing makes a request arrive, a statement    *)
(* fail or the process die.                                                 *)
Fairness == \A t \in Threads : WF_vars(Acquire(t)) /\ WF_vars(Work(t))

Spec == Init /\ [][Next]_vars /\ Fairness

-----------------------------------------------------------------------------
(* Correctness                                                              *)

Row == [series : Series, terms : Terms, status : {"OPEN", "CLOSED"},
        reason : {"NONE", "STOP", "TARGET", "MANUAL"}, exit : Int, move : Int]

Entry == [id : Nat, series : Series, force : BOOLEAN, at : Nat]

(* Every variable has its type; a thread that waits or works has the        *)
(* request it serves.                                                       *)
TypeOK ==
    /\ trades \in Seq(Row)
    /\ quotes \in Board
    /\ lastEval \in [Series -> Nat \cup {Never}]
    /\ clock \in Nat
    /\ lock \in Threads \cup {NoThread}
    /\ pc \in [Threads -> {"idle", "waiting"} \cup Critical]
    /\ req \in [Threads ->
                  OpenRequest \cup CloseRequest \cup SweepRequest \cup {NoRequest}]
    /\ entries \subseteq Entry
    /\ \A t \in Threads :
          /\ pc[t] = "waiting" =>
                req[t] \in OpenRequest \cup CloseRequest \cup SweepRequest
          /\ pc[t] \in {"open", "check", "insert"} => req[t] \in OpenRequest
          /\ pc[t] = "close" => req[t] \in CloseRequest
          /\ pc[t] \in {"sweep", "closing"} => req[t] \in SweepRequest

(* Every way out of the `with` block, by a return or by an exception, gives *)
(* the lock back, and nobody reads or writes under a lock another holds.    *)
LockOK == \A t \in Threads : pc[t] \in Critical <=> lock = t

(* Two polls, or a poll and an explicit request, never leave two positions  *)
(* running on the same series: the check of has_open and the INSERT are two *)
(* statements, and only the lock keeps them together.                       *)
OneOpenPerSeries ==
    \A i, j \in OpenIds : trades[i].series = trades[j].series => i = j

(* Polling cannot open a stream of positions: while the process lives, an   *)
(* automatic entry is at least the interval after the evaluation that led   *)
(* to any earlier entry on its series, forced or not.                       *)
RateLimited ==
    \A a, b \in entries :
        (a.series = b.series /\ a.id < b.id /\ ~b.force) => b.at >= a.at + Interval

(* Once a sweep has dealt with a position, its payload no longer closes any *)
(* open position outside what is left to do: no stop or target is skipped,  *)
(* and nobody opened a position behind the sweep's back.                    *)
SweepMissesNothing ==
    \A t \in Threads : pc[t] = "closing" =>
        \A i \in OpenIds \ req[t].todo :
            LET quote == QuoteFor(i, req[t].board)
                price == ExitPrice(trades[i].terms.direction, quote)
            IN  quote # NoQuote =>
                  ~StopHit(trades[i].terms, price) /\ ~TargetHit(trades[i].terms, price)

(* A position recorded as stopped lost at least what it risked, and one     *)
(* that reached its target gained at least the planned reward: the outcome, *)
(* the reason and the terms agree, for longs and for shorts.                *)
OutcomeFitsReason ==
    \A i \in DOMAIN trades :
        LET row == trades[i]
        IN  /\ row.reason = "STOP" => row.move <= -Risk(row.terms)
            /\ row.reason = "TARGET" =>
                  row.move >= Abs(row.terms.target - row.terms.entry)

(* A position is never dead on arrival: at the quote it was priced on, the  *)
(* side of the book it must close on is not already past its stop.          *)
NotDeadOnArrival ==
    [][\A t \in Threads :
          (pc[t] = "insert" /\ Len(trades') > Len(trades)) =>
              LET terms == trades'[Len(trades')].terms
              IN  ~StopHit(terms, ExitPrice(terms.direction, req[t].quote))]_vars

(* The service with its threads, its crashes and its failing statements     *)
(* keeps the promises of the ledger.                                        *)
ImplementsLedger == Ledger!Spec

=============================================================================
