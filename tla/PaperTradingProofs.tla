-------------------------- MODULE PaperTradingProofs --------------------------
(***************************************************************************)
(* Proofs about PaperTrading, for every set of threads, series and quotes,  *)
(* every signal and every validated configuration.                          *)
(***************************************************************************)
EXTENDS PaperTrading, SequenceTheorems, TLAPS

-----------------------------------------------------------------------------
(* The inductive invariant                                                  *)

(* What a sweep has left to close is open and is closed by its payload: the *)
(* rows and the payload cannot change under it.                             *)
TodoOK ==
    \A t \in Threads : pc[t] = "closing" =>
        \A i \in req[t].todo : i \in OpenIds /\ Hit(i, req[t].board)

BaseInv == TypeOK /\ LockOK /\ TodoOK

(* The prices of a planned position are prices. *)
LEMMA PlanType ==
    ASSUME NEW signal \in Signals, NEW quote \in Quotes,
           Qualifies(signal, quote)
    PROVE  PlanTrade(signal, quote) \in Terms
<1>1. signal \in Signal /\ quote \in Quote
  BY ServiceAssumption
<1>2. /\ signal.bias \in Direction
      /\ signal.atr * StopAtr \in Int
      /\ signal.atr * TargetAtr \in Int
  BY <1>1, ConfigAssumption DEF Signal, Qualifies
<1>3. EntryPrice(signal.bias, quote) \in Int
  BY <1>1 DEF EntryPrice, Quote
<1> QED
  BY <1>2, <1>3 DEF PlanTrade, RiskPerUnit, Terms

(* The price a position is closed at, and what it made, are numbers. *)
LEMMA ExitType ==
    ASSUME NEW terms \in Terms, NEW quote \in Quotes
    PROVE  /\ ExitPrice(terms.direction, quote) \in Int
           /\ Realise(terms, ExitPrice(terms.direction, quote)) \in Int
           /\ EvaluateExit(terms, quote) \in {"NONE", "STOP", "TARGET"}
<1>1. quote.sell \in Int /\ quote.buy \in Int
  BY ServiceAssumption DEF Quote
<1>2. ExitPrice(terms.direction, quote) \in Int
  BY <1>1 DEF ExitPrice
<1> QED
  BY <1>2 DEF Realise, Terms, EvaluateExit

(* The invariant when the process starts. *)
LEMMA InitBase == Init => BaseInv
<1> SUFFICES ASSUME Init PROVE BaseInv
  OBVIOUS
<1>1. TypeOK
  BY ServiceAssumption DEF Init, TypeOK, Board, EmptyBoard
<1>2. LockOK /\ TodoOK
  BY SentinelAssumption DEF Init, LockOK, TodoOK, Critical
<1> QED
  BY <1>1, <1>2 DEF BaseInv

(* A row appended or closed keeps the table's type, and the ids and status  *)
(* of the other rows.                                                       *)
LEMMA CloseKeepsType ==
    ASSUME trades \in Seq(Row), NEW i \in DOMAIN trades, NEW price \in Int,
           NEW reason \in {"STOP", "TARGET", "MANUAL"},
           Realise(trades[i].terms, price) \in Int,
           ClosePosition(i, price, reason)
    PROVE  /\ trades' \in Seq(Row)
           /\ Len(trades') = Len(trades)
           /\ DOMAIN trades' = DOMAIN trades
           /\ \A j \in DOMAIN trades : j # i => trades'[j] = trades[j]
           /\ trades'[i] = IF trades[i].status = "OPEN"
                           THEN ClosedRow(trades[i], price, reason)
                           ELSE trades[i]
           /\ trades'[i].status # "OPEN"
           /\ trades'[i].series = trades[i].series
           /\ trades'[i].terms = trades[i].terms
<1>1. trades[i] \in Row
  OBVIOUS
<1> DEFINE row == ClosedRow(trades[i], price, reason)
<1>2. /\ row \in Row
      /\ row.status = "CLOSED"
      /\ row.series = trades[i].series
      /\ row.terms = trades[i].terms
  BY <1>1 DEF ClosedRow, Row
<1>3. CASE trades[i].status = "OPEN"
  <2>1. trades' = [trades EXCEPT ![i] = row]
    BY <1>3 DEF ClosePosition
  <2> HIDE DEF row
  <2>2. /\ trades' \in Seq(Row)
        /\ Len(trades') = Len(trades)
        /\ \A j \in 1..Len(trades) : trades'[j] = IF j = i THEN row ELSE trades[j]
    BY <1>2, <2>1, ExceptSeq
  <2>3. DOMAIN trades = 1..Len(trades) /\ DOMAIN trades' = 1..Len(trades)
    BY <2>2
  <2> QED
    BY <1>2, <1>3, <2>2, <2>3 DEF row
<1>4. CASE trades[i].status # "OPEN"
  BY <1>1, <1>4 DEF ClosePosition
<1> QED
  BY <1>3, <1>4

(* The invariant for a thread that leaves the `with` block, by whichever    *)
(* way, with the table untouched.                                           *)
LEMMA ReleaseBase ==
    ASSUME BaseInv, NEW t \in Threads, pc[t] \in Critical, Release(t),
           trades' \in Seq(Row), UNCHANGED <<quotes, lastEval, clock>>,
           entries' \subseteq Entry
    PROVE  BaseInv'
<1> USE DEF BaseInv
<1>1. lock = t /\ \A u \in Threads : u # t => pc[u] \notin Critical
  BY DEF LockOK
<1>2. /\ pc' = [pc EXCEPT ![t] = "idle"]
      /\ req' = [req EXCEPT ![t] = NoRequest]
      /\ lock' = NoThread
  BY DEF Release
<1>3. \A u \in Threads : /\ pc'[u] = IF u = t THEN "idle" ELSE pc[u]
                         /\ req'[u] = IF u = t THEN NoRequest ELSE req[u]
                         /\ pc'[u] \notin Critical
  BY <1>1, <1>2 DEF TypeOK, Critical
<1>4. TypeOK'
  BY <1>2, <1>3 DEF TypeOK, Critical
<1>5. LockOK'
  BY <1>2, <1>3, SentinelAssumption DEF LockOK
<1>6. TodoOK'
  BY <1>3 DEF TodoOK, Critical
<1> QED
  BY <1>4, <1>5, <1>6

(* The invariant when a request arrives. *)
LEMMA ArriveBase ==
    ASSUME BaseInv, NEW t \in Threads,
           NEW r \in OpenRequest \cup CloseRequest \cup SweepRequest,
           Arrive(t, r), quotes' \in Board,
           UNCHANGED <<trades, lastEval, clock, lock, entries>>
    PROVE  BaseInv'
<1> USE DEF BaseInv
<1>1. \A u \in Threads : /\ pc'[u] = IF u = t THEN "waiting" ELSE pc[u]
                         /\ req'[u] = IF u = t THEN r ELSE req[u]
  BY DEF Arrive, TypeOK
<1>2. TypeOK'
  <2>1. pc' \in [Threads -> {"idle", "waiting"} \cup Critical]
    BY DEF Arrive, TypeOK
  <2>2. req' \in [Threads -> OpenRequest \cup CloseRequest \cup SweepRequest
                               \cup {NoRequest}]
    BY DEF Arrive, TypeOK
  <2> QED
    BY <1>1, <2>1, <2>2 DEF TypeOK
<1>3. LockOK'
  BY <1>1 DEF LockOK, Arrive, Critical
<1>4. TodoOK'
  BY <1>1 DEF TodoOK, OpenIds, Hit, QuoteFor
<1> QED
  BY <1>2, <1>3, <1>4

(* The invariant across every arrival of a request. *)
LEMMA RequestBase ==
    ASSUME BaseInv, NEW t \in Threads, Request(t)
    PROVE  BaseInv'
<1> USE DEF BaseInv
<1>1. ASSUME NEW series \in Series, NEW signal \in Signals,
             NEW force \in BOOLEAN, RequestOpen(t, series, signal, force)
      PROVE  BaseInv'
  <2>1. quotes[SymbolOf[series]] \in Quotes
    BY <1>1, ServiceAssumption DEF RequestOpen, TypeOK, Board
  <2>2. [op |-> "open", series |-> series, signal |-> signal,
         quote |-> quotes[SymbolOf[series]], force |-> force, at |-> 0]
           \in OpenRequest
    BY <2>1 DEF OpenRequest
  <2> QED
    BY <1>1, <2>2, ArriveBase DEF RequestOpen, TypeOK
<1>2. ASSUME NEW id \in 1..MaxTrades, RequestClose(t, id)
      PROVE  BaseInv'
  <2>1. [op |-> "close", id |-> id, board |-> quotes] \in CloseRequest
    BY ServiceAssumption DEF CloseRequest, TypeOK
  <2> QED
    BY <1>2, <2>1, ArriveBase DEF RequestClose, TypeOK
<1>3. ASSUME NEW board \in Board, Ingest(t, board)
      PROVE  BaseInv'
  <2>1. [op |-> "sweep", board |-> board, todo |-> {}] \in SweepRequest
    BY DEF SweepRequest
  <2> QED
    BY <1>3, <2>1, ArriveBase DEF Ingest
<1> QED
  BY <1>1, <1>2, <1>3 DEF Request

(* A step of the thread that holds the lock that leaves lock and table      *)
(* alone: only its own program counter and request change.                  *)
LEMMA AcquireBase ==
    ASSUME BaseInv, NEW t \in Threads, Acquire(t)
    PROVE  BaseInv'
<1> USE DEF BaseInv, Acquire
<1>1. /\ req[t].op \in {"open", "close", "sweep"}
      /\ req[t].op = "open" => req[t] \in OpenRequest
      /\ req[t].op = "close" => req[t] \in CloseRequest
      /\ req[t].op = "sweep" => req[t] \in SweepRequest
  <2>1. req[t] \in OpenRequest \cup CloseRequest \cup SweepRequest
    BY DEF TypeOK
  <2> QED
    BY <2>1 DEF OpenRequest, CloseRequest, SweepRequest
<1>2. \A u \in Threads : pc'[u] = IF u = t THEN req[t].op ELSE pc[u]
  BY DEF TypeOK
<1>3. \A u \in Threads : pc[u] \notin Critical
  BY SentinelAssumption DEF LockOK
<1>4. TypeOK'
  <2>1. pc' \in [Threads -> {"idle", "waiting"} \cup Critical]
    BY <1>1 DEF TypeOK, Critical
  <2> QED
    BY <1>1, <1>2, <2>1 DEF TypeOK
<1>5. LockOK'
  BY <1>1, <1>2, <1>3 DEF LockOK, Critical
<1>6. TodoOK'
  BY <1>1, <1>2, <1>3 DEF TodoOK, Critical
<1> QED
  BY <1>4, <1>5, <1>6

(* The invariant across every step under the lock. *)
LEMMA WorkBase ==
    ASSUME BaseInv, NEW t \in Threads, Work(t)
    PROVE  BaseInv'
<1> USE DEF BaseInv
<1>1. ASSUME \/ NotDue(t) \/ AlreadyOpen(t) \/ Decline(t)
             \/ NothingToClose(t) \/ SweepDone(t)
      PROVE  BaseInv'
  <2>1. /\ pc[t] \in Critical
        /\ Release(t)
        /\ UNCHANGED <<trades, quotes, lastEval, clock, entries>>
    BY <1>1 DEF NotDue, AlreadyOpen, Decline, NothingToClose, SweepDone, Critical
  <2> QED
    BY <2>1, ReleaseBase DEF TypeOK
<1>2. CASE Evaluate(t)
  <2> USE <1>2 DEF Evaluate
  <2>1. req[t] \in OpenRequest
    BY DEF TypeOK
  <2>2. [req[t] EXCEPT !.at = clock] \in OpenRequest
    BY <2>1 DEF OpenRequest, TypeOK
  <2>3. req' = [req EXCEPT ![t] = [req[t] EXCEPT !.at = clock]]
    BY DEF TypeOK
  <2>4. \A u \in Threads : /\ pc'[u] = IF u = t THEN "check" ELSE pc[u]
                           /\ u # t => req'[u] = req[u]
    BY DEF TypeOK
  <2>5. req'[t] \in OpenRequest
    BY <2>2, <2>3 DEF TypeOK
  <2>6. TypeOK'
    <3>1. lastEval' \in [Series -> Nat \cup {Never}]
      BY <2>1 DEF TypeOK, OpenRequest
    <3>2. pc' \in [Threads -> {"idle", "waiting"} \cup Critical]
      BY DEF TypeOK, Critical
    <3>3. req' \in [Threads -> OpenRequest \cup CloseRequest \cup SweepRequest
                                 \cup {NoRequest}]
      BY <2>2, <2>3 DEF TypeOK
    <3> QED
      BY <2>4, <2>5, <3>1, <3>2, <3>3 DEF TypeOK
  <2>7. LockOK'
    BY <2>4 DEF LockOK, Critical
  <2>8. TodoOK'
    BY <2>4 DEF TodoOK, OpenIds, Hit, QuoteFor
  <2> QED
    BY <2>6, <2>7, <2>8
<1>3. CASE NoneOpen(t)
  <2> USE <1>3 DEF NoneOpen
  <2>1. \A u \in Threads : pc'[u] = IF u = t THEN "insert" ELSE pc[u]
    BY DEF TypeOK
  <2>2. TypeOK'
    <3>1. pc' \in [Threads -> {"idle", "waiting"} \cup Critical]
      BY DEF TypeOK, Critical
    <3> QED
      BY <2>1, <3>1 DEF TypeOK
  <2>3. LockOK'
    BY <2>1 DEF LockOK, Critical
  <2>4. TodoOK'
    BY <2>1 DEF TodoOK, OpenIds, Hit, QuoteFor
  <2> QED
    BY <2>2, <2>3, <2>4
<1>4. CASE OpenPosition(t)
  <2> USE <1>4 DEF OpenPosition
  <2>1. req[t] \in OpenRequest
    BY DEF TypeOK
  <2>2. req[t].series \in Series /\ req[t].force \in BOOLEAN /\ req[t].at \in Nat
    BY <2>1 DEF OpenRequest
  <2>3. PlanTrade(req[t].signal, req[t].quote) \in Terms
    BY <2>1, PlanType DEF OpenRequest
  <2>4. NewRow(req[t]) \in Row
    BY <2>2, <2>3 DEF NewRow, Row
  <2>5. trades' \in Seq(Row)
    BY <2>4, AppendProperties DEF TypeOK
  <2>6. entries' \subseteq Entry
    BY <2>2, LenProperties DEF TypeOK, Entry
  <2> QED
    BY <2>5, <2>6, ReleaseBase DEF Critical
<1>5. CASE CloseManually(t)
  <2> USE <1>5 DEF CloseManually
  <2> DEFINE i == req[t].id
             quote == QuoteFor(i, req[t].board)
  <2>1. req[t] \in CloseRequest
    BY DEF TypeOK
  <2>2. i \in DOMAIN trades /\ trades[i] \in Row
    BY DEF CanClose, OpenIds, TypeOK
  <2>3. quote \in Quotes
    BY <2>1, <2>2, ServiceAssumption DEF CanClose, CloseRequest, Board, QuoteFor, Row
  <2>4. trades[i].terms \in Terms
    BY <2>2 DEF Row
  <2>5. trades' \in Seq(Row)
    BY <2>2, <2>3, <2>4, ExitType, CloseKeepsType DEF TypeOK
  <2> QED
    BY <2>5, ReleaseBase DEF Critical, TypeOK
<1>6. CASE Sweep(t)
  <2> USE <1>6 DEF Sweep
  <2> DEFINE hits == {i \in OpenIds : Hit(i, req[t].board)}
  <2>1. req[t] \in SweepRequest
    BY DEF TypeOK
  <2>2. hits \in SUBSET Nat
    BY DEF OpenIds, TypeOK
  <2>3. [req[t] EXCEPT !.todo = hits] \in SweepRequest
    BY <2>1, <2>2 DEF SweepRequest
  <2>4. req' = [req EXCEPT ![t] = [req[t] EXCEPT !.todo = hits]]
    BY DEF TypeOK
  <2>5. /\ req'[t] \in SweepRequest
        /\ req'[t].todo = hits
        /\ req'[t].board = req[t].board
        /\ \A u \in Threads : /\ pc'[u] = IF u = t THEN "closing" ELSE pc[u]
                              /\ u # t => req'[u] = req[u]
    BY <2>1, <2>3, <2>4 DEF TypeOK, SweepRequest
  <2>6. TypeOK'
    <3>1. pc' \in [Threads -> {"idle", "waiting"} \cup Critical]
      BY DEF TypeOK, Critical
    <3>2. req' \in [Threads -> OpenRequest \cup CloseRequest \cup SweepRequest
                                 \cup {NoRequest}]
      BY <2>3, <2>4 DEF TypeOK
    <3> QED
      BY <2>5, <3>1, <3>2 DEF TypeOK
  <2>7. LockOK'
    BY <2>5 DEF LockOK, Critical
  <2>8. TodoOK'
    BY <2>5 DEF TodoOK, OpenIds, Hit, QuoteFor
  <2> QED
    BY <2>6, <2>7, <2>8
<1>7. ASSUME NEW i \in 1..MaxTrades, CloseNext(t, i)
      PROVE  BaseInv'
  <2> USE <1>7 DEF CloseNext
  <2> DEFINE quote == QuoteFor(i, req[t].board)
             rest == [req[t] EXCEPT !.todo = req[t].todo \ {i}]
  <2>1. req[t] \in SweepRequest
    BY DEF TypeOK
  <2>2. i \in DOMAIN trades /\ trades[i] \in Row /\ Hit(i, req[t].board)
    BY DEF TodoOK, OpenIds, TypeOK
  <2>3. quote \in Quotes
    BY <2>1, <2>2, ServiceAssumption DEF Hit, SweepRequest, Board, QuoteFor, Row
  <2>4. trades[i].terms \in Terms
    BY <2>2 DEF Row
  <2>5. EvaluateExit(trades[i].terms, quote) \in {"STOP", "TARGET"}
    BY <2>2, <2>3, <2>4, ExitType DEF Hit
  <2>6. /\ trades' \in Seq(Row)
        /\ DOMAIN trades' = DOMAIN trades
        /\ \A j \in DOMAIN trades : j # i => trades'[j] = trades[j]
    BY <2>2, <2>3, <2>4, <2>5, ExitType, CloseKeepsType DEF TypeOK
  <2>7. rest \in SweepRequest /\ req' = [req EXCEPT ![t] = rest]
    BY <2>1 DEF SweepRequest, TypeOK
  <2>8. /\ req'[t] \in SweepRequest
        /\ req'[t].todo = req[t].todo \ {i}
        /\ req'[t].board = req[t].board
        /\ \A u \in Threads : u # t => req'[u] = req[u]
    BY <2>1, <2>7 DEF TypeOK, SweepRequest
  <2>9. \A u \in Threads : u # t => pc[u] # "closing"
    BY DEF LockOK, Critical
  <2>10. TypeOK'
    <3>1. req' \in [Threads -> OpenRequest \cup CloseRequest \cup SweepRequest
                                 \cup {NoRequest}]
      BY <2>7 DEF TypeOK
    <3> QED
      BY <2>6, <2>8, <3>1 DEF TypeOK
  <2>11. LockOK'
    BY DEF LockOK
  <2>12. TodoOK'
    BY <2>6, <2>8, <2>9 DEF TodoOK, OpenIds, Hit, QuoteFor
  <2> QED
    BY <2>10, <2>11, <2>12
<1> QED
  BY <1>1, <1>2, <1>3, <1>4, <1>5, <1>6, <1>7 DEF Work

(* The invariant across a failing statement, a crash and the clock. *)
LEMMA OtherBase ==
    ASSUME BaseInv, Crash \/ Tick \/ (\E t \in Threads : Fail(t)) \/ UNCHANGED vars
    PROVE  BaseInv'
<1> USE DEF BaseInv
<1>1. CASE Crash
  BY <1>1, SentinelAssumption
     DEF Crash, TypeOK, LockOK, TodoOK, Critical, Board, EmptyBoard
<1>2. CASE Tick
  BY <1>2 DEF Tick, TypeOK, LockOK, TodoOK, OpenIds, Hit, QuoteFor
<1>3. ASSUME NEW t \in Threads, Fail(t) PROVE BaseInv'
  BY <1>3, ReleaseBase DEF Fail, TypeOK
<1>4. CASE UNCHANGED vars
  BY <1>4 DEF vars, TypeOK, LockOK, TodoOK, OpenIds, Hit, QuoteFor
<1> QED
  BY <1>1, <1>2, <1>3, <1>4

(* The lock discipline, the types and what a sweep has left to do hold in   *)
(* every reachable state.                                                   *)
THEOREM BaseInvariance == Spec => []BaseInv
<1>1. Init => BaseInv
  BY InitBase
<1>2. BaseInv /\ [Next]_vars => BaseInv'
  BY RequestBase, AcquireBase, WorkBase, OtherBase DEF Next
<1> QED
  BY <1>1, <1>2, PTL DEF Spec

(* Type correctness of the service, for any threads, series and quotes. *)
THEOREM TypeCorrectness == Spec => []TypeOK
<1>1. BaseInv => TypeOK
  BY DEF BaseInv
<1> QED
  BY <1>1, BaseInvariance, PTL

(* No path of any handler keeps the lock, whatever fails under it, and no   *)
(* two threads are inside the `with` block, for any number of threads.      *)
THEOREM LockDiscipline == Spec => []LockOK
<1>1. BaseInv => LockOK
  BY DEF BaseInv
<1> QED
  BY <1>1, BaseInvariance, PTL

-----------------------------------------------------------------------------
(* How a step can change the table                                          *)

(* An open position is closed at a price that fits the reason recorded. *)
ClosesAt(i, price, reason) ==
    /\ i \in OpenIds
    /\ Realise(trades[i].terms, price) \in Int
    /\ reason = "STOP" => StopHit(trades[i].terms, price)
    /\ reason = "TARGET" => TargetHit(trades[i].terms, price)
    /\ ClosePosition(i, price, reason)

Closes ==
    \E i \in DOMAIN trades, price \in Int, reason \in {"STOP", "TARGET", "MANUAL"} :
        ClosesAt(i, price, reason)

(* A step leaves the table alone, inserts the row a qualifying signal       *)
(* planned, or closes one open position.                                    *)
LEMMA TableStep ==
    ASSUME BaseInv, [Next]_vars
    PROVE  \/ UNCHANGED trades
           \/ \E t \in Threads : OpenPosition(t)
           \/ Closes
<1> USE DEF BaseInv
<1>1. ASSUME NEW t \in Threads, CloseManually(t) PROVE Closes
  <2> USE <1>1 DEF CloseManually
  <2> DEFINE i == req[t].id
             quote == QuoteFor(i, req[t].board)
             price == ExitPrice(trades[i].terms.direction, quote)
  <2>1. i \in OpenIds /\ i \in DOMAIN trades /\ trades[i] \in Row
    BY DEF CanClose, OpenIds, TypeOK
  <2>2. req[t] \in CloseRequest
    BY DEF TypeOK
  <2>3. quote \in Quotes
    BY <2>1, <2>2, ServiceAssumption DEF CanClose, CloseRequest, Board, QuoteFor, Row
  <2>4. price \in Int /\ Realise(trades[i].terms, price) \in Int
    BY <2>1, <2>3, ExitType DEF Row
  <2>5. ClosesAt(i, price, "MANUAL")
    BY <2>1, <2>4 DEF ClosesAt
  <2> QED
    BY <2>1, <2>4, <2>5 DEF Closes
<1>2. ASSUME NEW t \in Threads, NEW i \in 1..MaxTrades, CloseNext(t, i)
      PROVE  Closes
  <2> USE <1>2 DEF CloseNext
  <2> DEFINE terms == trades[i].terms
             quote == QuoteFor(i, req[t].board)
             price == ExitPrice(terms.direction, quote)
             reason == EvaluateExit(terms, quote)
  <2>1. /\ i \in OpenIds /\ i \in DOMAIN trades /\ trades[i] \in Row
        /\ Hit(i, req[t].board)
    BY DEF TodoOK, OpenIds, TypeOK
  <2>2. req[t] \in SweepRequest
    BY DEF TypeOK
  <2>3. quote \in Quotes
    BY <2>1, <2>2, ServiceAssumption DEF Hit, SweepRequest, Board, QuoteFor, Row
  <2>4. /\ price \in Int /\ Realise(terms, price) \in Int
        /\ reason \in {"STOP", "TARGET"}
    BY <2>1, <2>3, ExitType DEF Row, Hit
  <2>5. /\ reason = "STOP" => StopHit(terms, price)
        /\ reason = "TARGET" => TargetHit(terms, price)
    BY DEF EvaluateExit
  <2>6. ClosesAt(i, price, reason)
    BY <2>1, <2>4, <2>5 DEF ClosesAt
  <2> QED
    BY <2>1, <2>4, <2>6 DEF Closes
<1>3. ASSUME NEW t \in Threads, Request(t) \/ Acquire(t) \/ Fail(t)
      PROVE  UNCHANGED trades
  BY <1>3 DEF Request, RequestOpen, RequestClose, Ingest, Acquire, Fail
<1>4. ASSUME NEW t \in Threads, Work(t)
      PROVE  \/ UNCHANGED trades \/ OpenPosition(t) \/ Closes
  BY <1>1, <1>2, <1>4
     DEF Work, NotDue, Evaluate, AlreadyOpen, NoneOpen, Decline,
         NothingToClose, Sweep, SweepDone
<1>5. Crash \/ Tick \/ UNCHANGED vars => UNCHANGED trades
  BY DEF Crash, Tick, vars
<1> QED
  BY <1>3, <1>4, <1>5 DEF Next

-----------------------------------------------------------------------------
(* One running position per series                                          *)

(* Between has_open and the INSERT nobody opens a position on the series. *)
NoneRunning == \A t \in Threads : pc[t] = "insert" => ~HasOpen(req[t].series)

SeriesInv == OneOpenPerSeries /\ NoneRunning

(* What a closed position leaves open was open, on the same series. *)
LEMMA ClosesShrinks ==
    ASSUME BaseInv, Closes
    PROVE  /\ DOMAIN trades' = DOMAIN trades
           /\ \A j \in OpenIds' : j \in OpenIds /\ trades'[j] = trades[j]
<1> PICK i \in DOMAIN trades, price \in Int, reason \in {"STOP", "TARGET", "MANUAL"} :
        ClosesAt(i, price, reason)
  BY DEF Closes
<1>1. /\ DOMAIN trades' = DOMAIN trades
      /\ \A j \in DOMAIN trades : j # i => trades'[j] = trades[j]
      /\ trades'[i].status # "OPEN"
  BY CloseKeepsType DEF ClosesAt, BaseInv, TypeOK
<1> QED
  BY <1>1 DEF OpenIds

(* The new row is the only one an insertion adds. *)
LEMMA OpenAppends ==
    ASSUME BaseInv, NEW t \in Threads, OpenPosition(t)
    PROVE  /\ req[t] \in OpenRequest
           /\ NewRow(req[t]) \in Row
           /\ trades' \in Seq(Row)
           /\ DOMAIN trades' = 1..(Len(trades) + 1)
           /\ DOMAIN trades = 1..Len(trades)
           /\ Len(trades) \in Nat
           /\ Len(trades') = Len(trades) + 1
           /\ \A j \in DOMAIN trades : trades'[j] = trades[j]
           /\ trades'[Len(trades) + 1] = NewRow(req[t])
<1> USE DEF BaseInv, OpenPosition
<1>1. req[t] \in OpenRequest
  BY DEF TypeOK
<1>2. PlanTrade(req[t].signal, req[t].quote) \in Terms
  BY <1>1, PlanType DEF OpenRequest
<1>3. NewRow(req[t]) \in Row
  BY <1>1, <1>2 DEF NewRow, Row, OpenRequest
<1>4. trades \in Seq(Row)
  BY DEF TypeOK
<1> HIDE DEF BaseInv
<1>5. DOMAIN trades = 1..Len(trades) /\ Len(trades) \in Nat
  BY <1>4
<1>6. /\ trades' \in Seq(Row) /\ Len(trades') = Len(trades) + 1
      /\ \A j \in 1..Len(trades) : trades'[j] = trades[j]
      /\ trades'[Len(trades) + 1] = NewRow(req[t])
  BY <1>3, <1>4, AppendProperties
<1>7. DOMAIN trades' = 1..Len(trades')
  BY <1>6
<1> QED
  BY <1>1, <1>3, <1>5, <1>6, <1>7

(* has_open and the INSERT stay together across every step. *)
LEMMA SeriesStep ==
    ASSUME BaseInv, SeriesInv, [Next]_vars
    PROVE  SeriesInv'
<1> USE DEF SeriesInv
<1>1. ASSUME NEW u \in Threads, pc'[u] = "insert"
      PROVE  \/ pc[u] = "insert" /\ req'[u] = req[u]
             \/ UNCHANGED <<trades, req>> /\ ~HasOpen(req[u].series)
  <2>1. ASSUME NEW t \in Threads, NoneOpen(t)
        PROVE  \/ pc[u] = "insert" /\ req'[u] = req[u]
               \/ UNCHANGED <<trades, req>> /\ ~HasOpen(req[u].series)
    BY <1>1, <2>1 DEF NoneOpen, BaseInv, TypeOK
  <2>2. ASSUME NEW t \in Threads, NEW r, Arrive(t, r)
        PROVE  pc[u] = "insert" /\ req'[u] = req[u]
    BY <1>1, <2>2 DEF Arrive, BaseInv, TypeOK
  <2>3. ASSUME NEW t \in Threads, Release(t)
        PROVE  pc[u] = "insert" /\ req'[u] = req[u]
    BY <1>1, <2>3 DEF Release, BaseInv, TypeOK
  <2>4. ASSUME NEW t \in Threads, Acquire(t)
        PROVE  pc[u] = "insert" /\ req'[u] = req[u]
    <3>1. req[t] \in OpenRequest \cup CloseRequest \cup SweepRequest
      BY <2>4 DEF Acquire, BaseInv, TypeOK
    <3>2. req[t].op # "insert"
      BY <3>1 DEF OpenRequest, CloseRequest, SweepRequest
    <3> QED
      BY <1>1, <2>4, <3>2 DEF Acquire, BaseInv, TypeOK
  <2>5. ASSUME NEW t \in Threads,
               Evaluate(t) \/ Sweep(t) \/ \E i \in 1..MaxTrades : CloseNext(t, i)
        PROVE  pc[u] = "insert" /\ req'[u] = req[u]
    BY <1>1, <2>5 DEF Evaluate, Sweep, CloseNext, BaseInv, TypeOK
  <2>6. Tick \/ UNCHANGED vars => pc[u] = "insert" /\ req'[u] = req[u]
    BY <1>1 DEF Tick, vars
  <2>7. ~Crash
    BY <1>1 DEF Crash
  <2>8. ASSUME NEW t \in Threads, Request(t)
        PROVE  pc[u] = "insert" /\ req'[u] = req[u]
    BY <2>2, <2>8 DEF Request, RequestOpen, RequestClose, Ingest
  <2>9. ASSUME NEW t \in Threads, Work(t) \/ Fail(t)
        PROVE  \/ pc[u] = "insert" /\ req'[u] = req[u]
               \/ UNCHANGED <<trades, req>> /\ ~HasOpen(req[u].series)
    BY <2>1, <2>3, <2>5, <2>9
       DEF Work, Fail, NotDue, AlreadyOpen, Decline, OpenPosition,
           CloseManually, NothingToClose, SweepDone
  <2> QED
    BY <2>4, <2>6, <2>7, <2>8, <2>9 DEF Next
<1>2. CASE UNCHANGED trades
  <2>1. OneOpenPerSeries'
    BY <1>2 DEF OneOpenPerSeries, OpenIds
  <2>2. \A series : HasOpen(series)' <=> HasOpen(series)
    BY <1>2 DEF HasOpen, OpenIds
  <2>3. NoneRunning'
    BY <1>1, <1>2, <2>2 DEF NoneRunning, HasOpen, OpenIds
  <2> QED
    BY <2>1, <2>3
<1>3. CASE Closes
  <2>1. \A j \in OpenIds' : j \in OpenIds /\ trades'[j] = trades[j]
    BY <1>3, ClosesShrinks
  <2>2. OneOpenPerSeries'
    BY <2>1 DEF OneOpenPerSeries
  <2>3. ASSUME NEW u \in Threads, pc'[u] = "insert" PROVE ~HasOpen(req[u].series)
    BY <1>1, <2>3 DEF NoneRunning
  <2>4. ASSUME NEW u \in Threads, pc'[u] = "insert" PROVE req'[u] = req[u]
    BY <1>1, <2>4
  <2>5. NoneRunning'
    BY <2>1, <2>3, <2>4 DEF NoneRunning, HasOpen
  <2> QED
    BY <2>2, <2>5
<1>4. ASSUME NEW t \in Threads, OpenPosition(t) PROVE SeriesInv'
  <2> DEFINE new == Len(trades) + 1
  <2>1. ~HasOpen(req[t].series)
    BY <1>4 DEF NoneRunning, OpenPosition
  <2>2. /\ trades'[new] = NewRow(req[t])
        /\ \A j \in OpenIds' : j = new \/ (j \in OpenIds /\ trades'[j] = trades[j])
    BY <1>4, OpenAppends DEF OpenIds
  <2>3. trades'[new].series = req[t].series
    BY <2>2 DEF NewRow
  <2>4. OneOpenPerSeries'
    BY <2>1, <2>2, <2>3 DEF OneOpenPerSeries, HasOpen
  <2>5. \A u \in Threads : pc'[u] # "insert"
    BY <1>4 DEF OpenPosition, Release, BaseInv, LockOK, TypeOK, Critical
  <2> QED
    BY <2>4, <2>5 DEF NoneRunning
<1> QED
  BY <1>2, <1>3, <1>4, TableStep

(* At most one position is running on a series, whatever the threads do. *)
THEOREM OneOpen == Spec => []OneOpenPerSeries
<1>1. Init => SeriesInv
  BY DEF Init, SeriesInv, OneOpenPerSeries, NoneRunning, OpenIds
<1>2. BaseInv /\ SeriesInv /\ [Next]_vars => SeriesInv'
  BY SeriesStep
<1>3. SeriesInv => OneOpenPerSeries
  BY DEF SeriesInv
<1> QED
  BY <1>1, <1>2, <1>3, BaseInvariance, PTL DEF Spec

-----------------------------------------------------------------------------
(* Outcomes, and the ledger                                                 *)

(* Every position carries terms that risk something to gain something. *)
TermsSound == \A i \in DOMAIN trades : Ledger!Sound(trades[i].terms)

OutcomeInv == TermsSound /\ OutcomeFitsReason

(* A planned stop is on the losing side of the entry, the target on the     *)
(* winning side.                                                            *)
LEMMA PlanSound ==
    ASSUME NEW signal \in Signals, NEW quote \in Quotes,
           Qualifies(signal, quote)
    PROVE  Ledger!Sound(PlanTrade(signal, quote))
<1> DEFINE entry == EntryPrice(signal.bias, quote)
           risk == signal.atr * StopAtr
           reward == signal.atr * TargetAtr
<1>1. signal \in Signal /\ quote \in Quote
  BY ServiceAssumption
<1>2. signal.atr \in Nat /\ signal.atr > 0
  BY <1>1 DEF Signal, Qualifies
<1>3. \A a, b \in Nat : a > 0 /\ b > 0 => a * b > 0 /\ a * b \in Int
  OBVIOUS
<1>4. risk > 0 /\ reward > 0 /\ risk \in Int /\ reward \in Int
  BY <1>2, <1>3, ConfigAssumption
<1>5. entry \in Int
  BY <1>1 DEF EntryPrice, Quote
<1> HIDE DEF entry, risk, reward
<1>6. PlanTrade(signal, quote) =
        [direction |-> signal.bias,
         entry     |-> entry,
         stop      |-> IF signal.bias = "LONG" THEN entry - risk ELSE entry + risk,
         target    |-> IF signal.bias = "LONG" THEN entry + reward ELSE entry - reward]
  BY DEF PlanTrade, RiskPerUnit, entry, risk, reward
<1> QED
  BY <1>4, <1>5, <1>6 DEF Ledger!Sound

(* A stop reached costs at least the risk; a target reached gains at least  *)
(* the reward.                                                              *)
LEMMA OutcomeOfExit ==
    ASSUME NEW terms \in Terms, Ledger!Sound(terms), NEW price \in Int
    PROVE  /\ StopHit(terms, price) => Realise(terms, price) <= -Risk(terms)
           /\ TargetHit(terms, price) =>
                 Realise(terms, price) >= Abs(terms.target - terms.entry)
BY DEF Terms, Direction, Ledger!Sound, StopHit, TargetHit, AtOrWorse,
       AtOrBetter, Realise, Risk, Abs

(* Every step keeps the outcomes in agreement with the reasons. *)
LEMMA OutcomeStep ==
    ASSUME BaseInv, OutcomeInv, [Next]_vars
    PROVE  OutcomeInv'
<1> USE DEF OutcomeInv
<1>1. CASE UNCHANGED trades
  BY <1>1 DEF TermsSound, OutcomeFitsReason
<1>2. ASSUME NEW t \in Threads, OpenPosition(t) PROVE OutcomeInv'
  <2>1. Qualifies(req[t].signal, req[t].quote)
    BY <1>2 DEF OpenPosition
  <2>2. Ledger!Sound(NewRow(req[t]).terms) /\ NewRow(req[t]).reason = "NONE"
    BY <1>2, <2>1, OpenAppends, PlanSound DEF OpenRequest, NewRow
  <2>3. \A j \in DOMAIN trades' :
            \/ j \in DOMAIN trades /\ trades'[j] = trades[j]
            \/ trades'[j] = NewRow(req[t])
    BY <1>2, OpenAppends
  <2>4. TermsSound'
    BY <2>2, <2>3 DEF TermsSound
  <2>5. OutcomeFitsReason'
    BY <2>2, <2>3 DEF OutcomeFitsReason
  <2> QED
    BY <2>4, <2>5
<1>3. CASE Closes
  <2> PICK i \in DOMAIN trades, price \in Int, reason \in {"STOP", "TARGET", "MANUAL"} :
          ClosesAt(i, price, reason)
    BY <1>3 DEF Closes
  <2>1. /\ DOMAIN trades' = DOMAIN trades
        /\ \A j \in DOMAIN trades : j # i => trades'[j] = trades[j]
        /\ trades'[i] = ClosedRow(trades[i], price, reason)
    BY CloseKeepsType DEF ClosesAt, OpenIds, BaseInv, TypeOK
  <2>2. trades[i] \in Row
    BY DEF BaseInv, TypeOK
  <2>3. /\ trades'[i].terms = trades[i].terms
        /\ trades'[i].reason = reason
        /\ trades'[i].move = Realise(trades[i].terms, price)
    BY <2>1, <2>2 DEF ClosedRow, Row
  <2>4. TermsSound'
    BY <2>1, <2>3 DEF TermsSound
  <2>5. /\ reason = "STOP" =>
              Realise(trades[i].terms, price) <= -Risk(trades[i].terms)
        /\ reason = "TARGET" =>
              Realise(trades[i].terms, price) >=
                 Abs(trades[i].terms.target - trades[i].terms.entry)
    BY <2>2, OutcomeOfExit DEF ClosesAt, TermsSound, Row
  <2>6. OutcomeFitsReason'
    BY <2>1, <2>3, <2>5 DEF OutcomeFitsReason
  <2> QED
    BY <2>4, <2>6
<1> QED
  BY <1>1, <1>2, <1>3, TableStep

(* A recorded stop is a loss of at least the risk, a recorded target a gain *)
(* of at least the reward, for every price, direction and interleaving.     *)
THEOREM Outcomes == Spec => []OutcomeFitsReason
<1>1. Init => OutcomeInv
  BY DEF Init, OutcomeInv, TermsSound, OutcomeFitsReason
<1>2. BaseInv /\ OutcomeInv /\ [Next]_vars => OutcomeInv'
  BY OutcomeStep
<1>3. OutcomeInv => OutcomeFitsReason
  BY DEF OutcomeInv
<1> QED
  BY <1>1, <1>2, <1>3, BaseInvariance, PTL DEF Spec

(* Every step of the service is a step of the ledger, or none. *)
LEMMA LedgerStep ==
    ASSUME BaseInv, SeriesInv, [Next]_vars
    PROVE  [Ledger!Next]_trades
<1>1. ASSUME NEW t \in Threads, OpenPosition(t) PROVE Ledger!Next
  <2> DEFINE series == req[t].series
             terms == PlanTrade(req[t].signal, req[t].quote)
  <2>1. /\ series \in Series
        /\ Ledger!Sound(terms)
    BY <1>1, OpenAppends, PlanSound DEF OpenRequest, OpenPosition
  <2>2. ~Ledger!HasOpen(series)
    BY <1>1 DEF Ledger!HasOpen, HasOpen, OpenIds, SeriesInv, NoneRunning, OpenPosition
  <2>3. NewRow(req[t]) = Ledger!OpenRow(series, terms)
    BY DEF NewRow, Ledger!OpenRow
  <2>4. /\ Len(trades') = Len(trades) + 1
        /\ trades'[Len(trades')] = NewRow(req[t])
        /\ trades'[Len(trades')].terms = terms
    BY <1>1, OpenAppends DEF NewRow
  <2>5. trades' = Append(trades, Ledger!OpenRow(series, terms))
    BY <1>1, <2>3 DEF OpenPosition
  <2>6. Ledger!Open(series)
    BY <2>1, <2>2, <2>4, <2>5 DEF Ledger!Open
  <2> QED
    BY <2>1, <2>6 DEF Ledger!Next
<1>2. CASE Closes
  <2> PICK i \in DOMAIN trades, price \in Int, reason \in {"STOP", "TARGET", "MANUAL"} :
          ClosesAt(i, price, reason)
    BY <1>2 DEF Closes
  <2>1. trades[i] \in Row /\ trades[i].status = "OPEN"
    BY DEF ClosesAt, OpenIds, BaseInv, TypeOK
  <2>2. /\ Len(trades') = Len(trades)
        /\ trades'[i] = ClosedRow(trades[i], price, reason)
    BY <2>1, CloseKeepsType DEF ClosesAt, BaseInv, TypeOK
  <2>3. trades'[i].exit = price
    BY <2>1, <2>2 DEF ClosedRow, Row
  <2>4. ClosedRow(trades[i], price, reason) = Ledger!ClosedRow(trades[i], reason, price)
    BY DEF ClosedRow, Ledger!ClosedRow, Realise, Ledger!Realise
  <2>5. trades' = [trades EXCEPT ![i] = Ledger!ClosedRow(trades[i], reason, price)]
    BY <2>1, <2>4 DEF ClosesAt, ClosePosition
  <2>6. Ledger!Close(i, reason)
    BY <2>1, <2>2, <2>3, <2>5
       DEF Ledger!Close, ClosesAt, StopHit, TargetHit, AtOrWorse, AtOrBetter,
           Ledger!StopHit, Ledger!TargetHit, Ledger!AtOrWorse, Ledger!AtOrBetter
  <2> QED
    BY <2>6 DEF Ledger!Next, Ledger!CloseReason
<1> QED
  BY <1>1, <1>2, TableStep

(* With any number of threads, failing statements and crashes, the service  *)
(* implements the ledger.                                                   *)
THEOREM LedgerRefinement == Spec => ImplementsLedger
<1>1. Init => Ledger!Init /\ SeriesInv
  BY DEF Init, Ledger!Init, SeriesInv, OneOpenPerSeries, NoneRunning, OpenIds
<1>2. BaseInv /\ SeriesInv /\ [Next]_vars => SeriesInv' /\ [Ledger!Next]_trades
  BY SeriesStep, LedgerStep
<1> QED
  BY <1>1, <1>2, BaseInvariance, PTL DEF Spec, ImplementsLedger, Ledger!Spec

-----------------------------------------------------------------------------
(* Arrivals                                                                 *)

(* Twice the spread or more between entry and stop keeps the stop out of    *)
(* the book.                                                                *)
LEMMA PlanOutsideSpread ==
    ASSUME MinSpreadMultiple > 1,
           NEW signal \in Signals, NEW quote \in Quotes, Qualifies(signal, quote)
    PROVE  LET terms == PlanTrade(signal, quote)
           IN  ~StopHit(terms, ExitPrice(terms.direction, quote))
<1> DEFINE risk == signal.atr * StopAtr
           spread == quote.buy - quote.sell
<1>1. /\ signal.bias \in Direction /\ signal.atr \in Nat /\ signal.atr > 0
      /\ quote.sell \in Int /\ quote.buy \in Int
      /\ spread \in Int
  BY ServiceAssumption DEF Signal, Quote, Qualifies
<1>2. \A a, b \in Nat : a > 0 /\ b > 0 => a * b > 0 /\ a * b \in Int
  OBVIOUS
<1>3. risk > 0 /\ risk \in Int
  BY <1>1, <1>2, ConfigAssumption
<1>4. spread > 0 => risk >= spread * MinSpreadMultiple
  BY DEF Qualifies, RiskPerUnit, Spread
<1>5. \A a \in Int, m \in Nat : a > 0 /\ m > 1 => a * m > a /\ a * m \in Int
  OBVIOUS
<1>6. spread < risk
  BY <1>1, <1>3, <1>4, <1>5, ConfigAssumption
<1>7. /\ PlanTrade(signal, quote).direction = signal.bias
      /\ signal.bias = "LONG" => PlanTrade(signal, quote).stop = quote.buy - risk
      /\ signal.bias = "SHORT" => PlanTrade(signal, quote).stop = quote.sell + risk
  BY DEF PlanTrade, RiskPerUnit, EntryPrice
<1> HIDE DEF risk
<1> QED
  BY <1>1, <1>3, <1>6, <1>7 DEF StopHit, AtOrWorse, ExitPrice, Direction

(* No position is dead on arrival, for every configuration whose spread     *)
(* multiple is more than 1.  At exactly 1, which PaperConfig.validated      *)
(* accepts, the stop may be the very price the position would close at.     *)
THEOREM Arrivals ==
    ASSUME MinSpreadMultiple > 1
    PROVE  Spec => NotDeadOnArrival
<1> DEFINE Safe == \A t \in Threads :
          (pc[t] = "insert" /\ Len(trades') > Len(trades)) =>
              LET terms == trades'[Len(trades')].terms
              IN  ~StopHit(terms, ExitPrice(terms.direction, req[t].quote))
<1>1. BaseInv /\ [Next]_vars => Safe
  <2> SUFFICES ASSUME BaseInv, [Next]_vars, NEW t \in Threads,
                      pc[t] = "insert", Len(trades') > Len(trades)
               PROVE  LET terms == trades'[Len(trades')].terms
                      IN  ~StopHit(terms, ExitPrice(terms.direction, req[t].quote))
    OBVIOUS
  <2>1. Len(trades) \in Nat
    BY DEF BaseInv, TypeOK
  <2>2. ~Closes
    <3> SUFFICES ASSUME Closes PROVE FALSE
      OBVIOUS
    <3> PICK i \in DOMAIN trades, price \in Int, reason \in {"STOP", "TARGET", "MANUAL"} :
            ClosesAt(i, price, reason)
      BY DEF Closes
    <3>1. Len(trades') = Len(trades)
      BY CloseKeepsType DEF ClosesAt, BaseInv, TypeOK
    <3> QED
      BY <2>1, <3>1
  <2>3. PICK u \in Threads : OpenPosition(u)
    BY <2>1, <2>2, TableStep
  <2>4. u = t
    BY <2>3 DEF OpenPosition, BaseInv, LockOK, Critical
  <2>5. trades'[Len(trades')].terms = PlanTrade(req[t].signal, req[t].quote)
    <3>1. OpenPosition(t)
      BY <2>3, <2>4
    <3>2. Len(trades') = Len(trades) + 1 /\ trades'[Len(trades) + 1] = NewRow(req[t])
      BY <3>1, OpenAppends
    <3> QED
      BY <3>2 DEF NewRow
  <2>6. req[t].signal \in Signals /\ req[t].quote \in Quotes
    BY DEF BaseInv, TypeOK, OpenRequest
  <2> QED
    BY <2>3, <2>4, <2>5, <2>6, PlanOutsideSpread DEF OpenPosition
<1>2. BaseInv /\ [Next]_vars => [Safe]_vars
  BY <1>1
<1> QED
  BY <1>2, BaseInvariance, PTL DEF Spec, NotDeadOnArrival

-----------------------------------------------------------------------------
(* Sweeps                                                                   *)

(* A thread is in the closing loop because it entered it, because it closed *)
(* one position, or because another thread moved.                           *)
LEMMA ClosingStep ==
    ASSUME BaseInv, [Next]_vars, NEW u \in Threads, pc'[u] = "closing"
    PROVE  \/ Sweep(u)
           \/ \E i \in 1..MaxTrades : CloseNext(u, i)
           \/ pc[u] = "closing" /\ req'[u] = req[u]
<1> DEFINE Same == pc[u] = "closing" /\ req'[u] = req[u]
           Goal == \/ Sweep(u) \/ (\E i \in 1..MaxTrades : CloseNext(u, i)) \/ Same
<1>1. ASSUME NEW t \in Threads, NEW r, Arrive(t, r) PROVE Same
  BY <1>1 DEF Arrive, BaseInv, TypeOK
<1>2. ASSUME NEW t \in Threads, Release(t) PROVE Same
  BY <1>2 DEF Release, BaseInv, TypeOK
<1>3. ASSUME NEW t \in Threads, Acquire(t) PROVE Same
  <2>1. req[t].op # "closing"
    BY <1>3 DEF Acquire, BaseInv, TypeOK, OpenRequest, CloseRequest, SweepRequest
  <2> QED
    BY <1>3, <2>1 DEF Acquire, BaseInv, TypeOK
<1>4. ASSUME NEW t \in Threads, Evaluate(t) \/ NoneOpen(t) PROVE Same
  BY <1>4 DEF Evaluate, NoneOpen, BaseInv, TypeOK
<1>5. ASSUME NEW t \in Threads, Sweep(t) PROVE Goal
  BY <1>5 DEF Sweep, BaseInv, TypeOK
<1>6. ASSUME NEW t \in Threads, NEW i \in 1..MaxTrades, CloseNext(t, i) PROVE Goal
  BY <1>6 DEF CloseNext, BaseInv, TypeOK
<1>7. ~Crash
  BY DEF Crash
<1>8. Tick \/ UNCHANGED vars => Same
  BY DEF Tick, vars
<1>9. ASSUME NEW t \in Threads, Request(t) PROVE Same
  BY <1>1, <1>9 DEF Request, RequestOpen, RequestClose, Ingest
<1>10. ASSUME NEW t \in Threads, Work(t) \/ Fail(t) PROVE Goal
  BY <1>2, <1>4, <1>5, <1>6, <1>10
     DEF Work, Fail, NotDue, AlreadyOpen, Decline, OpenPosition,
         CloseManually, NothingToClose, SweepDone
<1> QED
  BY <1>3, <1>7, <1>8, <1>9, <1>10 DEF Next

(* A payload that closes nothing leaves a position inside its stop and its  *)
(* target.                                                                  *)
LEMMA NoHitInside ==
    ASSUME NEW i \in OpenIds, NEW board, ~Hit(i, board), QuoteFor(i, board) # NoQuote
    PROVE  LET price == ExitPrice(trades[i].terms.direction, QuoteFor(i, board))
           IN  ~StopHit(trades[i].terms, price) /\ ~TargetHit(trades[i].terms, price)
BY DEF Hit, EvaluateExit

(* Every step keeps what a sweep has dealt with dealt with. *)
LEMMA SweepStep ==
    ASSUME BaseInv, SweepMissesNothing, [Next]_vars
    PROVE  SweepMissesNothing'
<1> SUFFICES ASSUME NEW u \in Threads, pc'[u] = "closing",
                    NEW i \in OpenIds' \ req'[u].todo,
                    QuoteFor(i, req[u].board)' # NoQuote
             PROVE  (LET price == ExitPrice(trades[i].terms.direction,
                                            QuoteFor(i, req[u].board))
                     IN  /\ ~StopHit(trades[i].terms, price)
                         /\ ~TargetHit(trades[i].terms, price))'
  BY DEF SweepMissesNothing
<1>1. CASE Sweep(u)
  <2>1. req[u] \in SweepRequest /\ trades' = trades
    BY <1>1 DEF Sweep, BaseInv, TypeOK
  <2>2. /\ req'[u].board = req[u].board
        /\ req'[u].todo = {j \in OpenIds : Hit(j, req[u].board)}
    BY <1>1, <2>1 DEF Sweep, BaseInv, TypeOK, SweepRequest
  <2>3. i \in OpenIds /\ ~Hit(i, req[u].board)
    BY <2>1, <2>2 DEF OpenIds
  <2> QED
    BY <2>1, <2>2, <2>3, NoHitInside DEF QuoteFor
<1>2. ASSUME pc[u] = "closing", req'[u].board = req[u].board,
             i \in OpenIds \ req[u].todo, trades'[i] = trades[i]
      PROVE  (LET price == ExitPrice(trades[i].terms.direction,
                                     QuoteFor(i, req[u].board))
              IN  /\ ~StopHit(trades[i].terms, price)
                  /\ ~TargetHit(trades[i].terms, price))'
  BY <1>2 DEF SweepMissesNothing, QuoteFor
<1>3. ASSUME NEW k \in 1..MaxTrades, CloseNext(u, k)
      PROVE  /\ pc[u] = "closing" /\ req'[u].board = req[u].board
             /\ i \in OpenIds \ req[u].todo /\ trades'[i] = trades[i]
  <2>1. req[u] \in SweepRequest
    BY <1>3 DEF CloseNext, BaseInv, TypeOK
  <2>2. /\ req'[u].board = req[u].board
        /\ req'[u].todo = req[u].todo \ {k}
        /\ k \in OpenIds
    BY <1>3, <2>1 DEF CloseNext, BaseInv, TypeOK, TodoOK, SweepRequest
  <2>3. trades' # trades
    <3>1. trades[k] \in Row /\ k \in DOMAIN trades /\ trades[k].status = "OPEN"
      BY <2>2 DEF BaseInv, TypeOK, OpenIds
    <3>2. trades'[k].status = "CLOSED"
      BY <1>3, <3>1 DEF CloseNext, ClosePosition, ClosedRow, Row, BaseInv, TypeOK
    <3> QED
      BY <3>1, <3>2
  <2>4. \A t \in Threads : ~OpenPosition(t)
    BY <1>3 DEF CloseNext, OpenPosition, Release, BaseInv, TypeOK, LockOK, Critical
  <2>5. Closes
    BY <2>3, <2>4, TableStep
  <2>6. i \in OpenIds /\ trades'[i] = trades[i]
    BY <2>5, ClosesShrinks
  <2>7. i # k
    <3>1. trades[k] \in Row /\ k \in DOMAIN trades /\ trades[k].status = "OPEN"
      BY <2>2 DEF BaseInv, TypeOK, OpenIds
    <3>2. trades'[k].status = "CLOSED"
      BY <1>3, <3>1 DEF CloseNext, ClosePosition, ClosedRow, Row, BaseInv, TypeOK
    <3> QED
      BY <3>2 DEF OpenIds
  <2> QED
    BY <1>3, <2>2, <2>6, <2>7 DEF CloseNext
<1>4. ASSUME pc[u] = "closing", req'[u] = req[u]
      PROVE  i \in OpenIds \ req[u].todo /\ trades'[i] = trades[i]
  <2>1. \A t \in Threads : ~OpenPosition(t)
    <3> SUFFICES ASSUME NEW t \in Threads, OpenPosition(t) PROVE FALSE
      OBVIOUS
    <3> QED
      BY <1>4 DEF OpenPosition, BaseInv, LockOK, Critical
  <2>2. CASE UNCHANGED trades
    BY <1>4, <2>2 DEF OpenIds
  <2>3. CASE Closes
    BY <1>4, <2>3, ClosesShrinks
  <2> QED
    BY <2>1, <2>2, <2>3, TableStep
<1> QED
  BY <1>1, <1>2, <1>3, <1>4, ClosingStep

(* A sweep never leaves behind a position its payload stops or fills.       *)
THEOREM Sweeps == Spec => []SweepMissesNothing
<1>1. Init => SweepMissesNothing
  BY DEF Init, SweepMissesNothing
<1>2. BaseInv /\ SweepMissesNothing /\ [Next]_vars => SweepMissesNothing'
  BY SweepStep
<1> QED
  BY <1>1, <1>2, BaseInvariance, PTL DEF Spec

-----------------------------------------------------------------------------
(* The rate limit                                                           *)

(* The last evaluation of a series is at or after that of every entry made  *)
(* on it, and an automatic request past its evaluation is late enough.      *)
EntriesInv ==
    /\ \A series \in Series : lastEval[series] # Never => lastEval[series] <= clock
    /\ \A e \in entries : /\ e.id <= Len(trades)
                           /\ lastEval[e.series] # Never
                           /\ e.at <= lastEval[e.series]
    /\ \A t \in Threads : pc[t] \in {"check", "insert"} =>
          /\ lastEval[req[t].series] = req[t].at
          /\ ~req[t].force =>
                \A e \in entries : e.series = req[t].series =>
                    req[t].at >= e.at + Interval
    /\ RateLimited

(* Every step keeps the entries, the evaluations and the clock in order. *)
LEMMA EntriesStep ==
    ASSUME BaseInv, EntriesInv, [Next]_vars
    PROVE  EntriesInv'
<1> DEFINE Frame == /\ UNCHANGED <<lastEval, entries>>
                    /\ clock' >= clock
                    /\ Len(trades') = Len(trades)
                    /\ \A u \in Threads : pc'[u] \in {"check", "insert"} =>
                          pc[u] \in {"check", "insert"} /\ req'[u] = req[u]
<1> USE DEF EntriesInv
<1>1. ASSUME Frame PROVE EntriesInv'
  <2>1. RateLimited'
    BY <1>1 DEF RateLimited
  <2>2. ASSUME NEW u \in Threads, pc'[u] \in {"check", "insert"}
        PROVE  /\ lastEval'[req'[u].series] = req'[u].at
               /\ ~req'[u].force =>
                     \A e \in entries' : e.series = req'[u].series =>
                         req'[u].at >= e.at + Interval
    BY <1>1, <2>2
  <2>3. ASSUME NEW series \in Series, lastEval'[series] # Never
        PROVE  lastEval'[series] <= clock'
    <3>1. lastEval[series] \in Nat /\ lastEval[series] <= clock
      BY <1>1, <2>3 DEF BaseInv, TypeOK
    <3>2. clock \in Nat /\ clock' \in Nat
      BY RequestBase, AcquireBase, WorkBase, OtherBase DEF Next, BaseInv, TypeOK
    <3> QED
      BY <1>1, <3>1, <3>2
  <2> QED
    BY <1>1, <2>1, <2>2, <2>3
<1>2. Closes => Len(trades') = Len(trades)
  <2> SUFFICES ASSUME Closes PROVE Len(trades') = Len(trades)
    OBVIOUS
  <2> PICK i \in DOMAIN trades, price \in Int, reason \in {"STOP", "TARGET", "MANUAL"} :
          ClosesAt(i, price, reason)
    BY DEF Closes
  <2> QED
    BY CloseKeepsType DEF ClosesAt, BaseInv, TypeOK
<1>3. ASSUME \A t \in Threads : ~OpenPosition(t) PROVE Len(trades') = Len(trades)
  BY <1>2, <1>3, TableStep
<1>4. clock \in Nat
  BY DEF BaseInv, TypeOK
<1>5. ASSUME NEW t \in Threads, Request(t) PROVE Frame
  <2>1. ASSUME NEW r, Arrive(t, r), UNCHANGED <<lastEval, entries, clock, trades>>
        PROVE  Frame
    BY <1>4, <2>1 DEF Arrive, BaseInv, TypeOK
  <2> QED
    BY <1>5, <2>1 DEF Request, RequestOpen, RequestClose, Ingest
<1>6. ASSUME NEW t \in Threads, Acquire(t) PROVE Frame
  <2>1. req[t].op \notin {"check", "insert"}
    BY <1>6 DEF Acquire, BaseInv, TypeOK, OpenRequest, CloseRequest, SweepRequest
  <2> QED
    BY <1>4, <1>6, <2>1 DEF Acquire, BaseInv, TypeOK
<1>7. ASSUME NEW t \in Threads, Release(t), UNCHANGED <<lastEval, entries, clock>>,
             \A u \in Threads : ~OpenPosition(u)
      PROVE  Frame
  BY <1>3, <1>4, <1>7 DEF Release, BaseInv, TypeOK
<1>8. ASSUME NEW t \in Threads, Evaluate(t) PROVE EntriesInv'
  <2> USE <1>8 DEF Evaluate
  <2>1. req[t] \in OpenRequest
    BY DEF BaseInv, TypeOK
  <2>2. /\ req'[t].series = req[t].series /\ req'[t].force = req[t].force
        /\ req'[t].at = clock
        /\ pc'[t] = "check"
        /\ lastEval'[req[t].series] = clock
        /\ \A series \in Series : series # req[t].series =>
              lastEval'[series] = lastEval[series]
    BY <2>1 DEF BaseInv, TypeOK, OpenRequest
  <2>3. \A u \in Threads : u # t => pc'[u] \notin {"check", "insert"}
    BY DEF BaseInv, TypeOK, LockOK, Critical
  <2>4. clock # Never
    BY <1>4, SentinelAssumption
  <2>5. \A e \in entries : e \in Entry /\ lastEval[e.series] \in Nat
    BY DEF BaseInv, TypeOK, Entry
  <2>6. ~req[t].force =>
          \A e \in entries : e.series = req[t].series => clock >= e.at + Interval
    BY <1>4, <2>1, <2>5, ServiceAssumption DEF Due, Entry
  <2>7. \A series \in Series : lastEval'[series] # Never => lastEval'[series] <= clock
    BY <1>4, <2>2
  <2>8. \A e \in entries : /\ e.id <= Len(trades)
                           /\ lastEval'[e.series] # Never
                           /\ e.at <= lastEval'[e.series]
    BY <1>4, <2>2, <2>4, <2>5 DEF Entry
  <2> QED
    BY <2>2, <2>3, <2>6, <2>7, <2>8 DEF RateLimited
<1>9. ASSUME NEW t \in Threads, NoneOpen(t) PROVE Frame
  BY <1>4, <1>9 DEF NoneOpen, BaseInv, TypeOK
<1>10. ASSUME NEW t \in Threads, OpenPosition(t) PROVE EntriesInv'
  <2> DEFINE new == [id |-> Len(trades) + 1, series |-> req[t].series,
                     force |-> req[t].force, at |-> req[t].at]
  <2> USE <1>10
  <2>1. /\ entries' = entries \cup {new} /\ UNCHANGED <<lastEval, clock>>
        /\ pc[t] = "insert"
    BY DEF OpenPosition
  <2>2. /\ req[t].at \in Nat /\ req[t].series \in Series
        /\ Len(trades) \in Nat /\ Len(trades') = Len(trades) + 1
    BY OpenAppends DEF OpenRequest
  <2>3. lastEval[req[t].series] = req[t].at
    BY <2>1
  <2>4. \A e \in entries : e \in Entry /\ e.id <= Len(trades)
    BY DEF BaseInv, TypeOK
  <2>5. \A u \in Threads : pc'[u] \notin {"check", "insert"}
    BY DEF OpenPosition, Release, BaseInv, TypeOK, LockOK, Critical
  <2>6. RateLimited'
    <3> SUFFICES ASSUME NEW a \in entries', NEW b \in entries',
                        a.series = b.series, a.id < b.id, ~b.force
                 PROVE  b.at >= a.at + Interval
      BY DEF RateLimited
    <3>1. CASE a \in entries /\ b \in entries
      BY <3>1 DEF RateLimited
    <3>2. CASE a \in entries /\ b = new
      BY <2>1, <3>2
    <3>3. CASE a = new
      BY <2>1, <2>2, <2>4, <3>3 DEF Entry
    <3> QED
      BY <2>1, <3>1, <3>2, <3>3
  <2>7. \A e \in entries' : /\ e.id <= Len(trades')
                            /\ lastEval[e.series] # Never
                            /\ e.at <= lastEval[e.series]
    BY <2>1, <2>2, <2>3, <2>4, SentinelAssumption DEF Entry
  <2>8. \A series \in Series : lastEval'[series] # Never => lastEval'[series] <= clock'
    BY <2>1
  <2> QED
    BY <2>1, <2>5, <2>6, <2>7, <2>8
<1>11. ASSUME NEW t \in Threads,
              Sweep(t) \/ \E i \in 1..MaxTrades : CloseNext(t, i)
       PROVE  Frame
  <2>1. \A u \in Threads : ~OpenPosition(u)
    BY <1>11 DEF Sweep, CloseNext, OpenPosition, BaseInv, LockOK, Critical
  <2> QED
    BY <1>3, <1>4, <1>11, <2>1 DEF Sweep, CloseNext, BaseInv, TypeOK
<1>12. ASSUME NEW t \in Threads,
              \/ NotDue(t) \/ AlreadyOpen(t) \/ Decline(t) \/ CloseManually(t)
              \/ NothingToClose(t) \/ SweepDone(t) \/ Fail(t)
       PROVE  Frame
  <2>1. pc[t] \in Critical /\ (pc[t] = "insert" => UNCHANGED trades)
    BY <1>12
       DEF NotDue, AlreadyOpen, Decline, CloseManually, NothingToClose,
           SweepDone, Fail, Critical
  <2>2. \A u \in Threads : ~OpenPosition(u)
    <3> SUFFICES ASSUME NEW u \in Threads, OpenPosition(u) PROVE FALSE
      OBVIOUS
    <3>1. u = t /\ pc[t] = "insert"
      BY <2>1 DEF OpenPosition, BaseInv, LockOK, Critical
    <3> QED
      BY <2>1, <3>1, OpenAppends
  <2> QED
    BY <1>7, <1>12, <2>2
       DEF NotDue, AlreadyOpen, Decline, CloseManually, NothingToClose,
           SweepDone, Fail
<1>13. CASE Crash
  BY <1>13 DEF Crash, RateLimited
<1>14. Tick \/ UNCHANGED vars => Frame
  BY <1>4 DEF Tick, vars
<1> HIDE DEF EntriesInv, Frame
<1> QED
  BY <1>1, <1>5, <1>6, <1>8, <1>9, <1>10, <1>11, <1>12, <1>13, <1>14
     DEF Next, Work

(* Automatic entries on a series are an interval apart, for every interval, *)
(* while explicit requests, closes, failures and crashes interleave.        *)
THEOREM RateLimit == Spec => []RateLimited
<1>1. Init => EntriesInv
  BY DEF Init, EntriesInv, RateLimited
<1>2. BaseInv /\ EntriesInv /\ [Next]_vars => EntriesInv'
  BY EntriesStep
<1>3. EntriesInv => RateLimited
  BY DEF EntriesInv
<1> QED
  BY <1>1, <1>2, <1>3, BaseInvariance, PTL DEF Spec
=============================================================================
