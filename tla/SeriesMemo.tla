------------------------------ MODULE SeriesMemo ------------------------------
(***************************************************************************)
(* The readings of /api/analysis and /api/signal over one series, reused    *)
(* through the memo of backend/analysis/memo.py while CandleStore keeps     *)
(* changing the bars.  The handlers run in a pool of threads: taking the    *)
(* fingerprint, each operation on the OrderedDict, and reading the bars are *)
(* steps of their own.                                                      *)
(*                                                                          *)
(* A key stands for (symbol, timeframe, limit, strategy, parameters); the   *)
(* keys here read the same series.                                          *)
(***************************************************************************)
EXTENDS CandleStore, Sequences

CONSTANTS
    Threads, Keys,
    MaxEntries,     \* the memo's ceiling (96 in the code)
    NoKey, NoEntry, NoReading

(* AnyIO's pool has 40 threads. *)
ASSUME MemoAssumption ==
    /\ MaxEntries \in Nat
    /\ IsFiniteSet(Threads) /\ Cardinality(Threads) <= MaxEntries + 1

VARIABLES
    entry,      \* Memo._store: [Keys -> Entry or NoEntry]
    order,      \* the keys of the OrderedDict, least recently used first
    pc,         \* where each thread is
    asked,      \* the key it is asked for
    print,      \* the fingerprint it took
    reading,    \* what it computed and has not stored yet
    seen        \* history: the readings there could have been since it asked

memoVars == <<entry, order, pc, asked, print, reading>>
vars == <<newest, elapsed, capture, stored, revised,
          entry, order, pc, asked, print, reading, seen>>

RowsHeld == {i \in Bars : stored[i] # NoRow}

(* Mutant: only the newest timestamp. *)
FingerprintNewest ==
    <<1, IF RowsHeld = {} THEN 0 ELSE CHOOSE i \in RowsHeld : \A j \in RowsHeld : j <= i>>

(* CandleRepository.fingerprint: the row count and the newest timestamp. *)
Fingerprint ==
    <<Cardinality(RowsHeld),
      IF RowsHeld = {} THEN 0 ELSE CHOOSE i \in RowsHeld : \A j \in RowsHeld : j <= i>>

(* analyse / signal_with_timeframes: a function of the closed bars          *)
(* (candles_to_frame drops the forming one).  `rows` is the number of rows  *)
(* that were read.                                                          *)
Read ==
    [closed |-> {<<i, stored[i].prices>> : i \in {j \in RowsHeld : stored[j].complete}},
     rows   |-> Cardinality(RowsHeld)]

Reading == [closed : SUBSET (Bars \X Prices), rows : Nat]
Entry == [print : Nat \X Nat, reading : Reading]

ASSUME NoEntryAssumption == NoEntry \notin Entry

MemoInit ==
    /\ entry = [k \in Keys |-> NoEntry]
    /\ order = << >>
    /\ pc = [t \in Threads |-> "idle"]
    /\ asked = [t \in Threads |-> NoKey]
    /\ print = [t \in Threads |-> <<0, 0>>]
    /\ reading = [t \in Threads |-> NoReading]

Init == StoreInit /\ MemoInit /\ seen = [t \in Threads |-> {}]

Goto(t, label) == pc' = [pc EXCEPT ![t] = label]

(* The reading is stored or found; the rest of the handler looks at neither. *)
Forget(t) ==
    /\ print' = [print EXCEPT ![t] = <<0, 0>>]
    /\ reading' = [reading EXCEPT ![t] = NoReading]

(* The order in which k has become the last. *)
MovedToEnd(k) ==
    LET place == CHOOSE n \in DOMAIN order : order[n] = k
    IN  [n \in DOMAIN order |-> IF n < place THEN order[n]
                               ELSE IF n < Len(order) THEN order[n + 1] ELSE k]

-----------------------------------------------------------------------------
(* _series_fingerprint, before anything is looked up. *)
TakePrint(t, k) ==
    /\ pc[t] = "idle"
    /\ asked' = [asked EXCEPT ![t] = k]
    /\ print' = [print EXCEPT ![t] = Fingerprint]
    /\ Goto(t, "get")
    /\ UNCHANGED <<storeVars, entry, order, reading>>

(* Memo.get: the entry is there and was stored under this fingerprint. *)
IsHit(t) ==
    /\ entry[asked[t]] # NoEntry
    /\ entry[asked[t]].print = print[t]

(* What a hit answers is the entry's reading, which is not kept here. *)
GetHit(t) ==
    /\ pc[t] = "get"
    /\ IsHit(t)
    /\ Forget(t)
    /\ Goto(t, "touch")
    /\ UNCHANGED <<storeVars, entry, order, asked>>

GetMiss(t) ==
    /\ pc[t] = "get"
    /\ ~IsHit(t)
    /\ Goto(t, "compute")
    /\ UNCHANGED <<storeVars, entry, order, asked, print, reading>>

(* move_to_end, which raises KeyError when the key is gone. *)
Touch(t, from, next) ==
    /\ pc[t] = from
    /\ IF entry[asked[t]] # NoEntry
       THEN /\ order' = MovedToEnd(asked[t])
            /\ Goto(t, next)
       ELSE Goto(t, "raised") /\ UNCHANGED order
    /\ UNCHANGED <<storeVars, entry, asked, print, reading>>

Compute(t) ==
    /\ pc[t] = "compute"
    /\ reading' = [reading EXCEPT ![t] = Read]
    /\ Goto(t, "put")
    /\ UNCHANGED <<storeVars, entry, order, asked, print>>

(* Memo.put: self._store[key] = ..., a new key goes last. *)
Put(t) ==
    /\ pc[t] = "put"
    /\ entry' = [entry EXCEPT ![asked[t]] =
                    [print |-> print[t], reading |-> reading[t]]]
    /\ order' = IF entry[asked[t]] = NoEntry THEN Append(order, asked[t]) ELSE order
    /\ Forget(t)
    /\ Goto(t, "putTouch")
    /\ UNCHANGED <<storeVars, asked>>

(* Mutant: one entry too many is kept. *)
EvictLate(t) ==
    /\ pc[t] = "evict"
    /\ Goto(t, IF Len(order) > MaxEntries + 1 THEN "pop" ELSE "answer")
    /\ UNCHANGED <<storeVars, entry, order, asked, print, reading>>

(* while len(self._store) > self._max: another thread can pop between the   *)
(* test and the popitem, so that more than the excess goes.                 *)
Evict(t) ==
    /\ pc[t] = "evict"
    /\ Goto(t, IF Len(order) > MaxEntries THEN "pop" ELSE "answer")
    /\ UNCHANGED <<storeVars, entry, order, asked, print, reading>>

(* popitem(last=False), of a dictionary that is not empty: the ceiling is   *)
(* well above the number of threads.                                        *)
Pop(t) ==
    /\ pc[t] = "pop"
    /\ entry' = [entry EXCEPT ![Head(order)] = NoEntry]
    /\ order' = Tail(order)
    /\ Goto(t, "evict")
    /\ UNCHANGED <<storeVars, asked, print, reading>>

(* The handler returns, or answers 500 with the exception. *)
Answer(t) ==
    /\ pc[t] \in {"answer", "raised"}
    /\ Goto(t, "idle")
    /\ asked' = [asked EXCEPT ![t] = NoKey]
    /\ UNCHANGED <<storeVars, entry, order, print, reading>>

Step(t) ==
    \/ \E k \in Keys : TakePrint(t, k)
    \/ GetHit(t)
    \/ GetMiss(t)
    \/ Touch(t, "touch", "answer")
    \/ Compute(t)
    \/ Put(t)
    \/ Touch(t, "putTouch", "evict")
    \/ Evict(t)
    \/ Pop(t)
    \/ Answer(t)

Move ==
    \/ StoreNext /\ UNCHANGED memoVars
    \/ \E t \in Threads : Step(t)

(* History: while a thread that took its fingerprint has not looked its key *)
(* up, each state of the table is one it could have read.                   *)
Observe ==
    seen' = [t \in Threads |->
                IF pc'[t] = "get"
                THEN (IF pc[t] = "get" THEN seen[t] ELSE {}) \cup {Read'}
                ELSE {}]

Next == Move /\ Observe

Spec == Init /\ [][Next]_vars

-----------------------------------------------------------------------------
Labels == {"idle", "get", "touch", "compute", "put", "putTouch", "evict",
           "pop", "answer", "raised"}

(* Every variable has its type; the OrderedDict is one, its order lists     *)
(* each stored key once; and it is over its ceiling only while some thread  *)
(* is about to evict.                                                       *)
TypeOK ==
    /\ StoreTypeOK
    /\ entry \in [Keys -> Entry \cup {NoEntry}]
    /\ order \in Seq(Keys)
    /\ \A k \in Keys :
          Cardinality({n \in 1..Len(order) : order[n] = k})
             = (IF entry[k] = NoEntry THEN 0 ELSE 1)
    /\ pc \in [Threads -> Labels]
    /\ asked \in [Threads -> Keys \cup {NoKey}]
    /\ print \in [Threads -> Nat \X Nat]
    /\ reading \in [Threads -> Reading \cup {NoReading}]
    /\ seen \in [Threads -> SUBSET Reading]
    /\ Len(order) > MaxEntries => \E t \in Threads : pc[t] \in {"putTouch", "evict", "pop"}

(* As long as bars are only ever added (and no row that is there changes),  *)
(* what the memo answers a request is the reading of the table as it was at *)
(* some instant of that request, although the entry's fingerprint, its      *)
(* reading and its storing were three steps of another request, between     *)
(* which bars came, gaps filled behind the newest one included.             *)
ServedWasCurrent ==
    ~revised =>
        \A t \in Threads :
            pc[t] = "get" /\ IsHit(t) => entry[asked[t]].reading \in seen[t]

(* A cached reading is a current reading: what the memo would serve under   *)
(* the table's fingerprint is what the table's bars say.                    *)
CachedIsCurrent ==
    \A k \in Keys :
        (entry[k] # NoEntry /\ entry[k].print = Fingerprint) => entry[k].reading = Read

(* The worst a race between two readers does is to compute a reading twice: *)
(* no reader finds its key gone and fails.                                  *)
NoReaderFails == \A t \in Threads : pc[t] # "raised"
=============================================================================
