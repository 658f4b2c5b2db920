------------------------------ MODULE CandleStore ------------------------------
(***************************************************************************)
(* How one series of bars reaches the candles table: the shell overhears    *)
(* Fortrade's chart responses (desktop/main/candle-capture.ts), decides     *)
(* which bars are complete, and posts them to the backend, which upserts    *)
(* them (CandleRepository.upsert_many).  Every capture is asynchronous: the *)
(* response is written by Fortrade, its body is read and parsed later, and  *)
(* the POST arrives later still, overtaking and overtaken by others.        *)
(*                                                                          *)
(* A bar's prices are abstracted to "forming" (some price seen before its   *)
(* interval elapsed) or "final".                                            *)
(***************************************************************************)
EXTENDS Integers, FiniteSets

CONSTANTS
    MaxBar,     \* bound: bars of the series
    Captures,   \* responses in flight at once
    NoRow, Free

ASSUME StoreAssumption == MaxBar \in Nat

Bars == 1..MaxBar
Prices == {"forming", "final"}

VARIABLES
    newest,     \* the bar the market is in; 0 before the first
    elapsed,    \* its interval is over, and the next has had no tick yet
    capture,    \* [Captures -> a response, a post, or Free]
    stored,     \* the candles table: [Bars -> Row or NoRow]
    revised     \* history: an upsert has changed a row that was there

storeVars == <<newest, elapsed, capture, stored, revised>>

Row == [prices : Prices, complete : BOOLEAN]

(* A response lists the bars first..last; only its last bar can be forming. *)
Response == [stage : {"response"}, first : Bars, last : Bars, prices : Prices]
Post == [stage : {"post"}, first : Bars, last : Bars, prices : Prices,
         complete : BOOLEAN]

ASSUME AbsentAssumption == NoRow \notin Row /\ Free \notin Response \cup Post

StoreInit ==
    /\ newest = 0
    /\ elapsed = TRUE
    /\ capture = [c \in Captures |-> Free]
    /\ stored = [i \in Bars |-> NoRow]
    /\ revised = FALSE

-----------------------------------------------------------------------------
(* The market *)
OpenBar ==
    /\ elapsed
    /\ newest < MaxBar
    /\ newest' = newest + 1
    /\ elapsed' = FALSE
    /\ UNCHANGED <<capture, stored, revised>>

CloseBar ==
    /\ ~elapsed
    /\ elapsed' = TRUE
    /\ UNCHANGED <<newest, capture, stored, revised>>

(* Fortrade answers a chart request with bars first..newest. *)
Respond(c, first) ==
    /\ capture[c] = Free
    /\ first <= newest
    /\ capture' = [capture EXCEPT ![c] =
          [stage |-> "response", first |-> first, last |-> newest,
           prices |-> IF elapsed THEN "final" ELSE "forming"]]
    /\ UNCHANGED <<newest, elapsed, stored, revised>>

(* handle / parseChartPayload: `complete` is decided by the clock at the    *)
(* time the body is parsed, openedAt + durationMs <= now.                   *)
IntervalOver(i) == i < newest \/ (i = newest /\ elapsed)

(* Mutant: every bar received is taken for a closed one. *)
ParseAllClosed(c) ==
    /\ capture[c] \in Response
    /\ capture' = [capture EXCEPT ![c] =
          [stage |-> "post", first |-> capture[c].first, last |-> capture[c].last,
           prices |-> capture[c].prices, complete |-> TRUE]]
    /\ UNCHANGED <<newest, elapsed, stored, revised>>

Parse(c) ==
    /\ capture[c] \in Response
    /\ capture' = [capture EXCEPT ![c] =
          [stage |-> "post", first |-> capture[c].first, last |-> capture[c].last,
           prices |-> capture[c].prices,
           complete |-> IntervalOver(capture[c].last)]]
    /\ UNCHANGED <<newest, elapsed, stored, revised>>

(* The body cannot be read, the POST times out or is refused. *)
Lose(c) ==
    /\ capture[c] # Free
    /\ capture' = [capture EXCEPT ![c] = Free]
    /\ UNCHANGED <<newest, elapsed, stored, revised>>

-----------------------------------------------------------------------------
(* upsert_many: the prices are overwritten, `complete` is                   *)
(* MAX(candles.complete, excluded.complete).                                *)
PostedRow(post, i) ==
    IF i < post.last THEN [prices |-> "final", complete |-> TRUE]
    ELSE [prices |-> post.prices, complete |-> post.complete]

MergeRow(old, new) ==
    [prices |-> new.prices, complete |-> (old.complete \/ new.complete)]

Upserted(post) ==
    [i \in Bars |->
        IF i \notin post.first..post.last THEN stored[i]
        ELSE IF stored[i] = NoRow THEN PostedRow(post, i)
        ELSE MergeRow(stored[i], PostedRow(post, i))]

Deliver(c) ==
    /\ capture[c] \in Post
    /\ stored' = Upserted(capture[c])
    /\ revised' = (revised \/ \E i \in Bars : stored[i] \notin {NoRow, stored'[i]})
    /\ capture' = [capture EXCEPT ![c] = Free]
    /\ UNCHANGED <<newest, elapsed>>

StoreNext ==
    \/ OpenBar
    \/ CloseBar
    \/ \E c \in Captures :
          \/ \E first \in Bars : Respond(c, first)
          \/ Parse(c)
          \/ Lose(c)
          \/ Deliver(c)

StoreSpec == StoreInit /\ [][StoreNext]_storeVars

-----------------------------------------------------------------------------
(* Every variable has its type. *)
StoreTypeOK ==
    /\ newest \in 0..MaxBar
    /\ elapsed \in BOOLEAN
    /\ capture \in [Captures -> Response \cup Post \cup {Free}]
    /\ stored \in [Bars -> Row \cup {NoRow}]
    /\ revised \in BOOLEAN

(* The rows say nothing the market has not shown: a row marked closed is of *)
(* a bar whose interval is over, and final prices are of a closed bar.      *)
RowsAreObserved ==
    \A i \in Bars :
        /\ stored[i] # NoRow
        /\ stored[i].complete \/ stored[i].prices = "final"
        => IntervalOver(i)
=============================================================================
