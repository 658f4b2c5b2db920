--------------------------- MODULE CandleStoreProofs ---------------------------
(* What the candles table may say, for any number of bars and of captures in *)
(* flight.                                                                   *)
EXTENDS CandleStore, TLAPS

(* A response or a post lists no bar the market has not opened, and says of  *)
(* its last bar nothing the market has not shown.                            *)
SaysObserved(message) ==
    /\ message \in Response \cup Post => message.last <= newest
    /\ message \in Response /\ message.prices = "final"
          => IntervalOver(message.last)
    /\ message \in Post /\ (message.prices = "final" \/ message.complete)
          => IntervalOver(message.last)

StoreInv ==
    /\ StoreTypeOK
    /\ \A c \in Captures : SaysObserved(capture[c])
    /\ RowsAreObserved

LEMMA MessagesApart ==
    /\ \A m \in Response : m \notin Post /\ m # Free
    /\ \A m \in Post : m \notin Response /\ m # Free
  BY AbsentAssumption DEF Response, Post

(* What has been observed stays so while the market goes on. *)
LEMMA MarketGoesOn ==
    ASSUME StoreInv, UNCHANGED <<capture, stored, revised>>,
           newest' \in 0..MaxBar, elapsed' \in BOOLEAN,
           newest <= newest',
           \A i \in Bars : IntervalOver(i) => IntervalOver(i)'
    PROVE  StoreInv'
  <1>1. StoreTypeOK'
    BY DEF StoreInv, StoreTypeOK
  <1>2. RowsAreObserved'
    BY DEF StoreInv, RowsAreObserved
  <1>3. ASSUME NEW c \in Captures PROVE SaysObserved(capture[c])'
    <2> DEFINE m == capture[c]
    <2>1. m' = m /\ SaysObserved(m)
      BY DEF StoreInv
    <2>2. m \in Response \cup Post => m.last \in Bars
      BY DEF Response, Post
    <2>3. m \in Response \cup Post => m.last <= newest'
      BY <2>1, <2>2, StoreAssumption DEF SaysObserved, StoreInv, StoreTypeOK, Bars
    <2> QED
      BY <2>1, <2>2, <2>3 DEF SaysObserved
  <1> QED
    BY <1>1, <1>2, <1>3 DEF StoreInv

LEMMA StoreInitInv == StoreInit => StoreInv
  <1> SUFFICES ASSUME StoreInit PROVE StoreInv
    OBVIOUS
  <1>1. StoreTypeOK
    <2>1. newest \in 0..MaxBar
      BY StoreAssumption DEF StoreInit
    <2>2. elapsed \in BOOLEAN /\ revised \in BOOLEAN
      BY Zenon DEF StoreInit
    <2>3. /\ capture \in [Captures -> Response \cup Post \cup {Free}]
          /\ stored \in [Bars -> Row \cup {NoRow}]
      BY Zenon DEF StoreInit
    <2> QED
      BY <2>1, <2>2, <2>3 DEF StoreTypeOK
  <1>2. \A c \in Captures : SaysObserved(capture[c])
    BY AbsentAssumption DEF StoreInit, SaysObserved
  <1>3. RowsAreObserved
    BY DEF StoreInit, RowsAreObserved
  <1> QED
    BY <1>1, <1>2, <1>3 DEF StoreInv

(* A capture takes another message, or none, that says what is observed. *)
LEMMA CaptureKeeps ==
    ASSUME StoreInv, NEW c \in Captures,
           NEW m \in Response \cup Post \cup {Free}, SaysObserved(m),
           capture' = [capture EXCEPT ![c] = m],
           UNCHANGED <<newest, elapsed, stored, revised>>
    PROVE  StoreInv'
  BY DEF StoreInv, StoreTypeOK, SaysObserved, RowsAreObserved, IntervalOver

(* The row a post makes of a bar it lists. *)
LEMMA PostedRowObserved ==
    ASSUME newest \in 0..MaxBar, NEW post \in Post, SaysObserved(post),
           NEW i \in Bars, i \in post.first..post.last
    PROVE  /\ PostedRow(post, i) \in Row
           /\ PostedRow(post, i).complete \/ PostedRow(post, i).prices = "final"
                 => IntervalOver(i)
  <1>1. /\ post.last \in Bars /\ post.first \in Bars /\ post.last <= newest
        /\ post.prices \in Prices /\ post.complete \in BOOLEAN
    BY DEF SaysObserved, Post
  <1>2. CASE i < post.last
    <2>1. IntervalOver(i)
      BY <1>1, <1>2, StoreAssumption DEF IntervalOver, Bars
    <2> QED
      BY <1>2, <2>1 DEF PostedRow, Row, Prices
  <1>3. CASE ~(i < post.last)
    <2>1. i = post.last
      BY <1>1, <1>3, StoreAssumption DEF Bars
    <2>2. PostedRow(post, i) = [prices |-> post.prices, complete |-> post.complete]
      BY <1>3 DEF PostedRow
    <2> QED
      BY <1>1, <2>1, <2>2 DEF SaysObserved, Row
  <1> QED
    BY <1>2, <1>3

LEMMA MergeRowType ==
    ASSUME NEW old \in Row, NEW new \in Row
    PROVE  /\ MergeRow(old, new) \in Row
           /\ MergeRow(old, new).prices = new.prices
           /\ MergeRow(old, new).complete = (old.complete \/ new.complete)
  <1>1. /\ new.prices \in Prices
        /\ old.complete \in BOOLEAN /\ new.complete \in BOOLEAN
    BY DEF Row
  <1> DEFINE either == old.complete \/ new.complete
  <1>2. either \in BOOLEAN
    BY <1>1
  <1>3. MergeRow(old, new) = [prices |-> new.prices, complete |-> either]
    BY DEF MergeRow
  <1> HIDE DEF either
  <1>4. /\ MergeRow(old, new) \in Row
        /\ MergeRow(old, new).prices = new.prices
        /\ MergeRow(old, new).complete = either
    BY <1>1, <1>2, <1>3 DEF Row
  <1> QED
    BY <1>4 DEF either

(* Prices are overwritten and the marks are joined: both come from rows that *)
(* say what is observed.                                                     *)
LEMMA UpsertKeeps ==
    ASSUME StoreInv, NEW post \in Post, SaysObserved(post)
    PROVE  /\ Upserted(post) \in [Bars -> Row \cup {NoRow}]
           /\ \A i \in Bars :
                 /\ Upserted(post)[i] # NoRow
                 /\ Upserted(post)[i].complete \/ Upserted(post)[i].prices = "final"
                 => IntervalOver(i)
  <1>1. ASSUME NEW i \in Bars
        PROVE  /\ Upserted(post)[i] \in Row \cup {NoRow}
               /\ /\ Upserted(post)[i] # NoRow
                  /\ Upserted(post)[i].complete \/ Upserted(post)[i].prices = "final"
                  => IntervalOver(i)
    <2> DEFINE new == PostedRow(post, i)
               row == Upserted(post)[i]
    <2>1. /\ stored[i] \in Row \cup {NoRow}
          /\ /\ stored[i] # NoRow
             /\ stored[i].complete \/ stored[i].prices = "final"
             => IntervalOver(i)
      BY DEF StoreInv, StoreTypeOK, RowsAreObserved
    <2>2. CASE i \notin post.first..post.last
      BY <2>1, <2>2 DEF Upserted
    <2>3. CASE i \in post.first..post.last
      <3>1. /\ new \in Row
            /\ new.complete \/ new.prices = "final" => IntervalOver(i)
        BY <2>3, PostedRowObserved DEF StoreInv, StoreTypeOK
      <3>2. CASE stored[i] = NoRow
        <4>1. row = new
          BY <2>3, <3>2 DEF Upserted
        <4> QED
          BY <3>1, <4>1
      <3>3. CASE stored[i] # NoRow
        <4>1. row = MergeRow(stored[i], new)
          BY <2>3, <3>3 DEF Upserted
        <4>2. /\ row \in Row
              /\ row.prices = new.prices
              /\ row.complete = (stored[i].complete \/ new.complete)
          BY <2>1, <3>1, <3>3, <4>1, MergeRowType
        <4>3. row.complete => IntervalOver(i)
          BY <2>1, <3>1, <3>3, <4>2
        <4> HIDE DEF new, row
        <4>4. row.complete \/ row.prices = "final" => IntervalOver(i)
          BY <3>1, <4>2, <4>3
        <4> QED
          BY <4>2, <4>4 DEF row
      <3> QED
        BY <3>2, <3>3
    <2> QED
      BY <2>2, <2>3
  <1>2. Upserted(post) = [i \in Bars |-> Upserted(post)[i]]
    BY DEF Upserted
  <1> QED
    BY <1>1, <1>2

LEMMA StoreStepInv == StoreInv /\ [StoreNext]_storeVars => StoreInv'
  <1> SUFFICES ASSUME StoreInv, [StoreNext]_storeVars PROVE StoreInv'
    OBVIOUS
  <1>1. CASE OpenBar
    <2>1. /\ UNCHANGED <<capture, stored, revised>>
          /\ newest \in Nat /\ newest' = newest + 1 /\ newest < MaxBar
          /\ elapsed' = FALSE
      BY <1>1, StoreAssumption DEF OpenBar, StoreInv, StoreTypeOK
    <2>2. newest' \in 0..MaxBar /\ newest <= newest'
      BY <2>1, StoreAssumption
    <2>4. elapsed' \in BOOLEAN
      BY <2>1, Zenon
    <2>3. \A i \in Bars : IntervalOver(i) => IntervalOver(i)'
      BY <2>1, StoreAssumption DEF IntervalOver, Bars
    <2> QED
      BY <2>1, <2>2, <2>3, <2>4, MarketGoesOn
  <1>2. CASE CloseBar
    BY <1>2, MarketGoesOn, StoreAssumption
    DEF CloseBar, StoreInv, StoreTypeOK, IntervalOver, Bars
  <1>3. ASSUME NEW c \in Captures, NEW first \in Bars, Respond(c, first)
        PROVE  StoreInv'
    <2> DEFINE m == [stage |-> "response", first |-> first, last |-> newest,
                     prices |-> IF elapsed THEN "final" ELSE "forming"]
    <2>1. newest \in Bars
      BY <1>3, StoreAssumption DEF Respond, StoreInv, StoreTypeOK, Bars
    <2>2. m \in Response
      BY <2>1 DEF Response, Prices
    <2>3. SaysObserved(m)
      BY <2>1, <2>2, MessagesApart, StoreAssumption
      DEF SaysObserved, IntervalOver, Bars
    <2>4. /\ capture' = [capture EXCEPT ![c] = m]
          /\ UNCHANGED <<newest, elapsed, stored, revised>>
      BY <1>3 DEF Respond
    <2> HIDE DEF m
    <2> QED
      BY <2>2, <2>3, <2>4, CaptureKeeps
  <1>4. ASSUME NEW c \in Captures, Parse(c) PROVE StoreInv'
    <2> DEFINE r == capture[c]
               m == [stage |-> "post", first |-> r.first, last |-> r.last,
                     prices |-> r.prices, complete |-> IntervalOver(r.last)]
    <2>1. r \in Response /\ SaysObserved(r)
      BY <1>4 DEF Parse, StoreInv
    <2>2. m \in Post
      BY <2>1 DEF Response, Post, IntervalOver
    <2>3. SaysObserved(m)
      BY <2>1, <2>2, MessagesApart DEF SaysObserved
    <2>4. /\ capture' = [capture EXCEPT ![c] = m]
          /\ UNCHANGED <<newest, elapsed, stored, revised>>
      BY <1>4 DEF Parse
    <2> HIDE DEF m
    <2> QED
      BY <2>2, <2>3, <2>4, CaptureKeeps
  <1>5. ASSUME NEW c \in Captures, Lose(c) PROVE StoreInv'
    <2>1. SaysObserved(Free)
      BY AbsentAssumption DEF SaysObserved
    <2> QED
      BY <1>5, <2>1, CaptureKeeps DEF Lose
  <1>6. ASSUME NEW c \in Captures, Deliver(c) PROVE StoreInv'
    <2>1. capture[c] \in Post /\ SaysObserved(capture[c])
      BY <1>6 DEF Deliver, StoreInv
    <2>2. /\ stored' = Upserted(capture[c])
          /\ revised' \in BOOLEAN
          /\ capture' = [capture EXCEPT ![c] = Free]
          /\ newest' = newest /\ elapsed' = elapsed
      BY <1>6 DEF Deliver
    <2>3. /\ stored' \in [Bars -> Row \cup {NoRow}]
          /\ \A i \in Bars :
                /\ stored'[i] # NoRow
                /\ stored'[i].complete \/ stored'[i].prices = "final"
                => IntervalOver(i)
      BY <2>1, <2>2, UpsertKeeps
    <2>4. RowsAreObserved'
      BY <2>2, <2>3 DEF RowsAreObserved, IntervalOver
    <2>5. StoreTypeOK'
      BY <2>2, <2>3 DEF StoreInv, StoreTypeOK
    <2>6. ASSUME NEW d \in Captures PROVE SaysObserved(capture[d])'
      <3>1. capture'[d] \in {Free, capture[d]} /\ SaysObserved(capture[d])
        BY <2>2 DEF StoreInv, StoreTypeOK
      <3> QED
        BY <2>2, <3>1, AbsentAssumption DEF SaysObserved, IntervalOver
    <2> QED
      BY <2>4, <2>5, <2>6 DEF StoreInv
  <1>7. CASE UNCHANGED storeVars
    BY <1>7
    DEF storeVars, StoreInv, StoreTypeOK, SaysObserved, RowsAreObserved,
        IntervalOver
  <1> QED
    BY <1>1, <1>2, <1>3, <1>4, <1>5, <1>6, <1>7 DEF StoreNext

LEMMA StoreInvariance == StoreSpec => []StoreInv
  BY StoreInitInv, StoreStepInv, PTL DEF StoreSpec

-----------------------------------------------------------------------------
(* Every variable has its type. *)
THEOREM StoreTypes == StoreSpec => []StoreTypeOK
  <1>1. StoreInv => StoreTypeOK
    BY DEF StoreInv
  <1> QED
    BY <1>1, StoreInvariance, PTL

(* However responses are delayed, lost and overtake each other, the table    *)
(* says nothing of a bar that the market has not shown.                      *)
THEOREM RowsObserved == StoreSpec => []RowsAreObserved
  <1>1. StoreInv => RowsAreObserved
    BY DEF StoreInv
  <1> QED
    BY <1>1, StoreInvariance, PTL

(* A bar that was marked closed is never marked forming again, and no row    *)
(* disappears: upsert_many joins the marks.                                  *)
THEOREM ClosedStays ==
    StoreSpec =>
        [][\A i \in Bars : stored[i] # NoRow =>
              stored'[i] # NoRow /\ (stored[i].complete => stored'[i].complete)]_storeVars
  <1> DEFINE Kept == \A i \in Bars : stored[i] # NoRow =>
                stored'[i] # NoRow /\ (stored[i].complete => stored'[i].complete)
  <1>1. ASSUME StoreInv, [StoreNext]_storeVars PROVE Kept
    <2>1. CASE UNCHANGED stored
      BY <2>1
    <2>2. ASSUME NEW c \in Captures, Deliver(c) PROVE Kept
      <3> SUFFICES ASSUME NEW i \in Bars, stored[i] # NoRow
                   PROVE  /\ stored'[i] # NoRow
                          /\ stored[i].complete => stored'[i].complete
        OBVIOUS
      <3>1. /\ stored' = Upserted(capture[c])
            /\ stored' \in [Bars -> Row \cup {NoRow}]
            /\ capture[c] \in Post
        BY <1>1, <2>2, UpsertKeeps DEF Deliver, StoreInv
      <3>2. CASE i \notin capture[c].first..capture[c].last
        BY <3>1, <3>2 DEF Upserted
      <3>3. CASE i \in capture[c].first..capture[c].last
        <4>1. stored'[i] = MergeRow(stored[i], PostedRow(capture[c], i))
          BY <3>1, <3>3 DEF Upserted
        <4>2. PostedRow(capture[c], i) \in Row
          BY <1>1, <3>1, <3>3, PostedRowObserved DEF StoreInv, StoreTypeOK
        <4>3. stored[i] \in Row
          BY <1>1 DEF StoreInv, StoreTypeOK
        <4>4. /\ stored'[i] \in Row
              /\ stored'[i].complete
                    = (stored[i].complete \/ PostedRow(capture[c], i).complete)
          BY <4>1, <4>2, <4>3, MergeRowType
        <4> QED
          BY <4>4, AbsentAssumption
      <3> QED
        BY <3>2, <3>3
    <2> QED
      BY <1>1, <2>1, <2>2
      DEF StoreNext, storeVars, OpenBar, CloseBar, Respond, Parse, Lose
  <1>2. StoreInv /\ [StoreNext]_storeVars => [Kept]_storeVars
    BY <1>1
  <1> QED
    BY <1>2, StoreInvariance, PTL DEF StoreSpec
=============================================================================
