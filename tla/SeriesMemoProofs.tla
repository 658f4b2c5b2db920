---------------------------- MODULE SeriesMemoProofs ----------------------------
(* The memo of readings, for any number of bars, keys and threads, as long   *)
(* as its ceiling is not far below the number of threads.                    *)
EXTENDS SeriesMemo, CandleStoreProofs, FiniteSetTheorems, WellFoundedInduction

MemoTypes ==
    /\ entry \in [Keys -> Entry \cup {NoEntry}]
    /\ order \in Seq(Keys)
    /\ pc \in [Threads -> Labels]
    /\ asked \in [Threads -> Keys \cup {NoKey}]
    /\ print \in [Threads -> Nat \X Nat]
    /\ reading \in [Threads -> Reading \cup {NoReading}]
    /\ \A t \in Threads : pc[t] # "idle" => asked[t] \in Keys
    /\ \A t \in Threads : pc[t] = "put" => reading[t] \in Reading

(* The order and the entries are of the same keys, each of them once. *)
OrderFits ==
    /\ \A m, n \in 1..Len(order) : order[m] = order[n] => m = n
    /\ \A k \in Keys : entry[k] # NoEntry <=> \E n \in 1..Len(order) : order[n] = k

(* The threads that will look at the length again.  One that is to move its  *)
(* key to the end does so unless the key is gone. *)
WillEvict ==
    {t \in Threads : \/ pc[t] \in {"evict", "pop"}
                     \/ pc[t] = "putTouch" /\ entry[asked[t]] # NoEntry}

SomebodyEvicts == Len(order) > MaxEntries => WillEvict # {}

(* Of the threads that found the dictionary too long each takes one entry,   *)
(* and the others have taken at most one since. *)
Popping == {t \in Threads : pc[t] = "pop"}

EnoughToPop ==
    Popping # {} =>
        Len(order) + Cardinality(Threads) >= MaxEntries + 1 + Cardinality(Popping)

(* As long as no row is revised the rows only become more: what was read of  *)
(* as many rows as there are now is the reading of now. *)
Count == Cardinality(RowsHeld)

Backed(p, r) ==
    /\ p[1] <= r.rows /\ r.rows <= Count
    /\ r.rows = Count => r = Read

ReadingsBacked ==
    ~revised =>
        /\ \A t \in Threads : print[t][1] <= Count
        /\ \A t \in Threads : pc[t] = "put" => Backed(print[t], reading[t])
        /\ \A k \in Keys : entry[k] # NoEntry => Backed(entry[k].print, entry[k].reading)

MemoInv ==
    /\ StoreInv
    /\ MemoTypes
    /\ OrderFits
    /\ SomebodyEvicts
    /\ EnoughToPop
    /\ ReadingsBacked

-----------------------------------------------------------------------------
(* A set of bars that is not empty has a newest one. *)
LEMMA NewestBar ==
    ASSUME NEW S \in SUBSET Bars, S # {}
    PROVE  \E i \in S : \A j \in S : j <= i
  <1> DEFINE left == {MaxBar - i : i \in S}
             less == OpToRel(<, Nat)
  <1>1. left \in SUBSET Nat /\ left # {}
    <2>1. \A i \in S : MaxBar - i \in Nat
      BY StoreAssumption DEF Bars
    <2> QED
      BY ONLY <2>1, S # {}
  <1>2. \E x \in left : \A y \in left : <<y, x>> \notin less
    <2> HIDE DEF left, less
    <2>1. IsWellFoundedOn(less, Nat)
      BY NatLessThanWellFounded DEF less
    <2> QED
      BY <1>1, <2>1, WFMin
  <1>3. PICK i \in S : \A y \in left : <<y, MaxBar - i>> \notin less
    BY <1>2
  <1>4. ASSUME NEW j \in S PROVE j <= i
    <2>1. MaxBar - j \in Nat /\ MaxBar - i \in Nat /\ i \in Int /\ j \in Int
      BY StoreAssumption DEF Bars
    <2>2. ~(MaxBar - j < MaxBar - i)
      BY <1>3, <2>1 DEF OpToRel
    <2> QED
      BY <2>1, <2>2, StoreAssumption
  <1> QED
    BY <1>4

LEMMA RowsCounted == IsFiniteSet(RowsHeld) /\ Count \in Nat
  <1>1. IsFiniteSet(Bars)
    BY FS_Interval, StoreAssumption DEF Bars
  <1>2. RowsHeld \in SUBSET Bars
    BY DEF RowsHeld
  <1> QED
    BY <1>1, <1>2, FS_Subset, FS_CardinalityType DEF Count

LEMMA FingerprintType == Fingerprint \in Nat \X Nat /\ Fingerprint[1] = Count
  <1> DEFINE newestHeld == IF RowsHeld = {} THEN 0
                           ELSE CHOOSE i \in RowsHeld : \A j \in RowsHeld : j <= i
  <1>1. newestHeld \in Nat
    <2>1. CASE RowsHeld = {}
      BY <2>1
    <2>2. CASE RowsHeld # {}
      <3>1. newestHeld \in RowsHeld
        BY <2>2, NewestBar DEF RowsHeld
      <3> QED
        BY <3>1 DEF RowsHeld, Bars
    <2> QED
      BY <2>1, <2>2
  <1>2. Fingerprint = <<Count, newestHeld>>
    BY DEF Fingerprint, Count
  <1> HIDE DEF newestHeld
  <1> QED
    BY <1>1, <1>2, RowsCounted

LEMMA ReadType == StoreTypeOK => Read \in Reading /\ Read.rows = Count
  <1> SUFFICES ASSUME StoreTypeOK PROVE Read \in Reading /\ Read.rows = Count
    OBVIOUS
  <1> DEFINE closed == {<<i, stored[i].prices>> : i \in {j \in RowsHeld : stored[j].complete}}
  <1>1. closed \in SUBSET (Bars \X Prices)
    BY DEF StoreTypeOK, RowsHeld, Row
  <1>2. Read = [closed |-> closed, rows |-> Count]
    BY DEF Read, Count
  <1> HIDE DEF closed
  <1> QED
    BY <1>1, <1>2, RowsCounted DEF Reading

(* The store goes on: the rows are those that were there and perhaps more. *)
LEMMA StoreGrows ==
    ASSUME StoreInv, StoreInv', StoreNext, ~revised'
    PROVE  /\ ~revised
           /\ Count <= Count'
           /\ Count = Count' => Read' = Read
  <1>1. revised \in BOOLEAN /\ revised' \in BOOLEAN
    BY DEF StoreInv, StoreTypeOK
  <1>2. CASE UNCHANGED <<stored, revised>>
    <2>1. RowsHeld' = RowsHeld
      BY <1>2 DEF RowsHeld
    <2>2. Count' = Count /\ Read' = Read
      BY <1>2, <2>1 DEF Count, Read
    <2> QED
      BY <1>2, <2>2, RowsCounted
  <1>3. ASSUME NEW c \in Captures, Deliver(c)
        PROVE  /\ ~revised
               /\ Count <= Count'
               /\ Count = Count' => Read' = Read
    <2>1. ~revised /\ \A i \in Bars : stored[i] \in {NoRow, stored'[i]}
      BY <1>1, <1>3 DEF Deliver
    <2>2. RowsHeld \in SUBSET RowsHeld'
      BY <2>1 DEF RowsHeld
    <2>3. IsFiniteSet(RowsHeld')
      <3>1. IsFiniteSet(Bars)
        BY FS_Interval, StoreAssumption DEF Bars
      <3>2. RowsHeld' \in SUBSET Bars
        BY DEF RowsHeld
      <3> QED
        BY <3>1, <3>2, FS_Subset
    <2>4. Count <= Count' /\ (Count = Count' => RowsHeld = RowsHeld')
      BY <2>2, <2>3, FS_Subset DEF Count
    <2>5. ASSUME RowsHeld = RowsHeld' PROVE stored' = stored
      <3>1. \A i \in Bars : stored'[i] = stored[i]
        BY <2>1, <2>5 DEF RowsHeld
      <3> QED
        BY <3>1 DEF StoreInv, StoreTypeOK
    <2>6. ASSUME RowsHeld = RowsHeld' PROVE Read' = Read
      BY <2>5, <2>6 DEF Read
    <2> QED
      BY <2>1, <2>4, <2>6
  <1>4. UNCHANGED <<stored, revised>> \/ \E c \in Captures : Deliver(c)
    BY DEF StoreNext, OpenBar, CloseBar, Respond, Parse, Lose
  <1> QED
    BY <1>2, <1>3, <1>4

LEMMA ThreadsCounted ==
    /\ Cardinality(Threads) \in Nat
    /\ IsFiniteSet(Popping)
    /\ Cardinality(Popping) \in Nat
    /\ Cardinality(Popping) <= Cardinality(Threads)
  BY MemoAssumption, FS_CardinalityType, FS_Subset DEF Popping

LEMMA ThreadsCountedNext ==
    /\ IsFiniteSet(Popping')
    /\ Cardinality(Popping') \in Nat
    /\ Cardinality(Popping') <= Cardinality(Threads)
    /\ Popping' \subseteq Popping => Cardinality(Popping') <= Cardinality(Popping)
  <1>1. Popping' \in SUBSET Threads
    BY DEF Popping
  <1>2. /\ IsFiniteSet(Popping') /\ Cardinality(Popping') \in Nat
        /\ Cardinality(Popping') <= Cardinality(Threads)
    BY <1>1, MemoAssumption, FS_CardinalityType, FS_Subset
  <1> QED
    BY <1>2, ThreadsCounted, FS_Subset

LEMMA StoreRests ==
    ASSUME StoreInv, UNCHANGED storeVars
    PROVE  StoreInv' /\ Count' = Count /\ Read' = Read /\ revised' = revised
  <1>1. StoreInv'
    BY StoreStepInv
  <1> QED
    BY <1>1 DEF storeVars, Count, RowsHeld, Read

LEMMA MemoInitInv == Init => MemoInv
  <1> SUFFICES ASSUME Init PROVE MemoInv
    OBVIOUS
  <1>1. StoreInv
    BY StoreInitInv DEF Init
  <1>2. MemoTypes
    <2>1. print \in [Threads -> Nat \X Nat]
      BY DEF Init, MemoInit
    <2>2. /\ entry \in [Keys -> Entry \cup {NoEntry}]
          /\ pc \in [Threads -> Labels]
          /\ asked \in [Threads -> Keys \cup {NoKey}]
          /\ reading \in [Threads -> Reading \cup {NoReading}]
      BY Zenon DEF Init, MemoInit, Labels
    <2>3. order \in Seq(Keys)
      BY DEF Init, MemoInit
    <2>4. \A t \in Threads : pc[t] = "idle"
      BY DEF Init, MemoInit
    <2> QED
      BY <2>1, <2>2, <2>3, <2>4 DEF MemoTypes
  <1>3. Popping = {} /\ Len(order) = 0 /\ 1..Len(order) = {}
    BY DEF Init, MemoInit, Popping
  <1>4. OrderFits
    BY <1>3 DEF Init, MemoInit, OrderFits
  <1>5. SomebodyEvicts /\ EnoughToPop
    BY <1>3, MemoAssumption DEF SomebodyEvicts, EnoughToPop
  <1>6. ReadingsBacked
    BY RowsCounted DEF Init, MemoInit, ReadingsBacked
  <1> QED
    BY <1>1, <1>2, <1>4, <1>5, <1>6 DEF MemoInv

(* A thread goes on and the entries stay: it does not turn away from a       *)
(* dictionary that is too long, nor pop from one that is not. *)
LEMMA ThreadKeeps ==
    ASSUME MemoInv, NEW t \in Threads, NEW label \in Labels,
           NEW a \in Keys \cup {NoKey}, NEW p \in Nat \X Nat,
           NEW r \in Reading \cup {NoReading},
           pc' = [pc EXCEPT ![t] = label], asked' = [asked EXCEPT ![t] = a],
           print' = [print EXCEPT ![t] = p], reading' = [reading EXCEPT ![t] = r],
           UNCHANGED storeVars, UNCHANGED entry,
           order' \in Seq(Keys), Len(order') = Len(order), OrderFits',
           label # "idle" => a \in Keys,
           label = "put" => r \in Reading,
           ~revised => p[1] <= Count /\ (label = "put" => Backed(p, r)),
           t \in WillEvict => label \in {"evict", "pop"} \/ ~(Len(order) > MaxEntries),
           pc[t] # "pop",
           label = "pop" => Len(order) > MaxEntries
    PROVE  MemoInv'
  <1>1. StoreInv' /\ Count' = Count /\ Read' = Read /\ revised' = revised
    BY StoreRests DEF MemoInv
  <1>2. \A u \in Threads :
           IF u = t THEN pc'[u] = label /\ asked'[u] = a /\ print'[u] = p /\ reading'[u] = r
           ELSE /\ pc'[u] = pc[u] /\ asked'[u] = asked[u]
                /\ print'[u] = print[u] /\ reading'[u] = reading[u]
    BY DEF MemoInv, MemoTypes
  <1>3. MemoTypes'
    <2>1. /\ entry' \in [Keys -> Entry \cup {NoEntry}]
          /\ pc' \in [Threads -> Labels]
          /\ asked' \in [Threads -> Keys \cup {NoKey}]
          /\ print' \in [Threads -> Nat \X Nat]
          /\ reading' \in [Threads -> Reading \cup {NoReading}]
      BY DEF MemoInv, MemoTypes
    <2>2. \A u \in Threads : /\ pc'[u] # "idle" => asked'[u] \in Keys
                             /\ pc'[u] = "put" => reading'[u] \in Reading
      BY <1>2 DEF MemoInv, MemoTypes
    <2> QED
      BY <2>1, <2>2 DEF MemoTypes
  <1>4. SomebodyEvicts'
    <2> SUFFICES ASSUME Len(order) > MaxEntries PROVE WillEvict' # {}
      BY DEF SomebodyEvicts
    <2>1. PICK u \in Threads : u \in WillEvict
      BY DEF MemoInv, SomebodyEvicts, WillEvict
    <2>2. u \in WillEvict'
      BY <1>2, <2>1 DEF WillEvict
    <2> QED
      BY <2>2
  <1>5. EnoughToPop'
    <2>1. CASE label = "pop"
      <3>1. Len(order) > MaxEntries /\ Len(order) \in Nat
        BY <2>1 DEF MemoInv, MemoTypes
      <3> QED
        BY <3>1, ThreadsCounted, ThreadsCountedNext, MemoAssumption DEF EnoughToPop
    <2>2. CASE label # "pop"
      <3>1. Popping' \subseteq Popping
        BY <1>2, <2>2 DEF Popping
      <3>2. Len(order) \in Nat
        BY DEF MemoInv, MemoTypes
      <3> QED
        BY <3>1, <3>2, ThreadsCounted, ThreadsCountedNext, MemoAssumption
        DEF MemoInv, EnoughToPop
    <2> QED
      BY <2>1, <2>2
  <1>6. ReadingsBacked'
    BY <1>1, <1>2 DEF MemoInv, ReadingsBacked, Backed
  <1> QED
    BY <1>1, <1>3, <1>4, <1>5, <1>6 DEF MemoInv

(* move_to_end of a key that is there lists the same keys. *)
LEMMA MoveKeepsKeys ==
    ASSUME MemoTypes, OrderFits, NEW k \in Keys, entry[k] # NoEntry,
           order' = MovedToEnd(k), UNCHANGED entry
    PROVE  order' \in Seq(Keys) /\ Len(order') = Len(order) /\ OrderFits'
  <1> DEFINE n == Len(order)
             place == CHOOSE m \in DOMAIN order : order[m] = k
             moved == [m \in 1..n |-> IF m < place THEN order[m]
                                      ELSE IF m < n THEN order[m + 1] ELSE k]
  <1>1. n \in Nat /\ DOMAIN order = 1..n /\ \A m \in 1..n : order[m] \in Keys
    BY DEF MemoTypes
  <1>2. place \in 1..n /\ order[place] = k
    BY <1>1 DEF OrderFits
  <1>3. order' = moved
    BY <1>1 DEF MovedToEnd
  <1> HIDE DEF place
  <1>4. /\ \A m \in 1..n : m < place => moved[m] = order[m]
        /\ \A m \in 1..n : m >= place /\ m < n => moved[m] = order[m + 1]
        /\ moved[n] = k
    BY <1>1, <1>2
  <1>5. moved \in Seq(Keys) /\ Len(moved) = n
    <2>1. \A m \in 1..n : moved[m] \in Keys
      BY <1>1, <1>2
    <2> HIDE DEF n
    <2> QED
      BY <1>1, <2>1
  <1> HIDE DEF moved, n
  <1>6. ASSUME NEW i \in 1..n, NEW j \in 1..n, moved[i] = moved[j] PROVE i = j
    BY <1>1, <1>2, <1>4, <1>6 DEF OrderFits, n
  <1>7. ASSUME NEW other \in Keys
        PROVE  (\E m \in 1..n : moved[m] = other) <=> (\E m \in 1..n : order[m] = other)
    <2>1. ASSUME NEW m \in 1..n, moved[m] = other
          PROVE  \E j \in 1..n : order[j] = other
      <3>1. CASE m < place
        BY <1>4, <2>1, <3>1
      <3>2. CASE m >= place /\ m < n
        <4>1. m + 1 \in 1..n /\ order[m + 1] = other
          BY <1>1, <1>4, <2>1, <3>2
        <4> QED
          BY <4>1
      <3>3. CASE m = n
        BY <1>2, <1>4, <2>1, <3>3
      <3> QED
        BY <1>1, <1>2, <3>1, <3>2, <3>3
    <2>2. ASSUME NEW m \in 1..n, order[m] = other
          PROVE  \E j \in 1..n : moved[j] = other
      <3>1. CASE m < place
        BY <1>4, <2>2, <3>1
      <3>2. CASE m = place
        <4>1. n \in 1..n
          BY <1>1, <1>2
        <4> QED
          BY <1>2, <1>4, <2>2, <3>2, <4>1
      <3>3. CASE m > place
        <4>1. m - 1 \in 1..n /\ m - 1 >= place /\ m - 1 < n /\ (m - 1) + 1 = m
          BY <1>1, <1>2, <3>3
        <4>2. moved[m - 1] = order[m]
          BY <1>4, <4>1
        <4> QED
          BY <2>2, <4>1, <4>2
      <3> QED
        BY <1>1, <1>2, <3>1, <3>2, <3>3
    <2> QED
      BY <2>1, <2>2
  <1>8. OrderFits'
    BY <1>3, <1>5, <1>6, <1>7 DEF OrderFits, n
  <1> QED
    BY <1>3, <1>5, <1>8 DEF n

LEMMA TouchKeeps ==
    ASSUME MemoInv, NEW t \in Threads,
           Touch(t, "touch", "answer") \/ Touch(t, "putTouch", "evict")
    PROVE  MemoInv'
  <1>1. /\ pc[t] \in {"touch", "putTouch"} /\ asked[t] \in Keys
        /\ asked[t] \in Keys \cup {NoKey} /\ print[t] \in Nat \X Nat
        /\ reading[t] \in Reading \cup {NoReading}
        /\ asked' = [asked EXCEPT ![t] = asked[t]]
        /\ print' = [print EXCEPT ![t] = print[t]]
        /\ reading' = [reading EXCEPT ![t] = reading[t]]
        /\ UNCHANGED <<storeVars, entry>>
        /\ ~revised => print[t][1] <= Count
    BY DEF Touch, MemoInv, MemoTypes, ReadingsBacked
  <1>2. CASE entry[asked[t]] # NoEntry
    <2>1. order' = MovedToEnd(asked[t])
      BY <1>2 DEF Touch
    <2>2. order' \in Seq(Keys) /\ Len(order') = Len(order) /\ OrderFits'
      BY <1>1, <1>2, <2>1, MoveKeepsKeys DEF MemoInv
    <2>3. CASE pc[t] = "touch"
      <3>1. t \notin WillEvict /\ pc' = [pc EXCEPT ![t] = "answer"]
        BY <1>2, <2>3 DEF WillEvict, Touch, Goto
      <3> QED
        BY <1>1, <2>2, <2>3, <3>1, ThreadKeeps DEF Labels
    <2>4. CASE pc[t] = "putTouch"
      <3>1. pc' = [pc EXCEPT ![t] = "evict"]
        BY <1>2, <2>4 DEF Touch, Goto
      <3> QED
        BY <1>1, <2>2, <2>4, <3>1, ThreadKeeps DEF Labels
    <2> QED
      BY <1>1, <2>3, <2>4
  <1>3. CASE entry[asked[t]] = NoEntry
    <2>1. pc' = [pc EXCEPT ![t] = "raised"] /\ order' = order /\ t \notin WillEvict
      BY <1>1, <1>3 DEF Touch, Goto, WillEvict
    <2>2. order' \in Seq(Keys) /\ Len(order') = Len(order) /\ OrderFits'
      BY <1>1, <2>1 DEF MemoInv, MemoTypes, OrderFits
    <2> QED
      BY <1>1, <2>1, <2>2, ThreadKeeps DEF Labels
  <1> QED
    BY <1>2, <1>3

(* A thread that stores its reading is going to look at the length. *)
LEMMA PutKeeps ==
    ASSUME MemoInv, NEW t \in Threads, Put(t)
    PROVE  MemoInv'
  <1> DEFINE k == asked[t]
             e == [print |-> print[t], reading |-> reading[t]]
             n == Len(order)
  <1>1. /\ pc[t] = "put" /\ pc' = [pc EXCEPT ![t] = "putTouch"]
        /\ entry' = [entry EXCEPT ![k] = e]
        /\ order' = IF entry[k] = NoEntry THEN Append(order, k) ELSE order
        /\ print' = [print EXCEPT ![t] = <<0, 0>>]
        /\ reading' = [reading EXCEPT ![t] = NoReading]
        /\ UNCHANGED storeVars /\ asked' = asked
    BY DEF Put, Goto, Forget
  <1>2. /\ k \in Keys /\ print[t] \in Nat \X Nat /\ reading[t] \in Reading
        /\ order \in Seq(Keys) /\ n \in Nat
        /\ ~revised => Backed(print[t], reading[t])
    BY <1>1 DEF MemoInv, MemoTypes, ReadingsBacked
  <1>3. e \in Entry /\ e # NoEntry /\ e.print = print[t] /\ e.reading = reading[t]
    BY <1>2, NoEntryAssumption DEF Entry
  <1> HIDE DEF e, k, n
  <1>4. \A other \in Keys : entry'[other] = IF other = k THEN e ELSE entry[other]
    BY <1>1, <1>2 DEF MemoInv, MemoTypes
  <1>5. StoreInv' /\ Count' = Count /\ Read' = Read /\ revised' = revised
    BY <1>1, StoreRests DEF MemoInv
  <1>6. \A u \in Threads :
           IF u = t THEN pc'[u] = "putTouch" /\ print'[u] = <<0, 0>>
           ELSE pc'[u] = pc[u] /\ print'[u] = print[u] /\ reading'[u] = reading[u]
    BY <1>1 DEF MemoInv, MemoTypes
  <1>7. OrderFits' /\ order' \in Seq(Keys) /\ Len(order') >= n /\ Len(order') \in Nat
    <2>1. CASE entry[k] = NoEntry
      <3>1. /\ order' \in Seq(Keys) /\ Len(order') = n + 1 /\ order'[n + 1] = k
            /\ \A m \in 1..n : order'[m] = order[m]
        BY <1>1, <1>2, <2>1 DEF n
      <3>2. \A m \in 1..n : order[m] # k
        BY <1>2, <2>1 DEF MemoInv, OrderFits, n
      <3>3. \A m \in 1..(n + 1) : m = n + 1 \/ m \in 1..n
        BY <1>2
      <3>4. 1..n \subseteq 1..(n + 1) /\ n + 1 \in 1..(n + 1)
        BY <1>2
      <3>5. \A i, j \in 1..(n + 1) : order'[i] = order'[j] => i = j
        BY <3>1, <3>2, <3>3 DEF MemoInv, OrderFits, n
      <3>6. \A other \in Keys :
               entry'[other] # NoEntry <=> \E m \in 1..(n + 1) : order'[m] = other
        BY <1>3, <1>4, <3>1, <3>3, <3>4 DEF MemoInv, OrderFits, n
      <3> QED
        BY <1>2, <3>1, <3>5, <3>6 DEF OrderFits
    <2>2. CASE entry[k] # NoEntry
      BY <1>1, <1>2, <1>3, <1>4, <2>2 DEF MemoInv, OrderFits, n
    <2> QED
      BY <2>1, <2>2
  <1>8. MemoTypes'
    <2>1. /\ entry' \in [Keys -> Entry \cup {NoEntry}]
          /\ pc' \in [Threads -> Labels]
          /\ asked' \in [Threads -> Keys \cup {NoKey}]
          /\ print' \in [Threads -> Nat \X Nat]
          /\ reading' \in [Threads -> Reading \cup {NoReading}]
      BY <1>1, <1>3 DEF MemoInv, MemoTypes, Labels
    <2>2. \A u \in Threads : /\ pc'[u] # "idle" => asked'[u] \in Keys
                             /\ pc'[u] = "put" => reading'[u] \in Reading
      BY <1>1, <1>6 DEF MemoInv, MemoTypes
    <2> QED
      BY <1>7, <2>1, <2>2 DEF MemoTypes
  <1>9. SomebodyEvicts'
    <2>1. t \in WillEvict'
      BY <1>1, <1>2, <1>3, <1>4, <1>6 DEF WillEvict, k
    <2> QED
      BY <2>1 DEF SomebodyEvicts
  <1>10. EnoughToPop'
    <2>1. Popping' = Popping
      BY <1>1, <1>6 DEF Popping
    <2> QED
      BY <1>2, <1>7, <2>1, ThreadsCounted, MemoAssumption DEF MemoInv, EnoughToPop, n
  <1>11. ReadingsBacked'
    BY <1>2, <1>3, <1>4, <1>5, <1>6, RowsCounted DEF MemoInv, ReadingsBacked, Backed
  <1> QED
    BY <1>5, <1>7, <1>8, <1>9, <1>10, <1>11 DEF MemoInv

(* A thread that pops finds an entry, whoever else has popped since it       *)
(* looked at the length. *)
LEMMA SomethingToPop ==
    ASSUME MemoInv, NEW t \in Threads, pc[t] = "pop"
    PROVE  order # << >> /\ Len(order) \in Nat /\ Len(order) >= 1
  <1>1. t \in Popping
    BY DEF Popping
  <1>2. Cardinality(Popping) >= 1
    BY <1>1, ThreadsCounted, FS_EmptySet
  <1>3. Len(order) \in Nat /\ order \in Seq(Keys)
    BY DEF MemoInv, MemoTypes
  <1> QED
    BY <1>1, <1>2, <1>3, ThreadsCounted, MemoAssumption DEF MemoInv, EnoughToPop

LEMMA PopKeeps ==
    ASSUME MemoInv, NEW t \in Threads, Pop(t)
    PROVE  MemoInv'
  <1> DEFINE k == Head(order)
             n == Len(order)
  <1>1. /\ pc[t] = "pop" /\ pc' = [pc EXCEPT ![t] = "evict"]
        /\ entry' = [entry EXCEPT ![k] = NoEntry] /\ order' = Tail(order)
        /\ UNCHANGED storeVars /\ UNCHANGED <<asked, print, reading>>
    BY DEF Pop, Goto
  <1>2. order # << >> /\ n \in Nat /\ n >= 1 /\ order \in Seq(Keys)
    BY <1>1, SomethingToPop DEF MemoInv, MemoTypes
  <1>3. /\ k \in Keys /\ k = order[1]
        /\ order' \in Seq(Keys) /\ Len(order') = n - 1
        /\ \A m \in 1..(n - 1) : order'[m] = order[m + 1]
    BY <1>1, <1>2
  <1> HIDE DEF k, n
  <1>4. \A other \in Keys : entry'[other] = IF other = k THEN NoEntry ELSE entry[other]
    BY <1>1, <1>3 DEF MemoInv, MemoTypes
  <1>5. StoreInv' /\ Count' = Count /\ Read' = Read /\ revised' = revised
    BY <1>1, StoreRests DEF MemoInv
  <1>6. \A u \in Threads : pc'[u] = IF u = t THEN "evict" ELSE pc[u]
    BY <1>1 DEF MemoInv, MemoTypes
  <1>7. OrderFits'
    <2>1. ASSUME NEW i \in 1..(n - 1), NEW j \in 1..(n - 1), order'[i] = order'[j]
          PROVE  i = j
      <3>1. i + 1 \in 1..n /\ j + 1 \in 1..n /\ order[i + 1] = order[j + 1]
        BY <1>2, <1>3, <2>1
      <3>2. i + 1 = j + 1
        BY <3>1 DEF MemoInv, OrderFits, n
      <3> QED
        BY <1>2, <3>2
    <2>2. ASSUME NEW other \in Keys
          PROVE  entry'[other] # NoEntry <=> \E m \in 1..(n - 1) : order'[m] = other
      <3>1. ASSUME entry'[other] # NoEntry
            PROVE  \E m \in 1..(n - 1) : order'[m] = other
        <4>1. other # k /\ entry[other] # NoEntry
          BY <1>4, <3>1
        <4>2. PICK m \in 1..n : order[m] = other
          BY <4>1 DEF MemoInv, OrderFits, n
        <4>3. m # 1
          BY <1>3, <4>1, <4>2
        <4>4. m - 1 \in 1..(n - 1) /\ (m - 1) + 1 = m
          BY <1>2, <4>2, <4>3
        <4>5. order'[m - 1] = other
          BY <1>3, <4>2, <4>4
        <4> QED
          BY <4>4, <4>5
      <3>2. ASSUME NEW m \in 1..(n - 1), order'[m] = other
            PROVE  entry'[other] # NoEntry
        <4>1. m + 1 \in 1..n /\ 1 \in 1..n /\ m + 1 # 1 /\ order[m + 1] = other
          BY <1>2, <1>3, <3>2
        <4>2. other # k /\ entry[other] # NoEntry
          BY <1>3, <4>1 DEF MemoInv, OrderFits, n
        <4> QED
          BY <1>4, <4>2
      <3> QED
        BY <3>1, <3>2
    <2> QED
      BY <1>3, <2>1, <2>2 DEF OrderFits
  <1>8. MemoTypes'
    <2>1. /\ entry' \in [Keys -> Entry \cup {NoEntry}]
          /\ pc' \in [Threads -> Labels]
          /\ asked' \in [Threads -> Keys \cup {NoKey}]
          /\ print' \in [Threads -> Nat \X Nat]
          /\ reading' \in [Threads -> Reading \cup {NoReading}]
      BY <1>1, <1>3 DEF MemoInv, MemoTypes, Labels
    <2>2. \A u \in Threads : /\ pc'[u] # "idle" => asked'[u] \in Keys
                             /\ pc'[u] = "put" => reading'[u] \in Reading
      BY <1>1, <1>6 DEF MemoInv, MemoTypes
    <2> QED
      BY <1>3, <2>1, <2>2 DEF MemoTypes
  <1>9. SomebodyEvicts'
    <2>1. t \in WillEvict'
      BY <1>6 DEF WillEvict
    <2> QED
      BY <2>1 DEF SomebodyEvicts
  <1>10. EnoughToPop'
    <2>1. Popping' = Popping \ {t} /\ t \in Popping
      BY <1>1, <1>6 DEF Popping
    <2>2. Cardinality(Popping') = Cardinality(Popping) - 1
      BY <2>1, ThreadsCounted, FS_RemoveElement
    <2> QED
      BY <1>2, <1>3, <2>1, <2>2, ThreadsCounted, MemoAssumption
      DEF MemoInv, EnoughToPop, n
  <1>11. ReadingsBacked'
    BY <1>1, <1>4, <1>5, <1>6 DEF MemoInv, ReadingsBacked, Backed
  <1> QED
    BY <1>5, <1>7, <1>8, <1>9, <1>10, <1>11 DEF MemoInv

(* Bars come in: a reading of fewer rows than there are now is not taken for *)
(* one of now. *)
LEMMA StoreStepKeeps ==
    ASSUME MemoInv, StoreNext, UNCHANGED memoVars
    PROVE  MemoInv'
  <1>1. StoreInv /\ StoreInv'
    BY StoreStepInv DEF MemoInv
  <1>2. UNCHANGED <<entry, order, pc, asked, print, reading>>
    BY DEF memoVars
  <1>3. MemoTypes' /\ OrderFits' /\ SomebodyEvicts' /\ EnoughToPop'
    BY <1>2 DEF MemoInv, MemoTypes, OrderFits, SomebodyEvicts, WillEvict,
                EnoughToPop, Popping
  <1>4. ReadingsBacked'
    <2> SUFFICES ASSUME ~revised' PROVE ReadingsBacked'
      BY DEF ReadingsBacked
    <2>1. ~revised /\ Count <= Count' /\ (Count = Count' => Read' = Read)
      BY <1>1, StoreGrows
    <2>2. Count \in Nat /\ Count' \in Nat
      <3>1. Count' \in Nat
        <4>1. IsFiniteSet(Bars)
          BY FS_Interval, StoreAssumption DEF Bars
        <4>2. RowsHeld' \in SUBSET Bars
          BY DEF RowsHeld
        <4> QED
          BY <4>1, <4>2, FS_Subset, FS_CardinalityType DEF Count
      <3> QED
        BY <3>1, RowsCounted
    <2>3. ASSUME NEW p \in Nat \X Nat, NEW r \in Reading, Backed(p, r)
          PROVE  /\ p[1] <= r.rows /\ r.rows <= Count'
                 /\ r.rows = Count' => r = Read'
      BY <2>1, <2>2, <2>3 DEF Backed, Reading
    <2>4. \A t \in Threads : print[t] \in Nat \X Nat /\ print[t][1] <= Count
      BY <2>1 DEF MemoInv, MemoTypes, ReadingsBacked
    <2>5. \A t \in Threads : print[t][1] <= Count'
      BY <2>1, <2>2, <2>4
    <2>6. ASSUME NEW t \in Threads, pc[t] = "put"
          PROVE  reading[t] \in Reading /\ Backed(print[t], reading[t])
      BY <2>1, <2>6 DEF MemoInv, MemoTypes, ReadingsBacked
    <2>7. ASSUME NEW k \in Keys, entry[k] # NoEntry
          PROVE  /\ entry[k].print \in Nat \X Nat /\ entry[k].reading \in Reading
                 /\ Backed(entry[k].print, entry[k].reading)
      <3>1. entry[k] \in Entry
        BY <2>7 DEF MemoInv, MemoTypes
      <3> QED
        BY <2>1, <2>7, <3>1 DEF MemoInv, ReadingsBacked, Entry
    <2> QED
      BY <1>2, <2>3, <2>4, <2>5, <2>6, <2>7 DEF ReadingsBacked, Backed
  <1> QED
    BY <1>1, <1>3, <1>4 DEF MemoInv

(* A thread goes from one test to the next and changes nothing else. *)
LEMMA GoesOnKeeps ==
    ASSUME MemoInv, NEW t \in Threads, NEW label \in Labels \ {"idle", "put"},
           pc' = [pc EXCEPT ![t] = label],
           UNCHANGED storeVars, UNCHANGED <<entry, order, asked, print, reading>>,
           pc[t] \notin {"idle", "pop"},
           t \in WillEvict => label \in {"evict", "pop"} \/ ~(Len(order) > MaxEntries),
           label = "pop" => Len(order) > MaxEntries
    PROVE  MemoInv'
  <1>1. /\ print[t] \in Nat \X Nat /\ asked[t] \in Keys
        /\ reading[t] \in Reading \cup {NoReading}
        /\ ~revised => print[t][1] <= Count
        /\ order' \in Seq(Keys) /\ Len(order') = Len(order) /\ OrderFits'
    BY DEF MemoInv, MemoTypes, ReadingsBacked, OrderFits
  <1>2. /\ asked' = [asked EXCEPT ![t] = asked[t]]
        /\ print' = [print EXCEPT ![t] = print[t]]
        /\ reading' = [reading EXCEPT ![t] = reading[t]]
    BY DEF MemoInv, MemoTypes
  <1> QED
    BY <1>1, <1>2, ThreadKeeps

LEMMA ThreadStepKeeps ==
    ASSUME MemoInv, NEW t \in Threads, Step(t)
    PROVE  MemoInv'
  <1>1. /\ print[t] \in Nat \X Nat /\ asked[t] \in Keys \cup {NoKey}
        /\ reading[t] \in Reading \cup {NoReading}
        /\ pc[t] # "idle" => asked[t] \in Keys
        /\ ~revised => print[t][1] <= Count
        /\ order \in Seq(Keys) /\ OrderFits
        /\ asked' = asked => asked' = [asked EXCEPT ![t] = asked[t]]
        /\ print' = print => print' = [print EXCEPT ![t] = print[t]]
        /\ reading' = reading => reading' = [reading EXCEPT ![t] = reading[t]]
    BY DEF MemoInv, MemoTypes, ReadingsBacked
  <1>2. UNCHANGED <<entry, order>> => OrderFits'
    BY <1>1 DEF OrderFits
  <1>3. <<0, 0>> \in Nat \X Nat /\ <<0, 0>>[1] <= Count
    BY RowsCounted
  <1>4. ASSUME NEW k \in Keys, TakePrint(t, k) PROVE MemoInv'
    <2>1. t \notin WillEvict
      BY <1>4 DEF TakePrint, WillEvict
    <2>2. Fingerprint[1] <= Count
      BY FingerprintType, RowsCounted
    <2>3. /\ pc' = [pc EXCEPT ![t] = "get"] /\ asked' = [asked EXCEPT ![t] = k]
          /\ print' = [print EXCEPT ![t] = Fingerprint] /\ reading' = reading
          /\ UNCHANGED storeVars /\ UNCHANGED <<entry, order>> /\ pc[t] # "pop"
      BY <1>4 DEF TakePrint, Goto
    <2> QED
      BY <1>1, <1>2, <2>1, <2>2, <2>3, FingerprintType, ThreadKeeps DEF Labels
  <1>5. CASE GetHit(t)
    <2>1. t \notin WillEvict
      BY <1>5 DEF GetHit, WillEvict
    <2> QED
      BY <1>1, <1>2, <1>3, <1>5, <2>1, ThreadKeeps DEF GetHit, Forget, Goto, Labels
  <1>6. CASE GetMiss(t)
    <2>1. t \notin WillEvict
      BY <1>6 DEF GetMiss, WillEvict
    <2>2. /\ pc' = [pc EXCEPT ![t] = "compute"] /\ pc[t] = "get"
          /\ UNCHANGED storeVars /\ UNCHANGED <<entry, order, asked, print, reading>>
      BY <1>6 DEF GetMiss, Goto
    <2> QED
      BY <2>1, <2>2, GoesOnKeeps DEF Labels
  <1>7. CASE Compute(t)
    <2>1. t \notin WillEvict
      BY <1>7 DEF Compute, WillEvict
    <2>2. Read \in Reading /\ Read.rows = Count
      BY ReadType DEF MemoInv, StoreInv
    <2>3. ~revised => Backed(print[t], Read)
      BY <1>1, <2>2, RowsCounted DEF Backed
    <2>4. /\ pc' = [pc EXCEPT ![t] = "put"] /\ reading' = [reading EXCEPT ![t] = Read]
          /\ UNCHANGED storeVars /\ UNCHANGED <<entry, order, asked, print>>
          /\ pc[t] = "compute"
      BY <1>7 DEF Compute, Goto
    <2>5. /\ asked' = [asked EXCEPT ![t] = asked[t]]
          /\ print' = [print EXCEPT ![t] = print[t]]
          /\ order' \in Seq(Keys) /\ Len(order') = Len(order) /\ OrderFits'
      BY <1>1, <1>2, <2>4
    <2>6. /\ ~revised => print[t][1] <= Count /\ ("put" = "put" => Backed(print[t], Read))
          /\ t \in WillEvict => "put" \in {"evict", "pop"} \/ ~(Len(order) > MaxEntries)
      BY <1>1, <2>1, <2>3
    <2>7. /\ "put" \in Labels /\ asked[t] \in Keys /\ pc[t] # "pop"
          /\ print[t] \in Nat \X Nat /\ entry' = entry
      BY <1>1, <2>4 DEF Labels
    <2>8. \A r \in Reading : r = Read => MemoInv'
      <3> SUFFICES ASSUME NEW r \in Reading, r = Read PROVE MemoInv'
        OBVIOUS
      <3>1. reading' = [reading EXCEPT ![t] = r]
        BY <2>4
      <3>2. ~revised => print[t][1] <= Count /\ ("put" = "put" => Backed(print[t], r))
        BY <2>6
      <3> QED
        BY <2>4, <2>5, <2>6, <2>7, <3>1, <3>2, ThreadKeeps
    <2> QED
      BY <2>2, <2>8
  <1>8. CASE Evict(t)
    <2>1. /\ pc' = [pc EXCEPT ![t] = IF Len(order) > MaxEntries THEN "pop" ELSE "answer"]
          /\ UNCHANGED storeVars /\ UNCHANGED <<entry, order, asked, print, reading>>
          /\ pc[t] = "evict"
      BY <1>8 DEF Evict, Goto
    <2>2. CASE Len(order) > MaxEntries
      BY <2>1, <2>2, GoesOnKeeps DEF Labels
    <2>3. CASE ~(Len(order) > MaxEntries)
      BY <2>1, <2>3, GoesOnKeeps DEF Labels
    <2> QED
      BY <2>2, <2>3
  <1>9. CASE Answer(t)
    <2>1. t \notin WillEvict
      BY <1>9 DEF Answer, WillEvict
    <2>2. /\ pc' = [pc EXCEPT ![t] = "idle"] /\ asked' = [asked EXCEPT ![t] = NoKey]
          /\ UNCHANGED storeVars /\ UNCHANGED <<entry, order, print, reading>>
          /\ pc[t] # "pop"
      BY <1>9 DEF Answer, Goto
    <2>3. /\ print' = [print EXCEPT ![t] = print[t]]
          /\ reading' = [reading EXCEPT ![t] = reading[t]]
          /\ order' \in Seq(Keys) /\ Len(order') = Len(order) /\ OrderFits'
      BY <1>1, <1>2, <2>2
    <2> QED
      BY <1>1, <2>1, <2>2, <2>3, ThreadKeeps DEF Labels
  <1> QED
    BY <1>4, <1>5, <1>6, <1>7, <1>8, <1>9, TouchKeeps, PutKeeps, PopKeeps DEF Step

LEMMA MemoStepInv == MemoInv /\ [Next]_vars => MemoInv'
  <1> SUFFICES ASSUME MemoInv, [Next]_vars PROVE MemoInv'
    OBVIOUS
  <1>1. CASE UNCHANGED vars
    <2>1. UNCHANGED storeVars /\ UNCHANGED <<entry, order, pc, asked, print, reading>>
      BY <1>1 DEF vars, storeVars
    <2>2. StoreInv' /\ Count' = Count /\ Read' = Read /\ revised' = revised
      BY <2>1, StoreRests DEF MemoInv
    <2> QED
      BY <2>1, <2>2
      DEF MemoInv, MemoTypes, OrderFits, SomebodyEvicts, WillEvict, EnoughToPop,
          Popping, ReadingsBacked, Backed
  <1> QED
    BY <1>1, StoreStepKeeps, ThreadStepKeeps DEF Next, Move

LEMMA MemoInvariance == Spec => []MemoInv
  BY MemoInitInv, MemoStepInv, PTL DEF Spec

-----------------------------------------------------------------------------
(* While a thread is between its fingerprint and its look-up, whatever it    *)
(* could find under that fingerprint is among what it could have read: what  *)
(* is stored, and what another thread is about to store. *)
SeenCovers ==
    ~revised =>
        \A t \in Threads : pc[t] = "get" =>
            /\ \A k \in Keys : entry[k] # NoEntry /\ entry[k].print = print[t] =>
                  entry[k].reading \in seen[t]
            /\ \A u \in Threads : pc[u] = "put" /\ print[u] = print[t] =>
                  reading[u] \in seen[t]

SeenInv ==
    /\ seen \in [Threads -> SUBSET Reading]
    /\ \A t \in Threads : pc[t] = "get" => Read \in seen[t]
    /\ SeenCovers

(* A thread that is about to look up was so before, or took the fingerprint  *)
(* just now, when nothing else happened. *)
AboutToLookUp(t) ==
    \/ pc[t] = "get" /\ print'[t] = print[t]
    \/ /\ print'[t] = Fingerprint
       /\ UNCHANGED storeVars /\ UNCHANGED <<entry, reading>>
       /\ \A u \in Threads : pc'[u] = "put" => pc[u] = "put" /\ print'[u] = print[u]

(* What is stored was there or about to be stored. *)
Stores(k) ==
    \/ entry'[k] = entry[k]
    \/ \E u \in Threads : /\ pc[u] = "put"
                           /\ entry'[k] = [print |-> print[u], reading |-> reading[u]]

(* What is about to be stored was so before, or was read just now. *)
AboutToStore(u) ==
    /\ print'[u] = print[u]
    /\ \/ pc[u] = "put" /\ reading'[u] = reading[u]
       \/ reading'[u] = Read /\ UNCHANGED storeVars

(* What a step may do to a look-up, an entry and a reading. *)
LEMMA WhatMoves ==
    ASSUME MemoInv, Move
    PROVE  /\ \A t \in Threads : pc'[t] = "get" => AboutToLookUp(t)
           /\ \A k \in Keys : entry'[k] # NoEntry => Stores(k)
           /\ \A u \in Threads : pc'[u] = "put" => AboutToStore(u)
  <1> DEFINE Same(t, label) == /\ pc' = [pc EXCEPT ![t] = label]
                               /\ UNCHANGED <<print, reading>>
             Goal == /\ \A t \in Threads : pc'[t] = "get" => AboutToLookUp(t)
                     /\ \A k \in Keys : entry'[k] # NoEntry => Stores(k)
                     /\ \A u \in Threads : pc'[u] = "put" => AboutToStore(u)
  <1>1. /\ pc \in [Threads -> Labels] /\ print \in [Threads -> Nat \X Nat]
        /\ entry \in [Keys -> Entry \cup {NoEntry}] /\ order \in Seq(Keys)
        /\ reading \in [Threads -> Reading \cup {NoReading}]
        /\ \A t \in Threads : pc[t] # "idle" => asked[t] \in Keys
    BY DEF MemoInv, MemoTypes
  <1>2. CASE StoreNext /\ UNCHANGED memoVars
    BY <1>1, <1>2 DEF memoVars, AboutToLookUp, Stores, AboutToStore
  <1>3. ASSUME NEW t \in Threads, NEW label \in Labels \ {"get", "put"}, Same(t, label),
               UNCHANGED entry
        PROVE  Goal
    BY <1>1, <1>3 DEF AboutToLookUp, Stores, AboutToStore
  <1>4. ASSUME NEW t \in Threads, Step(t) PROVE Goal
    <2>1. ASSUME NEW k \in Keys, TakePrint(t, k) PROVE Goal
      <3>1. /\ pc' = [pc EXCEPT ![t] = "get"] /\ print' = [print EXCEPT ![t] = Fingerprint]
            /\ UNCHANGED storeVars /\ UNCHANGED <<entry, reading>>
        BY <2>1 DEF TakePrint, Goto
      <3> HIDE DEF Same
      <3> QED
        BY <1>1, <3>1 DEF AboutToLookUp, Stores, AboutToStore
    <2>2. CASE GetHit(t)
      <3>1. /\ pc' = [pc EXCEPT ![t] = "touch"] /\ print' = [print EXCEPT ![t] = <<0, 0>>]
            /\ reading' = [reading EXCEPT ![t] = NoReading] /\ UNCHANGED entry
        BY <2>2 DEF GetHit, Forget, Goto
      <3> QED
        BY <1>1, <3>1 DEF AboutToLookUp, Stores, AboutToStore
    <2>3. CASE GetMiss(t)
      BY <1>3, <2>3 DEF GetMiss, Goto, Labels
    <2>4. ASSUME NEW from, NEW next \in {"answer", "evict"}, Touch(t, from, next) PROVE Goal
      <3>1. UNCHANGED <<entry, print, reading>> /\ \E label \in {next, "raised"} :
               pc' = [pc EXCEPT ![t] = label]
        BY <2>4 DEF Touch, Goto
      <3> QED
        BY <1>3, <3>1 DEF Labels
    <2>5. CASE Compute(t)
      <3>1. /\ pc' = [pc EXCEPT ![t] = "put"] /\ reading' = [reading EXCEPT ![t] = Read]
            /\ UNCHANGED storeVars /\ UNCHANGED <<entry, print>>
        BY <2>5 DEF Compute, Goto
      <3> QED
        BY <1>1, <3>1 DEF AboutToLookUp, Stores, AboutToStore
    <2>6. CASE Put(t)
      <3>1. /\ pc' = [pc EXCEPT ![t] = "putTouch"] /\ print' = [print EXCEPT ![t] = <<0, 0>>]
            /\ reading' = [reading EXCEPT ![t] = NoReading] /\ pc[t] = "put"
            /\ entry' = [entry EXCEPT ![asked[t]] = [print |-> print[t], reading |-> reading[t]]]
        BY <2>6 DEF Put, Forget, Goto
      <3> QED
        BY <1>1, <3>1 DEF AboutToLookUp, Stores, AboutToStore
    <2>7. CASE Evict(t)
      <3>1. UNCHANGED <<entry, print, reading>> /\ \E label \in {"pop", "answer"} :
               pc' = [pc EXCEPT ![t] = label]
        BY <2>7 DEF Evict, Goto
      <3> QED
        BY <1>3, <3>1 DEF Labels
    <2>8. CASE Pop(t)
      <3>1. /\ pc' = [pc EXCEPT ![t] = "evict"] /\ UNCHANGED <<print, reading>>
            /\ entry' = [entry EXCEPT ![Head(order)] = NoEntry]
        BY <2>8 DEF Pop, Goto
      <3> QED
        BY <1>1, <3>1 DEF AboutToLookUp, Stores, AboutToStore
    <2>9. CASE Answer(t)
      BY <1>3, <2>9 DEF Answer, Goto, Labels
    <2> QED
      BY <1>4, <2>1, <2>2, <2>3, <2>4, <2>5, <2>6, <2>7, <2>8, <2>9 DEF Step
  <1> QED
    BY <1>2, <1>4 DEF Move

(* A reading of a table that has the fingerprint the table has now is the    *)
(* reading of now. *)
LEMMA BackedByNow ==
    ASSUME NEW p \in Nat \X Nat, NEW r \in Reading, Backed(p, r), p = Fingerprint
    PROVE  r = Read
  <1>1. p[1] = Count /\ r.rows \in Nat
    BY FingerprintType DEF Reading
  <1> QED
    BY <1>1, RowsCounted DEF Backed

LEMMA SeenStep ==
    ASSUME MemoInv, MemoInv', SeenInv, Move, Observe
    PROVE  SeenInv'
  <1>1. /\ \A t \in Threads : seen'[t] =
                IF pc'[t] = "get" THEN (IF pc[t] = "get" THEN seen[t] ELSE {}) \cup {Read'} ELSE {}
        /\ DOMAIN seen' = Threads
    BY DEF Observe
  <1>2. Read' \in Reading
    <2>1. StoreTypeOK'
      BY DEF MemoInv, StoreInv
    <2>2. (StoreTypeOK => Read \in Reading /\ Read.rows = Count)'
      BY ReadType, PTL
    <2> QED
      BY <2>1, <2>2
  <1>3. seen' \in [Threads -> SUBSET Reading]
    BY <1>2 DEF Observe, SeenInv
  <1>4. \A t \in Threads : pc'[t] = "get" => Read' \in seen'[t]
    BY <1>1
  <1>5. SeenCovers'
    <2> SUFFICES ASSUME ~revised', NEW t \in Threads, pc'[t] = "get"
                 PROVE  /\ \A k \in Keys : entry'[k] # NoEntry /\ entry'[k].print = print'[t] =>
                              entry'[k].reading \in seen'[t]
                        /\ \A u \in Threads : pc'[u] = "put" /\ print'[u] = print'[t] =>
                              reading'[u] \in seen'[t]
      BY DEF SeenCovers
    <2>1. ~revised
      BY StoreGrows DEF Move, Step, MemoInv, TakePrint, GetHit, GetMiss, Touch, Compute,
                        Put, Evict, Pop, Answer, storeVars
    <2>2. CASE pc[t] = "get" /\ print'[t] = print[t]
      <3>1. /\ \A k \in Keys : entry[k] # NoEntry /\ entry[k].print = print[t] =>
                  entry[k].reading \in seen[t]
            /\ \A u \in Threads : pc[u] = "put" /\ print[u] = print[t] =>
                  reading[u] \in seen[t]
            /\ Read \in seen[t] /\ seen[t] \subseteq seen'[t]
        BY <1>1, <2>1, <2>2 DEF SeenInv, SeenCovers
      <3>2. ASSUME NEW k \in Keys, entry'[k] # NoEntry, entry'[k].print = print'[t]
            PROVE  entry'[k].reading \in seen'[t]
        <4>1. Stores(k)
          BY <3>2, WhatMoves
        <4>2. CASE entry'[k] = entry[k]
          <5>1. entry[k] # NoEntry /\ entry[k].print = print[t]
            BY <2>2, <3>2, <4>2
          <5>2. entry[k].reading \in seen[t]
            BY <3>1, <5>1
          <5> QED
            BY <3>1, <4>2, <5>2
        <4>3. ASSUME NEW u \in Threads, pc[u] = "put",
                     entry'[k] = [print |-> print[u], reading |-> reading[u]]
              PROVE  entry'[k].reading \in seen'[t]
          <5>1. entry'[k].print = print[u] /\ entry'[k].reading = reading[u]
            BY <4>3
          <5>2. reading[u] \in seen[t]
            BY <2>2, <3>1, <3>2, <4>3, <5>1
          <5> QED
            BY <3>1, <5>1, <5>2
        <4> QED
          BY <4>1, <4>2, <4>3 DEF Stores
      <3>3. ASSUME NEW u \in Threads, pc'[u] = "put", print'[u] = print'[t]
            PROVE  reading'[u] \in seen'[t]
        <4>1. AboutToStore(u)
          BY <3>3, WhatMoves
        <4> QED
          BY <2>2, <3>1, <3>3, <4>1 DEF AboutToStore
      <3> QED
        BY <3>2, <3>3
    <2>3. CASE ~(pc[t] = "get" /\ print'[t] = print[t])
      <3>1. /\ print'[t] = Fingerprint
            /\ UNCHANGED storeVars /\ UNCHANGED <<entry, reading>>
            /\ \A u \in Threads : pc'[u] = "put" => pc[u] = "put" /\ print'[u] = print[u]
        BY <2>3, WhatMoves DEF AboutToLookUp
      <3>2. Read' = Read /\ Read \in seen'[t]
        BY <1>4, <3>1, StoreRests DEF MemoInv
      <3>3. ASSUME NEW k \in Keys, entry'[k] # NoEntry, entry'[k].print = print'[t]
            PROVE  entry'[k].reading \in seen'[t]
        <4>1. /\ entry[k] \in Entry /\ Backed(entry[k].print, entry[k].reading)
              /\ entry[k].print = Fingerprint /\ entry'[k] = entry[k]
          BY <2>1, <3>1, <3>3 DEF MemoInv, MemoTypes, ReadingsBacked
        <4>2. entry[k].reading = Read
          BY <4>1, BackedByNow DEF Entry
        <4> QED
          BY <3>2, <4>1, <4>2
      <3>4. ASSUME NEW u \in Threads, pc'[u] = "put", print'[u] = print'[t]
            PROVE  reading'[u] \in seen'[t]
        <4>1. /\ print[u] \in Nat \X Nat /\ reading[u] \in Reading
              /\ Backed(print[u], reading[u]) /\ print[u] = Fingerprint
              /\ reading'[u] = reading[u]
          BY <2>1, <3>1, <3>4 DEF MemoInv, MemoTypes, ReadingsBacked
        <4>2. reading[u] = Read
          BY <4>1, BackedByNow
        <4> QED
          BY <3>2, <4>1, <4>2
      <3> QED
        BY <3>3, <3>4
    <2> QED
      BY <2>2, <2>3
  <1> QED
    BY <1>3, <1>4, <1>5 DEF SeenInv

LEMMA SeenInvariance == Spec => [](MemoInv /\ SeenInv)
  <1>1. Init => SeenInv
    <2> SUFFICES ASSUME Init PROVE SeenInv
      OBVIOUS
    <2>1. seen = [t \in Threads |-> {}] /\ \A t \in Threads : pc[t] = "idle"
      BY DEF Init, MemoInit
    <2> QED
      BY <2>1 DEF SeenInv, SeenCovers
  <1>2. MemoInv /\ MemoInv' /\ SeenInv /\ [Next]_vars => SeenInv'
    <2> SUFFICES ASSUME MemoInv, MemoInv', SeenInv, [Next]_vars PROVE SeenInv'
      OBVIOUS
    <2>1. CASE UNCHANGED vars
      <3>1. UNCHANGED storeVars /\ UNCHANGED <<entry, pc, print, reading, seen>>
        BY <2>1 DEF vars, storeVars
      <3>2. Read' = Read /\ revised' = revised
        BY <3>1, StoreRests DEF MemoInv
      <3> QED
        BY <3>1, <3>2 DEF SeenInv, SeenCovers
    <2> QED
      BY <2>1, SeenStep DEF Next
  <1> QED
    BY <1>1, <1>2, MemoInvariance, PTL DEF Spec

-----------------------------------------------------------------------------
(* Every variable has its type; the order lists each stored key once, and    *)
(* the memo is over its ceiling only while a thread is about to evict.       *)
THEOREM MemoTyped == Spec => []TypeOK
  <1>1. MemoInv /\ SeenInv => TypeOK
    <2> SUFFICES ASSUME MemoInv, SeenInv PROVE TypeOK
      OBVIOUS
    <2>1. ASSUME NEW k \in Keys
          PROVE  Cardinality({n \in 1..Len(order) : order[n] = k})
                    = (IF entry[k] = NoEntry THEN 0 ELSE 1)
      <3> DEFINE places == {n \in 1..Len(order) : order[n] = k}
      <3>1. CASE entry[k] = NoEntry
        <4>1. places = {}
          BY <3>1 DEF MemoInv, OrderFits
        <4> QED
          BY <3>1, <4>1, FS_EmptySet
      <3>2. CASE entry[k] # NoEntry
        <4>1. PICK n \in 1..Len(order) : order[n] = k
          BY <3>2 DEF MemoInv, OrderFits
        <4>2. places = {n}
          BY <4>1 DEF MemoInv, OrderFits
        <4> QED
          BY <3>2, <4>2, FS_Singleton
      <3> QED
        BY <3>1, <3>2
    <2>2. Len(order) > MaxEntries => \E t \in Threads : pc[t] \in {"putTouch", "evict", "pop"}
      BY DEF MemoInv, SomebodyEvicts, WillEvict
    <2> QED
      BY <2>1, <2>2 DEF MemoInv, MemoTypes, SeenInv, StoreInv, TypeOK
  <1> QED
    BY <1>1, SeenInvariance, PTL

(* Until a row that is there is revised, what a request is served is the     *)
(* reading of the table at some instant of that request (get_analysis,       *)
(* Memo.get). *)
THEOREM ServedReadings == Spec => []ServedWasCurrent
  <1>1. MemoInv /\ SeenInv => ServedWasCurrent
    BY DEF MemoInv, MemoTypes, SeenInv, SeenCovers, ServedWasCurrent, IsHit
  <1> QED
    BY <1>1, SeenInvariance, PTL

(* An entry that matches the fingerprint the table has now is its reading. *)
FreshUnlessRevised ==
    ~revised =>
        \A k \in Keys :
            (entry[k] # NoEntry /\ entry[k].print = Fingerprint)
                => entry[k].reading = Read

(* Until a row that is there is revised, what the memo serves under the      *)
(* fingerprint of the table is the reading of the table, whatever bars came  *)
(* in between a fingerprint, its reading and its entry.                      *)
THEOREM FreshWhileUnrevised == Spec => []FreshUnlessRevised
  <1>1. MemoInv => FreshUnlessRevised
    <2> SUFFICES ASSUME MemoInv, ~revised, NEW k \in Keys,
                        entry[k] # NoEntry, entry[k].print = Fingerprint
                 PROVE  entry[k].reading = Read
      BY DEF FreshUnlessRevised
    <2>1. Backed(entry[k].print, entry[k].reading) /\ entry[k] \in Entry
      BY DEF MemoInv, MemoTypes, ReadingsBacked
    <2>2. entry[k].print[1] = Count /\ entry[k].reading.rows \in Nat
      BY <2>1, FingerprintType DEF Entry, Reading
    <2> QED
      BY <2>1, <2>2, RowsCounted DEF Backed
  <1> QED
    BY <1>1, MemoInvariance, PTL

(* popitem never raises KeyError for an empty dictionary, although another   *)
(* thread may pop between the test of the length and it.                     *)
THEOREM PopsFindEntries == Spec => [](\A t \in Threads : pc[t] = "pop" => order # << >>)
  <1>1. MemoInv => \A t \in Threads : pc[t] = "pop" => order # << >>
    BY SomethingToPop
  <1> QED
    BY <1>1, MemoInvariance, PTL
=============================================================================
