---------------------------- MODULE DatabaseProofs ----------------------------
(***************************************************************************)
(* Proofs about what the backend does to its database: the migrations at    *)
(* its start (Migrations) and the rows each ingest leaves behind (Ingest).  *)
(* Each is proved by itself; they share no variable.                        *)
(***************************************************************************)
EXTENDS MCDatabase, CandleStoreProofs, FiniteSetTheorems, TLAPS

-----------------------------------------------------------------------------
(* Migrations, for any processes, any number of migrations and any number   *)
(* of statements in each.                                                   *)

(* The migrations recorded are those up to some version. *)
RecordedUpTo(v) == v \in 0..Len(Statements) /\ recorded = 1..v

(* A process that migrates has the migrations below its own recorded, and   *)
(* has executed the statements before the next one.                         *)
InPlace(p) ==
    pc[p] = "running" =>
        /\ at[p] <= release[p]
        /\ \A m \in 1..(at[p] - 1) : m \in recorded
        /\ \A k \in 1..(next[p] - 1) : <<at[p], k>> \in done

(* The inductive invariant. *)
IInv ==
    /\ TypeOK
    /\ \E v \in Int : RecordedUpTo(v)
    /\ \A m \in recorded : Whole(m)
    /\ \A p \in Procs : InPlace(p)
    /\ \A p \in Procs : pc[p] = "serving" => \A m \in 1..release[p] : m \in recorded
    /\ OneInside

(* What every proof needs of the constants. *)
LEMMA Constants ==
    /\ Len(Statements) \in Nat \ {0}
    /\ Versions = 1..Len(Statements)
    /\ \A m \in Versions : Statements[m] \in Nat \ {0}
BY MigrationAssumption DEF Versions

(* current_version is the version up to which migrations are recorded. *)
LEMMA VersionIsLast ==
    ASSUME NEW v \in Int, RecordedUpTo(v)
    PROVE  CurrentVersion = v
<1>1. CASE v = 0
  BY <1>1 DEF RecordedUpTo, CurrentVersion
<1>2. CASE v # 0
  <2>1. v \in recorded /\ \A other \in recorded : other <= v
    BY <1>2 DEF RecordedUpTo
  <2>2. \A w \in recorded : (\A other \in recorded : other <= w) => w = v
    BY <2>1 DEF RecordedUpTo
  <2>3. CurrentVersion \in recorded
           /\ \A other \in recorded : other <= CurrentVersion
    BY <2>1 DEF CurrentVersion
  <2> QED BY <2>2, <2>3
<1> QED BY <1>1, <1>2

(* The empty database satisfies the invariant. *)
LEMMA InitInv == Init => IInv
<1> SUFFICES ASSUME Init PROVE IInv
  OBVIOUS
<1>1. TypeOK
  BY Constants DEF Init, TypeOK
<1>2. RecordedUpTo(0)
  BY Constants DEF Init, RecordedUpTo
<1> QED BY <1>1, <1>2 DEF Init, IInv, InPlace, OneInside

(* A process that starts finds its place behind what is recorded. *)
LEMMA StartInv ==
    ASSUME IInv, NEW p \in Procs, NEW r \in Versions,
           StartCurrent(p, r) \/ StartPending(p, r)
    PROVE  IInv'
<1>0. PICK v \in Int : RecordedUpTo(v)
  BY DEF IInv
<1>1. CurrentVersion = v /\ v \in 0..Len(Statements)
  BY <1>0, VersionIsLast DEF RecordedUpTo
<1>2. UNCHANGED <<done, recorded>>
  BY DEF StartCurrent, StartPending
<1>3. RecordedUpTo(v)' /\ \A m \in recorded' : Whole(m)'
  BY <1>0, <1>2 DEF RecordedUpTo, IInv, Whole
<1>4. CASE StartCurrent(p, r)
  <2>1. TypeOK'
    BY <1>4 DEF IInv, TypeOK, StartCurrent
  <2>2. \A m \in 1..r : m \in recorded
    BY <1>0, <1>1, <1>4, Constants DEF RecordedUpTo, StartCurrent
  <2>3. ASSUME NEW q \in Procs PROVE InPlace(q)'
    BY <1>4 DEF IInv, TypeOK, InPlace, StartCurrent
  <2>4. ASSUME NEW q \in Procs, pc'[q] = "serving"
        PROVE  \A m \in 1..release'[q] : m \in recorded'
    BY <1>4, <2>2, <2>4 DEF IInv, TypeOK, StartCurrent
  <2>5. OneInside'
    BY <1>4 DEF IInv, TypeOK, OneInside, StartCurrent
  <2> QED BY <1>3, <2>1, <2>3, <2>4, <2>5 DEF IInv
<1>5. CASE StartPending(p, r)
  <2>0. at' = [at EXCEPT ![p] = v + 1] /\ next' = [next EXCEPT ![p] = 1] /\ v + 1 <= r
    BY <1>1, <1>5, Constants DEF StartPending, Begin
  <2>00. v + 1 \in Versions
    BY <1>1, <2>0, Constants
  <2>1. TypeOK'
    <3>1. at' \in [Procs -> Versions] /\ next' \in [Procs -> Nat \ {0}]
      BY <2>0, <2>00 DEF IInv, TypeOK
    <3>2. \A q \in Procs : next'[q] <= Statements[at'[q]] + 1
      BY <2>0, <2>00, Constants DEF IInv, TypeOK
    <3> QED BY <1>5, <3>1, <3>2 DEF IInv, TypeOK, StartPending
  <2>3. ASSUME NEW q \in Procs PROVE InPlace(q)'
    <3>1. CASE q = p
      BY <1>0, <1>1, <1>5, <2>0, <3>1 DEF IInv, TypeOK, InPlace, StartPending, RecordedUpTo
    <3>2. CASE q # p
      BY <1>5, <2>0, <3>2 DEF IInv, TypeOK, InPlace, StartPending
    <3> QED BY <3>1, <3>2
  <2>4. ASSUME NEW q \in Procs, pc'[q] = "serving"
        PROVE  \A m \in 1..release'[q] : m \in recorded'
    BY <1>5, <2>4 DEF IInv, TypeOK, StartPending
  <2>5. OneInside'
    BY <1>5, <2>0 DEF IInv, TypeOK, OneInside, StartPending
  <2> QED BY <1>3, <2>1, <2>3, <2>4, <2>5 DEF IInv
<1> QED BY <1>4, <1>5

(* A statement keeps what others have executed, and nobody else can be      *)
(* inside its migration.                                                    *)
LEMMA ExecuteInv ==
    ASSUME IInv, NEW p \in Procs, Execute(p)
    PROVE  IInv'
<1>0. /\ done' = done \cup {<<at[p], next[p]>>}
      /\ next' = [next EXCEPT ![p] = next[p] + 1]
      /\ next[p] <= Statements[at[p]]
      /\ <<at[p], next[p]>> \notin done
      /\ pc[p] = "running"
      /\ UNCHANGED <<recorded, pc, release, at>>
  BY DEF Execute
<1>a. at[p] \in Versions /\ next[p] \in Nat \ {0} /\ Statements[at[p]] \in Nat \ {0}
  BY Constants DEF IInv, TypeOK
<1>1. TypeOK'
  <2>1. done' \subseteq {s \in Versions \X Nat : s[2] \in 1..Statements[s[1]]}
    BY <1>0, <1>a DEF IInv, TypeOK
  <2>2. next' \in [Procs -> Nat \ {0}]
    BY <1>0, <1>a DEF IInv, TypeOK
  <2>3. \A q \in Procs : next'[q] <= Statements[at'[q]] + 1
    BY <1>0, <1>a DEF IInv, TypeOK
  <2> QED BY <1>0, <2>1, <2>2, <2>3 DEF IInv, TypeOK
<1>2. \E v \in Int : RecordedUpTo(v)'
  BY <1>0 DEF IInv, RecordedUpTo
<1>3. \A m \in recorded' : Whole(m)'
  BY <1>0 DEF IInv, Whole
<1>4. ASSUME NEW q \in Procs PROVE InPlace(q)'
  <2>1. CASE q = p
    BY <1>0, <1>a, <2>1 DEF IInv, TypeOK, InPlace
  <2>2. CASE q # p
    BY <1>0, <2>2 DEF IInv, TypeOK, InPlace
  <2> QED BY <2>1, <2>2
<1>5. \A q \in Procs : pc'[q] = "serving" => \A m \in 1..release'[q] : m \in recorded'
  BY <1>0 DEF IInv
<1>6. OneInside'
  <2>1. ASSUME NEW q \in Procs, q # p, pc[q] = "running", at[q] = at[p]
        PROVE  ~(next[q] > 1)
    <3> SUFFICES ASSUME next[q] > 1 PROVE FALSE
      OBVIOUS
    <3>1. 1 \in 1..(next[q] - 1)
      BY DEF IInv, TypeOK
    <3>2. <<at[p], 1>> \in done
      BY <2>1, <3>1 DEF IInv, InPlace
    <3>3. next[p] > 1
      BY <1>0, <1>a, <3>2
    <3> QED BY <1>0, <2>1, <3>3 DEF IInv, OneInside
  <2>2. \A q \in Procs : q # p => next'[q] = next[q]
    BY <1>0 DEF IInv, TypeOK
  <2> QED BY <1>0, <2>1, <2>2 DEF IInv, OneInside
<1> QED BY <1>1, <1>2, <1>3, <1>4, <1>5, <1>6 DEF IInv

(* A migration is recorded when it is whole and all below it are recorded. *)
LEMMA RecordInv ==
    ASSUME IInv, NEW p \in Procs, Record(p)
    PROVE  IInv'
<1>0. /\ pc[p] = "running"
      /\ next[p] > Statements[at[p]]
      /\ at[p] \notin recorded
      /\ recorded' = recorded \cup {at[p]}
      /\ UNCHANGED <<done, release>>
  BY DEF Record
<1>a. at[p] \in Versions /\ next[p] \in Nat \ {0} /\ Statements[at[p]] \in Nat \ {0}
        /\ release[p] \in Versions /\ at[p] <= release[p]
  BY <1>0, Constants DEF IInv, TypeOK, InPlace
<1>1. Whole(at[p])
  BY <1>0, <1>a DEF IInv, InPlace, Whole
<1>2. \A m \in recorded' : Whole(m)'
  BY <1>0, <1>1 DEF IInv, Whole
<1>3. PICK v \in Int : RecordedUpTo(v)
  BY DEF IInv
<1>4. at[p] = v + 1
  <2>1. \A m \in 1..(at[p] - 1) : m \in 1..v
    BY <1>0, <1>3 DEF IInv, InPlace, RecordedUpTo
  <2>2. at[p] \notin 1..v /\ v \in Nat
    BY <1>0, <1>3, Constants DEF RecordedUpTo
  <2>3. at[p] > v
    BY <2>2, <1>a, Constants
  <2>4. ~(at[p] - 1 > v)
    <3> SUFFICES ASSUME at[p] - 1 > v PROVE FALSE
      OBVIOUS
    <3>1. at[p] - 1 \in 1..(at[p] - 1)
      BY <1>a, <2>2, Constants
    <3> QED BY <2>1, <3>1, <2>2
  <2> QED BY <2>2, <2>3, <2>4, <1>a, Constants
<1>5. RecordedUpTo(v + 1)'
  BY <1>0, <1>3, <1>4, <1>a, Constants DEF RecordedUpTo
<1>6. \A m \in 1..at[p] : m \in recorded'
  BY <1>3, <1>4, <1>5 DEF RecordedUpTo
<1>7. CASE at[p] = release[p]
  <2>0. pc' = [pc EXCEPT ![p] = "serving"] /\ UNCHANGED <<at, next>>
    BY <1>7 DEF Record
  <2>1. TypeOK'
    BY <1>0, <1>a, <2>0 DEF IInv, TypeOK
  <2>2. ASSUME NEW q \in Procs PROVE InPlace(q)'
    BY <1>0, <2>0 DEF IInv, TypeOK, InPlace
  <2>3. \A q \in Procs : pc'[q] = "serving" => \A m \in 1..release'[q] : m \in recorded'
    BY <1>0, <1>6, <1>7, <2>0 DEF IInv, TypeOK
  <2>4. OneInside'
    BY <2>0 DEF IInv, TypeOK, OneInside
  <2> QED BY <1>2, <1>5, <2>1, <2>2, <2>3, <2>4 DEF IInv
<1>8. CASE at[p] # release[p]
  <2>0. /\ UNCHANGED pc
        /\ at' = [at EXCEPT ![p] = at[p] + 1]
        /\ next' = [next EXCEPT ![p] = 1]
    BY <1>8 DEF Record, Begin
  <2>00. at[p] + 1 \in Versions /\ at[p] + 1 <= release[p]
    BY <1>a, <1>8, Constants
  <2>1. TypeOK'
    <3>1. at' \in [Procs -> Versions] /\ next' \in [Procs -> Nat \ {0}]
      BY <2>0, <2>00 DEF IInv, TypeOK
    <3>2. \A q \in Procs : next'[q] <= Statements[at'[q]] + 1
      BY <2>0, <2>00, Constants DEF IInv, TypeOK
    <3> QED BY <1>0, <1>a, <2>0, <3>1, <3>2 DEF IInv, TypeOK
  <2>2. ASSUME NEW q \in Procs PROVE InPlace(q)'
    <3>1. CASE q = p
      BY <1>0, <1>6, <1>a, <2>0, <2>00, <3>1, Constants DEF IInv, TypeOK, InPlace
    <3>2. CASE q # p
      BY <1>0, <2>0, <3>2 DEF IInv, TypeOK, InPlace
    <3> QED BY <3>1, <3>2
  <2>3. \A q \in Procs : pc'[q] = "serving" => \A m \in 1..release'[q] : m \in recorded'
    BY <1>0, <2>0 DEF IInv, TypeOK
  <2>4. OneInside'
    BY <2>0 DEF IInv, TypeOK, OneInside
  <2> QED BY <1>2, <1>5, <2>1, <2>2, <2>3, <2>4 DEF IInv
<1> QED BY <1>7, <1>8

(* Nothing depends on a process that is gone. *)
LEMMA ExitInv ==
    ASSUME IInv, NEW p \in Procs, Exit(p)
    PROVE  IInv'
<1>0. pc' = [pc EXCEPT ![p] = "down"] /\ UNCHANGED <<done, recorded, release, at, next>>
  BY DEF Exit
<1>1. TypeOK'
  BY <1>0 DEF IInv, TypeOK
<1>2. (\E v \in Int : RecordedUpTo(v)') /\ \A m \in recorded' : Whole(m)'
  BY <1>0 DEF IInv, RecordedUpTo, Whole
<1>3. \A q \in Procs : InPlace(q)'
  BY <1>0 DEF IInv, TypeOK, InPlace
<1>4. \A q \in Procs : pc'[q] = "serving" => \A m \in 1..release'[q] : m \in recorded'
  BY <1>0 DEF IInv, TypeOK
<1>5. OneInside'
  BY <1>0 DEF IInv, TypeOK, OneInside
<1> QED BY <1>1, <1>2, <1>3, <1>4, <1>5 DEF IInv

(* Every step keeps the invariant. *)
LEMMA StepInv == IInv /\ [Next]_vars => IInv'
<1> SUFFICES ASSUME IInv, [Next]_vars PROVE IInv'
  OBVIOUS
<1>1. CASE Next
  BY <1>1, StartInv, ExecuteInv, RecordInv, ExitInv DEF Next
<1>2. CASE UNCHANGED vars
  BY <1>2 DEF vars, IInv, TypeOK, RecordedUpTo, Whole, InPlace, OneInside
<1> QED BY <1>1, <1>2

(* The invariant gives the properties the runs check. *)
LEMMA InvImplies == IInv => TypeOK /\ RecordedIsWhole /\ ServesWhole /\ OneInside
<1> SUFFICES ASSUME IInv PROVE RecordedIsWhole /\ ServesWhole
  BY DEF IInv
<1>1. RecordedIsWhole
  BY DEF IInv, RecordedIsWhole, RecordedUpTo
<1>2. ServesWhole
  BY DEF IInv, ServesWhole
<1> QED BY <1>1, <1>2

(* The invariant holds throughout. *)
THEOREM Invariance == Spec => []IInv
<1> QED BY InitInv, StepInv, PTL DEF Spec

(* Wherever processes die and however two of them overlap, a recorded       *)
(* migration and all below it are whole.                                    *)
THEOREM Recorded == Spec => []RecordedIsWhole
<1> QED BY Invariance, InvImplies, PTL

(* A backend never serves on a schema that lacks something it knows. *)
THEOREM Serves == Spec => []ServesWhole
<1> QED BY Invariance, InvImplies, PTL

(* Two processes are never inside one migration. *)
THEOREM Exclusive == Spec => []OneInside
<1> QED BY Invariance, InvImplies, PTL

-----------------------------------------------------------------------------
(* Ingest, for any number of handlers and any intervals and retention.      *)

Places == {"idle", "look", "mark", "insert", "due", "save", "pruneQuotes",
           "pruneSnapshots", "pruneSignals", "served"}

(* No row is younger than the date says. *)
Since(rows, date) == \A row \in rows : row[1] >= date

Young(rows, h, interval) == {row \in rows : row[2] = h /\ row[1] < interval}

Spread(rows, interval) ==
    \A row, other \in rows :
        row[2] = other[2] /\ row[1] < interval /\ other[1] < interval => row = other

(* A handler that is to write has nothing young in its table, and one that   *)
(* is to write a sample does so in the tick in which it was marked. *)
DueToWrite(h) ==
    /\ place[h] \in {"mark", "insert"} => Young(quotes, h, SampleInterval) = {}
    /\ place[h] = "insert" => sampled = 0
    /\ place[h] = "save" => Young(snapshots, h, SnapshotInterval) = {}

IngestInv ==
    /\ IngestTypeOK
    /\ Since(quotes, sampled) /\ Spread(quotes, SampleInterval)
    /\ Since(snapshots, stamped) /\ Spread(snapshots, SnapshotInterval)
    /\ \A h \in Handlers : DueToWrite(h)

(* Older keeps the order, and stops where it must. *)
LEMMA OlderFacts ==
    ASSUME NEW limit \in Nat, NEW age \in 0..limit
    PROVE  /\ Older(age, limit) \in 0..limit
           /\ age < limit => Older(age, limit) = age + 1
           /\ age >= limit => Older(age, limit) = limit
  BY DEF Older

(* A tick ages a table and the date of its last row alike. *)
LEMMA TableAges ==
    ASSUME NEW keep \in Nat, NEW interval \in 1..(keep + 1), NEW writers,
           NEW rows \in SUBSET Rows(keep, writers), NEW date \in 0..interval,
           Since(rows, date), Spread(rows, interval)
    PROVE  /\ Aged(rows, keep) \in SUBSET Rows(keep, writers)
           /\ Since(Aged(rows, keep), Older(date, interval))
           /\ Spread(Aged(rows, keep), interval)
  <1> DEFINE older(row) == <<Older(row[1], keep + 1), row[2]>>
  <1>1. \A row \in rows : /\ row[1] \in 0..(keep + 1) /\ row[2] \in writers
                          /\ row = <<row[1], row[2]>>
    BY DEF Rows
  <1>2. \A row \in rows : /\ Older(row[1], keep + 1) \in 0..(keep + 1)
                          /\ Older(row[1], keep + 1) < interval =>
                                Older(row[1], keep + 1) = row[1] + 1
                          /\ Older(row[1], keep + 1) >= Older(date, interval)
    <2>1. ASSUME NEW row \in rows
          PROVE  /\ Older(row[1], keep + 1) \in 0..(keep + 1)
                 /\ Older(row[1], keep + 1) < interval =>
                       Older(row[1], keep + 1) = row[1] + 1
                 /\ Older(row[1], keep + 1) >= Older(date, interval)
      <3>1. row[1] \in 0..(keep + 1) /\ row[1] >= date
        BY <1>1 DEF Since
      <3> QED
        BY <3>1 DEF Older
    <2> QED
      BY <2>1
  <1>3. Aged(rows, keep) = {older(row) : row \in rows}
    BY DEF Aged
  <1>4. Aged(rows, keep) \in SUBSET Rows(keep, writers)
    BY <1>1, <1>2, <1>3 DEF Rows
  <1>5. Since(Aged(rows, keep), Older(date, interval))
    BY <1>2, <1>3 DEF Since
  <1>6. Spread(Aged(rows, keep), interval)
    <2>1. SUFFICES ASSUME NEW r1 \in rows, NEW r2 \in rows,
                          older(r1)[2] = older(r2)[2],
                          older(r1)[1] < interval, older(r2)[1] < interval
                   PROVE  older(r1) = older(r2)
      BY <1>3 DEF Spread
    <2>2. /\ r1[1] + 1 < interval /\ r2[1] + 1 < interval
          /\ r1[2] = r2[2] /\ r1[1] \in Nat /\ r2[1] \in Nat
      BY <1>1, <1>2, <2>1
    <2>3. r1[1] < interval /\ r2[1] < interval
      BY <2>2
    <2>4. r1 = r2
      BY <2>2, <2>3 DEF Spread
    <2> QED
      BY <2>4
  <1> QED
    BY <1>4, <1>5, <1>6

(* A row is added by one who has none that is young. *)
LEMMA TableGrows ==
    ASSUME NEW rows, NEW interval \in Nat, NEW h, Spread(rows, interval),
           Young(rows, h, interval) = {}
    PROVE  /\ Since(rows, 0) => Since(rows \cup {<<0, h>>}, 0)
           /\ Spread(rows \cup {<<0, h>>}, interval)
  BY DEF Since, Spread, Young

(* Removing rows spoils nothing. *)
LEMMA TableShrinks ==
    ASSUME NEW rows, NEW fewer \in SUBSET rows, NEW date, NEW interval,
           Since(rows, date), Spread(rows, interval)
    PROVE  Since(fewer, date) /\ Spread(fewer, interval)
  BY DEF Since, Spread

LEMMA SpreadCounted ==
    ASSUME NEW rows, NEW interval, NEW h, Spread(rows, interval)
    PROVE  Cardinality(Young(rows, h, interval)) <= 1
  <1>1. CASE Young(rows, h, interval) = {}
    BY <1>1, FS_EmptySet
  <1>2. CASE Young(rows, h, interval) # {}
    <2>1. PICK row \in Young(rows, h, interval) : TRUE
      BY <1>2
    <2>2. Young(rows, h, interval) = {row}
      BY <2>1 DEF Young, Spread
    <2> QED
      BY <2>2, FS_Singleton
  <1> QED
    BY <1>1, <1>2

LEMMA IngestInitInv == IngestInit => IngestInv
  <1> SUFFICES ASSUME IngestInit PROVE IngestInv
    OBVIOUS
  <1>1. IngestTypeOK
    BY IngestAssumption DEF IngestInit, IngestTypeOK
  <1> QED
    BY <1>1 DEF IngestInit, IngestInv, Since, Spread, DueToWrite

(* What holds of the handler that takes a step, and of its rows. *)
LEMMA HandlerKeeps ==
    ASSUME IngestInv, NEW h \in Handlers, NEW label \in Places,
           place' = [place EXCEPT ![h] = label],
           sampled' \in {sampled, 0}, stamped' \in {stamped, 0},
           quotes' \in SUBSET Rows(KeepQuotes, Handlers),
           snapshots' \in SUBSET Rows(KeepSnapshots, Handlers),
           signals' \in SUBSET Rows(KeepSignals, {Elsewhere}),
           Since(quotes', sampled'), Spread(quotes', SampleInterval),
           Since(snapshots', stamped'), Spread(snapshots', SnapshotInterval),
           \A row \in quotes' : row \in quotes \/ row[2] = h,
           \A row \in snapshots' : row \in snapshots \/ row[2] = h,
           label \in {"mark", "insert"} => Young(quotes', h, SampleInterval) = {},
           label = "insert" => sampled' = 0,
           label = "save" => Young(snapshots', h, SnapshotInterval) = {}
    PROVE  IngestInv'
  <1>1. IngestTypeOK'
    BY IngestAssumption DEF IngestInv, IngestTypeOK, Places
  <1>2. place'[h] = label /\ \A g \in Handlers \ {h} : place'[g] = place[g]
    BY DEF IngestInv, IngestTypeOK
  <1>3. ASSUME NEW g \in Handlers PROVE DueToWrite(g)'
    <2>1. CASE g = h
      BY <1>2, <2>1 DEF DueToWrite
    <2>2. CASE g # h
      <3>1. place'[g] = place[g] /\ DueToWrite(g)
        BY <1>2, <2>2 DEF IngestInv
      <3>2. /\ Young(quotes, g, SampleInterval) = {} => Young(quotes', g, SampleInterval) = {}
            /\ Young(snapshots, g, SnapshotInterval) = {}
                  => Young(snapshots', g, SnapshotInterval) = {}
        BY <2>2 DEF Young
      <3> QED
        BY <3>1, <3>2 DEF DueToWrite
    <2> QED
      BY <2>1, <2>2
  <1> QED
    BY <1>1, <1>3 DEF IngestInv

(* A handler that looks, and writes nothing. *)
LEMMA LookKeeps ==
    ASSUME IngestInv, NEW h \in Handlers, NEW label \in Places,
           place' = [place EXCEPT ![h] = label],
           UNCHANGED <<sampled, stamped, quotes, snapshots, signals>>,
           label = "insert" => FALSE,
           label = "mark" => sampled >= SampleInterval,
           label = "save" => stamped >= SnapshotInterval
    PROVE  IngestInv'
  <1>1. /\ quotes \in SUBSET Rows(KeepQuotes, Handlers)
        /\ snapshots \in SUBSET Rows(KeepSnapshots, Handlers)
        /\ signals \in SUBSET Rows(KeepSignals, {Elsewhere})
        /\ Since(quotes, sampled) /\ Spread(quotes, SampleInterval)
        /\ Since(snapshots, stamped) /\ Spread(snapshots, SnapshotInterval)
        /\ sampled \in 0..SampleInterval /\ stamped \in 0..SnapshotInterval
    BY DEF IngestInv, IngestTypeOK
  <1>2. label = "mark" => Young(quotes, h, SampleInterval) = {}
    BY <1>1, IngestAssumption DEF Young, Since, Rows
  <1>3. label = "save" => Young(snapshots, h, SnapshotInterval) = {}
    BY <1>1, IngestAssumption DEF Young, Since, Rows
  <1> QED
    BY <1>1, <1>2, <1>3, HandlerKeeps

LEMMA TickKeeps == IngestInv /\ Tick => IngestInv'
  <1> SUFFICES ASSUME IngestInv, Tick PROVE IngestInv'
    OBVIOUS
  <1>1. /\ KeepQuotes \in Nat /\ SampleInterval \in 1..(KeepQuotes + 1)
        /\ KeepSnapshots \in Nat /\ SnapshotInterval \in 1..(KeepSnapshots + 1)
        /\ KeepSignals \in Nat
    BY IngestAssumption
  <1>2. /\ quotes' \in SUBSET Rows(KeepQuotes, Handlers)
        /\ Since(quotes', sampled') /\ Spread(quotes', SampleInterval)
    BY <1>1, TableAges DEF Tick, IngestInv, IngestTypeOK
  <1>3. /\ snapshots' \in SUBSET Rows(KeepSnapshots, Handlers)
        /\ Since(snapshots', stamped') /\ Spread(snapshots', SnapshotInterval)
    BY <1>1, TableAges DEF Tick, IngestInv, IngestTypeOK
  <1>4. signals' \in SUBSET Rows(KeepSignals, {Elsewhere})
    BY <1>1 DEF Tick, IngestInv, IngestTypeOK, Aged, Rows, Older
  <1>5. sampled' \in 0..SampleInterval /\ stamped' \in 0..SnapshotInterval
    BY <1>1, OlderFacts DEF Tick, IngestInv, IngestTypeOK
  <1>6. place' = [h \in Handlers |-> "idle"]
    BY DEF Tick
  <1>7. IngestTypeOK'
    BY <1>2, <1>3, <1>4, <1>5, <1>6 DEF IngestTypeOK
  <1>8. \A h \in Handlers : DueToWrite(h)'
    BY <1>6 DEF DueToWrite
  <1> QED
    BY <1>2, <1>3, <1>7, <1>8 DEF IngestInv

LEMMA PersistKeeps ==
    ASSUME IngestInv, NEW h \in Handlers, Persist(h)
    PROVE  IngestInv'
  <1>1. /\ quotes \in SUBSET Rows(KeepQuotes, Handlers)
        /\ snapshots \in SUBSET Rows(KeepSnapshots, Handlers)
        /\ signals \in SUBSET Rows(KeepSignals, {Elsewhere})
        /\ Since(quotes, sampled) /\ Spread(quotes, SampleInterval)
        /\ Since(snapshots, stamped) /\ Spread(snapshots, SnapshotInterval)
        /\ sampled \in 0..SampleInterval /\ stamped \in 0..SnapshotInterval
        /\ SampleInterval \in Nat /\ SnapshotInterval \in Nat
        /\ DueToWrite(h)
    BY IngestAssumption DEF IngestInv, IngestTypeOK
  <1>2. Since(quotes, 0) /\ Since(snapshots, 0)
    BY <1>1 DEF Since, Rows
  <1>3. \A keep \in Nat : \A writers : \A w \in writers : <<0, w>> \in Rows(keep, writers)
    BY DEF Rows
  <1>4. CASE LookAtSample(h)
    <2>1. CASE sampled >= SampleInterval
      BY <1>4, <2>1, LookKeeps DEF LookAtSample, Step, Enter, tables, Places
    <2>2. CASE ~(sampled >= SampleInterval)
      BY <1>4, <2>2, LookKeeps DEF LookAtSample, Step, Enter, tables, Places
    <2> QED
      BY <2>1, <2>2
  <1>5. CASE MarkSampled(h)
    <2>1. /\ place' = [place EXCEPT ![h] = "insert"] /\ place[h] = "mark"
          /\ sampled' = 0 /\ UNCHANGED <<stamped, quotes, snapshots, signals>>
      BY <1>5 DEF MarkSampled, Step, Enter, tables
    <2>2. Young(quotes, h, SampleInterval) = {}
      BY <1>1, <2>1 DEF DueToWrite
    <2> QED
      BY <1>1, <1>2, <2>1, <2>2, HandlerKeeps DEF Places
  <1>6. CASE InsertSample(h)
    <2>1. /\ place' = [place EXCEPT ![h] = "due"] /\ place[h] = "insert"
          /\ quotes' = quotes \cup {<<0, h>>}
          /\ UNCHANGED <<sampled, stamped, snapshots, signals>>
      BY <1>6 DEF InsertSample, Step, Enter
    <2>2. Young(quotes, h, SampleInterval) = {} /\ sampled = 0
      BY <1>1, <2>1 DEF DueToWrite
    <2>3. Since(quotes', 0) /\ Spread(quotes', SampleInterval)
      BY <1>1, <1>2, <2>1, <2>2, TableGrows
    <2>4. quotes' \in SUBSET Rows(KeepQuotes, Handlers)
      BY <1>1, <1>3, <2>1, IngestAssumption
    <2>5. \A row \in quotes' : row \in quotes \/ row[2] = h
      BY <2>1
    <2> QED
      BY <1>1, <2>1, <2>2, <2>3, <2>4, <2>5, HandlerKeeps DEF Places
  <1>7. CASE LookAtSnapshot(h)
    <2>1. CASE stamped >= SnapshotInterval
      BY <1>7, <2>1, LookKeeps DEF LookAtSnapshot, Step, Enter, tables, Places
    <2>2. CASE ~(stamped >= SnapshotInterval)
      BY <1>7, <2>2, LookKeeps DEF LookAtSnapshot, Step, Enter, tables, Places
    <2> QED
      BY <2>1, <2>2
  <1>8. CASE SaveSnapshot(h)
    <2>1. /\ place' = [place EXCEPT ![h] = "pruneQuotes"] /\ place[h] = "save"
          /\ snapshots' = snapshots \cup {<<0, h>>} /\ stamped' = 0
          /\ UNCHANGED <<sampled, quotes, signals>>
      BY <1>8 DEF SaveSnapshot, Step, Enter
    <2>2. Young(snapshots, h, SnapshotInterval) = {}
      BY <1>1, <2>1 DEF DueToWrite
    <2>3. Since(snapshots', 0) /\ Spread(snapshots', SnapshotInterval)
      BY <1>1, <1>2, <2>1, <2>2, TableGrows
    <2>4. snapshots' \in SUBSET Rows(KeepSnapshots, Handlers)
      BY <1>1, <1>3, <2>1, IngestAssumption
    <2>5. \A row \in snapshots' : row \in snapshots \/ row[2] = h
      BY <2>1
    <2> QED
      BY <1>1, <2>1, <2>3, <2>4, <2>5, HandlerKeeps DEF Places
  <1>9. CASE PruneQuotes(h) \/ PruneSnapshots(h) \/ PruneSignals(h) \/ PersistingFails(h)
    <2>1. PICK label \in {"pruneSnapshots", "pruneSignals", "served"} :
             place' = [place EXCEPT ![h] = label]
      BY <1>9 DEF PruneQuotes, PruneSnapshots, PruneSignals, PersistingFails, Step, Enter
    <2>2. /\ quotes' \in SUBSET quotes /\ snapshots' \in SUBSET snapshots
          /\ signals' \in SUBSET signals /\ UNCHANGED <<sampled, stamped>>
      BY <1>9 DEF PruneQuotes, PruneSnapshots, PruneSignals, PersistingFails, Within, tables
    <2>3. /\ Since(quotes', sampled') /\ Spread(quotes', SampleInterval)
          /\ Since(snapshots', stamped') /\ Spread(snapshots', SnapshotInterval)
      BY <1>1, <2>2, TableShrinks
    <2> QED
      BY <1>1, <2>1, <2>2, <2>3, HandlerKeeps DEF Places
  <1> QED
    BY <1>4, <1>5, <1>6, <1>7, <1>8, <1>9 DEF Persist

LEMMA IngestStepInv == IngestInv /\ [IngestNext]_ingestVars => IngestInv'
  <1> SUFFICES ASSUME IngestInv, [IngestNext]_ingestVars PROVE IngestInv'
    OBVIOUS
  <1>1. CASE SignalRecorded
    <2>1. signals' \in SUBSET Rows(KeepSignals, {Elsewhere})
      BY <1>1, IngestAssumption DEF SignalRecorded, IngestInv, IngestTypeOK, Rows
    <2>2. UNCHANGED <<place, sampled, stamped, quotes, snapshots>>
      BY <1>1 DEF SignalRecorded
    <2>3. IngestTypeOK' /\ \A h \in Handlers : DueToWrite(h)'
      BY <2>1, <2>2 DEF IngestInv, IngestTypeOK, DueToWrite
    <2> QED
      BY <2>2, <2>3 DEF IngestInv
  <1>2. ASSUME NEW h \in Handlers, Ingested(h) PROVE IngestInv'
    BY <1>2, LookKeeps DEF Ingested, Step, Enter, tables, Places
  <1>3. CASE UNCHANGED ingestVars
    BY <1>3 DEF ingestVars, tables, IngestInv, IngestTypeOK, DueToWrite
  <1> QED
    BY <1>1, <1>2, <1>3, TickKeeps, PersistKeeps DEF IngestNext

LEMMA IngestInvariance == IngestSpec => []IngestInv
  BY IngestInitInv, IngestStepInv, PTL DEF IngestSpec

-----------------------------------------------------------------------------
(* The three tables and the dates have their types. *)
THEOREM IngestTypes == IngestSpec => []IngestTypeOK
  <1>1. IngestInv => IngestTypeOK
    BY DEF IngestInv
  <1> QED
    BY <1>1, IngestInvariance, PTL

(* However many ingests overlap and whichever of their writes fail, no       *)
(* handler writes a table twice within its interval. *)
THEOREM Sampled == IngestSpec => []SampledNotCopied
  <1>1. IngestInv => SampledNotCopied
    <2> SUFFICES ASSUME IngestInv, NEW h \in Handlers
                 PROVE  /\ Cardinality(Young(quotes, h, SampleInterval)) <= 1
                        /\ Cardinality(Young(snapshots, h, SnapshotInterval)) <= 1
      BY DEF SampledNotCopied, Young
    <2> QED
      BY SpreadCounted DEF IngestInv
  <1> QED
    BY <1>1, IngestInvariance, PTL

-----------------------------------------------------------------------------
(* The three writers of the database beside each other, as in MCDatabase.   *)

LEMMA DatabaseStep ==
    [MCNext]_<<vars, storeVars, ingestVars>>
        => [Next]_vars /\ [StoreNext]_storeVars /\ [IngestNext]_ingestVars
  BY DEF MCNext, OnlyIngest

(* Whichever of the three writes while the others rest, every variable of    *)
(* each keeps its type, for all constants. *)
THEOREM DatabaseTypes == MCSpec => []MCTypeOK
  <1> DEFINE Inv == IInv /\ StoreInv /\ IngestInv
  <1>1. MCInit => Inv
    BY InitInv, StoreInitInv, IngestInitInv DEF MCInit
  <1>2. Inv /\ [MCNext]_<<vars, storeVars, ingestVars>> => Inv'
    BY DatabaseStep, StepInv, StoreStepInv, IngestStepInv
  <1>3. Inv => MCTypeOK
    BY DEF IInv, StoreInv, IngestInv, MCTypeOK
  <1> HIDE DEF Inv
  <1> QED
    BY <1>1, <1>2, <1>3, PTL DEF MCSpec
=============================================================================
