----------------------------- MODULE StrategyProofs -----------------------------
(***************************************************************************)
(* Proofs about the strategies (StrategyStore) and the record of what they  *)
(* said (SignalHistory).  Each is proved by itself; they share no variable. *)
(***************************************************************************)
EXTENDS MCStrategies, FiniteSetTheorems, TLAPS

-----------------------------------------------------------------------------
(* StrategyStore, for any number of handler threads, of strategies and of    *)
(* names, and any cap.                                                      *)

(* The threads that have seen room for one more and have not inserted. *)
Inserting == {t \in Threads : pc[t] = "insert"}

(* A thread is let in only while there is room, and is one itself. *)
RoomKept ==
    /\ IsFiniteSet(Stored)
    /\ Cardinality(Stored) + Cardinality(Inserting)
          <= MaxStrategies + Cardinality(Threads) - 1

(* An id is stored at most once in the life of the table: an id somebody     *)
(* has read is one that has been used, so that no later row takes it.        *)
IdsAreUsed ==
    /\ selection \in Ids => selection \in used
    /\ \A t \in Threads :
          pc[t] \in {"select", "resolve"} /\ req[t] \in Ids => req[t] \in used

(* While active() runs, the stored strategy it is about to answer has been   *)
(* in effect.                                                                *)
ReadWasInEffect ==
    \A t \in Threads :
        pc[t] = "resolve" /\ req[t] \in Stored => req[t] \in seen[t]

(* What a thread serves is of the kind it serves. *)
RequestsFit ==
    \A t \in Threads :
        /\ pc[t] = "insert" => req[t] \in Names
        /\ pc[t] = "select" => req[t] \in AnyStrategy
        /\ pc[t] = "resolve" => req[t] \in AnyStrategy \cup {NoSelection}

StrategyInv ==
    TypeOK /\ RoomKept /\ RequestsFit /\ IdsAreUsed /\ ReadWasInEffect

-----------------------------------------------------------------------------
LEMMA ThreadsCounted ==
    /\ Cardinality(Threads) \in Nat
    /\ IsFiniteSet(Inserting)
    /\ Cardinality(Inserting) \in Nat
    /\ Cardinality(Inserting) <= Cardinality(Threads)
  BY StrategyAssumption, FS_CardinalityType, FS_Subset DEF Inserting

(* Fewer rows and fewer threads that insert keep the room. *)
LEMMA RoomShrinks ==
    ASSUME RoomKept, Stored' \subseteq Stored, Inserting' \subseteq Inserting
    PROVE  RoomKept'
  <1>1. /\ IsFiniteSet(Stored') /\ Cardinality(Stored') <= Cardinality(Stored)
        /\ Cardinality(Stored) \in Nat /\ Cardinality(Stored') \in Nat
    BY FS_Subset, FS_CardinalityType DEF RoomKept
  <1>2. /\ Cardinality(Inserting') <= Cardinality(Inserting)
        /\ Cardinality(Inserting) \in Nat /\ Cardinality(Inserting') \in Nat
    BY ThreadsCounted, FS_Subset, FS_CardinalityType
  <1> QED
    BY <1>1, <1>2, ThreadsCounted, StrategyAssumption DEF RoomKept

(* The history takes what is in effect after the step. *)
LEMMA ObserveType ==
    ASSUME Observe,
           seen \in [Threads -> SUBSET AnyStrategy],
           selection' \in AnyStrategy \cup {NoSelection}
    PROVE  seen' \in [Threads -> SUBSET AnyStrategy]
  <1>1. Effective' \in AnyStrategy
    BY DEF Effective, AnyStrategy
  <1> QED
    BY <1>1 DEF Observe

(* A thread resolves what it resolved before, or what is selected now, and   *)
(* no id that was used comes back.                                           *)
LEMMA ReadKept ==
    ASSUME StrategyInv, Observe,
           \A t \in Threads : pc'[t] = "resolve" =>
              IF pc[t] = "resolve" THEN req'[t] = req[t] ELSE req'[t] = selection',
           \A i \in used : i \in Stored' => i \in Stored
    PROVE  ReadWasInEffect'
  <1> SUFFICES ASSUME NEW t \in Threads, pc'[t] = "resolve", req'[t] \in Stored'
               PROVE  req'[t] \in seen'[t]
    BY DEF ReadWasInEffect
  <1>1. req'[t] \in Ids
    BY DEF Stored
  <1>2. CASE pc[t] = "resolve"
    <2>1. req'[t] = req[t] /\ req[t] \in used
      BY <1>1, <1>2 DEF StrategyInv, IdsAreUsed
    <2>2. req[t] \in seen[t]
      BY <1>2, <2>1 DEF StrategyInv, ReadWasInEffect
    <2>3. seen'[t] = seen[t] \cup {Effective'}
      BY <1>2 DEF Observe
    <2> QED
      BY <2>1, <2>2, <2>3
  <1>3. CASE pc[t] # "resolve"
    <2>1. req'[t] = selection'
      BY <1>3
    <2>2. Effective' = selection'
      BY <1>1, <2>1, ApartAssumption DEF Effective, Exists
    <2>3. Effective' \in seen'[t]
      BY <1>3 DEF Observe
    <2> QED
      BY <2>1, <2>2, <2>3
  <1> QED
    BY <1>2, <1>3

(* A step that writes no row: what it reads is known to be used, and nobody  *)
(* but a thread that saw room goes on to insert.                             *)
LEMMA HandlerKeeps ==
    ASSUME StrategyInv, Observe, UNCHANGED <<name, used>>,
           files' \subseteq Scripts,
           selection' \in AnyStrategy \cup {NoSelection},
           pc' \in [Threads -> {"idle", "insert", "select", "resolve"}],
           req' \in [Threads -> Names \cup AnyStrategy \cup {NoSelection, NoRequest}],
           RoomKept', RequestsFit', IdsAreUsed',
           \A t \in Threads : pc'[t] = "resolve" =>
              IF pc[t] = "resolve" THEN req'[t] = req[t] ELSE req'[t] = selection'
    PROVE  StrategyInv'
  <1>1. Stored' = Stored
    BY DEF Stored
  <1>2. ReadWasInEffect'
    BY <1>1, ReadKept
  <1>3. seen' \in [Threads -> SUBSET AnyStrategy]
    BY ObserveType DEF StrategyInv, TypeOK
  <1>4. TypeOK'
    BY <1>1, <1>3 DEF StrategyInv, TypeOK
  <1> QED
    BY <1>2, <1>4 DEF StrategyInv

LEMMA StrategyInitInv == Init => StrategyInv
  <1> SUFFICES ASSUME Init PROVE StrategyInv
    OBVIOUS
  <1>1. Stored = {} /\ Inserting = {}
    BY DEF Init, Stored, Inserting
  <1>2. RoomKept
    BY <1>1, ThreadsCounted, FS_EmptySet, StrategyAssumption DEF RoomKept
  <1>3. TypeOK
    BY <1>1 DEF Init, TypeOK
  <1>4. RequestsFit /\ IdsAreUsed /\ ReadWasInEffect
    BY ApartAssumption DEF Init, RequestsFit, IdsAreUsed, ReadWasInEffect
  <1> QED
    BY <1>2, <1>3, <1>4 DEF StrategyInv

(* One thread more has seen room: there is room by its own test. *)
LEMMA CountRoomKeeps ==
    ASSUME StrategyInv, Observe, NEW t \in Threads, NEW n \in Names, CountRoom(t, n)
    PROVE  StrategyInv'
  <1>1. /\ pc[t] = "idle"
        /\ pc' = [pc EXCEPT ![t] = "insert"] /\ req' = [req EXCEPT ![t] = n]
        /\ UNCHANGED <<name, used, selection, files>>
        /\ Cardinality(Stored) < MaxStrategies
    BY DEF CountRoom, Begin
  <1>2. Stored' = Stored
    BY <1>1 DEF Stored
  <1>3. RoomKept'
    <2>1. /\ IsFiniteSet(Stored) /\ Cardinality(Stored) \in Nat
      BY FS_CardinalityType DEF StrategyInv, RoomKept
    <2>2. /\ IsFiniteSet(Inserting') /\ Cardinality(Inserting') \in Nat
          /\ Cardinality(Inserting') <= Cardinality(Threads)
      BY StrategyAssumption, FS_CardinalityType, FS_Subset DEF Inserting
    <2> QED
      BY <1>1, <1>2, <2>1, <2>2, ThreadsCounted, StrategyAssumption DEF RoomKept
  <1>4. IdsAreUsed'
    BY <1>1 DEF StrategyInv, TypeOK, IdsAreUsed
  <1>7. RequestsFit'
    BY <1>1 DEF StrategyInv, TypeOK, RequestsFit
  <1>5. /\ files' \subseteq Scripts
        /\ selection' \in AnyStrategy \cup {NoSelection}
        /\ pc' \in [Threads -> {"idle", "insert", "select", "resolve"}]
        /\ req' \in [Threads -> Names \cup AnyStrategy \cup {NoSelection, NoRequest}]
    BY <1>1 DEF StrategyInv, TypeOK
  <1>6. \A u \in Threads : pc'[u] = "resolve" =>
           IF pc[u] = "resolve" THEN req'[u] = req[u] ELSE req'[u] = selection'
    BY <1>1 DEF StrategyInv, TypeOK
  <1> QED
    BY <1>1, <1>3, <1>4, <1>5, <1>6, <1>7, HandlerKeeps

(* A row more, a thread that inserts less; the id is a new one. *)
LEMMA InsertKeeps ==
    ASSUME StrategyInv, Observe, NEW t \in Threads, NEW i \in Ids, Insert(t, i)
    PROVE  StrategyInv'
  <1>1. /\ pc[t] = "insert" /\ i \notin used /\ ~NameTaken(req[t], i)
        /\ name' = [name EXCEPT ![i] = req[t]] /\ used' = used \cup {i}
        /\ pc' = [pc EXCEPT ![t] = "idle"] /\ req' = [req EXCEPT ![t] = NoRequest]
        /\ UNCHANGED <<selection, files>>
    BY DEF Insert, Finish
  <1>2. TypeOK
    BY DEF StrategyInv
  <1>3. Stored' \subseteq Stored \cup {i}
    BY <1>1, <1>2 DEF Stored, TypeOK
  <1>4. Inserting' = Inserting \ {t} /\ t \in Inserting
    BY <1>1, <1>2 DEF Inserting, TypeOK
  <1>5. RoomKept'
    <2>1. /\ IsFiniteSet(Stored) /\ Cardinality(Stored) \in Nat
      BY FS_CardinalityType DEF StrategyInv, RoomKept
    <2>2. /\ IsFiniteSet(Stored \cup {i})
          /\ Cardinality(Stored \cup {i}) \in Nat
          /\ Cardinality(Stored \cup {i}) <= Cardinality(Stored) + 1
      <3> HIDE DEF Stored
      <3>1. /\ IsFiniteSet(Stored \cup {i})
            /\ Cardinality(Stored \cup {i})
                  = IF i \in Stored THEN Cardinality(Stored) ELSE Cardinality(Stored) + 1
        BY <2>1, FS_AddElement, Zenon
      <3> QED
        BY <2>1, <3>1
    <2>3. /\ IsFiniteSet(Stored') /\ Cardinality(Stored') \in Nat
          /\ Cardinality(Stored') <= Cardinality(Stored \cup {i})
      BY <1>3, <2>2, FS_Subset, FS_CardinalityType
    <2>4. Cardinality(Inserting') = Cardinality(Inserting) - 1
      BY <1>4, ThreadsCounted, FS_RemoveElement
    <2> QED
      BY <2>1, <2>2, <2>3, <2>4, ThreadsCounted, StrategyAssumption
      DEF StrategyInv, RoomKept
  <1>6. \A j \in used : j \in Stored' => j \in Stored
    BY <1>1, <1>3
  <1>7. \A u \in Threads : pc'[u] = "resolve" =>
           IF pc[u] = "resolve" THEN req'[u] = req[u] ELSE req'[u] = selection'
    BY <1>1, <1>2 DEF TypeOK
  <1>8. ReadWasInEffect'
    BY <1>6, <1>7, ReadKept
  <1>9. IdsAreUsed'
    BY <1>1, <1>2 DEF StrategyInv, IdsAreUsed, TypeOK
  <1>10. \A j, k \in Stored' : name'[j] = name'[k] => j = k
    BY <1>1, <1>2, <1>3 DEF TypeOK, NameTaken, Stored
  <1>11. name' \in [Ids -> Names \cup {NoName}]
    BY <1>1, <1>2 DEF StrategyInv, RequestsFit, TypeOK
  <1>12. RequestsFit'
    BY <1>1, <1>2 DEF StrategyInv, RequestsFit, TypeOK
  <1>13. seen' \in [Threads -> SUBSET AnyStrategy]
    BY <1>1, <1>2, ObserveType DEF TypeOK
  <1>14. /\ used' \subseteq Ids /\ Stored' \subseteq used'
         /\ pc' \in [Threads -> {"idle", "insert", "select", "resolve"}]
         /\ req' \in [Threads -> Names \cup AnyStrategy \cup {NoSelection, NoRequest}]
    BY <1>1, <1>2, <1>3 DEF TypeOK
  <1>15. TypeOK'
    BY <1>1, <1>2, <1>10, <1>11, <1>13, <1>14 DEF TypeOK
  <1> QED
    BY <1>5, <1>8, <1>9, <1>12, <1>15 DEF StrategyInv

(* A row takes another name, which no other row has. *)
LEMMA UpdateKeeps ==
    ASSUME StrategyInv, Observe, NEW t \in Threads, NEW i \in Ids, NEW n \in Names,
           Update(t, i, n)
    PROVE  StrategyInv'
  <1>1. /\ i \in Stored /\ ~NameTaken(n, i) /\ name' = [name EXCEPT ![i] = n]
        /\ UNCHANGED <<used, selection, files, pc, req>>
        /\ TypeOK
    BY DEF Update, StrategyInv
  <1>2. Stored' = Stored
    BY <1>1, ApartAssumption DEF Stored, TypeOK
  <1>3. Inserting' = Inserting
    BY <1>1 DEF Inserting
  <1>4. RoomKept' /\ RequestsFit' /\ IdsAreUsed'
    BY <1>1, <1>2, <1>3
    DEF StrategyInv, RoomKept, RequestsFit, IdsAreUsed
  <1>5. ReadWasInEffect'
    <2>1. \A u \in Threads : pc'[u] = "resolve" =>
             IF pc[u] = "resolve" THEN req'[u] = req[u] ELSE req'[u] = selection'
      BY <1>1
    <2> QED
      BY <1>2, <2>1, ReadKept
  <1>6. seen' \in [Threads -> SUBSET AnyStrategy]
    BY <1>1, ObserveType DEF TypeOK
  <1>7. \A j, k \in Stored' : name'[j] = name'[k] => j = k
    BY <1>1, <1>2 DEF TypeOK, NameTaken, Stored
  <1>8. name' \in [Ids -> Names \cup {NoName}]
    BY <1>1 DEF TypeOK
  <1>9. TypeOK'
    BY <1>1, <1>2, <1>6, <1>7, <1>8 DEF TypeOK
  <1> QED
    BY <1>4, <1>5, <1>9 DEF StrategyInv

(* A row goes, and the selection with it. *)
LEMMA DeleteKeeps ==
    ASSUME StrategyInv, Observe, NEW t \in Threads, NEW i \in Ids, Delete(t, i)
    PROVE  StrategyInv'
  <1>1. /\ name' = [name EXCEPT ![i] = NoName]
        /\ selection' \in {selection, NoSelection}
        /\ UNCHANGED <<used, files, pc, req>>
        /\ TypeOK
    BY DEF Delete, StrategyInv
  <1>2. Stored' = Stored \ {i}
    BY <1>1 DEF Stored, TypeOK
  <1>3. Inserting' = Inserting
    BY <1>1 DEF Inserting
  <1>4. RoomKept'
    BY <1>2, <1>3, RoomShrinks DEF StrategyInv
  <1>5. RequestsFit' /\ IdsAreUsed'
    BY <1>1, ApartAssumption DEF StrategyInv, RequestsFit, IdsAreUsed
  <1>6. ReadWasInEffect'
    <2>1. \A u \in Threads : pc'[u] = "resolve" =>
             IF pc[u] = "resolve" THEN req'[u] = req[u] ELSE req'[u] = selection'
      BY <1>1
    <2> QED
      BY <1>2, <2>1, ReadKept
  <1>7. seen' \in [Threads -> SUBSET AnyStrategy]
    BY <1>1, ObserveType DEF TypeOK
  <1>8. \A j, k \in Stored' : name'[j] = name'[k] => j = k
    BY <1>1, <1>2 DEF TypeOK, Stored
  <1>9. name' \in [Ids -> Names \cup {NoName}]
    BY <1>1 DEF TypeOK
  <1>10. TypeOK'
    BY <1>1, <1>2, <1>7, <1>8, <1>9 DEF TypeOK
  <1> QED
    BY <1>4, <1>5, <1>6, <1>10 DEF StrategyInv

(* A thread begins or ends a request that writes no row. *)
LEMMA RequestKeeps ==
    ASSUME StrategyInv, Observe, NEW t \in Threads,
           NEW label \in {"idle", "select", "resolve"},
           NEW request \in AnyStrategy \cup {NoSelection, NoRequest},
           pc' = [pc EXCEPT ![t] = label], req' = [req EXCEPT ![t] = request],
           UNCHANGED <<name, used, files>>,
           selection' \in AnyStrategy \cup {NoSelection},
           selection' \in Ids => selection' \in used,
           label = "select" => request \in AnyStrategy,
           label # "idle" /\ request \in Ids => request \in used,
           label = "resolve" => pc[t] # "resolve" /\ request = selection'
    PROVE  StrategyInv'
  <1>1. TypeOK
    BY DEF StrategyInv
  <1>2. Stored' = Stored
    BY DEF Stored
  <1>3. Inserting' \subseteq Inserting
    BY <1>1 DEF Inserting, TypeOK
  <1>4. RoomKept'
    BY <1>2, <1>3, RoomShrinks DEF StrategyInv
  <1>5. RequestsFit'
    BY <1>1 DEF StrategyInv, RequestsFit, TypeOK
  <1>6. IdsAreUsed'
    BY <1>1 DEF StrategyInv, IdsAreUsed, TypeOK
  <1>7. /\ files' \subseteq Scripts
        /\ pc' \in [Threads -> {"idle", "insert", "select", "resolve"}]
        /\ req' \in [Threads -> Names \cup AnyStrategy \cup {NoSelection, NoRequest}]
    BY <1>1 DEF TypeOK
  <1>8. \A u \in Threads : pc'[u] = "resolve" =>
           IF pc[u] = "resolve" THEN req'[u] = req[u] ELSE req'[u] = selection'
    BY <1>1 DEF TypeOK
  <1> QED
    BY <1>4, <1>5, <1>6, <1>7, <1>8, HandlerKeeps

LEMMA CrashKeeps ==
    ASSUME StrategyInv, Observe, Crash
    PROVE  StrategyInv'
  <1>1. /\ pc' = [t \in Threads |-> "idle"] /\ req' = [t \in Threads |-> NoRequest]
        /\ UNCHANGED <<name, used, selection, files>>
        /\ TypeOK
    BY DEF Crash, StrategyInv
  <1>2. Stored' = Stored /\ Inserting' \subseteq Inserting
    BY <1>1 DEF Stored, Inserting
  <1>3. RoomKept'
    BY <1>2, RoomShrinks DEF StrategyInv
  <1>4. RequestsFit' /\ IdsAreUsed'
    BY <1>1 DEF StrategyInv, RequestsFit, IdsAreUsed
  <1> QED
    BY <1>1, <1>3, <1>4, HandlerKeeps DEF TypeOK

LEMMA FilesKeep ==
    ASSUME StrategyInv, Observe, NEW f \in Scripts, ChangeFiles(f)
    PROVE  StrategyInv'
  <1>1. /\ files' \subseteq Scripts
        /\ UNCHANGED <<name, used, selection, pc, req>>
        /\ TypeOK
    BY DEF ChangeFiles, StrategyInv, TypeOK
  <1>2. Stored' = Stored /\ Inserting' \subseteq Inserting
    BY <1>1 DEF Stored, Inserting
  <1>3. RoomKept'
    BY <1>2, RoomShrinks DEF StrategyInv
  <1>4. RequestsFit' /\ IdsAreUsed'
    BY <1>1 DEF StrategyInv, RequestsFit, IdsAreUsed
  <1> QED
    BY <1>1, <1>3, <1>4, HandlerKeeps DEF TypeOK

LEMMA RestKeeps ==
    ASSUME StrategyInv, UNCHANGED vars
    PROVE  StrategyInv'
  BY DEF vars, StrategyInv, TypeOK, RoomKept, Inserting, RequestsFit, IdsAreUsed,
         ReadWasInEffect, Stored

LEMMA StrategyStepInv == StrategyInv /\ [Next]_vars => StrategyInv'
  <1> SUFFICES ASSUME StrategyInv, Step, Observe PROVE StrategyInv'
    BY RestKeeps DEF Next
  <1>1. TypeOK /\ RequestsFit /\ IdsAreUsed
    BY DEF StrategyInv
  <1>2. ASSUME NEW t \in Threads, NEW n \in Names, CountRoom(t, n)
        PROVE  StrategyInv'
    BY <1>2, CountRoomKeeps
  <1>3. ASSUME NEW t \in Threads, NEW i \in Ids, Insert(t, i)
        PROVE  StrategyInv'
    BY <1>3, InsertKeeps
  <1>4. ASSUME NEW t \in Threads, NEW i \in Ids, Delete(t, i)
        PROVE  StrategyInv'
    BY <1>4, DeleteKeeps
  <1>5. ASSUME NEW t \in Threads, NEW i \in Ids, NEW n \in Names, Update(t, i, n)
        PROVE  StrategyInv'
    BY <1>5, UpdateKeeps
  <1>6. ASSUME NEW t \in Threads, NEW s \in AnyStrategy, LookUp(t, s)
        PROVE  StrategyInv'
    <2>1. s \in Ids => s \in used
      BY <1>1, <1>6, ApartAssumption DEF LookUp, Exists, TypeOK
    <2> QED
      BY <1>1, <1>6, <2>1, RequestKeeps DEF LookUp, Begin, TypeOK, IdsAreUsed
  <1>7. ASSUME NEW t \in Threads, Select(t)
        PROVE  StrategyInv'
    <2>1. selection' \in AnyStrategy /\ (selection' \in Ids => selection' \in used)
      BY <1>1, <1>7 DEF Select, RequestsFit, IdsAreUsed
    <2> QED
      BY <1>7, <2>1, RequestKeeps DEF Select, Finish
  <1>8. ASSUME NEW t \in Threads, ReadSelection(t)
        PROVE  StrategyInv'
    BY <1>1, <1>8, RequestKeeps DEF ReadSelection, Begin, TypeOK, IdsAreUsed
  <1>9. ASSUME NEW t \in Threads, NameExists(t) \/ Resolve(t) \/ Fail(t)
        PROVE  StrategyInv'
    BY <1>1, <1>9, RequestKeeps
    DEF NameExists, Resolve, Fail, Finish, TypeOK, IdsAreUsed
  <1>10. ASSUME NEW f \in Scripts, ChangeFiles(f) PROVE StrategyInv'
    BY <1>10, FilesKeep
  <1>11. CASE Crash
    BY <1>11, CrashKeeps
  <1> QED
    BY <1>2, <1>3, <1>4, <1>5, <1>6, <1>7, <1>8, <1>9, <1>10, <1>11 DEF Step

LEMMA StrategyInvariance == Spec => []StrategyInv
  BY StrategyInitInv, StrategyStepInv, PTL DEF Spec

-----------------------------------------------------------------------------
(* Every variable has its type, and no two stored strategies share a name,   *)
(* whatever the threads of the pool do between a SELECT and its INSERT.      *)
THEOREM StrategyTypes == Spec => []TypeOK
  <1>1. StrategyInv => TypeOK
    BY DEF StrategyInv
  <1> QED
    BY <1>1, StrategyInvariance, PTL

(* However many creates race past the count, the table holds at most one     *)
(* row less than the cap and the threads together.                           *)
THEOREM CapBounded == Spec => []CapOverrun
  <1>1. StrategyInv => CapOverrun
    <2> SUFFICES ASSUME StrategyInv PROVE CapOverrun
      OBVIOUS
    <2>1. Cardinality(Stored) \in Nat
      BY FS_CardinalityType DEF StrategyInv, RoomKept
    <2> QED
      BY <2>1, ThreadsCounted, StrategyAssumption
      DEF StrategyInv, RoomKept, CapOverrun
  <1> QED
    BY <1>1, StrategyInvariance, PTL

(* The stored strategy that active() answers has been the effective one at   *)
(* some instant of the call, although it reads the selection and the row in  *)
(* two statements: an id is never used twice.                                *)
THEOREM AnswersInEffect == Spec => []AnswerWasInEffect
  <1>1. StrategyInv => AnswerWasInEffect
    <2> SUFFICES ASSUME StrategyInv, NEW t \in Threads, pc[t] = "resolve",
                        Answer(t) \in Ids
                 PROVE  Answer(t) \in seen[t]
      BY DEF AnswerWasInEffect
    <2>1. Answer(t) = req[t] /\ req[t] \in Stored
      BY ApartAssumption DEF Answer, Exists, StrategyInv, TypeOK
    <2> QED
      BY <2>1 DEF StrategyInv, ReadWasInEffect
  <1> QED
    BY <1>1, StrategyInvariance, PTL

-----------------------------------------------------------------------------
(* SignalHistory, for any number of pollers, of strategies and of readings. *)

(* A reading that has been made by now: none is dated after the clock. *)
Made(signal, now) == signal \in Signal /\ signal.created \in 1..now

Entry == [print : Nat, signal : Signal]
Work == [strategy : Strategies \cup {Nobody}, print : Nat,
         signal : Signal \cup {Nobody}, known : Nat]

Computing == {p \in Pollers : at[p] = "compute"}

HistoryTypes ==
    /\ active \in Strategies
    /\ version \in Nat \ {0}
    /\ \A s \in Strategies : version <= Len(ReadingOf[s])
    /\ readings \in Nat
    /\ memo \in [Strategies -> Entry \cup {Nobody}]
    /\ rows \in Seq(Row)
    /\ at \in [Pollers -> Labels]
    /\ work \in [Pollers -> Work]

(* What is kept has been made of bars there were; what is to be made is for  *)
(* a strategy. *)
AllMade ==
    /\ \A s \in Strategies : memo[s] # Nobody =>
          memo[s].print \in 1..version /\ Made(memo[s].signal, readings)
    /\ \A k \in 1..Len(rows) : rows[k].created \in 1..readings
    /\ \A p \in Pollers :
          /\ at[p] = "compute" =>
                work[p].strategy \in Strategies /\ work[p].print \in 1..version
          /\ at[p] \in {"script", "hung", "compare", "insert"} => Made(work[p].signal, readings)

ReadingsBounded == readings + Cardinality(Computing) <= MaxReadings

(* The row that ORDER BY created_at DESC, id DESC puts first: there is one,  *)
(* as rows are only appended. *)
First(table, m) ==
    /\ m \in 1..Len(table)
    /\ \A k \in 1..Len(table) :
          \/ table[k].created < table[m].created
          \/ table[k].created = table[m].created /\ k <= m

NewestThere == rows # <<>> => \E m \in 1..Len(rows) : First(rows, m)

(* A poll that is about to insert found news in the rows there were when it  *)
(* compared, which are still the first ones. *)
FoundNews ==
    \A p \in Pollers : at[p] = "insert" =>
        /\ work[p].known <= Len(rows)
        /\ work[p].known = Len(rows) => IsNews(work[p].signal)

HistoryInv ==
    /\ HistoryTypes
    /\ AllMade
    /\ ReadingsBounded
    /\ NewestThere
    /\ FoundNews
    /\ RepeatsExplained

-----------------------------------------------------------------------------
LEMMA MaxIs ==
    ASSUME NEW S, NEW m \in S, m \in Int, \A k \in S : k \in Int /\ k <= m
    PROVE  Max(S) = m
  <1>1. \A x \in S : (\A y \in S : x >= y) <=> x = m
    OBVIOUS
  <1> QED
    BY <1>1 DEF Max

LEMMA MinIs ==
    ASSUME NEW S, NEW m \in S, m \in Int, \A k \in S : k \in Int /\ k >= m
    PROVE  Min(S) = m
  <1>1. \A x \in S : (\A y \in S : x <= y) <=> x = m
    OBVIOUS
  <1> QED
    BY <1>1 DEF Min

LEMMA LatestIsFirst ==
    ASSUME rows \in Seq(Row), NEW m \in 1..Len(rows), First(rows, m)
    PROVE  Latest = rows[m] /\ Latest # Nobody
  <1> DEFINE dates == {rows[k].created : k \in DOMAIN rows}
             ids == {k \in DOMAIN rows : rows[k].created = rows[m].created}
  <1>1. /\ rows # <<>> /\ DOMAIN rows = 1..Len(rows) /\ Len(rows) \in Nat
        /\ \A k \in 1..Len(rows) : rows[k] \in Row /\ rows[k].created \in Nat
    <2> HIDE DEF Row
    <2>1. /\ DOMAIN rows = 1..Len(rows) /\ Len(rows) \in Nat
          /\ \A k \in 1..Len(rows) : rows[k] \in Row
      OBVIOUS
    <2>2. \A row \in Row : row.created \in Nat
      BY DEF Row
    <2> QED
      BY <2>1, <2>2
  <1>2. Max(dates) = rows[m].created
    <2>1. rows[m].created \in dates /\ \A d \in dates : d <= rows[m].created /\ d \in Nat
      BY <1>1 DEF First
    <2> HIDE DEF dates
    <2> QED
      BY <2>1, MaxIs
  <1>3. Max(ids) = m
    <2>1. m \in ids /\ m \in Int /\ \A k \in ids : k <= m /\ k \in Int
      BY <1>1 DEF First
    <2> HIDE DEF ids, dates
    <2> QED
      BY <2>1, MaxIs
  <1>4. Latest = rows[Max({k \in DOMAIN rows : rows[k].created = Max(dates)})]
    BY <1>1 DEF Latest
  <1>5. Latest = rows[m]
    BY <1>2, <1>3, <1>4
  <1> QED
    BY <1>1, <1>5, DecisionAssumption

(* A script's score is clamped. *)
LEMMA OverruledMade ==
    ASSUME NEW signal, NEW now \in Nat, Made(signal, now), NEW reply \in Replies
    PROVE  Made(Overruled(signal, reply), now)
  <1>1. CASE reply.kind # "result"
    BY <1>1 DEF Overruled
  <1>2. CASE reply.kind = "result"
    <2>1. reply.score \in Int /\ reply.bias \in {"LONG", "SHORT", "WAIT"}
      BY <1>2, DecisionAssumption
    <2> DEFINE low == Min({100, reply.score})
               score == Max({0, low})
    <2>2. low \in Int /\ low <= 100
      <3>1. CASE reply.score <= 100
        BY <2>1, <3>1, MinIs
      <3>2. CASE reply.score > 100
        BY <2>1, <3>2, MinIs
      <3> QED
        BY <2>1, <3>1, <3>2
    <2> HIDE DEF low
    <2>3. score \in 0..100
      <3>1. CASE low <= 0
        BY <2>2, <3>1, MaxIs
      <3>2. CASE low > 0
        BY <2>2, <3>2, MaxIs
      <3> QED
        BY <2>2, <3>1, <3>2
    <2> HIDE DEF score
    <2>4. Overruled(signal, reply)
             = [decision |-> [bias |-> reply.bias, score |-> score],
                created |-> signal.created]
      BY <1>2 DEF Overruled, score, low
    <2> QED
      BY <2>1, <2>3, <2>4 DEF Made, Signal, Decision
  <1> QED
    BY <1>1, <1>2

LEMMA HistoryInitInv == HistoryInit => HistoryInv
  <1> SUFFICES ASSUME HistoryInit PROVE HistoryInv
    OBVIOUS
  <1>1. HistoryTypes
    <2>1. \A s \in Strategies : Len(ReadingOf[s]) \in Nat \ {0}
      BY DecisionAssumption
    <2>2. work \in [Pollers -> Work]
      BY DEF HistoryInit, Work, Idle
    <2>3. memo \in [Strategies -> Entry \cup {Nobody}] /\ at \in [Pollers -> Labels]
      BY Zenon DEF HistoryInit, Labels
    <2>4. rows \in Seq(Row) /\ active \in Strategies /\ readings \in Nat
      BY DEF HistoryInit
    <2>5. version \in Nat \ {0} /\ \A s \in Strategies : version <= Len(ReadingOf[s])
      BY <2>1 DEF HistoryInit
    <2> QED
      BY <2>2, <2>3, <2>4, <2>5 DEF HistoryTypes
  <1>2. ReadingsBounded
    <2>1. Computing = {}
      BY DEF HistoryInit, Computing
    <2> QED
      BY <2>1, FS_EmptySet, HistoryAssumption DEF HistoryInit, ReadingsBounded
  <1>3. AllMade /\ NewestThere /\ FoundNews /\ RepeatsExplained
    BY DEF HistoryInit, AllMade, NewestThere, FoundNews, RepeatsExplained
  <1> QED
    BY <1>1, <1>2, <1>3 DEF HistoryInv

LEMMA ComputingCounted ==
    /\ IsFiniteSet(Computing)
    /\ Cardinality(Computing) \in Nat
  BY HistoryAssumption, FS_Subset, FS_CardinalityType DEF Computing

LEMMA ComputingShrinks ==
    ASSUME Computing' \subseteq Computing
    PROVE  Cardinality(Computing') <= Cardinality(Computing) /\ Cardinality(Computing') \in Nat
  BY ComputingCounted, FS_Subset, FS_CardinalityType

(* A step that leaves the table alone: nobody comes to insert but who has    *)
(* just found news. *)
LEMMA TableKept ==
    ASSUME HistoryInv, UNCHANGED rows,
           at' \in [Pollers -> Labels],
           \A p \in Pollers : at'[p] = "insert" =>
              \/ at[p] = "insert" /\ work'[p] = work[p]
              \/ work'[p].known = Len(rows) /\ IsNews(work'[p].signal)
    PROVE  NewestThere' /\ FoundNews' /\ RepeatsExplained'
  <1>1. NewestThere' /\ RepeatsExplained'
    BY DEF HistoryInv, NewestThere, First, RepeatsExplained
  <1>2. Latest' = Latest
    BY DEF Latest
  <1>3. FoundNews'
    <2> SUFFICES ASSUME NEW p \in Pollers, at'[p] = "insert"
                 PROVE  /\ work'[p].known <= Len(rows)
                        /\ work'[p].known = Len(rows) =>
                              Latest = Nobody \/ ~Same(Latest, work'[p].signal)
      BY <1>2 DEF FoundNews, IsNews
    <2>1. Len(rows) \in Nat
      BY DEF HistoryInv, HistoryTypes
    <2> QED
      BY <2>1 DEF HistoryInv, FoundNews, IsNews
  <1> QED
    BY <1>1, <1>3

(* A poller that computes turns to something else, with what it has. *)
LEMMA PollerKeeps ==
    ASSUME HistoryInv, NEW p \in Pollers,
           NEW label \in Labels \ {"compute"}, NEW w \in Work,
           at' = [at EXCEPT ![p] = label], work' = [work EXCEPT ![p] = w],
           label # "idle" => Made(w.signal, readings),
           label = "insert" => w.known = Len(rows) /\ IsNews(w.signal),
           UNCHANGED <<active, version, readings, memo, rows>>
    PROVE  HistoryInv'
  <1>1. at' \in [Pollers -> Labels] /\ work' \in [Pollers -> Work]
    BY DEF HistoryInv, HistoryTypes
  <1>2. HistoryTypes'
    BY <1>1 DEF HistoryInv, HistoryTypes
  <1>3. \A q \in Pollers :
           IF q = p THEN at'[q] = label /\ work'[q] = w
           ELSE at'[q] = at[q] /\ work'[q] = work[q]
    BY DEF HistoryInv, HistoryTypes
  <1>4. AllMade'
    BY <1>3 DEF HistoryInv, AllMade, Made, Labels
  <1>5. Computing' \subseteq Computing
    BY <1>3 DEF Computing
  <1>6. ReadingsBounded'
    BY <1>5, ComputingCounted, ComputingShrinks, HistoryAssumption
    DEF HistoryInv, HistoryTypes, ReadingsBounded
  <1>7. NewestThere' /\ FoundNews' /\ RepeatsExplained'
    BY <1>1, <1>3, TableKept
  <1> QED
    BY <1>2, <1>4, <1>6, <1>7 DEF HistoryInv

(* Nothing but the clock of the bars or the choice of the user moves. *)
LEMMA OutsideKeeps ==
    ASSUME HistoryInv, active' \in Strategies,
           version' \in Nat \ {0}, version <= version',
           \A s \in Strategies : version' <= Len(ReadingOf[s]),
           UNCHANGED <<readings, memo, rows, at, work>>
    PROVE  HistoryInv'
  <1>1. HistoryTypes'
    BY DEF HistoryInv, HistoryTypes
  <1>2. \A n : n \in 1..version => n \in 1..version'
    BY DEF HistoryInv, HistoryTypes
  <1>3. AllMade'
    BY <1>2 DEF HistoryInv, AllMade, Made
  <1>4. ReadingsBounded'
    BY DEF HistoryInv, ReadingsBounded, Computing
  <1>5. NewestThere' /\ FoundNews' /\ RepeatsExplained'
    BY <1>1, TableKept DEF HistoryTypes
  <1> QED
    BY <1>1, <1>3, <1>4, <1>5 DEF HistoryInv

LEMMA LookUpKeeps ==
    ASSUME HistoryInv, NEW p \in Pollers, LookUpSignal(p)
    PROVE  HistoryInv'
  <1> DEFINE hit == memo[active] # Nobody /\ memo[active].print = version
             w == [strategy |-> active, print |-> version, known |-> 0,
                   signal |-> IF hit THEN memo[active].signal ELSE Nobody]
             label == IF ~hit THEN "compute"
                      ELSE IF active \in ScriptOnes THEN "script" ELSE "compare"
  <1>1. /\ at[p] = "idle"
        /\ at' = [at EXCEPT ![p] = label]
        /\ UNCHANGED <<active, version, readings, memo, rows>>
    BY DEF LookUpSignal, Move
  <1>2. work' = [work EXCEPT ![p] = w]
    BY DEF LookUpSignal
  <1>3. hit \/ readings + Cardinality(Computing) < MaxReadings
    <2>1. {q \in Pollers : at[q] \in {"compute"}} = Computing
      BY DEF Computing
    <2> QED
      BY <2>1 DEF LookUpSignal
  <1>4. /\ active \in Strategies /\ version \in Nat \ {0}
        /\ hit => Made(memo[active].signal, readings)
    BY DEF HistoryInv, HistoryTypes, AllMade
  <1>5. w \in Work
    BY <1>4 DEF Work, Made
  <1>6. CASE hit
    <2>1. Made(w.signal, readings)
      BY <1>4, <1>6
    <2>2. label \in {"script", "compare"}
      BY <1>6
    <2> HIDE DEF w, label
    <2> QED
      BY <1>1, <1>2, <1>5, <2>1, <2>2, PollerKeeps DEF Labels
  <1>7. CASE ~hit
    <2>1. label = "compute" /\ w.strategy = active /\ w.print = version
      BY <1>7
    <2> HIDE DEF w, label
    <2>2. at' \in [Pollers -> Labels] /\ work' \in [Pollers -> Work]
      BY <1>1, <1>2, <1>5, <2>1 DEF HistoryInv, HistoryTypes, Labels
    <2>3. HistoryTypes'
      BY <1>1, <2>2 DEF HistoryInv, HistoryTypes
    <2>4. \A q \in Pollers :
             IF q = p THEN at'[q] = "compute" /\ work'[q] = w
             ELSE at'[q] = at[q] /\ work'[q] = work[q]
      BY <1>1, <1>2, <2>1 DEF HistoryInv, HistoryTypes
    <2>5. AllMade'
      BY <1>1, <1>4, <2>1, <2>4 DEF HistoryInv, AllMade, Made
    <2>6. ReadingsBounded'
      <3>1. Computing' = Computing \cup {p}
        BY <2>4 DEF Computing
      <3>2. Cardinality(Computing')
               = IF p \in Computing THEN Cardinality(Computing)
                 ELSE Cardinality(Computing) + 1
        <4> HIDE DEF Computing
        <4> QED
          BY <3>1, ComputingCounted, FS_AddElement, Zenon
      <3> QED
        BY <1>1, <1>3, <1>7, <3>2, ComputingCounted, HistoryAssumption
        DEF HistoryInv, HistoryTypes, ReadingsBounded
    <2>7. NewestThere' /\ FoundNews' /\ RepeatsExplained'
      BY <1>1, <2>2, <2>4, TableKept
    <2> QED
      BY <2>3, <2>5, <2>6, <2>7 DEF HistoryInv
  <1> QED
    BY <1>6, <1>7

(* The clock moves by one, and a computation less is under way. *)
LEMMA ComputeKeeps ==
    ASSUME HistoryInv, NEW p \in Pollers, ComputeSignal(p)
    PROVE  HistoryInv'
  <1> DEFINE s == work[p].strategy
             signal == [decision |-> ReadingOf[s][version], created |-> readings + 1]
             label == IF s \in ScriptOnes THEN "script" ELSE "compare"
             entry == [print |-> work[p].print, signal |-> signal]
             w == [work[p] EXCEPT !.signal = signal]
  <1>1. /\ at[p] = "compute" /\ readings' = readings + 1
        /\ memo' = [memo EXCEPT ![s] = entry]
        /\ work' = [work EXCEPT ![p].signal = signal]
        /\ at' = [at EXCEPT ![p] = label]
        /\ UNCHANGED <<active, version, rows>>
    BY DEF ComputeSignal, Move
  <1>2. /\ s \in Strategies /\ work[p] \in Work /\ work[p].print \in 1..version
        /\ version \in Nat \ {0} /\ readings \in Nat /\ version <= Len(ReadingOf[s])
    BY <1>1 DEF HistoryInv, HistoryTypes, AllMade
  <1>3. ReadingOf[s][version] \in Decision
    <2>1. ReadingOf[s] \in Seq(Decision)
      BY <1>2, DecisionAssumption
    <2> QED
      BY <1>2, <2>1
  <1>4. signal \in Signal /\ signal.created = readings'
    BY <1>1, <1>2, <1>3 DEF Signal
  <1> HIDE DEF signal
  <1>5. entry \in Entry /\ entry.print \in 1..version /\ entry.signal = signal
    BY <1>2, <1>4 DEF Entry
  <1>6. w \in Work /\ w.signal = signal /\ work' = [work EXCEPT ![p] = w]
    BY <1>1, <1>2, <1>4 DEF Work, HistoryInv, HistoryTypes
  <1>7. label \in {"script", "compare"}
    OBVIOUS
  <1> HIDE DEF s, label, entry, w
  <1>8. \A q \in Pollers :
           IF q = p THEN at'[q] = label /\ work'[q] = w
           ELSE at'[q] = at[q] /\ work'[q] = work[q]
    BY <1>1, <1>6 DEF HistoryInv, HistoryTypes
  <1>9. /\ at' \in [Pollers -> Labels] /\ work' \in [Pollers -> Work]
        /\ memo' \in [Strategies -> Entry \cup {Nobody}]
    BY <1>1, <1>2, <1>5, <1>6, <1>7 DEF HistoryInv, HistoryTypes, Labels
  <1>10. HistoryTypes'
    BY <1>1, <1>2, <1>9 DEF HistoryInv, HistoryTypes
  <1>11. readings' \in Nat /\ \A n : n \in 1..readings => n \in 1..readings'
    BY <1>1, <1>2
  <1>12. Made(signal, readings')
    BY <1>1, <1>2, <1>4 DEF Made
  <1>13. AllMade'
    <2>1. \A r \in Strategies : memo'[r] # Nobody =>
             memo'[r].print \in 1..version /\ Made(memo'[r].signal, readings')
      BY <1>1, <1>2, <1>5, <1>11, <1>12 DEF HistoryInv, HistoryTypes, AllMade, Made
    <2>2. \A k \in 1..Len(rows) : rows[k].created \in 1..readings'
      BY <1>11 DEF HistoryInv, AllMade
    <2>3. \A q \in Pollers :
             /\ at'[q] = "compute" =>
                   work'[q].strategy \in Strategies /\ work'[q].print \in 1..version
             /\ at'[q] \in {"script", "hung", "compare", "insert"} => Made(work'[q].signal, readings')
      BY <1>6, <1>7, <1>8, <1>11, <1>12 DEF HistoryInv, AllMade, Made
    <2> QED
      BY <1>1, <2>1, <2>2, <2>3 DEF AllMade
  <1>14. ReadingsBounded'
    <2>1. Computing' = Computing \ {p} /\ p \in Computing
      BY <1>1, <1>7, <1>8 DEF Computing
    <2>2. Cardinality(Computing') = Cardinality(Computing) - 1
      BY <2>1, ComputingCounted, FS_RemoveElement
    <2> QED
      BY <1>1, <1>2, <2>2, ComputingCounted, HistoryAssumption
      DEF HistoryInv, ReadingsBounded
  <1>15. NewestThere' /\ FoundNews' /\ RepeatsExplained'
    BY <1>1, <1>7, <1>8, <1>9, TableKept
  <1> QED
    BY <1>10, <1>13, <1>14, <1>15 DEF HistoryInv

(* A row is added.  Where it repeats the one before it, either that one came *)
(* after the poll had compared, or it is not the newest by its date.         *)
LEMMA InsertSignalKeeps ==
    ASSUME HistoryInv, NEW p \in Pollers, InsertSignal(p)
    PROVE  HistoryInv'
  <1> DEFINE n == Len(rows)
             row == [decision |-> work[p].signal.decision,
                     created |-> work[p].signal.created, known |-> work[p].known]
  <1>1. /\ at[p] = "insert" /\ rows' = Append(rows, row)
        /\ at' = [at EXCEPT ![p] = "idle"] /\ work' = [work EXCEPT ![p] = Idle]
        /\ UNCHANGED <<active, version, readings, memo>>
    BY DEF InsertSignal, Done, Move
  <1>2. /\ work[p].signal \in Signal /\ work[p].signal.created \in 1..readings
        /\ work[p].known \in Nat
        /\ rows \in Seq(Row) /\ n \in Nat /\ readings \in Nat
    BY <1>1 DEF HistoryInv, HistoryTypes, AllMade, Made, Work
  <1>3. row \in Row /\ row.created \in 1..readings /\ row.known = work[p].known
    BY <1>2 DEF Row, Signal
  <1>4. Same(work[p].signal, row) /\ row.decision = work[p].signal.decision
    BY DEF Same
  <1> HIDE DEF row
  <1>5. /\ rows' \in Seq(Row) /\ Len(rows') = n + 1 /\ rows'[n + 1] = row
        /\ \A k \in 1..n : rows'[k] = rows[k]
    BY <1>1, <1>2, <1>3
  <1>6. row.created \in Nat /\ \A k \in 1..n : rows[k].created \in Nat
    <2>1. \A k \in 1..n : rows[k] \in Row
      BY <1>2
    <2>2. \A r \in Row : r.created \in Nat
      BY DEF Row
    <2> QED
      BY <1>3, <2>1, <2>2
  <1>7. \A k \in 1..(n + 1) : k = n + 1 \/ k \in 1..n
    BY <1>2
  <1>8. \A q \in Pollers :
           IF q = p THEN at'[q] = "idle" ELSE at'[q] = at[q] /\ work'[q] = work[q]
    BY <1>1 DEF HistoryInv, HistoryTypes
  <1>9. HistoryTypes'
    <2>1. Idle \in Work
      BY DEF Idle, Work
    <2>2. at' \in [Pollers -> Labels] /\ work' \in [Pollers -> Work]
      BY <1>1, <2>1 DEF HistoryInv, HistoryTypes, Labels
    <2> QED
      BY <1>1, <1>5, <2>2 DEF HistoryInv, HistoryTypes
  <1>10. AllMade'
    BY <1>1, <1>3, <1>5, <1>7, <1>8 DEF HistoryInv, AllMade, Made
  <1>11. ReadingsBounded'
    <2>1. Computing' \subseteq Computing
      BY <1>8 DEF Computing
    <2> QED
      BY <1>1, <1>2, <2>1, ComputingCounted, ComputingShrinks, HistoryAssumption
      DEF HistoryInv, ReadingsBounded
  <1>12. NewestThere'
    <2>1. CASE \A k \in 1..n : rows[k].created <= row.created
      <3>1. First(rows', n + 1)
        BY <1>2, <1>5, <1>6, <1>7, <2>1 DEF First
      <3> QED
        BY <1>2, <1>5, <3>1 DEF NewestThere
    <2>2. CASE \E k \in 1..n : ~(rows[k].created <= row.created)
      <3>1. rows # <<>>
        BY <1>2, <2>2
      <3>2. PICK m \in 1..n : First(rows, m)
        BY <3>1 DEF HistoryInv, NewestThere
      <3>3. row.created < rows[m].created
        BY <1>2, <1>6, <2>2, <3>2 DEF First
      <3>4. First(rows', m)
        BY <1>2, <1>5, <1>7, <3>2, <3>3 DEF First
      <3> QED
        BY <1>2, <1>5, <3>2, <3>4 DEF NewestThere
    <2> QED
      BY <2>1, <2>2
  <1>13. FoundNews'
    <2> SUFFICES ASSUME NEW q \in Pollers, at'[q] = "insert"
                 PROVE  work'[q].known <= n
      BY <1>2, <1>5, <1>8 DEF FoundNews, HistoryInv, HistoryTypes, Work
    <2>1. q # p /\ at[q] = "insert" /\ work'[q] = work[q]
      BY <1>8
    <2> QED
      BY <2>1 DEF HistoryInv, FoundNews
  <1>14. RepeatsExplained'
    <2> SUFFICES ASSUME NEW k \in 2..(n + 1), Same(rows'[k], rows'[k - 1])
                 PROVE  \/ rows'[k].known < k - 1
                        \/ \E j \in 1..(k - 2) : rows'[j].created > rows'[k - 1].created
      BY <1>2, <1>5 DEF RepeatsExplained
    <2>1. CASE k \in 1..n
      <3>1. rows'[k] = rows[k] /\ rows'[k - 1] = rows[k - 1] /\ k \in DOMAIN rows \ {1}
        BY <1>2, <1>5, <2>1
      <3>2. \/ rows[k].known < k - 1
            \/ \E j \in 1..(k - 2) : rows[j].created > rows[k - 1].created
        BY <3>1 DEF HistoryInv, RepeatsExplained
      <3> QED
        BY <1>2, <1>5, <2>1, <3>1, <3>2
    <2>2. CASE k = n + 1 /\ work[p].known # n
      BY <1>1, <1>2, <1>3, <1>5, <2>2 DEF HistoryInv, FoundNews
    <2>3. CASE k = n + 1 /\ work[p].known = n
      <3>1. n >= 1 /\ rows # <<>> /\ rows'[n] = rows[n]
        BY <1>2, <1>5, <2>3
      <3>2. PICK m \in 1..n : First(rows, m)
        BY <3>1 DEF HistoryInv, NewestThere
      <3>3. Latest = rows[m] /\ ~Same(rows[m], work[p].signal)
        BY <1>1, <1>2, <2>3, <3>2, LatestIsFirst
        DEF HistoryInv, FoundNews, IsNews
      <3>4. Same(row, rows[n])
        BY <1>5, <2>3, <3>1
      <3>5. m # n
        BY <1>4, <3>3, <3>4 DEF Same
      <3>6. rows[n].created < rows[m].created
        BY <1>2, <3>1, <3>2, <3>5 DEF First
      <3>7. rows'[m].created > rows'[k - 1].created /\ m \in 1..(k - 2)
        BY <1>2, <1>5, <1>6, <2>3, <3>1, <3>2, <3>5, <3>6
      <3> QED
        BY <3>7
    <2> QED
      BY <1>7, <2>1, <2>2, <2>3
  <1> QED
    BY <1>9, <1>10, <1>11, <1>12, <1>13, <1>14 DEF HistoryInv

LEMMA HistoryStepInv == HistoryInv /\ [HistoryNext]_historyVars => HistoryInv'
  <1> SUFFICES ASSUME HistoryInv, [HistoryNext]_historyVars PROVE HistoryInv'
    OBVIOUS
  <1>1. /\ HistoryTypes /\ AllMade /\ rows \in Seq(Row) /\ readings \in Nat
    BY DEF HistoryInv, HistoryTypes
  <1>2. ASSUME NEW s \in Strategies, Switch(s) PROVE HistoryInv'
    BY <1>1, <1>2, OutsideKeeps DEF Switch, HistoryTypes
  <1>3. CASE BarCloses
    <2>1. \A s \in Strategies : Len(ReadingOf[s]) \in Nat
      BY DecisionAssumption
    <2> QED
      BY <1>1, <1>3, <2>1, OutsideKeeps DEF BarCloses, HistoryTypes
  <1>4. ASSUME NEW p \in Pollers, LookUpSignal(p) PROVE HistoryInv'
    BY <1>4, LookUpKeeps
  <1>5. ASSUME NEW p \in Pollers, ComputeSignal(p) PROVE HistoryInv'
    BY <1>5, ComputeKeeps
  <1>6. ASSUME NEW p \in Pollers, InsertSignal(p) PROVE HistoryInv'
    BY <1>6, InsertSignalKeeps
  <1>7. ASSUME NEW p \in Pollers, at[p] \in Labels
        PROVE  work[p] \in Work /\ work = [work EXCEPT ![p] = work[p]]
    BY <1>1 DEF HistoryTypes
  <1>8. ASSUME NEW p \in Pollers, NEW reply \in Replies, RunScript(p, reply)
        PROVE  HistoryInv'
    <2> DEFINE w == [work[p] EXCEPT !.signal = Overruled(work[p].signal, reply)]
    <2>1. work[p] \in Work /\ Made(work[p].signal, readings)
      BY <1>1, <1>8 DEF RunScript, HistoryTypes, AllMade
    <2>2. Made(Overruled(work[p].signal, reply), readings)
      BY <1>1, <2>1, OverruledMade
    <2>3. w \in Work /\ w.signal = Overruled(work[p].signal, reply)
      BY <2>1, <2>2 DEF Work, Made
    <2>4. /\ work' = [work EXCEPT ![p] = w]
          /\ at' = [at EXCEPT ![p] = "compare"]
          /\ UNCHANGED <<active, version, readings, memo, rows>>
      BY <1>8 DEF RunScript, Move
    <2> HIDE DEF w
    <2> QED
      BY <2>2, <2>3, <2>4, PollerKeeps DEF Labels
  <1>9. ASSUME NEW p \in Pollers, HangScript(p) \/ KillScript(p)
        PROVE  HistoryInv'
    <2>1. work[p] \in Work /\ Made(work[p].signal, readings)
      BY <1>1, <1>9 DEF HangScript, KillScript, HistoryTypes, AllMade
    <2>2. PICK label \in {"hung", "compare"} : at' = [at EXCEPT ![p] = label]
      BY <1>9 DEF HangScript, KillScript, Move
    <2>3. /\ work' = [work EXCEPT ![p] = work[p]]
          /\ UNCHANGED <<active, version, readings, memo, rows>>
      BY <1>1, <1>9 DEF HangScript, KillScript, HistoryTypes
    <2> QED
      BY <2>1, <2>2, <2>3, PollerKeeps DEF Labels
  <1>10. ASSUME NEW p \in Pollers, CompareSignal(p), IsNews(work[p].signal)
         PROVE  HistoryInv'
    <2> DEFINE w == [work[p] EXCEPT !.known = Len(rows)]
    <2>1. work[p] \in Work /\ Made(work[p].signal, readings)
      BY <1>1, <1>10 DEF CompareSignal, HistoryTypes, AllMade
    <2>2. w \in Work /\ w.signal = work[p].signal /\ w.known = Len(rows)
      BY <1>1, <2>1 DEF Work
    <2>3. /\ work' = [work EXCEPT ![p] = w]
          /\ at' = [at EXCEPT ![p] = "insert"]
          /\ UNCHANGED <<active, version, readings, memo, rows>>
      BY <1>10 DEF CompareSignal, Move
    <2> HIDE DEF w
    <2> QED
      BY <1>10, <2>1, <2>2, <2>3, PollerKeeps DEF Labels
  <1>11. ASSUME NEW p \in Pollers, Done(p),
                UNCHANGED <<active, version, readings, memo, rows>>
         PROVE  HistoryInv'
    <2>1. Idle \in Work
      BY DEF Idle, Work
    <2> QED
      BY <1>11, <2>1, PollerKeeps DEF Done, Move, Labels
  <1>12. ASSUME NEW p \in Pollers,
                RecordFails(p) \/ (CompareSignal(p) /\ ~IsNews(work[p].signal))
         PROVE  HistoryInv'
    BY <1>11, <1>12 DEF RecordFails, CompareSignal
  <1>13. CASE UNCHANGED historyVars
    <2>1. UNCHANGED <<active, version, readings, memo, rows, at, work>>
      BY <1>13 DEF historyVars
    <2> QED
      BY <1>1, <2>1, OutsideKeeps DEF HistoryTypes
  <1> QED
    BY <1>2, <1>3, <1>4, <1>5, <1>6, <1>8, <1>9, <1>10, <1>12, <1>13
    DEF HistoryNext, Serve

LEMMA HistoryTypesFollow == HistoryInv => HistoryTypeOK
  <1> SUFFICES ASSUME HistoryInv PROVE HistoryTypeOK
    OBVIOUS
  <1>1. HistoryTypes /\ AllMade /\ ReadingsBounded
    BY DEF HistoryInv
  <1>2. readings \in 0..MaxReadings
    BY <1>1, ComputingCounted, HistoryAssumption DEF HistoryTypes, ReadingsBounded
  <1>3. \A row \in Row : row.decision \in Decision
    BY DEF Row
  <1>4. \A k \in DOMAIN rows :
           rows[k].decision \in Decision /\ rows[k].created \in 1..readings
    <2> HIDE DEF Row
    <2>1. DOMAIN rows = 1..Len(rows) /\ \A k \in DOMAIN rows : rows[k] \in Row
      BY <1>1 DEF HistoryTypes
    <2> QED
      BY <1>1, <1>3, <2>1 DEF AllMade
  <1> QED
    BY <1>1, <1>2, <1>4 DEF HistoryTypeOK, HistoryTypes, AllMade, Made, Signal

LEMMA HistoryInvariance == HistorySpec => []HistoryInv
  BY HistoryInitInv, HistoryStepInv, PTL DEF HistorySpec

-----------------------------------------------------------------------------
(* Every variable has its type, and no signal is dated after the last        *)
(* reading.                                                                  *)
THEOREM HistoryTyped == HistorySpec => []HistoryTypeOK
  BY HistoryTypesFollow, HistoryInvariance, PTL

(* A decision is repeated in the table for the two reasons only, whoever     *)
(* polls, whatever is memoised and whatever the scripts do.                  *)
THEOREM Repeats == HistorySpec => []RepeatsExplained
  <1>1. HistoryInv => RepeatsExplained
    BY DEF HistoryInv
  <1> QED
    BY <1>1, HistoryInvariance, PTL

-----------------------------------------------------------------------------
(* The two beside each other, as in MCStrategies.                           *)

LEMMA StrategiesStep ==
    [MCNext]_<<vars, historyVars>> => [Next]_vars /\ [HistoryNext]_historyVars
  BY DEF MCNext

(* Whichever of the two runs while the other rests, every variable of both   *)
(* keeps its type, for all constants. *)
THEOREM StrategiesTypes == MCSpec => []MCTypeOK
  <1> DEFINE Inv == StrategyInv /\ HistoryInv
  <1>1. MCInit => Inv
    BY StrategyInitInv, HistoryInitInv DEF MCInit
  <1>2. Inv /\ [MCNext]_<<vars, historyVars>> => Inv'
    BY StrategiesStep, StrategyStepInv, HistoryStepInv
  <1>3. Inv => MCTypeOK
    BY HistoryTypesFollow DEF StrategyInv, MCTypeOK
  <1> HIDE DEF Inv
  <1> QED
    BY <1>1, <1>2, <1>3, PTL DEF MCSpec
=============================================================================
