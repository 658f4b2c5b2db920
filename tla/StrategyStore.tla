----------------------------- MODULE StrategyStore -----------------------------
(***************************************************************************)
(* The user's strategies (backend/strategies/repository.py) under the       *)
(* handlers of /api/strategies, which FastAPI runs in a pool of threads,    *)
(* each with an SQLite connection of its own.                               *)
(*                                                                          *)
(* Python opens a transaction only before a statement that writes: the      *)
(* SELECT that precedes an INSERT inside the same `with transaction()` is a *)
(* step of its own, and others may commit between the two.  Statements that *)
(* write hold the database until the block commits, so that they and what   *)
(* follows them in the block are one step.                                  *)
(*                                                                          *)
(* A strategy's parameters and notes decide nothing here and are left out.  *)
(***************************************************************************)
EXTENDS Integers, FiniteSets

CONSTANTS
    Threads,
    Ids,            \* bound: the ids uuid4 will ever produce
    Scripts,        \* ids of strategies that are files of the user
    Names,
    MaxStrategies,  \* the cap on stored strategies (50 in the code)
    Builtin,        \* the built-in strategy, which is never stored
    NoName, NoSelection, NoRequest

ASSUME StrategyAssumption == MaxStrategies \in Nat \ {0} /\ IsFiniteSet(Threads)

(* A script's id starts with `script:`, the built-in one is `builtin`, and  *)
(* neither is what uuid4 prints.                                            *)
ASSUME ApartAssumption ==
    /\ Ids \cap Scripts = {} /\ Builtin \notin Ids \cup Scripts
    /\ NoSelection \notin Ids \cup Scripts \cup {Builtin}
    /\ NoName \notin Names

VARIABLES
    name,       \* the strategies table: [Ids -> a name, or NoName]
    used,       \* history: the ids ever stored
    selection,  \* the row of settings under `active_strategy`
    files,      \* the scripts folder
    pc, req,    \* where each handler thread is, and what it serves
    seen        \* history: what was in effect while its call of active() runs

vars == <<name, used, selection, files, pc, req, seen>>

AnyStrategy == Ids \cup Scripts \cup {Builtin}

Stored == {i \in Ids : name[i] # NoName}
NameTaken(n, besides) == \E i \in Stored \ {besides} : name[i] = n

(* StrategyRepository.get finds it. *)
Exists(s) == s = Builtin \/ s \in Stored \cup files

(* What active() resolves to when nothing happens while it runs. *)
Effective == IF selection # NoSelection /\ Exists(selection) THEN selection ELSE Builtin

Init ==
    /\ name = [i \in Ids |-> NoName]
    /\ used = {}
    /\ selection = NoSelection
    /\ files = {}
    /\ pc = [t \in Threads |-> "idle"]
    /\ req = [t \in Threads |-> NoRequest]
    /\ seen = [t \in Threads |-> {}]

Begin(t, label, request) ==
    /\ pc[t] = "idle"
    /\ pc' = [pc EXCEPT ![t] = label]
    /\ req' = [req EXCEPT ![t] = request]

Finish(t) ==
    /\ pc' = [pc EXCEPT ![t] = "idle"]
    /\ req' = [req EXCEPT ![t] = NoRequest]

-----------------------------------------------------------------------------
(* create: the count is read, then the row is inserted.                     *)

(* Mutant: one strategy too many is let in. *)
CountRoomAtCap(t, n) ==
    /\ Cardinality(Stored) <= MaxStrategies
    /\ Begin(t, "insert", n)
    /\ UNCHANGED <<name, used, selection, files>>

CountRoom(t, n) ==
    /\ Cardinality(Stored) < MaxStrategies
    /\ Begin(t, "insert", n)
    /\ UNCHANGED <<name, used, selection, files>>

(* uuid4 never gives an id twice; the column is UNIQUE. *)
Insert(t, i) ==
    /\ pc[t] = "insert"
    /\ i \notin used
    /\ ~NameTaken(req[t], i)
    /\ name' = [name EXCEPT ![i] = req[t]]
    /\ used' = used \cup {i}
    /\ Finish(t)
    /\ UNCHANGED <<selection, files>>

NameExists(t) ==
    /\ pc[t] = "insert"
    /\ NameTaken(req[t], NoName)
    /\ Finish(t)
    /\ UNCHANGED <<name, used, selection, files>>

-----------------------------------------------------------------------------
(* update and delete refuse the built-in strategy and the scripts; a row    *)
(* that is gone is StrategyNotFoundError and changes nothing.  update reads *)
(* the row again to answer, which changes nothing either.                   *)

Update(t, i, n) ==
    /\ pc[t] = "idle"
    /\ i \in Stored
    /\ ~NameTaken(n, i)
    /\ name' = [name EXCEPT ![i] = n]
    /\ UNCHANGED <<used, selection, files, pc, req>>

Delete(t, i) ==
    /\ pc[t] = "idle"
    /\ i \in Stored
    /\ name' = [name EXCEPT ![i] = NoName]
    /\ selection' = IF selection = i THEN NoSelection ELSE selection
    /\ UNCHANGED <<used, files, pc, req>>

-----------------------------------------------------------------------------
(* activate: the strategy is looked up, then the selection is written.      *)

LookUp(t, s) ==
    /\ Exists(s)
    /\ Begin(t, "select", s)
    /\ UNCHANGED <<name, used, selection, files>>

Select(t) ==
    /\ pc[t] = "select"
    /\ selection' = req[t]
    /\ Finish(t)
    /\ UNCHANGED <<name, used, files>>

-----------------------------------------------------------------------------
(* active: the selection is read, then resolved.                            *)

ReadSelection(t) ==
    /\ Begin(t, "resolve", selection)
    /\ UNCHANGED <<name, used, selection, files>>

(* Mutant: the selection read is answered without looking it up. *)
AnswerBlindly(t) == IF req[t] = NoSelection THEN Builtin ELSE req[t]

(* What the call answers if it looks its selection up now. *)
Answer(t) == IF req[t] # NoSelection /\ Exists(req[t]) THEN req[t] ELSE Builtin

Resolve(t) ==
    /\ pc[t] = "resolve"
    /\ Finish(t)
    /\ UNCHANGED <<name, used, selection, files>>

-----------------------------------------------------------------------------
(* A statement fails: nothing is written, the request is refused. *)
Fail(t) ==
    /\ pc[t] \in {"insert", "select", "resolve"}
    /\ Finish(t)
    /\ UNCHANGED <<name, used, selection, files>>

(* The user adds and removes files in the scripts folder. *)
ChangeFiles(f) ==
    /\ files' = (files \ {f}) \cup ({f} \ files)
    /\ UNCHANGED <<name, used, selection, pc, req>>

Crash ==
    /\ pc' = [t \in Threads |-> "idle"]
    /\ req' = [t \in Threads |-> NoRequest]
    /\ UNCHANGED <<name, used, selection, files>>

Step ==
    \/ \E t \in Threads :
          \/ \E n \in Names : CountRoom(t, n)
          \/ \E i \in Ids : Insert(t, i) \/ Delete(t, i)
          \/ NameExists(t)
          \/ \E i \in Ids, n \in Names : Update(t, i, n)
          \/ \E s \in AnyStrategy : LookUp(t, s)
          \/ Select(t)
          \/ ReadSelection(t)
          \/ Resolve(t)
          \/ Fail(t)
    \/ \E f \in Scripts : ChangeFiles(f)
    \/ Crash

(* The history of a call of active(): what was in effect from its first     *)
(* statement to its last.                                                   *)
Observe ==
    seen' = [t \in Threads |->
                IF pc'[t] = "resolve"
                THEN (IF pc[t] = "resolve" THEN seen[t] ELSE {}) \cup {Effective'}
                ELSE {}]

Next == Step /\ Observe

Spec == Init /\ [][Next]_vars

-----------------------------------------------------------------------------
(* Every variable has its type; names are unique. *)
TypeOK ==
    /\ name \in [Ids -> Names \cup {NoName}]
    /\ \A i, j \in Stored : name[i] = name[j] => i = j
    /\ used \subseteq Ids /\ Stored \subseteq used
    /\ selection \in AnyStrategy \cup {NoSelection}
    /\ files \subseteq Scripts
    /\ pc \in [Threads -> {"idle", "insert", "select", "resolve"}]
    /\ req \in [Threads -> Names \cup AnyStrategy \cup {NoSelection, NoRequest}]
    /\ seen \in [Threads -> SUBSET AnyStrategy]

(* Although active() reads the selection and then the row, a stored         *)
(* strategy it answers was in effect at some instant while it ran: never    *)
(* one deleted before, nor one replaced before.  (A script is excepted: its *)
(* file may come back after another choice has been made.)                  *)
AnswerWasInEffect ==
    \A t \in Threads :
        (pc[t] = "resolve" /\ Answer(t) \in Ids) => Answer(t) \in seen[t]

(* The race of two creates overruns the cap by at most the other threads.   *)
CapOverrun == Cardinality(Stored) <= MaxStrategies + Cardinality(Threads) - 1

=============================================================================
