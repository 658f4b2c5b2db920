------------------------------ MODULE Migrations ------------------------------
(***************************************************************************)
(* How a backend that starts brings the schema of the one database file up  *)
(* to date (backend/storage/migrations.py, called from lifespan through     *)
(* Database.initialise).                                                    *)
(*                                                                          *)
(* executescript commits what is pending and then runs its script with no   *)
(* transaction of its own: each CREATE or ALTER is committed by itself, and *)
(* fails when what it creates is there.  Only the row of schema_migrations  *)
(* is inserted in the transaction of `with connection`.                     *)
(*                                                                          *)
(* More than one process may be at it: a backend outlives a shell that was  *)
(* killed, and migrates before it learns that the port is taken.  Releases  *)
(* differ in how many migrations they know.                                 *)
(***************************************************************************)
EXTENDS Integers, Sequences

CONSTANTS
    Procs,          \* backend processes
    Statements      \* how many statements each migration has

ASSUME MigrationAssumption == Statements \in Seq(Nat \ {0}) /\ Len(Statements) > 0

VARIABLES
    done,       \* the statements that have been executed: <<migration, number>>
    recorded,   \* the rows of schema_migrations
    pc,         \* [Procs -> down, running or serving]
    release,    \* the last migration a process knows
    at, next    \* the statement a process is about to execute

vars == <<done, recorded, pc, release, at, next>>

Versions == 1..Len(Statements)

Init ==
    /\ done = {}
    /\ recorded = {}
    /\ pc = [p \in Procs |-> "down"]
    /\ release = [p \in Procs |-> 1]
    /\ at = [p \in Procs |-> 1]
    /\ next = [p \in Procs |-> 1]

(* current_version: MAX(version), or 0. *)
CurrentVersion ==
    IF recorded = {} THEN 0
    ELSE CHOOSE v \in recorded : \A other \in recorded : other <= v

Begin(p, migration) ==
    /\ at' = [at EXCEPT ![p] = migration]
    /\ next' = [next EXCEPT ![p] = 1]

(* A backend of some release starts: nothing is pending, or it begins with  *)
(* the first migration above the recorded ones.                             *)
StartCurrent(p, r) ==
    /\ pc[p] = "down"
    /\ CurrentVersion >= r
    /\ pc' = [pc EXCEPT ![p] = "serving"]
    /\ release' = [release EXCEPT ![p] = r]
    /\ UNCHANGED <<done, recorded, at, next>>

StartPending(p, r) ==
    /\ pc[p] = "down"
    /\ CurrentVersion < r
    /\ pc' = [pc EXCEPT ![p] = "running"]
    /\ release' = [release EXCEPT ![p] = r]
    /\ Begin(p, CurrentVersion + 1)
    /\ UNCHANGED <<done, recorded>>

(* One statement of the script; what it creates must not exist. *)
Execute(p) ==
    /\ pc[p] = "running"
    /\ next[p] <= Statements[at[p]]
    /\ <<at[p], next[p]>> \notin done
    /\ done' = done \cup {<<at[p], next[p]>>}
    /\ next' = [next EXCEPT ![p] = @ + 1]
    /\ UNCHANGED <<recorded, pc, release, at>>

(* Mutant: the loop over the pending migrations ends one too early. *)
RecordLast(p) ==
    /\ pc[p] = "running"
    /\ next[p] > Statements[at[p]]
    /\ at[p] \notin recorded
    /\ recorded' = recorded \cup {at[p]}
    /\ IF at[p] + 1 >= release[p]
       THEN pc' = [pc EXCEPT ![p] = "serving"] /\ UNCHANGED <<at, next>>
       ELSE Begin(p, at[p] + 1) /\ UNCHANGED pc
    /\ UNCHANGED <<done, release>>

(* The migration is recorded, and the next one begun, if one is pending. *)
Record(p) ==
    /\ pc[p] = "running"
    /\ next[p] > Statements[at[p]]
    /\ at[p] \notin recorded
    /\ recorded' = recorded \cup {at[p]}
    /\ IF at[p] = release[p]
       THEN pc' = [pc EXCEPT ![p] = "serving"] /\ UNCHANGED <<at, next>>
       ELSE Begin(p, at[p] + 1) /\ UNCHANGED pc
    /\ UNCHANGED <<done, release>>

(* A statement fails, because what it creates exists or for lack of space,  *)
(* and lifespan raises; or the process dies or is stopped.                  *)
Exit(p) ==
    /\ pc[p] # "down"
    /\ pc' = [pc EXCEPT ![p] = "down"]
    /\ UNCHANGED <<done, recorded, release, at, next>>

Next ==
    \E p \in Procs :
        \/ \E r \in Versions : StartCurrent(p, r) \/ StartPending(p, r)
        \/ Execute(p)
        \/ Record(p)
        \/ Exit(p)

Spec == Init /\ [][Next]_vars

-----------------------------------------------------------------------------
(* Every variable has its type. *)
TypeOK ==
    /\ done \subseteq {s \in Versions \X Nat : s[2] \in 1..Statements[s[1]]}
    /\ recorded \subseteq Versions
    /\ pc \in [Procs -> {"down", "running", "serving"}]
    /\ release \in [Procs -> Versions]
    /\ at \in [Procs -> Versions]
    /\ next \in [Procs -> Nat \ {0}]
    /\ \A p \in Procs : next[p] <= Statements[at[p]] + 1

Whole(m) == \A k \in 1..Statements[m] : <<m, k>> \in done
Untouched(m) == \A k \in 1..Statements[m] : <<m, k>> \notin done

(* A recorded migration has been executed to its last statement, and so     *)
(* have all before it, wherever a process died and whoever was at it too.   *)
RecordedIsWhole ==
    \A m \in recorded : \A below \in 1..m : below \in recorded /\ Whole(below)

(* A backend serves only on a schema that has all its release knows. *)
ServesWhole ==
    \A p \in Procs : pc[p] = "serving" => \A m \in 1..release[p] : Whole(m)

(* Two processes are never both inside the statements of one migration: the *)
(* first statement lets only one of them in.                                *)
OneInside ==
    \A p, q \in Procs :
        (pc[p] = "running" /\ pc[q] = "running" /\ at[p] = at[q]
            /\ next[p] > 1 /\ next[q] > 1) => p = q

(* Each migration runs inside a transaction: when no process is at work,    *)
(* each has been executed as a whole or not at all.                         *)
AllOrNothing ==
    (\A p \in Procs : pc[p] # "running") =>
        \A m \in Versions : Whole(m) \/ Untouched(m)
=============================================================================
