----------------------------- MODULE SignalHistory -----------------------------
(***************************************************************************)
(* /api/signal on one series: the selected strategy reads the bars through  *)
(* the memo, a script may overrule the reading, and the outcome is written  *)
(* to the signals table when it differs from the newest row.  Pollers are   *)
(* handler threads of FastAPI's pool; looking up the memo, running the      *)
(* script, SELECT and INSERT are steps of their own.                        *)
(*                                                                          *)
(* The races inside the memo are those of SeriesMemo, and the selection of  *)
(* the strategy is that of StrategyStore; here both are one step.  A        *)
(* decision is a bias and a score.  Dates are counted in readings made.     *)
(***************************************************************************)
EXTENDS Integers, Sequences, FiniteSets, FiniteSetsExt

CONSTANTS
    Pollers,
    Strategies,     \* the strategies a user switches between
    ScriptOnes,     \* those that are scripts
    ReadingOf,      \* the engine's decision: [Strategies -> Seq(Decision)]
    Replies,        \* what running a script may come to
    MayFail,        \* whether the database may refuse a statement
    MaxReadings,    \* bound: readings computed
    MaxRows,        \* bound: rows written
    Nobody          \* no strategy, no reading

ASSUME HistoryAssumption ==
    ScriptOnes \subseteq Strategies /\ IsFiniteSet(Pollers) /\ MaxReadings \in Nat

VARIABLES
    active,     \* the strategy in effect
    version,    \* how often the series' fingerprint has changed, from 1
    readings,   \* readings computed so far: the clock of created_at
    memo,       \* _signal_memo: [Strategies -> an entry, or Nobody]
    rows,       \* the signals table in the order of its ids
    at,         \* where each poller is
    work        \* what it serves: the strategy, its print, the signal

historyVars == <<active, version, readings, memo, rows, at, work>>

Labels == {"idle", "compute", "script", "hung", "compare", "insert"}
Idle == [strategy |-> Nobody, print |-> 0, signal |-> Nobody, known |-> 0]
Decision == [bias : {"LONG", "SHORT", "WAIT"}, score : 0..100]
Signal == [decision : Decision, created : Nat]
Row == [decision : Decision, created : Nat, known : Nat]

(* The engine decides on whatever bars there are; what a script prints has  *)
(* been looked through by _parse when it counts as a result.                *)
ASSUME DecisionAssumption ==
    /\ \A s \in Strategies : ReadingOf[s] \in Seq(Decision) /\ ReadingOf[s] # <<>>
    /\ \A reply \in Replies : reply.kind = "result" =>
          reply.bias \in {"LONG", "SHORT", "WAIT"} /\ reply.score \in Int
    /\ Nobody \notin Signal \cup Row

Same(one, other) == one.decision = other.decision

HistoryInit ==
    /\ active \in Strategies
    /\ version = 1
    /\ readings = 0
    /\ memo = [s \in Strategies |-> Nobody]
    /\ rows = <<>>
    /\ at = [p \in Pollers |-> "idle"]
    /\ work = [p \in Pollers |-> Idle]

Move(p, label) == at' = [at EXCEPT ![p] = label]
Done(p) == Move(p, "idle") /\ work' = [work EXCEPT ![p] = Idle]

-----------------------------------------------------------------------------
(* The user selects another strategy; a bar closes. *)
Switch(s) ==
    /\ s # active
    /\ active' = s
    /\ UNCHANGED <<version, readings, memo, rows, at, work>>

BarCloses ==
    /\ \A s \in Strategies : version < Len(ReadingOf[s])
    /\ version' = version + 1
    /\ UNCHANGED <<active, readings, memo, rows, at, work>>

(* _signal_for up to the memo: a hit answers the signal as it was, with the *)
(* date it was computed at.                                                 *)
LookUpSignal(p) ==
    LET hit == memo[active] # Nobody /\ memo[active].print = version
        under(labels) == Cardinality({q \in Pollers : at[q] \in labels})
    IN  /\ at[p] = "idle"
        /\ hit \/ readings + under({"compute"}) < MaxReadings
        /\ Len(rows) + under(Labels \ {"idle"}) < MaxRows
        /\ work' = [work EXCEPT ![p] =
              [strategy |-> active, print |-> version, known |-> 0,
               signal |-> IF hit THEN memo[active].signal ELSE Nobody]]
        /\ Move(p, IF ~hit THEN "compute"
                   ELSE IF active \in ScriptOnes THEN "script" ELSE "compare")
        /\ UNCHANGED <<active, version, readings, memo, rows>>

(* signal_with_timeframes reads the bars as they are now. *)
ComputeSignal(p) ==
    LET s == work[p].strategy
        signal == [decision |-> ReadingOf[s][version], created |-> readings + 1]
    IN  /\ at[p] = "compute"
        /\ readings' = readings + 1
        /\ memo' = [memo EXCEPT ![s] = [print |-> work[p].print, signal |-> signal]]
        /\ work' = [work EXCEPT ![p].signal = signal]
        /\ Move(p, IF s \in ScriptOnes THEN "script" ELSE "compare")
        /\ UNCHANGED <<active, version, rows>>

(* Mutant: the score of a script is taken as it is. *)
OverruledUnclamped(signal, reply) ==
    IF reply.kind # "result" THEN signal
    ELSE [signal EXCEPT !.decision = [bias |-> reply.bias, score |-> reply.score]]

(* scripts.run and _parse: a reply that is not a result is an error, which  *)
(* leaves the reading in place, as a missing file does; a score is clamped  *)
(* to 0..100.                                                               *)
Overruled(signal, reply) ==
    IF reply.kind # "result" THEN signal
    ELSE [decision |-> [bias |-> reply.bias, score |-> Max({0, Min({100, reply.score})})],
          created |-> signal.created]

RunScript(p, reply) ==
    /\ at[p] = "script"
    /\ work' = [work EXCEPT ![p].signal = Overruled(@, reply)]
    /\ Move(p, "compare")
    /\ UNCHANGED <<active, version, readings, memo, rows>>

(* The script does not come back. *)
HangScript(p) ==
    /\ at[p] = "script"
    /\ Move(p, "hung")
    /\ UNCHANGED <<active, version, readings, memo, rows, work>>

(* Mutant: the child is waited for without a timeout. *)
KillScriptNever(p) == FALSE /\ UNCHANGED historyVars

(* subprocess.run kills the child after TIMEOUT_SECONDS. *)
KillScript(p) ==
    /\ at[p] = "hung"
    /\ Move(p, "compare")
    /\ UNCHANGED <<active, version, readings, memo, rows, work>>

-----------------------------------------------------------------------------
(* Mutant: the oldest row is taken for the newest. *)
LatestOldest ==
    IF rows = <<>> THEN Nobody
    ELSE LET dates == {rows[k].created : k \in DOMAIN rows}
         IN  rows[Max({k \in DOMAIN rows : rows[k].created = Min(dates)})]

(* SignalRepository.latest: ORDER BY created_at DESC, id DESC. *)
Latest ==
    IF rows = <<>> THEN Nobody
    ELSE LET dates == {rows[k].created : k \in DOMAIN rows}
         IN  rows[Max({k \in DOMAIN rows : rows[k].created = Max(dates)})]

(* save_if_changed compares bias and score with the newest row. *)
IsNews(signal) == Latest = Nobody \/ ~Same(Latest, signal)

CompareSignal(p) ==
    /\ at[p] = "compare"
    /\ IF IsNews(work[p].signal)
       THEN Move(p, "insert") /\ work' = [work EXCEPT ![p].known = Len(rows)]
       ELSE Done(p)
    /\ UNCHANGED <<active, version, readings, memo, rows>>

(* SignalRepository.save; `known` is history: the rows there were when the  *)
(* poll compared.                                                           *)
InsertSignal(p) ==
    /\ at[p] = "insert"
    /\ LET signal == work[p].signal
       IN  rows' = Append(rows, [decision |-> signal.decision,
                                 created |-> signal.created,
                                 known |-> work[p].known])
    /\ Done(p)
    /\ UNCHANGED <<active, version, readings, memo>>

(* The SELECT or the INSERT fails: the signal is answered all the same. *)
RecordFails(p) ==
    /\ MayFail
    /\ at[p] \in {"compare", "insert"}
    /\ Done(p)
    /\ UNCHANGED <<active, version, readings, memo, rows>>

-----------------------------------------------------------------------------
Serve(p) ==
    \/ ComputeSignal(p)
    \/ \E reply \in Replies : RunScript(p, reply)
    \/ KillScript(p)
    \/ CompareSignal(p)
    \/ InsertSignal(p)

HistoryNext ==
    \/ \E s \in Strategies : Switch(s)
    \/ BarCloses
    \/ \E p \in Pollers :
          LookUpSignal(p) \/ HangScript(p) \/ Serve(p) \/ RecordFails(p)

(* A thread of the pool gets to run, and the clock of a child's timeout     *)
(* does not stop.                                                           *)
HistorySpec ==
    /\ HistoryInit
    /\ [][HistoryNext]_historyVars
    /\ \A p \in Pollers : WF_historyVars(Serve(p))

-----------------------------------------------------------------------------
(* Every variable has its type; a memo entry is dated by a reading made.    *)
HistoryTypeOK ==
    /\ active \in Strategies
    /\ readings \in 0..MaxReadings
    /\ \A s \in Strategies : memo[s] # Nobody =>
          /\ memo[s].print \in 1..version
          /\ memo[s].signal.decision \in Decision
          /\ memo[s].signal.created \in 1..readings
    /\ \A k \in DOMAIN rows :
          rows[k].decision \in Decision /\ rows[k].created \in 1..readings
    /\ at \in [Pollers -> Labels]
    /\ \A p \in Pollers :
          at[p] \in {"script", "hung", "compare", "insert"} => work[p].signal.decision \in Decision

(* The history repeats a decision for two reasons only: polls that compared *)
(* before the other had inserted, and a memoised reading that carries a     *)
(* date older than a row already there, so that the row written for it is   *)
(* not the newest the next time (save_if_changed, Memo.get).                *)
RepeatsExplained ==
    \A k \in DOMAIN rows \ {1} :
        Same(rows[k], rows[k - 1]) =>
            \/ rows[k].known < k - 1
            \/ \E j \in 1 .. k - 2 : rows[j].created > rows[k - 1].created

(* Every poll is answered, whatever the script does (scripts.run).          *)
PollsEnd == \A p \in Pollers : at[p] # "idle" ~> at[p] = "idle"

(* The table is a record of decisions rather than of polling: no row        *)
(* repeats the one before it.                                               *)
DecisionsOnly ==
    \A k \in DOMAIN rows \ {1} : ~Same(rows[k], rows[k - 1])
=============================================================================
