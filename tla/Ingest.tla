--------------------------------- MODULE Ingest ---------------------------------
(***************************************************************************)
(* What /internal/ingest/snapshot leaves behind: a sample of the quotes now *)
(* and then, a snapshot less often, and after each snapshot the removal of  *)
(* what is too old (backend/api/server.py, QuoteRepository,                 *)
(* SnapshotRepository and Retention in backend/storage/repositories.py).    *)
(* Handlers run in threads; the shell posts again after its timeout, so     *)
(* that two can overlap.                                                    *)
(*                                                                          *)
(* One symbol stands for all.  Time is the age of what there is, in ticks   *)
(* much longer than a handler takes, and ages stop at the last that         *)
(* matters.  The live snapshot itself is part of AppState, and what the     *)
(* quotes do to paper trades of PaperTrading.                               *)
(***************************************************************************)
EXTENDS Integers, FiniteSets

CONSTANTS
    Handlers,           \* bound: ingests at once
    SampleInterval,     \* min_interval_seconds, in ticks
    SnapshotInterval,   \* SNAPSHOT_INTERVAL_SECONDS, in ticks
    KeepQuotes, KeepSnapshots, KeepSignals,     \* RetentionPolicy, in ticks
    Elsewhere           \* the handlers of /api/signal

(* The intervals are minutes, the retention is days: what is removed is      *)
(* older than its interval.                                                 *)
ASSUME IngestAssumption ==
    /\ {KeepQuotes, KeepSnapshots, KeepSignals} \subseteq Nat
    /\ SampleInterval \in 1..(KeepQuotes + 1)
    /\ SnapshotInterval \in 1..(KeepSnapshots + 1)

VARIABLES
    place,      \* where each handler is
    sampled,    \* the age of _last_written
    stamped,    \* the age of last_snapshot_stored
    quotes,     \* the rows of the three tables: by age, and by who wrote them
    snapshots,
    signals

tables == <<quotes, snapshots, signals>>
ingestVars == <<place, sampled, stamped, tables>>

Older(age, limit) == IF age < limit THEN age + 1 ELSE limit
Aged(rows, keep) == {<<Older(row[1], keep + 1), row[2]>> : row \in rows}
Rows(keep, writers) == (0..(keep + 1)) \X writers
Within(rows, keep) == {row \in rows : row[1] <= keep}

(* A date that was never set is as good as one past its interval. *)
IngestInit ==
    /\ place = [h \in Handlers |-> "idle"]
    /\ sampled = SampleInterval
    /\ stamped = SnapshotInterval
    /\ quotes = {}
    /\ snapshots = {}
    /\ signals = {}

Enter(h, to) == place' = [place EXCEPT ![h] = to]
Step(h, from, to) == place[h] = from /\ Enter(h, to)

(* Bound: each handler serves one ingest in a tick. *)
Tick ==
    /\ \A h \in Handlers : place[h] \in {"idle", "served"}
    /\ place' = [h \in Handlers |-> "idle"]
    /\ sampled' = Older(sampled, SampleInterval)
    /\ stamped' = Older(stamped, SnapshotInterval)
    /\ quotes' = Aged(quotes, KeepQuotes)
    /\ snapshots' = Aged(snapshots, KeepSnapshots)
    /\ signals' = Aged(signals, KeepSignals)

(* /api/signal records a decision (see SignalHistory).  Bound: between two  *)
(* ingests, as it looks at nothing they write.                              *)
SignalRecorded ==
    /\ \A h \in Handlers : place[h] = "idle"
    /\ signals' = signals \cup {<<0, Elsewhere>>}
    /\ UNCHANGED <<place, sampled, stamped, quotes, snapshots>>

(* The handler begins; the live data has been taken over. *)
Ingested(h) ==
    /\ Step(h, "idle", "look")
    /\ UNCHANGED <<sampled, stamped, tables>>

(* Mutant: a symbol is marked whether it is due or not. *)
LookAtSampleMarking(h) ==
    /\ IF sampled >= SampleInterval
       THEN Step(h, "look", "mark") /\ UNCHANGED sampled
       ELSE Step(h, "look", "due") /\ sampled' = 0
    /\ UNCHANGED <<stamped, tables>>

(* Mutant: an interval one tick too short. *)
LookAtSampleEarly(h) ==
    /\ IF sampled + 1 >= SampleInterval
       THEN Step(h, "look", "mark")
       ELSE Step(h, "look", "due")
    /\ UNCHANGED <<sampled, stamped, tables>>

(* save_sampled looks whether the symbol is due. *)
LookAtSample(h) ==
    /\ IF sampled >= SampleInterval
       THEN Step(h, "look", "mark")
       ELSE Step(h, "look", "due")
    /\ UNCHANGED <<sampled, stamped, tables>>

(* Mutant: when it is due next is taken for when it was written last. *)
MarkNextDue(h) ==
    /\ Step(h, "mark", "insert")
    /\ sampled' = -SampleInterval
    /\ UNCHANGED <<stamped, tables>>

(* It marks it before it writes. *)
MarkSampled(h) ==
    /\ Step(h, "mark", "insert")
    /\ sampled' = 0
    /\ UNCHANGED <<stamped, tables>>

InsertSample(h) ==
    /\ Step(h, "insert", "due")
    /\ quotes' = quotes \cup {<<0, h>>}
    /\ UNCHANGED <<sampled, stamped, snapshots, signals>>

LookAtSnapshot(h) ==
    /\ Step(h, "due", IF stamped >= SnapshotInterval THEN "save" ELSE "served")
    /\ UNCHANGED <<sampled, stamped, tables>>

(* SnapshotRepository.save, and last_snapshot_stored. *)
SaveSnapshot(h) ==
    /\ Step(h, "save", "pruneQuotes")
    /\ snapshots' = snapshots \cup {<<0, h>>}
    /\ stamped' = 0
    /\ UNCHANGED <<sampled, quotes, signals>>

(* Retention.run: three transactions. *)
PruneQuotes(h) ==
    /\ Step(h, "pruneQuotes", "pruneSnapshots")
    /\ quotes' = Within(quotes, KeepQuotes)
    /\ UNCHANGED <<sampled, stamped, snapshots, signals>>

(* Mutant: the quotes are removed again, and the snapshots never. *)
PruneQuotesTwice(h) ==
    /\ Step(h, "pruneSnapshots", "pruneSignals")
    /\ quotes' = Within(quotes, KeepSnapshots)
    /\ UNCHANGED <<sampled, stamped, snapshots, signals>>

PruneSnapshots(h) ==
    /\ Step(h, "pruneSnapshots", "pruneSignals")
    /\ snapshots' = Within(snapshots, KeepSnapshots)
    /\ UNCHANGED <<sampled, stamped, quotes, signals>>

PruneSignals(h) ==
    /\ Step(h, "pruneSignals", "served")
    /\ signals' = Within(signals, KeepSignals)
    /\ UNCHANGED <<sampled, stamped, quotes, snapshots>>

(* A statement is refused, for a full disk or a busy database: the rest is  *)
(* left out, and the ingest is accepted all the same.                       *)
PersistingFails(h) ==
    /\ place[h] \in {"insert", "save", "pruneQuotes", "pruneSnapshots", "pruneSignals"}
    /\ Enter(h, "served")
    /\ UNCHANGED <<sampled, stamped, tables>>

Persist(h) ==
    \/ LookAtSample(h) \/ MarkSampled(h) \/ InsertSample(h)
    \/ LookAtSnapshot(h) \/ SaveSnapshot(h)
    \/ PruneQuotes(h) \/ PruneSnapshots(h) \/ PruneSignals(h)
    \/ PersistingFails(h)

IngestNext ==
    \/ Tick
    \/ SignalRecorded
    \/ \E h \in Handlers : Ingested(h) \/ Persist(h)

(* Time passes, snapshots come, and handlers end; a statement that is tried *)
(* again and again succeeds at last.                                        *)
IngestFairness ==
    /\ WF_ingestVars(Tick)
    /\ WF_ingestVars(\E h \in Handlers : Ingested(h))
    /\ \A h \in Handlers : WF_ingestVars(Persist(h))
    /\ SF_ingestVars(\E h \in Handlers : InsertSample(h))
    /\ SF_ingestVars(\E h \in Handlers : SaveSnapshot(h))
    /\ SF_ingestVars(\E h \in Handlers : PruneQuotes(h))
    /\ SF_ingestVars(\E h \in Handlers : PruneSnapshots(h))
    /\ SF_ingestVars(\E h \in Handlers : PruneSignals(h))

IngestSpec == IngestInit /\ [][IngestNext]_ingestVars /\ IngestFairness

-----------------------------------------------------------------------------
(* Every variable has its type. *)
IngestTypeOK ==
    /\ place \in [Handlers -> {"idle", "look", "mark", "insert", "due", "save",
                               "pruneQuotes", "pruneSnapshots", "pruneSignals",
                               "served"}]
    /\ sampled \in 0..SampleInterval
    /\ stamped \in 0..SnapshotInterval
    /\ quotes \subseteq Rows(KeepQuotes, Handlers)
    /\ snapshots \subseteq Rows(KeepSnapshots, Handlers)
    /\ signals \subseteq Rows(KeepSignals, {Elsewhere})

(* The history is a sample: no handler writes twice within an interval, so  *)
(* that overlapping ingests duplicate a row and do no worse, whatever       *)
(* fails.                                                                   *)
SampledNotCopied ==
    \A h \in Handlers :
        /\ Cardinality({row \in quotes : row[2] = h /\ row[1] < SampleInterval}) <= 1
        /\ Cardinality({row \in snapshots : row[2] = h /\ row[1] < SnapshotInterval}) <= 1

(* As long as quotes come and the database takes something now and then,    *)
(* new samples are written for ever: one that was marked and then refused   *)
(* costs its interval, and not the ones after it.                           *)
SamplingResumes ==
    []<>(\E h \in Handlers : place[h] # "idle") => []<>(\E row \in quotes : row[1] = 0)

(* Likewise no table grows for ever: what is past its time is gone again    *)
(* and again, from each of the three, although retention breaks off at the  *)
(* first statement that fails.                                              *)
OldRowsGo ==
    /\ []<>(quotes = Within(quotes, KeepQuotes))
    /\ []<>(snapshots = Within(snapshots, KeepSnapshots))
    /\ []<>(signals = Within(signals, KeepSignals))
=============================================================================
