------------------------------- MODULE MCDatabase -------------------------------
(* What the backend does to its database, on small instances for TLC: the    *)
(* migrations at its start, the bars and the snapshots that are posted.     *)
(* Migrations, CandleStore and Ingest run each while the others rest: they  *)
(* write different tables and share no variable.                            *)
EXTENDS Migrations, CandleStore, Ingest

(* The statements of the three migrations of the code. *)
MCStatements == <<12, 2, 2>>

MCInit == Init /\ StoreInit /\ IngestInit

OnlyIngest ==
    /\ Init /\ UNCHANGED vars
    /\ StoreInit /\ UNCHANGED storeVars

MCNext ==
    \/ /\ Next
       /\ StoreInit /\ UNCHANGED storeVars
       /\ IngestInit /\ UNCHANGED ingestVars
    \/ /\ StoreNext
       /\ Init /\ UNCHANGED vars
       /\ IngestInit /\ UNCHANGED ingestVars
    \/ IngestNext /\ OnlyIngest

(* IngestFairness, of the steps that leave the others at rest. *)
MCFairness ==
    /\ WF_ingestVars(Tick /\ OnlyIngest)
    /\ WF_ingestVars((\E h \in Handlers : Ingested(h)) /\ OnlyIngest)
    /\ \A h \in Handlers : WF_ingestVars(Persist(h) /\ OnlyIngest)
    /\ SF_ingestVars((\E h \in Handlers : InsertSample(h)) /\ OnlyIngest)
    /\ SF_ingestVars((\E h \in Handlers : SaveSnapshot(h)) /\ OnlyIngest)
    /\ SF_ingestVars((\E h \in Handlers : PruneQuotes(h)) /\ OnlyIngest)
    /\ SF_ingestVars((\E h \in Handlers : PruneSnapshots(h)) /\ OnlyIngest)
    /\ SF_ingestVars((\E h \in Handlers : PruneSignals(h)) /\ OnlyIngest)

MCSpec == MCInit /\ [][MCNext]_<<vars, storeVars, ingestVars>> /\ MCFairness

(* Every variable of the three has its type. *)
MCTypeOK == TypeOK /\ StoreTypeOK /\ IngestTypeOK
=============================================================================
