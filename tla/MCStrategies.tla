------------------------------ MODULE MCStrategies ------------------------------
(* StrategyStore and SignalHistory on small instances for TLC, either one   *)
(* while the other rests: the two share no variable.                        *)
EXTENDS StrategyStore, SignalHistory

CONSTANTS builtin, own, script

MCDecision(bias, score) == [bias |-> bias, score |-> score]

(* A strategy of the user's own reads the same bars another way; a script   *)
(* starts from the built-in reading.                                        *)
MCReadingOf ==
    [s \in Strategies |->
        IF s = own
        THEN <<MCDecision("SHORT", 70), MCDecision("WAIT", 50)>>
        ELSE <<MCDecision("LONG", 70), MCDecision("SHORT", 70)>>]

MCReplies ==
    {[kind |-> "result", bias |-> "SHORT", score |-> 120], [kind |-> "malformed"]}

MCInit == Init /\ HistoryInit

MCNext ==
    \/ Next /\ HistoryInit /\ UNCHANGED historyVars
    \/ HistoryNext /\ Init /\ UNCHANGED vars

MCSpec ==
    /\ MCInit
    /\ [][MCNext]_<<vars, historyVars>>
    /\ \A p \in Pollers : WF_historyVars(Serve(p) /\ Init /\ UNCHANGED vars)

(* Every variable of the two has its type. *)
MCTypeOK == TypeOK /\ HistoryTypeOK
=============================================================================
