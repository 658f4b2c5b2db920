---------------------------- MODULE MCPaperTrading ----------------------------
(* Small instances of PaperTrading for TLC. *)
EXTENDS PaperTrading, TLC

CONSTANTS t1, t2, m1, m5, gold

MCOneSymbol == [series \in Series |-> gold]
(* The stop distance is 3 and the target distance 6, two spreads being 2 on  *)
(* the first quote and 8 on the second, which is so wide that a position is *)
(* refused.  A long entered at 11 is stopped by the second quote; a short   *)
(* entered at 10 is filled by it, exactly at its target of 4.               *)
MCQuotes == {[sell |-> 10, buy |-> 11], [sell |-> 0, buy |-> 4]}

MCSignals == {[bias |-> "LONG",  score |-> 80, atr |-> 1],
              [bias |-> "SHORT", score |-> 70, atr |-> 1],
              [bias |-> "LONG",  score |-> 69, atr |-> 1]}

Symmetry == Permutations(Threads)
=============================================================================
