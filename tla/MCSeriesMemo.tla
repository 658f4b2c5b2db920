----------------------------- MODULE MCSeriesMemo -----------------------------
(* Small instances of SeriesMemo for TLC. *)
EXTENDS SeriesMemo, TLC

Symmetry == Permutations(Threads) \cup Permutations(Keys) \cup Permutations(Captures)
=============================================================================
