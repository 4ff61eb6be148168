---------------------------- MODULE MCResearchRun ----------------------------
(* Goals and experiments are interchangeable. *)
EXTENDS ResearchRun, TLC

Interchange == Permutations(Goals) \cup Permutations(Exps)
=============================================================================
