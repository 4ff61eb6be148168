---------------------------- MODULE MCDeepVerdict ----------------------------
(* Labs and builds are interchangeable: nothing in the code names one.        *)
EXTENDS DeepVerdict, TLC

Symmetry == Permutations(Labs) \cup Permutations(Builds)
=============================================================================
