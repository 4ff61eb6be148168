--------------------------- MODULE MCChatTranscript ---------------------------
(* Turns are interchangeable.                                                *)
EXTENDS ChatTranscript, TLC

Interchange == Permutations(Turns)
=============================================================================
