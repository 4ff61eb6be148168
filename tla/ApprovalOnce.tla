----------------------------- MODULE ApprovalOnce -----------------------------
(***************************************************************************)
(* What the approvals ledger promises, without the ledger: a confirmed      *)
(* "pause the research" approval is acted on at most once, and gets one     *)
(* answer, which never changes and does not claim what did not happen.      *)
(***************************************************************************)
EXTENDS Naturals

CONSTANT Ids   \* approval ids

VARIABLES answer,  \* per id: "open", "acting", or the outcome given for good
          pauses   \* per id: how often the research was paused on its account

Outcomes == {"paused", "already_paused", "not_running", "indeterminate_restart"}

Init ==
    /\ answer = [i \in Ids |-> "open"]
    /\ pauses = [i \in Ids |-> 0]

Take(i) ==
    /\ answer[i] = "open"
    /\ answer' = [answer EXCEPT ![i] = "acting"]
    /\ UNCHANGED pauses

Pause(i) ==
    /\ answer[i] = "acting" /\ pauses[i] = 0
    /\ pauses' = [pauses EXCEPT ![i] = 1]
    /\ UNCHANGED answer

\* "indeterminate_restart" is the one answer that does not say whether the
\* pause happened.
Settle(i, o) ==
    /\ answer[i] = "acting"
    /\ o = "paused" => pauses[i] = 1
    /\ o \in {"already_paused", "not_running"} => pauses[i] = 0
    /\ answer' = [answer EXCEPT ![i] = o]
    /\ UNCHANGED pauses

Next == \E i \in Ids : Take(i) \/ Pause(i) \/ \E o \in Outcomes : Settle(i, o)

Spec == Init /\ [][Next]_<<answer, pauses>>
=============================================================================
