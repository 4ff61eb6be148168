------------------------------- MODULE PhoneChat -------------------------------
(***************************************************************************)
(* A phone question on the Buddy edge, from admission to the tokens it cost:  *)
(* _core_brain_chat and _produce of src/arail/portal/host_edge_routes.py, the *)
(* daily budget of src/arail/buddy_host/budget.py and the hold gate of the    *)
(* router, composed with the inference slot the phones share with the chat.   *)
(*                                                                         *)
(* One local day. The portal may die and start again: the slot, the threads   *)
(* and the budget's memory are gone, budget.json stays. It is written whole   *)
(* (to a side file, renamed), or not at all when the write raises; the first  *)
(* use of the budget reads it, and starts from zero when the read raises.     *)
(***************************************************************************)
EXTENDS InferenceSlot

CONSTANTS Phones,     \* the callers that come through the edge
          CapTurns, CapTokens,
          MaxAnswer,  \* the most tokens a call costs, prompt and answer
          MaxCrashes, MaxFaults

ASSUME PhonesAssumption == Phones \subseteq Callers \ Streams
ASSUME CapsAssumption == CapTurns \in Nat /\ CapTokens \in Nat /\ MaxAnswer \in Nat \ {0}
ASSUME BoundsAssumption == MaxCrashes \in Nat /\ MaxFaults \in Nat

VARIABLES asked,    \* each phone's question: "new", "admitted" or "refused"
          gate,     \* what the router's halt gate said: "none", "passed", "held"
          answer,   \* tokens of a response the event loop has not counted yet
          mem,      \* the Budget's state in memory
          disk,     \* budget.json
          held,     \* jobs_halted()
          lost,     \* history: calls of the day the budget does not know of
          reported, \* history: the tokens the answers of the day cost
          forgotten,\* history: those of them the budget will never know of
          crashes, faults

phoneVars == <<asked, gate, answer>>
budget == <<mem, disk, lost, reported, forgotten>>
vars == <<slotVars, phoneVars, budget, held, crashes, faults>>

Usage(maxTurns, maxTokens) == [turns : 0..maxTurns, tokens : 0..maxTokens]
Spendable == Cardinality(Phones) * MaxAnswer

TypeOK ==
    /\ SlotTypeOK
    /\ asked \in [Phones -> {"new", "admitted", "refused"}]
    /\ gate \in [Phones -> {"none", "passed", "held"}]
    /\ answer \in [Phones -> 0..MaxAnswer]
    /\ mem \in Usage(CapTurns, Spendable) /\ disk \in Usage(CapTurns, Spendable)
    /\ lost \in 0..Cardinality(Phones)
    /\ reported \in 0..Spendable /\ forgotten \in 0..Spendable
    /\ held \in BOOLEAN
    /\ crashes \in 0..MaxCrashes /\ faults \in 0..MaxFaults

Nothing == [turns |-> 0, tokens |-> 0]

Init ==
    /\ SlotInit
    /\ asked = [c \in Phones |-> "new"]
    /\ gate = [c \in Phones |-> "none"]
    /\ answer = [c \in Phones |-> 0]
    /\ mem = Nothing /\ disk = Nothing /\ lost = 0 /\ reported = 0 /\ forgotten = 0
    /\ held = FALSE
    /\ crashes = 0 /\ faults = 0

-----------------------------------------------------------------------------
(* The budget *)

\* Mutants: one cap is not looked at again.
ExhaustedByTokens == mem.tokens >= CapTokens
ExhaustedByTurns == mem.turns >= CapTurns

Exhausted == mem.turns >= CapTurns \/ mem.tokens >= CapTokens

\* Mutant: what is not the first turn of the day stays in memory.
PersistOnce ==
    /\ disk' = IF disk = Nothing THEN mem' ELSE disk
    /\ UNCHANGED faults

\* _persist_locked: an OSError is swallowed.
Persist ==
    \/ disk' = mem' /\ UNCHANGED faults
    \/ faults < MaxFaults /\ faults' = faults + 1 /\ UNCHANGED disk

-----------------------------------------------------------------------------
(* _core_brain_chat: nothing is counted, no model is called *)

Admit(c) ==
    /\ asked[c] = "new" /\ pc[c] = "idle"
    /\ ~held /\ ~Exhausted
    /\ asked' = [asked EXCEPT ![c] = "admitted"]
    /\ UNCHANGED <<slotVars, gate, answer, budget, held, crashes, faults>>

\* Held, over a cap, the wrong lab mode, or no brain.
Refuse(c) ==
    /\ asked[c] = "new" /\ pc[c] = "idle"
    /\ asked' = [asked EXCEPT ![c] = "refused"]
    /\ UNCHANGED <<slotVars, gate, answer, budget, held, crashes, faults>>

-----------------------------------------------------------------------------
(* _produce, with the slot in hand: claim_turn, then the call in a thread *)

ClaimTurn(c) ==
    /\ ~Exhausted
    /\ mem' = [mem EXCEPT !.turns = @ + 1]
    /\ Persist
    /\ UNCHANGED <<phoneVars, lost, reported, forgotten, held, crashes>>

\* The budget is spent by now, or the lab's mode changed.
ClaimRefused(c) ==
    /\ UNCHANGED <<phoneVars, budget, held, crashes, faults>>

PhoneTakesSlot(c) ==
    /\ c \in Phones /\ asked[c] = "admitted"
    /\ \/ (EnterAtOnce(c, "in") \/ Resume(c, "in")) /\ ClaimTurn(c)
       \/ (EnterAtOnce(c, "left") \/ Resume(c, "left")) /\ ClaimRefused(c)

PhoneWaits(c) ==
    /\ c \in Phones /\ asked[c] = "admitted"
    /\ Wait(c)
    /\ UNCHANGED <<phoneVars, budget, held, crashes, faults>>

\* Mutant: its time is looked at when it is woken.
PhoneTimesOutLate(c) ==
    /\ c \in Phones /\ pc[c] = "granted"
    /\ TimesOut(c)
    /\ UNCHANGED <<phoneVars, budget, held, crashes, faults>>

\* InferenceSlotTimeout: "the lab's model is busy".
PhoneTimesOut(c) ==
    /\ c \in Phones
    /\ TimesOut(c)
    /\ UNCHANGED <<phoneVars, budget, held, crashes, faults>>

\* stream_complete in the worker thread: halt_gate.
Gate(c) ==
    /\ c \in Phones /\ thread[c] = "running" /\ gate[c] = "none"
    /\ gate' = [gate EXCEPT ![c] = IF held THEN "held" ELSE "passed"]
    /\ UNCHANGED <<slotVars, asked, answer, budget, held, crashes, faults>>

\* The thread ends without a response when it was held or the backend raised.
Answers(c, n) ==
    /\ c \in Phones /\ gate[c] # "none"
    /\ n > 0 => gate[c] = "passed"
    /\ ThreadEnds(c)
    /\ answer' = [answer EXCEPT ![c] = n]
    /\ reported' = reported + n
    /\ UNCHANGED <<asked, gate, mem, disk, lost, forgotten, held, crashes, faults>>

\* add_tokens, on the event loop, while the slot is still the call's.
AddTokens(c) ==
    /\ c \in Phones /\ pc[c] = "in" /\ answer[c] > 0
    /\ mem' = [mem EXCEPT !.tokens = @ + answer[c]]
    /\ Persist
    /\ answer' = [answer EXCEPT ![c] = 0]
    /\ UNCHANGED <<slotVars, asked, gate, lost, reported, forgotten, held, crashes>>

PhoneLeaves(c) ==
    /\ c \in Phones /\ answer[c] = 0
    /\ Leave(c)
    /\ UNCHANGED <<phoneVars, budget, held, crashes, faults>>

-----------------------------------------------------------------------------
(* The other callers of the slot, the hold switch, and the process *)

ChatStep(c) ==
    /\ c \notin Phones
    /\ \/ EnterAtOnce(c, "in") \/ Resume(c, "in")
       \/ Wait(c) \/ TimesOut(c) \/ ThreadEnds(c) \/ Leave(c)
       \/ CancelledWaiting(c) \/ CancelledInside(c)
    /\ UNCHANGED <<phoneVars, budget, held, crashes, faults>>

Hold ==
    /\ held' = ~held
    /\ UNCHANGED <<slotVars, phoneVars, budget, crashes, faults>>

\* _load_locked: a read of budget.json that raises counts as an empty day.
Load ==
    \/ mem' = disk /\ UNCHANGED faults
    \/ faults < MaxFaults /\ faults' = faults + 1 /\ mem' = Nothing

\* Everything in memory is gone, and the next process reads budget.json.
Restart ==
    /\ crashes < MaxCrashes
    /\ crashes' = crashes + 1
    /\ free' = Capacity /\ queue' = <<>>
    /\ pc' = [c \in Callers |-> IF pc[c] = "idle" THEN "idle" ELSE "left"]
    /\ thread' = [c \in Callers |-> IF thread[c] = "none" THEN "none" ELSE "done"]
    /\ pending' = 0 /\ inflight' = 0
    /\ asked' = [c \in Phones |-> IF asked[c] = "admitted" /\ pc[c] = "idle" THEN "refused" ELSE asked[c]]
    /\ gate' = gate
    /\ answer' = [c \in Phones |-> 0]
    /\ Load
    /\ lost' = lost + mem.turns - mem'.turns
    /\ forgotten' = reported - mem'.tokens
    /\ UNCHANGED <<disk, reported, held>>

Next ==
    \/ \E c \in Phones :
        \/ Admit(c) \/ Refuse(c)
        \/ PhoneTakesSlot(c) \/ PhoneWaits(c) \/ PhoneTimesOut(c)
        \/ Gate(c) \/ \E n \in 0..MaxAnswer : Answers(c, n)
        \/ AddTokens(c) \/ PhoneLeaves(c)
    \/ \E c \in Callers : ChatStep(c)
    \/ Hold
    \/ Restart

Spec == Init /\ [][Next]_vars

\* The event loop runs what is ready and its timers fire. Nothing is assumed of
\* the backends: a call may hang for ever.
Fairness ==
    \A c \in Phones :
        /\ WF_vars(PhoneTakesSlot(c) \/ PhoneWaits(c))
        /\ WF_vars(PhoneTimesOut(c))

FairSpec == Spec /\ Fairness

-----------------------------------------------------------------------------
(* Properties *)

\* Of the questions of a day no more than the cap reach a model, however many
\* passed the first check together, but for those the budget forgot: it forgets
\* none unless budget.json could not be written, or could not be read at a start.
Called == {c \in Phones : thread[c] # "none"}

TurnsWithinTheDay ==
    /\ Cardinality(Called) <= CapTurns + lost
    /\ faults = 0 => lost = 0

\* The tokens of a day, over every process that answered in it, pass the cap by
\* no more than the answers of a full slot, but for those the budget forgot: with
\* every write and read of budget.json done, a crash forgets the answers that were
\* not counted yet, a full slot of them at the most.
TokensWithinTheDay ==
    /\ reported <= (IF CapTokens > 0 THEN CapTokens - 1 ELSE 0) + Capacity * MaxAnswer + forgotten
    /\ faults = 0 => forgotten <= crashes * (Capacity * MaxAnswer)

\* An admitted question is answered, refused, or has the slot, whatever the
\* backends of the others do: a hung call makes the lab busy, not silent.
PhoneHears ==
    \A c \in Phones : asked[c] = "admitted" ~> pc[c] \in {"in", "left", "late"} \/ asked[c] = "refused"
=============================================================================
