---------------------------- MODULE PauseApproval ----------------------------
(***************************************************************************)
(* POST /pause_research on the Buddy edge: the handler                      *)
(* _core_pause_research of portal/host_edge_routes.py and the SQLite ledger  *)
(* of buddy_host/ledger.py behind it.                                        *)
(*                                                                         *)
(* The handler runs on the event-loop thread without an await, so two       *)
(* requests never interleave inside it; but the process can die, and a       *)
(* SQLite statement or researcher.pause() can raise, between any two of its  *)
(* steps, and the phone may send any body again at any time, through a       *)
(* restart as well. Rows are committed one statement at a time (autocommit,  *)
(* WAL, synchronous=FULL) and survive the process; the rest does not.        *)
(***************************************************************************)
EXTENDS Naturals, Portal

CONSTANTS Ids, Nonces,
          Bodies,     \* the request bodies a phone can send
          NoBody,     \* not a body
          Freshness,  \* how far the clock may be from a body's confirmed_at
          Times       \* what the wall clock can read

\* record_sha256 is injective on bodies, so a body stands for its own digest.
ASSUME BodiesAssumption ==
    Bodies \subseteq [id : Ids, proposal : Ids, nonce : Nonces,
                      confirmer : BOOLEAN, coherent : BOOLEAN, confirmed : Times]

ASSUME NoBodyAssumption == NoBody \notin Bodies

ASSUME TimesAssumption == Times \subseteq Nat /\ Freshness \in Nat

VARIABLES hold,      \* what _hold_view reports
          research,  \* researcher.status
          now,       \* the wall clock
          state,     \* ledger column "state" per approval id; "none" is no row
          recorded,  \* ledger column record_sha256 (and with it the nonce)
          received,  \* ledger column received_at
          outcome,   \* ledger column "outcome"
          pc,        \* where the handler is; "idle" between requests
          body,      \* the request it is serving
          result,    \* the outcome it has computed
          pauses,    \* history: calls of researcher.pause() made for each id
          replies    \* history: the outcomes sent, <<body, outcome>>

durable == <<state, recorded, received, outcome>>
handler == <<pc, body, result>>
environment == <<hold, research, now>>
vars == <<up, environment, durable, handler, pauses, replies>>

Outcomes == {"paused", "already_paused", "not_running", "indeterminate_restart"}
Statuses == {"idle", "running", "paused", "completed", "error"}
NoOutcome == "NULL"

TypeOK ==
    /\ up \in BOOLEAN
    /\ hold \in {"free", "held", "unreadable"}
    /\ research \in Statuses
    /\ now \in Times
    /\ state \in [Ids -> {"none", "executing", "done"}]
    /\ recorded \in [Ids -> Bodies \cup {NoBody}]
    /\ received \in [Ids -> Times]
    /\ outcome \in [Ids -> Outcomes \cup {NoOutcome}]
    /\ pc \in {"idle", "begin", "act", "finish", "reply"}
    /\ body \in Bodies \cup {NoBody}
    /\ result \in Outcomes \cup {NoOutcome}
    /\ pauses \in [Ids -> Nat]
    /\ replies \subseteq Bodies \X Outcomes

Init ==
    /\ up = TRUE
    /\ hold = "free" /\ research \in Statuses /\ now \in Times
    /\ state = [i \in Ids |-> "none"]
    /\ recorded = [i \in Ids |-> NoBody]
    /\ received = [i \in Ids |-> now]
    /\ outcome = [i \in Ids |-> NoOutcome]
    /\ pc = "idle" /\ body = NoBody /\ result = NoOutcome
    /\ pauses = [i \in Ids |-> 0]
    /\ replies = {}

-----------------------------------------------------------------------------
(* The ledger *)

NonceTaken(n) == \E i \in Ids : state[i] # "none" /\ recorded[i].nonce = n

\* Ledger.lookup raises ApprovalConflict.
Conflicts(b) ==
    IF state[b.id] # "none" THEN recorded[b.id] # b ELSE NonceTaken(b.nonce)

\* Ledger.lookup returns a row; one left "executing" is settled on the way.
IsReplay(b) == state[b.id] # "none" /\ recorded[b.id] = b

\* Mutant: every replay is settled as unknown.
StoredAlwaysUnknown(b) == "indeterminate_restart"

StoredOutcome(b) == IF state[b.id] = "executing" THEN "indeterminate_restart" ELSE outcome[b.id]

Fresh(b) ==
    /\ b.coherent
    /\ now <= b.confirmed + Freshness
    /\ b.confirmed <= now + Freshness

-----------------------------------------------------------------------------
(* The handler *)

\* The handler is over; its locals are gone.
Idle == pc' = "idle" /\ body' = NoBody /\ result' = NoOutcome

\* A request that ends before begin(): refused (schema_invalid,
\* approval_conflict, held, hold_unreadable, role_not_confirmer,
\* stale_approval) or answered with an error. Nothing changes.
Refused(b) ==
    \/ b.id # b.proposal
    \/ Conflicts(b)
    \/ /\ ~IsReplay(b)
       /\ \/ hold # "free"
          \/ ~b.confirmer
          \/ ~Fresh(b)

Accept(b) ==
    /\ up /\ pc = "idle"
    /\ ~Refused(b) /\ ~IsReplay(b)
    /\ pc' = "begin"
    /\ body' = b
    /\ UNCHANGED <<up, environment, durable, result, pauses, replies>>

\* A replay is answered from the ledger, before the hold, role and freshness
\* checks; the UPDATE of an "executing" row commits first.
Replay(b) ==
    /\ up /\ pc = "idle"
    /\ ~Refused(b) /\ IsReplay(b)
    /\ state' = [state EXCEPT ![b.id] = "done"]
    /\ outcome' = [outcome EXCEPT ![b.id] = StoredOutcome(b)]
    /\ pc' = "reply"
    /\ body' = b
    /\ result' = StoredOutcome(b)
    /\ UNCHANGED <<up, environment, recorded, received, pauses, replies>>

\* Mutant: the row is only written when the result is known.
BeginUnrecorded ==
    /\ up /\ pc = "begin"
    /\ state[body.id] = "none" /\ ~NonceTaken(body.nonce)
    /\ recorded' = [recorded EXCEPT ![body.id] = body]
    /\ received' = [received EXCEPT ![body.id] = now]
    /\ pc' = "act"
    /\ UNCHANGED <<up, environment, state, outcome, body, result, pauses, replies>>

\* Ledger.begin: the row is on disk before anything is done. An INSERT the
\* constraints refuse ends the request like any other error (Raises).
Begin ==
    /\ up /\ pc = "begin"
    /\ state[body.id] = "none" /\ ~NonceTaken(body.nonce)
    /\ state' = [state EXCEPT ![body.id] = "executing"]
    /\ recorded' = [recorded EXCEPT ![body.id] = body]
    /\ received' = [received EXCEPT ![body.id] = now]
    /\ pc' = "act"
    /\ UNCHANGED <<up, environment, outcome, body, result, pauses, replies>>

\* researcher.pause() only when a run is going; it sets its status before
\* anything in it can raise.
PauseResearch ==
    /\ research = "running"
    /\ research' = "paused"
    /\ pauses' = [pauses EXCEPT ![body.id] = @ + 1]

\* Mutant: the status is not looked at before pause() is called.
ActPausesAnyway ==
    /\ up /\ pc = "act"
    /\ research' = "paused"
    /\ pauses' = [pauses EXCEPT ![body.id] = @ + 1]
    /\ result' = IF research = "running" THEN "paused" ELSE "not_running"
    /\ pc' = "finish"
    /\ UNCHANGED <<up, hold, now, durable, body, replies>>

Act ==
    /\ up /\ pc = "act"
    /\ IF research = "running"
         THEN PauseResearch /\ result' = "paused"
         ELSE /\ result' = IF research = "paused" THEN "already_paused" ELSE "not_running"
              /\ UNCHANGED <<research, pauses>>
    /\ pc' = "finish"
    /\ UNCHANGED <<up, hold, now, durable, body, replies>>

\* researcher.pause() raised after taking effect: "internal", the row stays.
ActRaises ==
    /\ up /\ pc = "act"
    /\ PauseResearch
    /\ Idle
    /\ UNCHANGED <<up, hold, now, durable, replies>>

\* Ledger.finish; the trace event that follows it changes nothing here.
Finish ==
    /\ up /\ pc = "finish"
    /\ state' = [state EXCEPT ![body.id] = "done"]
    /\ outcome' = [outcome EXCEPT ![body.id] = result]
    /\ pc' = "reply"
    /\ UNCHANGED <<up, environment, recorded, received, body, result, pauses, replies>>

\* SQLite raised in begin or finish, the researcher could not be reached, or
\* the trace event raised: "internal", with the row as it stands.
Raises ==
    /\ up /\ pc # "idle"
    /\ Idle
    /\ UNCHANGED <<up, environment, durable, pauses, replies>>

Reply ==
    /\ up /\ pc = "reply"
    /\ replies' = replies \cup {<<body, result>>}
    /\ Idle
    /\ UNCHANGED <<up, environment, durable, pauses>>

-----------------------------------------------------------------------------
(* The rest of the portal, between requests, and the process *)

\* A hold or a resume, from the portal or the phone.
SetHold(h) ==
    /\ up /\ pc = "idle"
    /\ hold' = h
    /\ UNCHANGED <<up, research, now, durable, handler, pauses, replies>>

\* Research is started, resumed, stopped, or ends.
SetResearch(s) ==
    /\ up /\ pc = "idle"
    /\ research' = s
    /\ UNCHANGED <<up, hold, now, durable, handler, pauses, replies>>

\* The wall clock moves, in either direction; the handler reads it once.
SetClock(t) ==
    /\ pc = "idle"
    /\ now' = t
    /\ UNCHANGED <<up, hold, research, durable, handler, pauses, replies>>

Crash ==
    /\ up
    /\ up' = FALSE
    /\ Idle
    /\ research' = "idle"
    /\ UNCHANGED <<hold, now, durable, pauses, replies>>

\* The hold a new process reads may differ (HoldSwitch says how).
Restart ==
    /\ ~up
    /\ up' = TRUE
    /\ hold' \in {"free", "held", "unreadable"}
    /\ UNCHANGED <<research, now, durable, handler, pauses, replies>>

Next ==
    \/ \E b \in Bodies : Accept(b) \/ Replay(b)
    \/ Begin \/ Act \/ ActRaises \/ Finish \/ Raises \/ Reply
    \/ \E h \in {"free", "held", "unreadable"} : SetHold(h)
    \/ \E s \in Statuses : SetResearch(s)
    \/ \E t \in Times : SetClock(t)
    \/ Crash \/ Restart

Spec == Init /\ [][Next]_vars

-----------------------------------------------------------------------------
(* Properties *)

\* The ledger's reason to be: "why pause_research runs at most once per
\* approval" (ledger.py:1), over retries, crashes and errors in any step.
AtMostOnce == \A i \in Ids : pauses[i] <= 1

\* Nothing is done on account of an approval that is not on disk.
RecordedBeforeActing == \A i \in Ids : pauses[i] > 0 => state[i] # "none"

\* The stored outcome tells what happened; only indeterminate_restart leaves
\* it open.
OutcomeIsHonest ==
    \A i \in Ids : state[i] = "done" =>
        /\ outcome[i] \in Outcomes
        /\ outcome[i] = "paused" => pauses[i] = 1
        /\ outcome[i] \in {"already_paused", "not_running"} => pauses[i] = 0

\* Every answer a phone got for an approval is the stored one, and it went to
\* the very body that was recorded: the first reply and all replays agree.
RepliesAgree ==
    \A r \in replies :
        /\ recorded[r[1].id] = r[1]
        /\ state[r[1].id] = "done" /\ outcome[r[1].id] = r[2]

\* One nonce confirms one approval, and what is recorded came from a
\* confirmer and was fresh when it was recorded.
RowsAreSound ==
    /\ \A i, j \in Ids : state[i] # "none" /\ state[j] # "none" /\ i # j
            => recorded[i].nonce # recorded[j].nonce
    /\ \A i \in Ids : state[i] # "none" =>
            /\ recorded[i].id = i /\ recorded[i].proposal = i /\ recorded[i].confirmer
            /\ received[i] <= recorded[i].confirmed + Freshness
            /\ recorded[i].confirmed <= received[i] + Freshness

\* Research is paused on a phone's account only while nothing is held.
NoPauseWhileHeld == [][pauses' # pauses => hold = "free"]_vars

\* What the ledger says of each approval, read as the promise's answer.
Answer == [i \in Ids |-> IF state[i] = "none" THEN "open"
                         ELSE IF state[i] = "executing" THEN "acting"
                         ELSE outcome[i]]

Promise == INSTANCE ApprovalOnce WITH answer <- Answer

\* The handler with its ledger keeps the promise ApprovalOnce states: every
\* step of it takes, pauses for, or settles one approval, or changes nothing
\* the promise speaks of; a settled answer never changes again.
ImplementsPromise == Promise!Spec
=============================================================================
