--------------------------- MODULE BuddyEdgeProofs ---------------------------
(***************************************************************************)
(* Proofs about the two halves of the Buddy edge, and about both together.    *)
(*                                                                         *)
(* PauseApproval, for any sets of approvals, nonces and bodies and any clock: *)
(* at most one pause per approval, honest stored outcomes, and the refinement *)
(* of ApprovalOnce. HoldSwitch, for any number of commands, crashes and       *)
(* file-system faults: what a hold or a resume that was saved means to every  *)
(* later process. They share the portal process; the last theorem is about    *)
(* the two together.                                                         *)
(***************************************************************************)
EXTENDS HoldSwitch, PauseApproval, TLAPS

USE BodiesAssumption, NoBodyAssumption, TimesAssumption
    DEF BodiesAssumption, NoBodyAssumption, TimesAssumption

\* What the handler may rely on at each of its steps.
HandlerInv ==
    /\ pc # "idle" => up /\ body \in Bodies
    /\ pc \in {"begin", "act"} => hold = "free"
    /\ pc = "begin" => state[body.id] = "none"
    /\ pc = "act" => state[body.id] = "executing" /\ pauses[body.id] = 0
    /\ pc = "finish" =>
          /\ state[body.id] = "executing"
          /\ result \in {"paused", "already_paused", "not_running"}
          /\ pauses[body.id] = IF result = "paused" THEN 1 ELSE 0
    /\ pc = "reply" => result \in Outcomes

\* What each ledger row says about the history of its approval.
RowInv(i) ==
    /\ pauses[i] \in {0, 1}
    /\ state[i] = "none" => pauses[i] = 0
    /\ state[i] = "done" =>
          /\ outcome[i] \in Outcomes
          /\ outcome[i] = "paused" => pauses[i] = 1
          /\ outcome[i] \in {"already_paused", "not_running"} => pauses[i] = 0

LedgerInv == \A i \in Ids : RowInv(i)

\* AtMostOnce is not inductive: it needs that a row is "executing" with no
\* pause yet when the handler acts, and "none" only where nothing was done.
IInv == TypeOK /\ HandlerInv /\ LedgerInv

-----------------------------------------------------------------------------
LEMMA BodyParts ==
    ASSUME NEW b \in Bodies
    PROVE  b.id \in Ids /\ b.proposal \in Ids /\ b.nonce \in Nonces
  OBVIOUS

LEMMA InitType == Init => TypeOK
  BY DEF Init, TypeOK, Outcomes, Statuses

LEMMA NextType == TypeOK /\ HandlerInv /\ [Next]_vars => TypeOK'
<1> SUFFICES ASSUME TypeOK, HandlerInv, [Next]_vars PROVE TypeOK'
  OBVIOUS
<1> USE DEF TypeOK, HandlerInv, environment, durable, handler, Idle
<1>1. ASSUME NEW b \in Bodies, Accept(b) PROVE TypeOK'
  BY <1>1 DEF Accept
<1>2. ASSUME NEW b \in Bodies, Replay(b) PROVE TypeOK'
  BY <1>2, BodyParts DEF Replay, StoredOutcome, IsReplay, Outcomes
<1>3. CASE Begin
  BY <1>3, BodyParts DEF Begin
<1>4. CASE Act
  BY <1>4, BodyParts DEF Act, PauseResearch, Outcomes, Statuses
<1>5. CASE ActRaises
  BY <1>5, BodyParts DEF ActRaises, PauseResearch, Statuses
<1>6. CASE Finish
  BY <1>6, BodyParts DEF Finish
<1>7. CASE Raises
  BY <1>7 DEF Raises
<1>8. CASE Reply
  BY <1>8 DEF Reply
<1>9. CASE \E h \in {"free", "held", "unreadable"} : SetHold(h)
  BY <1>9 DEF SetHold
<1>10. CASE \E s \in Statuses : SetResearch(s)
  BY <1>10 DEF SetResearch
<1>11. CASE \E t \in Times : SetClock(t)
  BY <1>11 DEF SetClock
<1>12. CASE Crash
  BY <1>12 DEF Crash, Statuses
<1>13. CASE Restart
  BY <1>13 DEF Restart
<1>14. CASE UNCHANGED vars
  BY <1>14 DEF vars
<1>15. QED
  BY <1>1, <1>2, <1>3, <1>4, <1>5, <1>6, <1>7, <1>8, <1>9, <1>10, <1>11, <1>12, <1>13, <1>14 DEF Next

LEMMA NextIInv == IInv /\ [Next]_vars => HandlerInv' /\ LedgerInv'
<1> SUFFICES ASSUME IInv, [Next]_vars PROVE HandlerInv' /\ LedgerInv'
  OBVIOUS
<1> USE DEF IInv, TypeOK, HandlerInv, LedgerInv, RowInv, environment, durable, handler, Idle
<1>1. ASSUME NEW b \in Bodies, Accept(b) PROVE HandlerInv' /\ LedgerInv'
  BY <1>1, BodyParts DEF Accept, Refused, IsReplay, Conflicts
<1>2. ASSUME NEW b \in Bodies, Replay(b) PROVE HandlerInv' /\ LedgerInv'
  BY <1>2, BodyParts DEF Replay, StoredOutcome, IsReplay, Outcomes
<1>3. CASE Begin
  BY <1>3, BodyParts DEF Begin
<1>4. CASE Act
  BY <1>4, BodyParts DEF Act, PauseResearch
<1>5. CASE ActRaises
  BY <1>5, BodyParts DEF ActRaises, PauseResearch
<1>6. CASE Finish
  BY <1>6, BodyParts DEF Finish, Outcomes
<1>7. CASE Raises \/ Reply \/ Crash \/ Restart
  BY <1>7 DEF Raises, Reply, Crash, Restart
<1>8. CASE \/ \E h \in {"free", "held", "unreadable"} : SetHold(h)
           \/ \E s \in Statuses : SetResearch(s)
           \/ \E t \in Times : SetClock(t)
  BY <1>8 DEF SetHold, SetResearch, SetClock
<1>9. CASE UNCHANGED vars
  BY <1>9 DEF vars
<1>10. QED
  BY <1>1, <1>2, <1>3, <1>4, <1>5, <1>6, <1>7, <1>8, <1>9 DEF Next

LEMMA Inductive == Spec => []IInv
<1>1. Init => IInv
  BY InitType DEF Init, IInv, HandlerInv, LedgerInv, RowInv
<1>2. IInv /\ [Next]_vars => IInv'
  BY NextType, NextIInv DEF IInv
<1>3. QED
  BY <1>1, <1>2, PTL DEF Spec

-----------------------------------------------------------------------------
\* The ledger's columns, the handler's locals and the replies stay within the
\* values the schema and the handler give them.
THEOREM TypeCorrect == Spec => []TypeOK
<1>1. IInv => TypeOK
  BY DEF IInv
<1>2. QED
  BY <1>1, Inductive, PTL

\* However often a phone repeats a confirmed approval, and wherever the portal
\* dies or raises, researcher.pause() runs at most once on its account.
THEOREM PauseAtMostOnce == Spec => []AtMostOnce
<1>1. ASSUME IInv, NEW i \in Ids PROVE pauses[i] <= 1
  <2>1. pauses[i] \in {0, 1}
    BY <1>1 DEF IInv, LedgerInv, RowInv
  <2>2. QED
    BY <2>1
<1>2. IInv => AtMostOnce
  BY <1>1 DEF AtMostOnce
<1>3. QED
  BY <1>2, Inductive, PTL

\* Ledger.begin commits before the action, so what was done is always on disk.
THEOREM NothingUnrecorded == Spec => []RecordedBeforeActing
<1>1. IInv => RecordedBeforeActing
  BY DEF IInv, LedgerInv, RowInv, RecordedBeforeActing
<1>2. QED
  BY <1>1, Inductive, PTL

\* A stored outcome says what happened, or that nobody knows.
THEOREM HonestOutcomes == Spec => []OutcomeIsHonest
<1>1. IInv => OutcomeIsHonest
  BY DEF IInv, LedgerInv, RowInv, OutcomeIsHonest
<1>2. QED
  BY <1>1, Inductive, PTL

\* The hold the handler saw still stands aside when it pauses: nothing on the
\* event loop runs in between.
THEOREM PauseRespectsHold == Spec => NoPauseWhileHeld
<1>1. IInv /\ [Next]_vars => [pauses' # pauses => hold = "free"]_vars
  <2> SUFFICES ASSUME IInv, Next, hold # "free" PROVE pauses' = pauses
    OBVIOUS
  <2>1. ~Act /\ ~ActRaises
    BY DEF IInv, HandlerInv, Act, ActRaises
  <2>2. QED
    BY <2>1 DEF Next, Accept, Replay, Begin, Finish, Raises, Reply, SetHold, SetResearch,
                SetClock, Crash, Restart
<1>2. QED
  BY <1>1, Inductive, PTL DEF Spec, NoPauseWhileHeld

-----------------------------------------------------------------------------
(* What is recorded, and who is told of it *)

\* The request the handler is about to record has passed the checks, and the
\* one it acts for, or answers, is the recorded one.
BodyInv ==
    /\ pc = "begin" => body.id = body.proposal /\ body.confirmer /\ Fresh(body)
    /\ pc \in {"act", "finish", "reply"} => recorded[body.id] = body
    /\ pc = "reply" => state[body.id] = "done" /\ outcome[body.id] = result

\* One step per action; a row that exists is written by Finish and Replay only,
\* and neither touches what was recorded.
LEMMA NextBody == IInv /\ BodyInv /\ [Next]_vars => BodyInv'
<1> SUFFICES ASSUME IInv, BodyInv, [Next]_vars PROVE BodyInv'
  OBVIOUS
<1> USE DEF IInv, TypeOK, HandlerInv, BodyInv, Fresh, environment, durable, handler, Idle
<1>1. ASSUME NEW b \in Bodies, Accept(b) PROVE BodyInv'
  BY <1>1, BodyParts DEF Accept, Refused
<1>2. ASSUME NEW b \in Bodies, Replay(b) PROVE BodyInv'
  BY <1>2, BodyParts DEF Replay, IsReplay
<1>3. CASE Begin
  BY <1>3, BodyParts DEF Begin
<1>4. CASE Act \/ ActRaises
  BY <1>4 DEF Act, ActRaises, PauseResearch
<1>5. CASE Finish
  BY <1>5, BodyParts DEF Finish
<1>6. CASE Raises \/ Reply \/ Crash \/ Restart
  BY <1>6 DEF Raises, Reply, Crash, Restart
<1>7. CASE \/ \E h \in {"free", "held", "unreadable"} : SetHold(h)
           \/ \E s \in Statuses : SetResearch(s)
           \/ \E t \in Times : SetClock(t)
  BY <1>7 DEF SetHold, SetResearch, SetClock
<1>8. CASE UNCHANGED vars
  BY <1>8 DEF vars
<1>9. QED
  BY <1>1, <1>2, <1>3, <1>4, <1>5, <1>6, <1>7, <1>8 DEF Next

LEMMA BodyInductive == Spec => []BodyInv
<1>1. Init => BodyInv
  BY DEF Init, BodyInv
<1>2. QED
  BY <1>1, NextBody, Inductive, PTL DEF Spec

\* A phone that repeats an approval hears the first answer again, whatever
\* crashes, errors and holds came between: no settled row changes.
THEOREM RepliesStand == Spec => []RepliesAgree
<1>1. Init => RepliesAgree
  BY DEF Init, RepliesAgree
<1>2. IInv /\ BodyInv /\ RepliesAgree /\ [Next]_vars => RepliesAgree'
  <2> SUFFICES ASSUME IInv, BodyInv, RepliesAgree, [Next]_vars PROVE RepliesAgree'
    OBVIOUS
  <2>0. ASSUME NEW r \in replies
        PROVE  /\ r[1].id \in Ids
               /\ recorded[r[1].id] = r[1]
               /\ state[r[1].id] = "done" /\ outcome[r[1].id] = r[2]
    <3>1. r[1] \in Bodies
      BY DEF IInv, TypeOK
    <3>2. QED
      BY <3>1, BodyParts DEF RepliesAgree
  <2> USE DEF environment, durable, handler, Idle
  <2>1. CASE Reply
    <3>1. body \in Bodies /\ recorded[body.id] = body
          /\ state[body.id] = "done" /\ outcome[body.id] = result
      BY <2>1 DEF Reply, IInv, HandlerInv, BodyInv
    <3>2. QED
      BY <2>0, <2>1, <3>1 DEF Reply, RepliesAgree
  <2>2. ASSUME NEW b \in Bodies, Replay(b) PROVE RepliesAgree'
    BY <2>0, <2>2, BodyParts DEF Replay, StoredOutcome, IInv, TypeOK, RepliesAgree
  <2>3. CASE Begin
    BY <2>0, <2>3, BodyParts DEF Begin, IInv, TypeOK, HandlerInv, RepliesAgree
  <2>4. CASE Finish
    BY <2>0, <2>4, BodyParts DEF Finish, IInv, TypeOK, HandlerInv, RepliesAgree
  <2>5. CASE UNCHANGED <<durable, replies>>
    BY <2>0, <2>5 DEF RepliesAgree
  <2>6. QED
    BY <2>1, <2>2, <2>3, <2>4, <2>5
       DEF Next, Accept, Act, ActRaises, Raises, SetHold, SetResearch, SetClock, Crash, Restart, vars
<1>3. QED
  BY <1>1, <1>2, Inductive, BodyInductive, PTL DEF Spec

\* Each recorded approval came from a confirmer, in time, under its own id, and no
\* nonce confirmed two: the row's values are those the checks saw.
THEOREM RowsStaySound == Spec => []RowsAreSound
<1>1. Init => RowsAreSound
  BY DEF Init, RowsAreSound
<1>2. IInv /\ BodyInv /\ RowsAreSound /\ [Next]_vars => RowsAreSound'
  <2> SUFFICES ASSUME IInv, BodyInv, RowsAreSound, [Next]_vars PROVE RowsAreSound'
    OBVIOUS
  <2> USE DEF environment, durable, handler, Idle
  <2>1. CASE Begin
    <3>1. body \in Bodies /\ body.id \in Ids
      BY <2>1, BodyParts DEF Begin, IInv, HandlerInv
    <3>2. body.id = body.proposal /\ body.confirmer /\ Fresh(body)
      BY <2>1 DEF Begin, BodyInv
    <3>3. state' = [state EXCEPT ![body.id] = "executing"]
          /\ recorded' = [recorded EXCEPT ![body.id] = body]
          /\ received' = [received EXCEPT ![body.id] = now]
      BY <2>1 DEF Begin
    <3>4. \A j \in Ids : state[j] # "none" => recorded[j].nonce # body.nonce
      BY <2>1 DEF Begin, NonceTaken
    <3>5. QED
      BY <3>1, <3>2, <3>3, <3>4 DEF IInv, TypeOK, RowsAreSound, Fresh
  <2>2. ASSUME NEW b \in Bodies, Replay(b) PROVE RowsAreSound'
    BY <2>2, BodyParts DEF Replay, IsReplay, IInv, TypeOK, RowsAreSound
  <2>3. CASE Finish
    BY <2>3, BodyParts DEF Finish, IInv, TypeOK, HandlerInv, RowsAreSound
  <2>4. CASE UNCHANGED durable
    BY <2>4 DEF RowsAreSound
  <2>5. QED
    BY <2>1, <2>2, <2>3, <2>4
       DEF Next, Accept, Act, ActRaises, Raises, Reply, SetHold, SetResearch, SetClock, Crash,
           Restart, vars
<1>3. QED
  BY <1>1, <1>2, Inductive, BodyInductive, PTL DEF Spec

-----------------------------------------------------------------------------
LEMMA InitRefines == Init => Promise!Init
  BY DEF Init, Promise!Init, Answer

\* Only Begin, Act, ActRaises, Finish and the first Replay of a row left
\* "executing" are steps of the promise.
LEMMA NextRefines == IInv /\ [Next]_vars => [Promise!Next]_<<Answer, pauses>>
<1> SUFFICES ASSUME IInv, Next PROVE Promise!Next \/ UNCHANGED <<Answer, pauses>>
  BY DEF vars, durable, Answer
<1> USE DEF IInv, TypeOK, HandlerInv, environment, durable, handler, Idle
<1>1. ASSUME NEW b \in Bodies, Replay(b)
      PROVE  Promise!Next \/ UNCHANGED <<Answer, pauses>>
  <2>1. b.id \in Ids /\ UNCHANGED pauses
    BY <1>1, BodyParts DEF Replay
  <2>2. CASE state[b.id] = "executing"
    <3>1. Answer[b.id] = "acting"
      BY <2>1, <2>2 DEF Answer
    <3>2. Answer' = [Answer EXCEPT ![b.id] = "indeterminate_restart"]
      BY <1>1, <2>1, <2>2 DEF Replay, StoredOutcome, Answer
    <3>3. Promise!Settle(b.id, "indeterminate_restart")
      BY <2>1, <3>1, <3>2 DEF Promise!Settle
    <3>4. QED
      BY <2>1, <3>3 DEF Promise!Next, Promise!Outcomes
  <2>3. CASE state[b.id] = "done"
    BY <1>1, <2>1, <2>3 DEF Replay, StoredOutcome, Answer
  <2>4. QED
    BY <1>1, <2>1, <2>2, <2>3 DEF Replay, IsReplay
<1>2. ASSUME Begin PROVE Promise!Next
  <2>1. body.id \in Ids
    BY <1>2, BodyParts DEF Begin
  <2>2. Answer[body.id] = "open" /\ Answer' = [Answer EXCEPT ![body.id] = "acting"]
    BY <1>2, <2>1 DEF Begin, Answer
  <2>3. Promise!Take(body.id)
    BY <1>2, <2>2 DEF Begin, Promise!Take
  <2>4. QED
    BY <2>1, <2>3 DEF Promise!Next
<1>3. ASSUME Act \/ ActRaises PROVE Promise!Next \/ UNCHANGED <<Answer, pauses>>
  <2>1. body.id \in Ids
    BY <1>3, BodyParts DEF Act, ActRaises
  <2>2. Answer[body.id] = "acting" /\ pauses[body.id] = 0 /\ UNCHANGED Answer
    BY <1>3, <2>1 DEF Act, ActRaises, Answer
  <2>3. CASE PauseResearch
    <3>1. pauses' = [pauses EXCEPT ![body.id] = 1]
      BY <2>1, <2>2, <2>3 DEF PauseResearch
    <3>2. Promise!Pause(body.id)
      BY <2>2, <3>1 DEF Promise!Pause
    <3>3. QED
      BY <2>1, <3>2 DEF Promise!Next
  <2>4. CASE UNCHANGED pauses
    BY <2>2, <2>4
  <2>5. QED
    BY <1>3, <2>3, <2>4 DEF Act, ActRaises
<1>4. ASSUME Finish PROVE Promise!Next
  <2>1. body.id \in Ids
    BY <1>4, BodyParts DEF Finish
  <2>2. Answer[body.id] = "acting" /\ Answer' = [Answer EXCEPT ![body.id] = result]
    BY <1>4, <2>1 DEF Finish, Answer
  <2>3. Promise!Settle(body.id, result)
    BY <1>4, <2>2 DEF Finish, Promise!Settle
  <2>4. QED
    BY <1>4, <2>1, <2>3 DEF Finish, Promise!Next, Promise!Outcomes
<1>5. ASSUME \/ \E b \in Bodies : Accept(b)
             \/ Raises \/ Reply \/ Crash \/ Restart
             \/ \E h \in {"free", "held", "unreadable"} : SetHold(h)
             \/ \E s \in Statuses : SetResearch(s)
             \/ \E t \in Times : SetClock(t)
      PROVE  UNCHANGED <<Answer, pauses>>
  BY <1>5 DEF Accept, Raises, Reply, Crash, Restart, SetHold, SetResearch, SetClock, Answer
<1>6. QED
  BY <1>1, <1>2, <1>3, <1>4, <1>5 DEF Next

\* The edge's handler and ledger implement "one answer, at most one pause".
THEOREM Refinement == Spec => ImplementsPromise
  BY InitRefines, NextRefines, Inductive, PTL DEF Spec, ImplementsPromise, Promise!Spec

-----------------------------------------------------------------------------
(* The hold switch in the same process *)

\* A command in progress belongs to a living process and has set the memory
\* it is about to save.
BusyInv ==
    /\ ~up => ~haltLoaded /\ busy = "none"
    /\ ~haltLoaded => ~halted /\ ~loadFailed
    /\ busy # "none" => haltLoaded
    /\ busy \in {"hold", "writing"} => halted /\ ~released
    /\ busy = "resume" => ~halted /\ ~wantHeld
    /\ ~(wantHeld /\ released)

\* A saved hold leaves some file behind, and whoever loads it refuses.
HeldInv ==
    wantHeld /\ ~unsaved =>
        /\ disk # "absent"
        /\ haltLoaded => halted \/ loadFailed \/ unseen

\* A saved resume leaves no file behind, and whoever loads that is free.
ReleasedInv ==
    released /\ ~unsaved =>
        /\ disk = "absent"
        /\ haltLoaded => ~halted /\ ~loadFailed

\* The inductive invariant: the two promises are not inductive alone, because
\* both depend on what the file holds while no process has it loaded.
HoldInv == StateOK /\ BusyInv /\ HeldInv /\ ReleasedInv

LEMMA HoldCounters == SwitchSpec => []CountersOK
<1>1. SwitchInit => CountersOK
  BY BoundsAssumption DEF BoundsAssumption, SwitchInit, CountersOK
<1>2. CountersOK /\ [SwitchNext]_switchVars => CountersOK'
  BY BoundsAssumption
     DEF BoundsAssumption, CountersOK, SwitchNext, switchVars, counters, Read, StatFails, ReadFails, Hold,
         Resume, Issue, Truncate, WriteRecord, Unlink, PersistFails, Return, SwitchCrash,
         SwitchRestart
<1>3. QED
  BY <1>1, <1>2, PTL DEF SwitchSpec

LEMMA InitHoldInv == SwitchInit => HoldInv
  BY DEF SwitchInit, HoldInv, StateOK, BusyInv, HeldInv, ReleasedInv

\* One step per action of Next.
LEMMA NextHoldInv == HoldInv /\ [SwitchNext]_switchVars => HoldInv'
<1> SUFFICES ASSUME HoldInv, [SwitchNext]_switchVars PROVE HoldInv'
  OBVIOUS
<1> USE DEF mem, history, counters, HoldInv, StateOK, BusyInv, HeldInv, ReleasedInv
<1>1. CASE Read
  <2>1. CASE haltLoaded
    BY <1>1, <2>1 DEF Read, LoadedHalted, LoadedFailed
  <2>2. CASE ~haltLoaded
    BY <1>1, <2>2 DEF Read, LoadedHalted, LoadedFailed
  <2>3. QED
    BY <2>1, <2>2
<1>2. CASE StatFails
  BY <1>2 DEF StatFails
<1>2a. CASE ReadFails
  BY <1>2a DEF ReadFails
<1>3. CASE Hold
  BY <1>3 DEF Hold, Issue, LoadedHalted, LoadedFailed
<1>4. CASE Resume
  BY <1>4 DEF Resume, Issue, LoadedHalted, LoadedFailed
<1>5. CASE Truncate
  BY <1>5 DEF Truncate
<1>6. CASE WriteRecord
  BY <1>6 DEF WriteRecord, Return
<1>7. CASE Unlink
  BY <1>7 DEF Unlink, Return
<1>8. CASE PersistFails
  BY <1>8 DEF PersistFails, Return
<1>9. CASE SwitchCrash
  BY <1>9 DEF SwitchCrash
<1>10. CASE SwitchRestart
  BY <1>10 DEF SwitchRestart
<1>11. CASE UNCHANGED switchVars
  BY <1>11 DEF switchVars
<1>12. QED
  BY <1>1, <1>2, <1>2a, <1>3, <1>4, <1>5, <1>6, <1>7, <1>8, <1>9, <1>10, <1>11 DEF SwitchNext

LEMMA HoldInductive == SwitchSpec => []HoldInv
  BY InitHoldInv, NextHoldInv, PTL DEF SwitchSpec

\* The state of the switch is well formed: scheduler.py's globals and halt.json
\* stay within the values the code gives them.
THEOREM SwitchTypeCorrect == SwitchSpec => []SwitchTypeOK
<1>1. HoldInv /\ CountersOK => SwitchTypeOK
  BY DEF HoldInv, SwitchTypeOK
<1>2. QED
  BY <1>1, HoldInductive, HoldCounters, PTL

\* The Buddy edge refuses as long as a hold that reached the disk stands,
\* however often the process dies and whatever the crash left of halt.json,
\* in every process that could stat the file.
THEOREM EdgeSafety == SwitchSpec => []EdgeKeepsTheHold
<1>1. HoldInv => EdgeKeepsTheHold
  BY DEF HoldInv, HeldInv, EdgeKeepsTheHold, Settled, EdgeHeld
<1>2. QED
  BY <1>1, HoldInductive, PTL

\* A saved resume is final: no restart brings an older hold back.
THEOREM ResumeSafety == SwitchSpec => []ResumeIsFinal
<1>1. HoldInv => ResumeIsFinal
  BY DEF HoldInv, ReleasedInv, ResumeIsFinal, Settled, EdgeHeld
<1>2. QED
  BY <1>1, HoldInductive, PTL

\* Within one process lifetime the hold goes off only inside resume_all_jobs.
THEOREM ReleaseOnlyByResume == SwitchSpec => OnlyResumeReleases
<1>1. HoldInv /\ [SwitchNext]_switchVars =>
         [halted /\ ~halted' /\ up' => busy' = "resume"]_switchVars
  <2> SUFFICES ASSUME HoldInv, SwitchNext, halted, ~halted', up'
               PROVE  busy' = "resume"
    OBVIOUS
  <2> USE DEF mem, history, counters, HoldInv, StateOK, BusyInv
  <2>1. CASE Read
    <3>1. haltLoaded
      BY DEF BusyInv
    <3>2. QED
      BY <2>1, <3>1 DEF Read, LoadedHalted
  <2>2. CASE StatFails \/ ReadFails
    <3>1. halted' = halted
      BY <2>2 DEF StatFails, ReadFails
    <3>2. QED
      BY <3>1
  <2>3. CASE Hold
    BY <2>3 DEF Hold, Issue, LoadedHalted, LoadedFailed
  <2>4. CASE Resume
    BY <2>4 DEF Resume, Issue
  <2>5. CASE Truncate \/ PersistFails \/ SwitchRestart
    BY <2>5 DEF Truncate, PersistFails, SwitchRestart
  <2>6. CASE WriteRecord
    BY <2>6 DEF WriteRecord
  <2>7. CASE Unlink
    BY <2>7 DEF Unlink
  <2>8. CASE SwitchCrash
    BY <2>8 DEF SwitchCrash
  <2>9. QED
    BY <2>1, <2>2, <2>3, <2>4, <2>5, <2>6, <2>7, <2>8 DEF SwitchNext
<1>2. QED
  BY <1>1, HoldInductive, PTL DEF SwitchSpec, OnlyResumeReleases

\* A process that takes a torn halt.json for good has just swallowed an error of
\* its own write, or could not stat the file: every other way to meet it leaves
\* halt_load_failed() true.
THEOREM TornIsKnown == SwitchSpec => []TornFileIsKnown
<1>1. SwitchInit => TornFileIsKnown
  BY DEF SwitchInit, TornFileIsKnown
<1>2. HoldInv /\ TornFileIsKnown /\ [SwitchNext]_switchVars => TornFileIsKnown'
  <2> SUFFICES ASSUME HoldInv, TornFileIsKnown, [SwitchNext]_switchVars
               PROVE  TornFileIsKnown'
    OBVIOUS
  <2> USE DEF mem, history, counters, HoldInv, BusyInv,
              TornFileIsKnown, Settled
  <2>1. CASE Read \/ StatFails \/ ReadFails
    BY <2>1 DEF Read, StatFails, ReadFails, LoadedFailed
  <2>2. CASE Hold \/ Resume \/ Truncate \/ SwitchRestart
    BY <2>2 DEF Hold, Resume, Issue, Truncate, SwitchRestart
  <2>3. CASE WriteRecord \/ Unlink \/ PersistFails
    BY <2>3 DEF WriteRecord, Unlink, PersistFails, Return
  <2>4. CASE SwitchCrash \/ UNCHANGED switchVars
    BY <2>4 DEF SwitchCrash, switchVars
  <2>5. QED
    BY <2>1, <2>2, <2>3, <2>4 DEF SwitchNext
<1>3. QED
  BY <1>1, <1>2, HoldInductive, PTL DEF SwitchSpec

-----------------------------------------------------------------------------
(* The handler and the switch together *)

\* What the handler reads is the switch: _hold_view asks jobs_halted and
\* halt_load_failed of the same process.
ViewIsTheSwitch == Settled /\ EdgeHeld => hold # "free"

\* The two halves together: while a hold that reached the disk stands, no request of
\* the phone pauses the research, in this process or any later one that could stat
\* halt.json or took a command since.
THEOREM StandingHoldStopsPauses ==
    Spec /\ SwitchSpec /\ []ViewIsTheSwitch =>
        [][pauses' # pauses => ~(Settled /\ wantHeld /\ ~unsaved /\ ~unseen)]_vars
<1>1. ASSUME ViewIsTheSwitch, EdgeKeepsTheHold, [pauses' # pauses => hold = "free"]_vars
      PROVE  [pauses' # pauses => ~(Settled /\ wantHeld /\ ~unsaved /\ ~unseen)]_vars
  BY <1>1 DEF ViewIsTheSwitch, EdgeKeepsTheHold
<1>2. QED
  BY <1>1, PauseRespectsHold, EdgeSafety, PTL DEF NoPauseWhileHeld
=============================================================================
