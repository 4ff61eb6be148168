--------------------------- MODULE ResearchRunProofs ---------------------------
(* Proofs about ResearchRun, for every set of goals and experiments. *)
EXTENDS ResearchRun, TLAPS

\* What the coroutine knows of its experiments agrees with their records.
WorkInv ==
    /\ todo \subseteq mine
    /\ \A e \in mine \ todo : exps[e] = "completed"
    /\ \A e \in todo : exps[e] # "completed"
    /\ at = "exp" => running \in todo
    /\ at \in {"collect", "report", "finish"} /\ resumeAt < 9 => todo = {}

IInv == FilesOK /\ TaskOK /\ WorkInv

-----------------------------------------------------------------------------
(* Lemmas about the operators the actions share *)

\* Every checkpoint is a tenth.
LEMMA TenthsFact == \A n \in {0, 1, 3, 5, 7, 9, 10} : n \in Tenths
  BY DEF Tenths

\* A resume point leads to a phase, and past the experiments from 0.9 on only.
LEMMA PhaseForFact ==
  ASSUME NEW r \in Tenths
  PROVE  /\ PhaseFor(r) \in {"plan", "source", "run", "collect"}
         /\ r < 9 => PhaseFor(r) # "collect"
  BY DEF PhaseFor, Tenths

\* The resume point is a tenth.
LEMMA ResumePointFact == FilesOK => ResumePoint \in Tenths
  BY TenthsFact DEF ResumePoint, FilesOK

\* Saving or forgetting the run state keeps the record's types, also when it fails.
LEMMA ForgetFact ==
  ASSUME RecordOK, Forget
  PROVE  RecordOK'
  BY DEF Forget, Gone, Unchanged, Holds, Works, Swallows, RecordOK, SavedStatus

LEMMA KeptFact == ASSUME RecordOK, UNCHANGED record PROVE RecordOK'
  BY DEF record, RecordOK

LEMMA SaveFact ==
  ASSUME RecordOK, NEW s \in SavedStatus, NEW p \in BOOLEAN, NEW g \in Goals \cup {NoGoal},
         Save(s, p, g)
  PROVE  RecordOK'
  BY DEF Save, Gone, Unchanged, Holds, Works, Swallows, RecordOK, SavedStatus

LEMMA PersistFact ==
  ASSUME RecordOK, NEW s \in RunStatus, NEW p \in BOOLEAN, NEW g \in Goals \cup {NoGoal},
         Persist(s, p, g)
  PROVE  RecordOK'
  <1>1. CASE s \in {"idle", "completed"} \/ g = NoGoal
    BY <1>1, ForgetFact DEF Persist
  <1>2. CASE ~(s \in {"idle", "completed"} \/ g = NoGoal)
    <2>1. Save(s, p, g)
      BY <1>2 DEF Persist
    <2>2. s \in SavedStatus
      BY <1>2 DEF RunStatus, SavedStatus
    <2> QED BY <2>1, <2>2, SaveFact
  <1> QED BY <1>1, <1>2

LEMMA SyncFact ==
  ASSUME FilesOK, TaskOK, Sync
  PROVE  RecordOK'
  <1>1. status \in RunStatus /\ paused \in BOOLEAN /\ goal \in Goals \cup {NoGoal} /\ RecordOK
    BY DEF FilesOK, TaskOK
  <1>2. Persist(status, paused, goal)
    BY DEF Sync
  <1> QED BY <1>1, <1>2, PersistFact

\* A checkpoint keeps the progress function a function into tenths.
LEMMA CheckpointFact ==
  ASSUME NEW n \in Tenths, FilesOK, Checkpoint(n)
  PROVE  progress' \in [Goals -> Tenths]
  <1>1. progress \in [Goals -> Tenths]
    BY DEF FilesOK
  <1>2. progress' = progress \/ progress' = [progress EXCEPT ![goal] = n]
    BY DEF Checkpoint
  <1> QED BY <1>1, <1>2

\* A coroutine without experiments knows nothing wrong about them.
LEMMA NoLocalsFact ==
  ASSUME NoLocals
  PROVE  /\ at' \in Places /\ busy' \in BOOLEAN
         /\ resumed' \in BOOLEAN /\ delayed' \in BOOLEAN /\ resumeAt' \in Tenths
         /\ mine' \in SUBSET Exps /\ todo' \in SUBSET Exps
         /\ running' \in Exps \cup {NoExp}
         /\ WorkInv'
  BY TenthsFact DEF NoLocals, Places, WorkInv

LEMMA StartRunFact ==
  ASSUME NEW g \in Goals \cup {NoGoal}, NEW r \in BOOLEAN, NEW d \in BOOLEAN, NEW p \in BOOLEAN,
         TaskOK, RecordOK, StartRun(g, r, d, p)
  PROVE  /\ RecordOK'
         /\ status' \in RunStatus /\ paused' \in BOOLEAN
         /\ task' \in TaskState /\ at' \in Places /\ busy' \in BOOLEAN
         /\ resumed' \in BOOLEAN /\ delayed' \in BOOLEAN /\ resumeAt' \in Tenths
         /\ mine' \in SUBSET Exps /\ todo' \in SUBSET Exps
         /\ running' \in Exps \cup {NoExp}
         /\ orphan' \in BOOLEAN
         /\ runGoal' \in Goals \cup {NoGoal} /\ disowned' \in BOOLEAN /\ swept' \in BOOLEAN
         /\ WorkInv'
  <1>1. status' \in RunStatus
    BY DEF StartRun, RunStatus
  <1>2. Persist(status', p, g)
    BY DEF StartRun
  <1>3. RecordOK'
    BY <1>1, <1>2, PersistFact
  <1>4. task' = "queued" /\ at' = "start" /\ busy' = FALSE /\ resumed' = r /\ delayed' = d
        /\ resumeAt' = 0 /\ mine' = {} /\ todo' = {} /\ running' = NoExp
        /\ runGoal' = g /\ disowned' = FALSE /\ swept' = FALSE /\ paused' = p
    BY DEF StartRun
  <1>5. orphan' \in BOOLEAN
    BY DEF StartRun
  <1>6. WorkInv'
    BY <1>4 DEF WorkInv
  <1> QED BY <1>1, <1>3, <1>4, <1>5, <1>6, TenthsFact DEF TaskState, Places

LEMMA StopRunFact ==
  ASSUME TaskOK, RecordOK, StopRun
  PROVE  /\ RecordOK'
         /\ status' \in RunStatus /\ paused' \in BOOLEAN /\ task' \in TaskState
  BY ForgetFact DEF StopRun, RunStatus, TaskState, TaskOK

LEMMA EndsFact ==
  ASSUME Ends
  PROVE  /\ task' \in TaskState /\ at' \in Places /\ busy' \in BOOLEAN
         /\ resumed' \in BOOLEAN /\ delayed' \in BOOLEAN /\ resumeAt' \in Tenths
         /\ mine' \in SUBSET Exps /\ todo' \in SUBSET Exps
         /\ running' \in Exps \cup {NoExp}
         /\ WorkInv'
  BY NoLocalsFact DEF Ends, TaskState

-----------------------------------------------------------------------------
(* The inductive invariant *)

LEMMA InitIInv == Init => IInv
  BY TenthsFact
  DEF Init, IInv, FilesOK, RecordOK, TaskOK, WorkInv, SavedStatus, RunStatus, TaskState, Places

\* Handlers that start a run
LEMMA StartingHandlers ==
  ASSUME IInv,
         \/ \E g \in Goals, auto, d \in BOOLEAN : SetGoal(g, auto, d)
         \/ \E resume, d \in BOOLEAN : ResearchStart(resume, d)
         \/ ResumeFromCheckpoint
         \/ \E d \in BOOLEAN : Restart(d)
  PROVE  IInv'
  <1> USE DEF IInv
  <1>1. ASSUME NEW g \in Goals, NEW auto \in BOOLEAN, NEW d \in BOOLEAN, SetGoal(g, auto, d)
        PROVE  IInv'
    <2>1. CASE auto /\ status \in {"idle", "completed", "error"}
      <3>1. StartRun(g, FALSE, d, FALSE)
        BY <1>1, <2>1 DEF SetGoal
      <3>2. FilesOK'
        BY <1>1, <3>1, StartRunFact DEF SetGoal, FilesOK
      <3>3. TaskOK' /\ WorkInv'
        <4>1. RecordOK /\ TaskOK /\ g \in Goals \cup {NoGoal}
          BY DEF FilesOK
        <4>2. UNCHANGED <<up, switching, halted>>
          BY <1>1 DEF SetGoal
        <4>3. WorkInv'
          BY <3>1, <4>1, StartRunFact
        <4> QED BY <3>1, <4>1, <4>2, <4>3, StartRunFact DEF TaskOK
      <3> QED BY <3>2, <3>3
    <2>2. CASE ~(auto /\ status \in {"idle", "completed", "error"})
      <3>1. UNCHANGED <<record, agent, task, at, busy, locals, orphan, history>>
        BY <1>1, <2>2 DEF SetGoal
      <3> QED BY <1>1, <3>1, KeptFact DEF SetGoal, FilesOK, TaskOK, WorkInv, agent, locals, history
    <2> QED BY <2>1, <2>2
  <1>2. ASSUME NEW resume \in BOOLEAN, NEW d \in BOOLEAN, ResearchStart(resume, d)
        PROVE  IInv'
    <2> DEFINE r == resume /\ saved # "none"
    <2>1. StartRun(goal, r, d, r /\ savedPaused)
      BY <1>2 DEF ResearchStart
    <2>2. goal \in Goals \cup {NoGoal} /\ r \in BOOLEAN /\ (r /\ savedPaused) \in BOOLEAN
      BY DEF FilesOK
    <2>3. WorkInv' /\ TaskOK'
      <3> HIDE DEF r
      <3> QED BY <1>2, <2>1, <2>2, StartRunFact DEF ResearchStart, FilesOK, TaskOK
    <2>4. FilesOK'
      <3> HIDE DEF r
      <3> QED BY <1>2, <2>1, <2>2, StartRunFact DEF ResearchStart, FilesOK
    <2> QED BY <2>3, <2>4
  <1>3. CASE ResumeFromCheckpoint
    <2>1. StartRun(goal, TRUE, FALSE, FALSE) /\ goal \in Goals \cup {NoGoal}
      BY <1>3 DEF ResumeFromCheckpoint, FilesOK
    <2> QED BY <1>3, <2>1, StartRunFact DEF ResumeFromCheckpoint, FilesOK, TaskOK
  <1>4. ASSUME NEW d \in BOOLEAN, Restart(d)
        PROVE  IInv'
    <2>1. CASE Interrupted /\ ~halted
      <3>1. StartRun(goal, TRUE, d, savedPaused)
            /\ goal \in Goals \cup {NoGoal} /\ savedPaused \in BOOLEAN
        BY <1>4, <2>1 DEF Restart, FilesOK, RecordOK
      <3> QED BY <1>4, <3>1, StartRunFact DEF Restart, FilesOK, TaskOK
    <2>2. CASE ~(Interrupted /\ ~halted)
      <3>1. /\ UNCHANGED record \/ Save("interrupted", savedPaused, savedGoal)
            /\ UNCHANGED <<agent, task, at, busy, locals, orphan, history>>
        BY <1>4, <2>2 DEF Restart
      <3>2. RecordOK /\ savedPaused \in BOOLEAN /\ savedGoal \in Goals \cup {NoGoal}
            /\ "interrupted" \in SavedStatus
        BY DEF FilesOK, RecordOK, SavedStatus
      <3>3. RecordOK'
        BY <3>1, <3>2, KeptFact, SaveFact
      <3> QED BY <1>4, <3>1, <3>3 DEF Restart, FilesOK, TaskOK, WorkInv, agent, locals, history
    <2> QED BY <2>1, <2>2
  <1> QED BY <1>1, <1>2, <1>3, <1>4

\* The other handlers, and the crash
LEMMA OtherHandlers ==
  ASSUME IInv,
         \/ Pause \/ Resume \/ Stop \/ Reset \/ Halt \/ WorldSwitch
         \/ \E h \in BOOLEAN : SetHold(h)
         \/ \E torn \in {"nothing", "current", "run_state"} : Crash(torn)
  PROVE  IInv'
  <1> USE DEF IInv
  <1>1. ASSUME Pause PROVE IInv'
    <2>1. Persist("paused", TRUE, goal) /\ goal \in Goals \cup {NoGoal}
          /\ "paused" \in RunStatus
      BY <1>1 DEF Pause, FilesOK, RunStatus
    <2>2. RecordOK'
      BY <2>1, PersistFact DEF FilesOK
    <2>3. FilesOK'
      BY <1>1, <2>2 DEF Pause, FilesOK
    <2>4. TaskOK' /\ WorkInv'
      BY <1>1 DEF Pause, TaskOK, WorkInv, RunStatus, locals, history
    <2> QED BY <2>3, <2>4
  <1>2. ASSUME Resume PROVE IInv'
    <2>1. Persist("running", FALSE, goal) /\ goal \in Goals \cup {NoGoal}
          /\ "running" \in RunStatus
      BY <1>2 DEF Resume, FilesOK, RunStatus
    <2>2. RecordOK'
      BY <2>1, PersistFact DEF FilesOK
    <2>3. FilesOK'
      BY <1>2, <2>2 DEF Resume, FilesOK
    <2>4. TaskOK'
      <3>1. UNCHANGED <<up, switching, halted, task, at, busy, locals, orphan, history>>
            /\ paused' = FALSE /\ status' = "running"
        BY <1>2 DEF Resume
      <3> QED BY <2>1, <3>1 DEF TaskOK, locals, history
    <2>5. WorkInv'
      BY <1>2 DEF Resume, WorkInv, locals
    <2> QED BY <2>3, <2>4, <2>5
  <1>3. ASSUME Stop PROVE IInv'
    BY <1>3, StopRunFact DEF Stop, FilesOK, TaskOK, WorkInv, locals, history
  <1>4. ASSUME Reset PROVE IInv'
    BY <1>4, StopRunFact DEF Reset, FilesOK, TaskOK, WorkInv, locals, history
  <1>5. ASSUME Halt PROVE IInv'
    BY <1>5, StopRunFact DEF Halt, FilesOK, TaskOK, WorkInv, locals, history
  <1>6. ASSUME WorldSwitch PROVE IInv'
    <2> USE DEF FilesOK, TaskOK, WorkInv, agent, locals, history
    <2>1. ASSUME SwitchReads \/ SwitchGivesUp PROVE IInv'
      BY <2>1, KeptFact DEF SwitchReads, SwitchGivesUp, files
    <2>2. ASSUME SwitchUnlinks PROVE IInv'
      BY <2>2, KeptFact DEF SwitchUnlinks
    <2>3. ASSUME SwitchForgets PROVE IInv'
      <3>1. RecordOK'
        BY <2>3 DEF SwitchForgets, Gone, Holds, RecordOK, SavedStatus, record
      <3>2. swept' \in BOOLEAN /\ switching' = "no"
        BY <2>3 DEF SwitchForgets
      <3>3. UNCHANGED <<up, halted, goal, progress, linked, exps, agent, task, at, busy,
                        locals, orphan, runGoal, disowned>>
        BY <2>3 DEF SwitchForgets
      <3> QED BY <3>1, <3>2, <3>3
    <2> QED BY <1>6, <2>1, <2>2, <2>3 DEF WorldSwitch
  <1>7. ASSUME NEW h \in BOOLEAN, SetHold(h) PROVE IInv'
    BY <1>7, KeptFact DEF SetHold, FilesOK, TaskOK, WorkInv, files, agent, locals, history
  <1>8. ASSUME NEW torn, Crash(torn) PROVE IInv'
    <2>1. FilesOK'
      BY <1>8 DEF Crash, Gone, Unchanged, Holds, FilesOK, RecordOK, SavedStatus
    <2>2. TaskOK' /\ WorkInv'
      BY <1>8, NoLocalsFact DEF Crash, TaskOK, RunStatus, TaskState
    <2> QED BY <2>1, <2>2
  <1> QED BY <1>1, <1>2, <1>3, <1>4, <1>5, <1>6, <1>7, <1>8

\* The steps that end the coroutine
LEMMA EndingSteps ==
  ASSUME IInv, ReturnsHeld \/ GateCancels \/ Finish \/ Fails \/ CancelReaches \/ OrphanCancelled
  PROVE  IInv'
  <1> USE DEF IInv
  <1>1. ASSUME ReturnsHeld PROVE IInv'
    BY <1>1, EndsFact, KeptFact DEF ReturnsHeld, FilesOK, TaskOK, RunStatus, files, history
  <1>2. ASSUME GateCancels PROVE IInv'
    BY <1>2, EndsFact, ForgetFact
    DEF GateCancels, CancelHandler, FilesOK, TaskOK, RunStatus, history
  <1>3. ASSUME Finish PROVE IInv'
    BY <1>3, EndsFact, ForgetFact DEF Finish, FilesOK, TaskOK, RunStatus, history
  <1>4. ASSUME Fails PROVE IInv'
    <2>1. Persist("error", paused, goal') /\ goal' \in Goals \cup {NoGoal}
          /\ paused \in BOOLEAN /\ "error" \in RunStatus
      BY <1>4 DEF Fails, FilesOK, TaskOK, RunStatus
    <2> QED BY <1>4, <2>1, EndsFact, PersistFact DEF Fails, FilesOK, TaskOK, RunStatus, history
  <1>5. ASSUME CancelReaches PROVE IInv'
    <2>1. status' \in RunStatus /\ RecordOK'
      BY <1>5, ForgetFact, KeptFact DEF CancelReaches, CancelHandler, FilesOK, TaskOK, RunStatus
    <2> QED BY <1>5, <2>1, EndsFact DEF CancelReaches, FilesOK, TaskOK, history
  <1>6. ASSUME OrphanCancelled PROVE IInv'
    <2>1. FilesOK'
      BY <1>6, ForgetFact DEF OrphanCancelled, CancelHandler, FilesOK
    <2>2. TaskOK'
      BY <1>6 DEF OrphanCancelled, CancelHandler, TaskOK, RunStatus, locals
    <2>3. WorkInv'
      BY <1>6 DEF OrphanCancelled, WorkInv, locals
    <2> QED BY <2>1, <2>2, <2>3
  <1> QED BY <1>1, <1>2, <1>3, <1>4, <1>5, <1>6
\* The steps that only move the coroutine from place to place
LEMMA MovingSteps ==
  ASSUME IInv,
         DelaySleeps \/ GateParks \/ StartDesigning \/ EnterLoop \/ ExperimentAwaits
  PROVE  IInv'
  <1> USE DEF IInv
  <1>1. FilesOK'
    BY KeptFact DEF DelaySleeps, GateParks, StartDesigning, EnterLoop, ExperimentAwaits, FilesOK, files
  <1>2. TaskOK'
    <2>1. /\ UNCHANGED <<up, switching, halted, agent, task, locals, orphan, history>>
          /\ at' \in {at, "designing", "loop"} /\ busy' \in BOOLEAN
      BY DEF DelaySleeps, GateParks, StartDesigning, EnterLoop, ExperimentAwaits, Goto
    <2> QED BY <2>1 DEF TaskOK, agent, locals, history, Places
  <1>3. WorkInv'
    BY DEF DelaySleeps, GateParks, StartDesigning, EnterLoop, ExperimentAwaits, WorkInv,
           files, locals, Goto
  <1> QED BY <1>1, <1>2, <1>3

\* The steps that record a checkpoint
LEMMA CheckpointSteps ==
  ASSUME IInv, Plan \/ Designed \/ GatherSources \/ LoopDone \/ Collect \/ Report
  PROVE  IInv'
  <1> USE DEF IInv
  <1>1. PICK n \in {1, 3, 5, 7, 9, 10} : Checkpoint(n)
    BY DEF Plan, Designed, GatherSources, LoopDone, Collect, Report
  <1>2. progress' \in [Goals -> Tenths]
    <2>1. n \in Tenths
      BY TenthsFact
    <2> QED BY <1>1, <2>1, CheckpointFact
  <1>3. RecordOK'
    <2>1. CASE Collect
      BY <2>1, KeptFact DEF Collect, FilesOK
    <2>2. CASE Plan \/ Designed \/ GatherSources \/ LoopDone \/ Report
      <3>1. Sync
        BY <2>2 DEF Plan, Designed, GatherSources, LoopDone, Report
      <3> QED BY <3>1, SyncFact
    <2> QED BY <2>1, <2>2
  <1>4. UNCHANGED <<up, switching, halted, goal, linked, exps, agent, task, locals, orphan, history>>
    BY DEF Plan, Designed, GatherSources, LoopDone, Collect, Report
  <1>5. \E p \in {"design", "source", "run", "collect", "report", "finish"} : Goto(p)
    BY DEF Plan, Designed, GatherSources, LoopDone, Collect, Report
  <1>6. FilesOK'
    BY <1>2, <1>3, <1>4 DEF FilesOK
  <1>7. TaskOK'
    BY <1>4, <1>5 DEF TaskOK, agent, locals, history, Goto, Places, Gates
  <1>8. WorkInv'
    BY <1>4 DEF Plan, Designed, GatherSources, LoopDone, Collect, Report, WorkInv, locals,
                Goto, Turn, Passes
  <1> QED BY <1>6, <1>7, <1>8

\* The steps that learn of experiments: the first one, and the end of the delay
LEMMA EnteringSteps ==
  ASSUME IInv, Begin \/ DelayOver
  PROVE  IInv'
  <1> USE DEF IInv
  <1>1. RecordOK'
    <2>1. Sync
      BY DEF Begin, DelayOver
    <2> QED BY <2>1, SyncFact
  <1>2. FilesOK'
    BY <1>1 DEF Begin, DelayOver, FilesOK
  <1>3. ASSUME NEW r \in Tenths, Enter(r), exps' = exps, resumeAt' = r
        PROVE  /\ at' \in Places /\ busy' \in BOOLEAN
               /\ mine' \in SUBSET Exps /\ todo' \in SUBSET Exps
               /\ WorkInv'
    <2>1. mine' \in SUBSET Exps
      <3>1. mine' = {} \/ (goal \in Goals /\ mine' = linked[goal])
        BY <1>3 DEF Enter, FilesOK
      <3> QED BY <3>1 DEF FilesOK
    <2>2. todo' = {e \in mine' : exps[e] # "completed"}
      BY <1>3 DEF Enter, Unfinished
    <2>3. /\ at' \in {"plan", "source", "run", "collect"} /\ busy' = TRUE
          /\ r < 9 => at' # "collect"
      BY <1>3, PhaseForFact DEF Enter, Goto
    <2>4. WorkInv'
      BY <1>3, <2>2, <2>3 DEF WorkInv
    <2> QED BY <2>1, <2>2, <2>3, <2>4 DEF Places, Gates
  <1>4. CASE Begin /\ ~delayed
    <2>1. ResumePoint \in Tenths /\ Enter(ResumePoint) /\ exps' = exps /\ resumeAt' = ResumePoint
      BY <1>4, ResumePointFact DEF Begin
    <2>2. /\ at' \in Places /\ busy' \in BOOLEAN
          /\ mine' \in SUBSET Exps /\ todo' \in SUBSET Exps
          /\ WorkInv'
      BY <1>3, <2>1
    <2>3. TaskOK'
      BY <1>4, <2>1, <2>2 DEF Begin, TaskOK, TaskState, agent, history
    <2> QED BY <1>2, <2>2, <2>3
  <1>5. CASE Begin /\ delayed
    <2>1. ResumePoint \in Tenths /\ resumeAt' = ResumePoint /\ at' = "delay" /\ busy' = TRUE
          /\ UNCHANGED <<mine, todo, exps, running>>
      BY <1>5, ResumePointFact DEF Begin, Goto
    <2>2. WorkInv'
      BY <2>1 DEF WorkInv
    <2>3. TaskOK'
      BY <1>5, <2>1 DEF Begin, TaskOK, TaskState, Places, agent, history
    <2> QED BY <1>2, <2>2, <2>3
  <1>6. CASE DelayOver
    <2>1. resumeAt \in Tenths /\ Enter(resumeAt) /\ exps' = exps /\ resumeAt' = resumeAt
      BY <1>6 DEF DelayOver, TaskOK
    <2>2. /\ at' \in Places /\ busy' \in BOOLEAN
          /\ mine' \in SUBSET Exps /\ todo' \in SUBSET Exps
          /\ WorkInv'
      BY <1>3, <2>1
    <2>3. TaskOK'
      BY <1>6, <2>2 DEF DelayOver, TaskOK, agent, history
    <2> QED BY <1>2, <2>2, <2>3
  <1> QED BY <1>4, <1>5, <1>6

\* The steps that write an experiment's record. A completed record is left
\* alone by each of them.
LEMMA ExperimentSteps ==
  ASSUME IInv, NEW e \in Exps, Design(e) \/ StartExperiment(e) \/ CompleteExperiment
  PROVE  IInv' /\ \A x \in Exps : exps[x] = "completed" => exps'[x] = "completed"
  <1> USE DEF IInv
  <1>1. CASE Design(e)
    <2>1. exps' = [exps EXCEPT ![e] = "planning"] /\ exps[e] = "none"
          /\ mine' = mine \cup {e} /\ todo' = todo \cup {e} /\ busy' = FALSE
          /\ UNCHANGED <<up, switching, halted, goal, progress, record, agent, task, at, resumed,
                         resumeAt, delayed, running, orphan, history>>
          /\ at = "designing"
      BY <1>1 DEF Design, Turn
    <2>2. linked' \in [Goals -> SUBSET Exps]
      <3>1. linked' = linked \/ (goal \in Goals /\ linked' = [linked EXCEPT ![goal] = @ \cup {e}])
        BY <1>1 DEF Design, FilesOK
      <3> QED BY <3>1 DEF FilesOK
    <2>3. FilesOK'
      BY <2>1, <2>2, KeptFact DEF FilesOK
    <2>4. TaskOK'
      BY <2>1 DEF TaskOK, agent, history
    <2>5. WorkInv'
      BY <2>1 DEF WorkInv, FilesOK, TaskOK
    <2>6. \A x \in Exps : exps[x] = "completed" => exps'[x] = "completed"
      BY <2>1 DEF FilesOK
    <2> QED BY <2>3, <2>4, <2>5, <2>6
  <1>2. CASE StartExperiment(e)
    <2>1. /\ exps' = [exps EXCEPT ![e] = "in_progress"] /\ e \in todo
          /\ running' = e /\ at' = "exp" /\ busy' = TRUE /\ at = "loop"
          /\ UNCHANGED <<up, switching, halted, goal, progress, linked, agent, task, resumed, resumeAt,
                         delayed, mine, todo, orphan, history>>
      BY <1>2 DEF StartExperiment, Turn, Goto
    <2>2. RecordOK'
      BY <1>2, SyncFact DEF StartExperiment
    <2>3. FilesOK'
      BY <2>1, <2>2 DEF FilesOK
    <2>4. TaskOK'
      BY <2>1 DEF TaskOK, agent, history, Places
    <2>5. WorkInv'
      BY <2>1 DEF WorkInv, FilesOK, TaskOK
    <2>6. \A x \in Exps : exps[x] = "completed" => exps'[x] = "completed"
      BY <2>1 DEF FilesOK, WorkInv
    <2> QED BY <2>3, <2>4, <2>5, <2>6
  <1>3. CASE CompleteExperiment
    <2>1. /\ exps' = [exps EXCEPT ![running] = "completed"] /\ at = "exp"
          /\ todo' = todo \ {running} /\ running' = NoExp /\ at' = "loop" /\ busy' = TRUE
          /\ UNCHANGED <<up, switching, halted, goal, progress, linked, record, agent, task, resumed,
                         resumeAt, delayed, mine, orphan, history>>
      BY <1>3 DEF CompleteExperiment, Turn, Goto
    <2>2. running \in todo /\ running \in Exps
      BY <2>1 DEF WorkInv, TaskOK
    <2>3. FilesOK'
      BY <2>1, <2>2, KeptFact DEF FilesOK
    <2>4. TaskOK'
      BY <2>1 DEF TaskOK, agent, history, Places
    <2>5. WorkInv'
      BY <2>1, <2>2 DEF WorkInv, FilesOK, TaskOK
    <2>6. \A x \in Exps : exps[x] = "completed" => exps'[x] = "completed"
      BY <2>1, <2>2 DEF FilesOK
    <2> QED BY <2>3, <2>4, <2>5, <2>6
  <1> QED BY <1>1, <1>2, <1>3

-----------------------------------------------------------------------------
(* The theorems *)

\* No step but an experiment's own touches the records.
LEMMA OtherStepsKeepExps ==
  ASSUME [Next]_vars,
         ~(\E e \in Exps : Design(e) \/ StartExperiment(e)), ~CompleteExperiment
  PROVE  exps' = exps
  BY DEF Next, Handlers, RunStep, SetGoal, ResearchStart, Pause, ResumeFromCheckpoint, Resume,
         Stop, Reset, Halt, SetHold, WorldSwitch, SwitchReads, SwitchUnlinks,
         SwitchForgets, SwitchGivesUp, Begin, DelaySleeps, DelayOver, ReturnsHeld, GateCancels, GateParks, Plan, StartDesigning, Designed, GatherSources, EnterLoop,
         ExperimentAwaits, LoopDone, Collect, Report, Finish, Fails, CancelReaches,
         OrphanCancelled, Crash, Restart, vars, files

LEMMA NextIInv == IInv /\ [Next]_vars => IInv'
  <1> SUFFICES ASSUME IInv, [Next]_vars PROVE IInv'
    OBVIOUS
  <1>1. CASE UNCHANGED vars
    BY <1>1, KeptFact DEF IInv, FilesOK, TaskOK, WorkInv, vars, files, agent, locals, history
  <1>2. CASE Handlers
    BY <1>2, StartingHandlers, OtherHandlers DEF Handlers
  <1>3. CASE RunStep
    <2>1. CASE CompleteExperiment
      <3>1. \E e \in Exps : TRUE
        BY <2>1 DEF IInv, WorkInv, TaskOK, CompleteExperiment, Turn
      <3> QED BY <2>1, <3>1, ExperimentSteps
    <2>2. CASE \E e \in Exps : Design(e) \/ StartExperiment(e)
      BY <2>2, ExperimentSteps
    <2>3. CASE ~CompleteExperiment /\ ~\E e \in Exps : Design(e) \/ StartExperiment(e)
      BY <1>3, <2>3, EndingSteps, MovingSteps, CheckpointSteps, EnteringSteps DEF RunStep
    <2> QED BY <2>1, <2>2, <2>3
  <1>4. CASE \E torn \in {"nothing", "current", "run_state"} : Crash(torn)
    BY <1>4, OtherHandlers
  <1>5. CASE \E d \in BOOLEAN : Restart(d)
    BY <1>5, StartingHandlers
  <1> QED BY <1>1, <1>2, <1>3, <1>4, <1>5 DEF Next

LEMMA Inductive == Spec => []IInv
  BY InitIInv, NextIInv, PTL DEF Spec

\* A write of the record fails once more, or not, while there is room for it.
FaultsMove == faults' = faults \/ (crashes + faults < MaxTroubles /\ faults' = faults + 1)

LEMMA ForgetFaults == ASSUME Forget PROVE FaultsMove
  BY DEF Forget, Works, Swallows, FaultsMove

LEMMA SaveFaults == ASSUME NEW s, NEW p, NEW g, Save(s, p, g) PROVE FaultsMove
  BY DEF Save, Works, Swallows, FaultsMove

LEMMA PersistFaults == ASSUME NEW s, NEW p, NEW g, Persist(s, p, g) PROVE FaultsMove
  BY ForgetFaults, SaveFaults DEF Persist

LEMMA StartRunFaults == ASSUME NEW g, NEW r, NEW d, NEW p, StartRun(g, r, d, p) PROVE FaultsMove
  BY PersistFaults DEF StartRun

\* The counters move by one, under their bounds.
LEMMA ClicksMove ==
  ASSUME [Next]_vars
  PROVE  clicks' = clicks \/ (clicks < MaxClicks /\ clicks' = clicks + 1)
  BY DEF Next, Handlers, RunStep, SetGoal, ResearchStart, Pause, ResumeFromCheckpoint, Resume,
         Stop, Reset, Halt, SetHold, WorldSwitch, SwitchReads, SwitchUnlinks,
         SwitchForgets, SwitchGivesUp, Begin, DelaySleeps, DelayOver, ReturnsHeld, GateCancels, GateParks, Plan, StartDesigning, Designed, GatherSources, EnterLoop,
         ExperimentAwaits, LoopDone, Collect, Report, Finish, Fails, CancelReaches,
         OrphanCancelled, Crash, Restart, Design, StartExperiment, CompleteExperiment,
         vars, counters

LEMMA TroublesMove ==
  ASSUME [Next]_vars
  PROVE  \/ crashes' = crashes /\ FaultsMove
         \/ crashes + faults < MaxTroubles /\ crashes' = crashes + 1 /\ faults' = faults
  <1>1. CASE Handlers
    <2>1. crashes' = crashes
      BY <1>1 DEF Handlers, SetGoal, ResearchStart, Pause, ResumeFromCheckpoint, Resume, Stop,
                  Reset, Halt, SetHold, WorldSwitch, SwitchReads, SwitchUnlinks, SwitchForgets,
                  SwitchGivesUp, counters
    <2>2. ASSUME NEW g, NEW auto, NEW d, SetGoal(g, auto, d) PROVE FaultsMove
      BY <2>2, StartRunFaults DEF SetGoal, record, FaultsMove
    <2>3. ASSUME NEW r, NEW d, ResearchStart(r, d) PROVE FaultsMove
      BY <2>3, StartRunFaults DEF ResearchStart
    <2>4. CASE ResumeFromCheckpoint
      BY <2>1, <2>4, StartRunFaults DEF ResumeFromCheckpoint
    <2>5. CASE Pause \/ Resume
      BY <2>1, <2>5, PersistFaults DEF Pause, Resume
    <2>6. CASE Stop \/ Reset \/ Halt
      BY <2>1, <2>6, ForgetFaults DEF Stop, Reset, Halt, StopRun
    <2>7. CASE WorldSwitch \/ \E h \in BOOLEAN : SetHold(h)
      BY <2>1, <2>7 DEF WorldSwitch, SwitchReads, SwitchUnlinks, SwitchForgets, SwitchGivesUp, SetHold,
                  files, record, FaultsMove
    <2> QED BY <1>1, <2>1, <2>2, <2>3, <2>4, <2>5, <2>6, <2>7 DEF Handlers
  <1>2. CASE RunStep
    <2>1. crashes' = crashes
      BY <1>2 DEF RunStep, Begin, DelaySleeps, DelayOver, ReturnsHeld, GateCancels, GateParks, Plan,
                  StartDesigning, Designed, GatherSources, EnterLoop, ExperimentAwaits,
                  CompleteExperiment, LoopDone, Design, StartExperiment, Collect, Report, Finish,
                  Fails, CancelReaches, OrphanCancelled, counters
    <2>2. CASE Begin \/ DelayOver \/ Plan \/ Designed \/ GatherSources \/ LoopDone \/ Report
               \/ \E e \in Exps : StartExperiment(e)
      <3>1. Sync
        BY <2>2 DEF Begin, DelayOver, Plan, Designed, GatherSources, LoopDone, Report, StartExperiment
      <3> QED BY <2>1, <3>1, PersistFaults DEF Sync
    <2>3. CASE DelaySleeps \/ GateParks \/ StartDesigning \/ EnterLoop \/ ExperimentAwaits
               \/ CompleteExperiment \/ Collect \/ ReturnsHeld \/ \E e \in Exps : Design(e)
      <3>1. UNCHANGED record
        BY <2>3 DEF DelaySleeps, GateParks, StartDesigning, EnterLoop, ExperimentAwaits,
                    CompleteExperiment, Collect, ReturnsHeld, Design, files
      <3> QED BY <2>1, <3>1 DEF record, FaultsMove
    <2>4. CASE GateCancels \/ Finish \/ OrphanCancelled
      BY <2>1, <2>4, ForgetFaults DEF GateCancels, Finish, OrphanCancelled, CancelHandler
    <2>5. CASE CancelReaches
      BY <2>1, <2>5, ForgetFaults DEF CancelReaches, CancelHandler, record, FaultsMove
    <2>6. CASE Fails
      BY <2>1, <2>6, PersistFaults DEF Fails
    <2> QED BY <1>2, <2>2, <2>3, <2>4, <2>5, <2>6 DEF RunStep
  <1>3. ASSUME NEW torn, Crash(torn)
        PROVE  crashes + faults < MaxTroubles /\ crashes' = crashes + 1 /\ faults' = faults
    BY <1>3 DEF Crash
  <1>4. ASSUME NEW d, Restart(d) PROVE crashes' = crashes /\ FaultsMove
    BY <1>4, StartRunFaults, SaveFaults DEF Restart, counters, record, FaultsMove
  <1>5. CASE UNCHANGED vars
    BY <1>5 DEF vars, files, record, counters, FaultsMove
  <1> QED BY <1>1, <1>2, <1>3, <1>4, <1>5 DEF Next

LEMMA CountersCorrect == Spec => []CountersOK
  <1>1. Init => CountersOK
    BY BoundsAssumption DEF BoundsAssumption, Init, CountersOK
  <1>2. CountersOK /\ [Next]_vars => CountersOK'
    BY ClicksMove, TroublesMove, BoundsAssumption DEF BoundsAssumption, CountersOK, FaultsMove
  <1> QED BY <1>1, <1>2, PTL DEF Spec

\* Every variable keeps its type, in the files as in memory.
THEOREM TypeCorrect == Spec => []TypeOK
  <1>1. IInv /\ CountersOK => TypeOK
    BY DEF IInv, TypeOK
  <1> QED BY <1>1, Inductive, CountersCorrect, PTL

\* A run that went through the experiment loop reports finished work.
THEOREM ReportSafety == Spec => []ReportIsFinished
  <1>1. IInv => ReportIsFinished
    BY DEF IInv, WorkInv, ReportIsFinished
  <1> QED BY <1>1, Inductive, PTL

\* Finished experiments are never run again, over any number of crashes,
\* resumes and replaced runs.
THEOREM FinishedWorkIsKept == Spec => FinishedStaysFinished
  <1>1. IInv /\ [Next]_vars
        => [\A e \in Exps : exps[e] = "completed" => exps'[e] = "completed"]_vars
    <2> SUFFICES ASSUME IInv, [Next]_vars
                 PROVE  \A e \in Exps : exps[e] = "completed" => exps'[e] = "completed"
      OBVIOUS
    <2>1. CASE CompleteExperiment \/ \E e \in Exps : Design(e) \/ StartExperiment(e)
      BY <2>1, ExperimentSteps
    <2>2. CASE ~(CompleteExperiment \/ \E e \in Exps : Design(e) \/ StartExperiment(e))
      BY <2>2, OtherStepsKeepExps
    <2> QED BY <2>1, <2>2
  <1> QED BY <1>1, Inductive, PTL DEF Spec, FinishedStaysFinished

-----------------------------------------------------------------------------
(* The record of a run, and its progress *)

\* While a task that no orphan has disowned is under way the agent says it runs or
\* waits, and run_state.json says so of the run's goal, whenever that goal is still
\* the current one and the newest record was written. A process that is down has no task.
RecordInv ==
    /\ ~up => task = "none"
    /\ ~disowned /\ ~swept /\ task \in {"queued", "live"} =>
        /\ status \in {"running", "paused"}
        /\ ~unwritten /\ goal # NoGoal /\ goal = runGoal =>
            saved \in {"running", "paused"} /\ savedGoal = goal

\* The next tenth a coroutine at p will record.
Ahead(p) ==
    IF p = "plan" THEN 1
    ELSE IF p \in {"design", "designing"} THEN 3
    ELSE IF p = "source" THEN 5
    ELSE IF p \in {"run", "loop", "exp"} THEN 7
    ELSE IF p = "collect" THEN 9
    ELSE 10

\* A resumed run is never behind the goal it works on, a finished one apart: not
\* even in the courtesy delay, where the goal may change under it.
ProgressInv ==
    /\ \A g \in Goals : progress[g] \in {0, 1, 3, 5, 7, 9, 10}
    /\ task = "live" /\ resumed /\ goal # NoGoal =>
        \/ progress[goal] = 10
        \/ progress[goal] <= Ahead(IF at = "delay" THEN PhaseFor(resumeAt) ELSE at)

\* A record of a run on a goal, once it could be written, says so.
LEMMA PersistRecords ==
  ASSUME NEW s \in {"running", "paused"}, NEW p, NEW g, Persist(s, p, g)
  PROVE  ~unwritten' /\ g # NoGoal => saved' \in {"running", "paused"} /\ savedGoal' = g
  BY DEF Persist, Save, Holds, Works, Swallows

\* What a Sync, a fresh start and the end of a task leave of the record.
LEMMA SyncRecords ==
  ASSUME RecordInv, Sync, up, UNCHANGED <<up, goal, status, runGoal, disowned, swept>>,
         task' \in {"queued", "live"} => task \in {"queued", "live"}
  PROVE  RecordInv'
  <1>1. Persist(status, paused, goal)
    BY DEF Sync
  <1> QED BY <1>1, PersistRecords DEF RecordInv

LEMMA StartRecords ==
  ASSUME NEW g, NEW r, NEW d, NEW p, StartRun(g, r, d, p), goal' = g, up'
  PROVE  RecordInv'
  <1>1. status' \in {"running", "paused"} /\ runGoal' = g /\ Persist(status', p, g)
    BY DEF StartRun
  <1> QED BY <1>1, PersistRecords DEF RecordInv

LEMMA EndRecords ==
  ASSUME up', task' \notin {"queued", "live"}
  PROVE  RecordInv'
  BY DEF RecordInv

LEMMA KeptRecords ==
  ASSUME RecordInv, UNCHANGED <<up, record, status, goal, runGoal, disowned, swept>>,
         task' = task
  PROVE  RecordInv'
  BY DEF RecordInv, record

LEMMA HandlersRecord ==
  ASSUME IInv, RecordInv, Handlers
  PROVE  RecordInv'
  <1>1. ASSUME NEW g \in Goals, NEW auto \in BOOLEAN, NEW d \in BOOLEAN, SetGoal(g, auto, d)
        PROVE  RecordInv'
    <2>1. CASE auto /\ status \in {"idle", "completed", "error"}
      <3>1. StartRun(g, FALSE, d, FALSE) /\ goal' = g /\ up'
        BY <1>1, <2>1 DEF SetGoal, Loop
      <3> QED BY <3>1, StartRecords
    <2>2. CASE ~(auto /\ status \in {"idle", "completed", "error"})
      BY <1>1, <2>2 DEF SetGoal, RecordInv, record, agent, history
    <2> QED BY <2>1, <2>2
  <1>2. ASSUME NEW resume \in BOOLEAN, NEW d \in BOOLEAN, ResearchStart(resume, d)
        PROVE  RecordInv'
    <2>1. PICK r, q : StartRun(goal, r, d, q)
      BY <1>2 DEF ResearchStart
    <2>2. goal' = goal /\ up'
      BY <1>2 DEF ResearchStart, Loop
    <2> QED BY <2>1, <2>2, StartRecords
  <1>3. ASSUME ResumeFromCheckpoint PROVE RecordInv'
    BY <1>3, StartRecords DEF ResumeFromCheckpoint, Loop
  <1>4. ASSUME Pause PROVE RecordInv'
    BY <1>4, PersistRecords DEF Pause, RecordInv, Loop, history
  <1>5. ASSUME Resume PROVE RecordInv'
    BY <1>5, PersistRecords DEF Resume, RecordInv, Loop, history
  <1>6. ASSUME Stop \/ Reset \/ Halt PROVE RecordInv'
    <2>1. up' /\ task' \notin {"queued", "live"}
      BY <1>6 DEF Stop, Reset, Halt, StopRun, Loop
    <2> QED BY <2>1, EndRecords
  <1>7. ASSUME NEW h \in BOOLEAN, SetHold(h) PROVE RecordInv'
    BY <1>7, KeptRecords DEF SetHold, files, agent, history, record
  <1>8. ASSUME WorldSwitch PROVE RecordInv'
    <2>1. CASE SwitchReads \/ SwitchGivesUp
      BY <2>1, KeptRecords DEF SwitchReads, SwitchGivesUp, files, agent, history, record
    <2>2. CASE SwitchUnlinks
      BY <2>2 DEF SwitchUnlinks, RecordInv, record, agent, history
    <2>3. CASE SwitchForgets
      <3>1. UNCHANGED <<up, status, task, goal, runGoal, disowned>>
        BY <2>3 DEF SwitchForgets, agent
      <3>2. CASE swept' = (swept \/ goal = runGoal)
        BY <3>1, <3>2 DEF RecordInv
      <3>3. CASE UNCHANGED <<record, swept>>
        BY <3>1, <3>3, KeptRecords
      <3> QED BY <2>3, <3>2, <3>3 DEF SwitchForgets
    <2> QED BY <1>8, <2>1, <2>2, <2>3 DEF WorldSwitch
  <1> QED BY <1>1, <1>2, <1>3, <1>4, <1>5, <1>6, <1>7, <1>8 DEF Handlers

LEMMA RunStepRecords ==
  ASSUME IInv, RecordInv, RunStep
  PROVE  RecordInv'
  <1>1. CASE Begin \/ DelayOver \/ Plan \/ Designed \/ GatherSources \/ LoopDone \/ Report
             \/ \E e \in Exps : StartExperiment(e)
    <2>1. /\ Sync /\ up /\ UNCHANGED <<up, goal, status, runGoal, disowned, swept>>
          /\ task' \in {"queued", "live"} => task \in {"queued", "live"}
      BY <1>1 DEF Begin, DelayOver, Plan, Designed, GatherSources, LoopDone, Report,
                  StartExperiment, Loop, Passes, Turn, agent, history
    <2> QED BY <2>1, SyncRecords
  <1>2. CASE DelaySleeps \/ GateParks \/ StartDesigning \/ EnterLoop \/ ExperimentAwaits
             \/ CompleteExperiment \/ Collect \/ \E e \in Exps : Design(e)
    <2>1. UNCHANGED <<up, record, status, goal, runGoal, disowned, swept, task>>
      BY <1>2 DEF DelaySleeps, GateParks, StartDesigning, EnterLoop, ExperimentAwaits,
                  CompleteExperiment, Collect, Design, files, record, agent, history
    <2> QED BY <2>1, KeptRecords
  <1>3. CASE ReturnsHeld \/ GateCancels \/ Finish \/ Fails \/ CancelReaches
    <2>1. up' /\ task' = "done"
      BY <1>3 DEF ReturnsHeld, GateCancels, Finish, Fails, CancelReaches, Ends, Turn, Loop
    <2> QED BY <2>1, EndRecords
  <1>4. CASE OrphanCancelled
    BY <1>4 DEF OrphanCancelled, RecordInv, Loop
  <1> QED BY <1>1, <1>2, <1>3, <1>4 DEF RunStep

LEMMA NextRecords == IInv /\ RecordInv /\ [Next]_vars => RecordInv'
  <1> SUFFICES ASSUME IInv, RecordInv, [Next]_vars PROVE RecordInv'
    OBVIOUS
  <1>1. CASE UNCHANGED vars
    BY <1>1, KeptRecords DEF vars, files, agent, history, record
  <1>2. ASSUME NEW torn, Crash(torn) PROVE RecordInv'
    BY <1>2 DEF Crash, RecordInv
  <1>3. ASSUME NEW d \in BOOLEAN, Restart(d) PROVE RecordInv'
    <2>1. CASE Interrupted /\ ~halted
      BY <1>3, <2>1, StartRecords DEF Restart
    <2>2. CASE ~(Interrupted /\ ~halted)
      <3>1. task' = "none" /\ up'
        BY <1>3, <2>2 DEF Restart, RecordInv
      <3> QED BY <3>1, EndRecords
    <2> QED BY <2>1, <2>2
  <1> QED BY <1>1, <1>2, <1>3, HandlersRecord, RunStepRecords DEF Next

\* A suspended run on its own goal is on disk as a run to take up, unless a task it
\* replaced was cancelled, or an older World switch cleared the record, after it was
\* made: nothing else, however it interleaves with the run's awaits, takes the
\* record away and leaves the run.
THEOREM RecordSafety == Spec => []RecordedUnlessDisowned
  <1>1. Init => RecordInv
    BY DEF Init, RecordInv
  <1>2. RecordInv => RecordedUnlessDisowned
    BY DEF RecordInv, RecordedUnlessDisowned, LiveRunIsRecorded, Suspended
  <1> QED BY <1>1, <1>2, NextRecords, Inductive, PTL DEF Spec

-----------------------------------------------------------------------------
(* Progress *)

\* A step that records no checkpoint: the coroutine goes no further than it was,
\* and the goal stays, goes, or is a new one.
LEMMA KeptProgress ==
  ASSUME IInv, ProgressInv, progress' = progress,
         goal' = goal \/ goal' = NoGoal \/ (goal' \in Goals /\ progress[goal'] = 0),
         (task' = "live" /\ resumed') =>
             /\ task = "live" /\ resumed /\ resumeAt' = resumeAt
             /\ \/ at' = at
                \/ at # "delay" /\ at' # "delay" /\ Ahead(at) <= Ahead(at')
  PROVE  ProgressInv'
  <1>1. \A g \in Goals : progress[g] \in {0, 1, 3, 5, 7, 9, 10}
    BY DEF ProgressInv
  <1>2. SUFFICES ASSUME task' = "live", resumed', goal' # NoGoal
                 PROVE  \/ progress[goal'] = 10
                        \/ progress[goal'] <= Ahead(IF at' = "delay" THEN PhaseFor(resumeAt') ELSE at')
    BY <1>1 DEF ProgressInv
  <1>3. \A p : Ahead(p) \in {1, 3, 5, 7, 9, 10}
    BY DEF Ahead
  <1>4. CASE goal' = goal
    <2>1. goal \in Goals
      BY <1>2, <1>4 DEF IInv, FilesOK
    <2>2. \/ progress[goal] = 10
          \/ progress[goal] <= Ahead(IF at = "delay" THEN PhaseFor(resumeAt) ELSE at)
      BY <1>2, <1>4 DEF ProgressInv
    <2>3. CASE at' = at
      BY <1>2, <1>4, <2>2, <2>3
    <2>4. CASE at # "delay" /\ at' # "delay" /\ Ahead(at) <= Ahead(at')
      BY <1>1, <1>3, <1>4, <2>1, <2>2, <2>4
    <2> QED BY <1>2, <2>3, <2>4
  <1>5. CASE goal' # goal
    BY <1>2, <1>3, <1>5
  <1> QED BY <1>4, <1>5

\* A checkpoint: what was ahead is reached, the next is ahead. A resumed run takes
\* nothing back, but for a finished goal's report.
LEMMA CheckpointAdvances ==
  ASSUME IInv, ProgressInv,
         Plan \/ Designed \/ GatherSources \/ LoopDone \/ Collect \/ Report
  PROVE  /\ ProgressInv'
         /\ \A g \in Goals : progress'[g] < progress[g] => ~resumed \/ progress[g] = 10
  <1>1. /\ UNCHANGED <<goal, task, resumed, resumeAt>> /\ task = "live"
        /\ \E n \in {1, 3, 5, 7, 9, 10} :
              /\ Checkpoint(n) /\ at # "delay" /\ at' # "delay"
              /\ Ahead(at) = n /\ n <= Ahead(at')
    BY DEF Plan, Designed, GatherSources, LoopDone, Collect, Report, agent, locals, Turn, Passes,
           Goto, Ahead
  <1>2. PICK n \in {1, 3, 5, 7, 9, 10} :
            Checkpoint(n) /\ at # "delay" /\ at' # "delay" /\ Ahead(at) = n /\ n <= Ahead(at')
    BY <1>1
  <1>3. /\ progress \in [Goals -> Tenths] /\ goal \in Goals \cup {NoGoal}
        /\ \A g \in Goals : progress[g] \in {0, 1, 3, 5, 7, 9, 10}
    BY DEF IInv, FilesOK, ProgressInv
  <1>4. \A g \in Goals : progress'[g] = IF g = goal THEN n ELSE progress[g]
    BY <1>2, <1>3, NoGoalAssumption DEF Checkpoint, NoGoalAssumption
  <1>5. ProgressInv'
    BY <1>1, <1>2, <1>3, <1>4 DEF ProgressInv
  <1>6. ASSUME NEW g \in Goals, progress'[g] < progress[g], resumed PROVE progress[g] = 10
    <2>1. g = goal /\ progress'[g] = n
      BY <1>3, <1>4, <1>6
    <2>2. progress[g] = 10 \/ progress[g] <= n
      BY <1>1, <1>2, <1>3, <1>6, <2>1, NoGoalAssumption DEF ProgressInv, NoGoalAssumption
    <2> QED BY <1>3, <1>6, <2>1, <2>2
  <1> QED BY <1>5, <1>6

\* Where a run is taken up it is not behind.
LEMMA ResumeIsAhead ==
  ASSUME NEW n \in {0, 1, 3, 5, 7, 9, 10}
  PROVE  n = 10 \/ n <= Ahead(PhaseFor(IF n >= 3 THEN n ELSE 0))
  BY DEF Ahead, PhaseFor

LEMMA EnteringAdvances ==
  ASSUME IInv, ProgressInv, Begin \/ DelayOver
  PROVE  ProgressInv'
  <1>1. /\ \A g \in Goals : progress[g] \in {0, 1, 3, 5, 7, 9, 10}
        /\ goal \in Goals \cup {NoGoal}
    BY DEF ProgressInv, IInv, FilesOK
  <1>2. UNCHANGED <<progress, goal, resumed>>
    BY DEF Begin, DelayOver
  <1>3. ASSUME NEW r \in Tenths PROVE PhaseFor(r) # "delay"
    BY PhaseForFact
  <1>4. CASE Begin
    <2>1. /\ resumeAt' = ResumePoint /\ ResumePoint \in Tenths
          /\ at' = "delay" \/ at' = PhaseFor(ResumePoint)
      BY <1>4, ResumePointFact DEF Begin, Enter, Goto, IInv
    <2>2. (IF at' = "delay" THEN PhaseFor(resumeAt') ELSE at') = PhaseFor(ResumePoint)
      BY <2>1
    <2>3. ASSUME resumed, goal # NoGoal
          PROVE  progress[goal] = 10 \/ progress[goal] <= Ahead(PhaseFor(ResumePoint))
      <3>1. ResumePoint = IF progress[goal] >= 3 THEN progress[goal] ELSE 0
        BY <2>3 DEF ResumePoint
      <3> QED BY <1>1, <2>3, <3>1, ResumeIsAhead
    <2> QED BY <1>1, <1>2, <2>2, <2>3 DEF ProgressInv
  <1>5. CASE DelayOver
    <2>1. /\ resumeAt' = resumeAt /\ at' = PhaseFor(resumeAt) /\ at = "delay" /\ task = "live"
          /\ resumeAt \in Tenths /\ task' = task
      BY <1>5 DEF DelayOver, Enter, Goto, Turn, IInv, TaskOK, agent
    <2> QED BY <1>1, <1>2, <1>3, <2>1 DEF ProgressInv
  <1> QED BY <1>4, <1>5

LEMMA OthersKeepProgress ==
  ASSUME IInv, ProgressInv, [Next]_vars,
         ~(Plan \/ Designed \/ GatherSources \/ LoopDone \/ Collect \/ Report),
         ~(Begin \/ DelayOver)
  PROVE  progress' = progress /\ ProgressInv'
  <1>1. CASE Handlers
    <2>1. progress' = progress
      BY <1>1 DEF Handlers, SetGoal, ResearchStart, Pause, ResumeFromCheckpoint, Resume,
                  Stop, Reset, Halt, SetHold, WorldSwitch,
                  SwitchReads, SwitchUnlinks, SwitchForgets, SwitchGivesUp, files
    <2>2. goal' = goal \/ goal' = NoGoal \/ (goal' \in Goals /\ progress[goal'] = 0)
      BY <1>1 DEF Handlers, SetGoal, ResearchStart, Pause, ResumeFromCheckpoint, Resume,
                  Stop, Reset, Halt, SetHold, WorldSwitch,
                  SwitchReads, SwitchUnlinks, SwitchForgets, SwitchGivesUp, files
    <2>3. task' = "live" => task = "live" /\ UNCHANGED <<resumed, resumeAt, at>>
      BY <1>1 DEF Handlers, SetGoal, ResearchStart, Pause, ResumeFromCheckpoint, Resume,
                  Stop, Reset, Halt, SetHold, WorldSwitch,
                  SwitchReads, SwitchUnlinks, SwitchForgets, SwitchGivesUp, StartRun, StopRun, locals
    <2> QED BY <2>1, <2>2, <2>3, KeptProgress
  <1>2. CASE RunStep
    <2>1. progress' = progress /\ (goal' = goal \/ goal' = NoGoal)
      BY <1>2 DEF RunStep, DelaySleeps, ReturnsHeld, GateCancels, GateParks, StartDesigning,
                  EnterLoop, ExperimentAwaits, CompleteExperiment, Design, StartExperiment,
                  Finish, Fails, CancelReaches, OrphanCancelled, files
    <2>2. task' = "live" => task = "live" /\ UNCHANGED <<resumed, resumeAt>>
      BY <1>2 DEF RunStep, DelaySleeps, ReturnsHeld, GateCancels, GateParks, StartDesigning,
                  EnterLoop, ExperimentAwaits, CompleteExperiment, Design, StartExperiment,
                  Finish, Fails, CancelReaches, OrphanCancelled, Ends, locals
    <2>3. task' = "live" =>
            \/ at' = at
            \/ at # "delay" /\ at' # "delay" /\ Ahead(at) <= Ahead(at')
      BY <1>2 DEF RunStep, DelaySleeps, ReturnsHeld, GateCancels, GateParks, StartDesigning,
                  EnterLoop, ExperimentAwaits, CompleteExperiment, Design, StartExperiment,
                  Finish, Fails, CancelReaches, OrphanCancelled, Ends, Passes, Turn, Goto, Ahead,
                  locals
    <2> QED BY <2>1, <2>2, <2>3, KeptProgress
  <1>3. ASSUME NEW torn, Crash(torn) PROVE progress' = progress /\ ProgressInv'
    BY <1>3, KeptProgress DEF Crash
  <1>4. ASSUME NEW d, Restart(d) PROVE progress' = progress /\ ProgressInv'
    <2>1. UNCHANGED <<progress, goal>>
      BY <1>4 DEF Restart
    <2>2. task' = "live" => task = "live" /\ UNCHANGED <<resumed, resumeAt, at>>
      BY <1>4 DEF Restart, StartRun, locals
    <2> QED BY <2>1, <2>2, KeptProgress
  <1>5. CASE UNCHANGED vars
    BY <1>5, KeptProgress DEF vars, files, locals
  <1> QED BY <1>1, <1>2, <1>3, <1>4, <1>5 DEF Next

LEMMA NextProgress ==
  IInv /\ ProgressInv /\ [Next]_vars
    => /\ ProgressInv'
       /\ \A g \in Goals : progress'[g] < progress[g] => ~resumed \/ progress[g] = 10
  <1> SUFFICES ASSUME IInv, ProgressInv, [Next]_vars
               PROVE  /\ ProgressInv'
                      /\ \A g \in Goals : progress'[g] < progress[g] => ~resumed \/ progress[g] = 10
    OBVIOUS
  <1>1. ASSUME progress' = progress, NEW g \in Goals PROVE ~(progress'[g] < progress[g])
    <2>1. progress[g] \in {0, 1, 3, 5, 7, 9, 10}
      BY DEF ProgressInv
    <2> QED BY <1>1, <2>1
  <1>2. CASE Plan \/ Designed \/ GatherSources \/ LoopDone \/ Collect \/ Report
    BY <1>2, CheckpointAdvances
  <1>3. CASE Begin \/ DelayOver
    <2>1. progress' = progress
      BY <1>3 DEF Begin, DelayOver
    <2> QED BY <1>1, <1>3, <2>1, EnteringAdvances
  <1> QED BY <1>1, <1>2, <1>3, OthersKeepProgress

\* A run taken up at a checkpoint never takes its goal's progress back, however
\* often it is paused, delayed, replaced or crashed, and whatever goal is set
\* meanwhile.
THEOREM ProgressIsKept == Spec => ResumeKeepsProgress
  <1>1. Init => ProgressInv
    BY DEF Init, ProgressInv
  <1>2. IInv /\ ProgressInv /\ [Next]_vars
        => [\A g \in Goals : progress'[g] < progress[g] => ~resumed \/ progress[g] = 10]_vars
    BY NextProgress
  <1> QED BY <1>1, <1>2, NextProgress, Inductive, PTL DEF Spec, ResumeKeepsProgress
=============================================================================
