------------------------------ MODULE ResearchRun ------------------------------
(***************************************************************************)
(* The researcher of src/arail/agents/researcher.py: one asyncio task that   *)
(* takes the current goal from hypotheses to a report, the HTTP handlers     *)
(* that start, pause, resume, stop and hold it, and the files that let a new *)
(* process take an interrupted run up again: current.json, run_state.json    *)
(* (goals.py) and the experiment records.                                    *)
(*                                                                         *)
(* All of it but a World switch runs on the event loop, so a handler, and    *)
(* the task between two awaits, is never interrupted by another coroutine;   *)
(* `busy' says that the task is between two awaits. The process can die      *)
(* anywhere, and what it was writing then is lost: write_text is not atomic  *)
(* and a torn file reads as none. A failing write of run_state.json is       *)
(* swallowed, one of current.json is the run's error.                        *)
(***************************************************************************)
EXTENDS Naturals, FiniteSets

CONSTANTS Goals,       \* goal ids; set_goal mints a new one each time
          NoGoal,      \* current.json is absent or unreadable
          Exps,        \* experiment ids; the tracker mints a new one each time
          NoExp,
          ChosenLimit, \* hypotheses a plan turns into experiments, at most
          MaxClicks,   \* goals set, starts and resumes that start a run
          MaxTroubles  \* deaths of the process and failed writes of run_state.json

ASSUME NoGoalAssumption == NoGoal \notin Goals
ASSUME NoExpAssumption == NoExp \notin Exps
ASSUME LimitAssumption == ChosenLimit \in Nat \ {0}
ASSUME BoundsAssumption == MaxClicks \in Nat /\ MaxTroubles \in Nat

VARIABLES up,        \* the portal process is running
          switching, \* where a World switch is with the old World's goal
          halted,    \* jobs_halted(), durable (HoldSwitch says how far)
          goal,      \* current.json: the current goal
          progress,  \* ... and each goal's recorded progress, in tenths
          linked,    \* ... and its linked experiments
          exps,      \* status in each experiment's record; "none": not created
          saved,     \* run_state.json: the status in it, "none" without the file
          savedPaused, savedGoal,  \* ... its paused flag and goal_id
          unwritten, \* history: the newest write or unlink of it failed
          status,    \* researcher._status
          paused,    \* researcher._paused
          task,      \* researcher._task
          at,        \* where the task's coroutine is
          busy,      \* it is running, not suspended
          resumed,   \* the task has a resume_state ...
          resumeAt,  \* ... and found this progress when it began
          delayed,   \* it will start with the courtesy delay
          mine,      \* its experiments
          todo,      \* those of them its list does not show completed
          running,   \* the experiment it is in
          orphan,    \* a task start() replaced has yet to handle its cancellation
          runGoal,   \* history: the goal the task was started for
          disowned,  \* history: an orphan's handler ran after the task was made
          swept,     \* history: a World switch took a newer run's record away
          clicks, crashes, faults

record == <<saved, savedPaused, savedGoal, unwritten, faults>>
files == <<goal, progress, linked, exps, record>>
agent == <<status, paused>>
locals == <<resumed, resumeAt, delayed, mine, todo, running>>
history == <<runGoal, disowned, swept>>
counters == <<clicks, crashes>>
vars == <<up, switching, halted, files, agent, task, at, busy, locals, orphan, history, counters>>

RunStatus == {"idle", "running", "paused", "completed", "error"}
SavedStatus == {"none", "running", "paused", "error", "interrupted"}
TaskState == {"none", "queued", "live", "cancelled", "done"}

\* The suspension points: the courtesy delay, a _wait_if_paused before a
\* phase, the pacing sleep between designs, and an experiment's own awaits.
Gates == {"plan", "design", "source", "run", "report"}
Places == Gates \cup {"start", "delay", "designing", "loop", "exp", "collect", "finish"}

Tenths == 0..10

RecordOK ==
    /\ saved \in SavedStatus /\ savedPaused \in BOOLEAN
    /\ savedGoal \in Goals \cup {NoGoal} /\ unwritten \in BOOLEAN

FilesOK ==
    /\ goal \in Goals \cup {NoGoal}
    /\ progress \in [Goals -> Tenths]
    /\ linked \in [Goals -> SUBSET Exps]
    /\ exps \in [Exps -> {"none", "planning", "in_progress", "completed"}]
    /\ RecordOK

TaskOK ==
    /\ up \in BOOLEAN /\ halted \in BOOLEAN
    /\ status \in RunStatus /\ paused \in BOOLEAN
    /\ task \in TaskState /\ at \in Places /\ busy \in BOOLEAN
    /\ resumed \in BOOLEAN /\ delayed \in BOOLEAN /\ resumeAt \in Tenths
    /\ mine \in SUBSET Exps /\ todo \in SUBSET Exps /\ running \in Exps \cup {NoExp}
    /\ orphan \in BOOLEAN
    /\ runGoal \in Goals \cup {NoGoal} /\ disowned \in BOOLEAN /\ swept \in BOOLEAN
    /\ switching \in {"no", "read", "unlinked"}

CountersOK ==
    /\ clicks \in 0..MaxClicks /\ crashes \in Nat /\ faults \in Nat /\ crashes + faults <= MaxTroubles

TypeOK == FilesOK /\ TaskOK /\ CountersOK

Init ==
    /\ up = TRUE /\ switching = "no" /\ halted = FALSE
    /\ goal = NoGoal
    /\ progress = [g \in Goals |-> 0]
    /\ linked = [g \in Goals |-> {}]
    /\ exps = [e \in Exps |-> "none"]
    /\ saved = "none" /\ savedPaused = FALSE /\ savedGoal = NoGoal
    /\ unwritten = FALSE
    /\ status = "idle" /\ paused = FALSE
    /\ task = "none" /\ at = "start" /\ busy = FALSE
    /\ resumed = FALSE /\ delayed = FALSE /\ resumeAt = 0
    /\ mine = {} /\ todo = {} /\ running = NoExp
    /\ orphan = FALSE
    /\ runGoal = NoGoal /\ disowned = FALSE /\ swept = FALSE
    /\ clicks = 0 /\ crashes = 0 /\ faults = 0

-----------------------------------------------------------------------------
(* Shared parts *)

Holds(s, p, g) == saved' = s /\ savedPaused' = p /\ savedGoal' = g
Gone == Holds("none", FALSE, NoGoal)
Unchanged == Holds(saved, savedPaused, savedGoal)

\* clear_run_state and save_run_state swallow an OSError ...
Works == unwritten' = FALSE /\ UNCHANGED faults
Swallows == crashes + faults < MaxTroubles /\ faults' = faults + 1 /\ unwritten' = TRUE

\* ... the file stays as it was, or, when the write was cut, is torn.
Forget == (Gone /\ Works) \/ (Unchanged /\ Swallows)
Save(s, p, g) == (Holds(s, p, g) /\ Works) \/ ((Unchanged \/ Gone) /\ Swallows)

\* Mutant: only a run that is going is worth taking up.
PersistRunningOnly(s, p, g) == IF s # "running" \/ g = NoGoal THEN Forget ELSE Save(s, p, g)

\* _persist_run_state, with status s, flag p and current goal g
Persist(s, p, g) ==
    IF s \in {"idle", "completed"} \/ g = NoGoal THEN Forget ELSE Save(s, p, g)

Sync == Persist(status, paused, goal)

\* What a coroutine that has not begun, or is over, holds
NoLocals ==
    /\ at' = "start" /\ busy' = FALSE
    /\ resumed' = FALSE /\ delayed' = FALSE /\ resumeAt' = 0
    /\ mine' = {} /\ todo' = {} /\ running' = NoExp

\* start(): r tells a resume from a fresh run, d whether the delay applies, p
\* the paused flag it takes over, g is the current goal.
StartRun(g, r, d, p) ==
    /\ orphan' = (orphan \/ (task \in {"live", "cancelled"} /\ at # "start"))
    /\ paused' = p
    /\ status' = IF p THEN "paused" ELSE "running"
    /\ Persist(status', p, g)
    /\ task' = "queued" /\ at' = "start" /\ busy' = FALSE
    /\ resumed' = r /\ delayed' = d /\ resumeAt' = 0
    /\ mine' = {} /\ todo' = {} /\ running' = NoExp
    /\ runGoal' = g /\ disowned' = FALSE /\ swept' = FALSE

\* stop()
StopRun ==
    /\ task' = IF task \in {"queued", "live"} THEN "cancelled" ELSE task
    /\ status' = "idle" /\ paused' = FALSE
    /\ Forget

\* The coroutine ends.
Ends == task' = "done" /\ NoLocals

\* The CancelledError handler of _run
CancelHandler == status' = "idle" /\ Forget

-----------------------------------------------------------------------------
(* The handlers, each a step of the event loop *)

Loop == up /\ ~busy

\* POST /api/goal, and the confirmation of a swarm preview: set_goal archives
\* the old goal, and starts a run only when none seems to be going.
SetGoal(g, auto, d) ==
    /\ Loop /\ clicks < MaxClicks
    /\ g # goal /\ progress[g] = 0 /\ linked[g] = {} /\ runGoal # g /\ savedGoal # g
    /\ clicks' = clicks + 1
    /\ goal' = g
    /\ IF auto /\ status \in {"idle", "completed", "error"}
         THEN StartRun(g, FALSE, d, FALSE)
         ELSE UNCHANGED <<record, agent, task, at, busy, locals, orphan, history>>
    /\ UNCHANGED <<up, switching, halted, progress, linked, exps, crashes>>

\* POST /api/research/start, with "resume" or without
ResearchStart(resume, d) ==
    /\ Loop /\ clicks < MaxClicks
    /\ goal # NoGoal /\ ~halted
    /\ clicks' = clicks + 1
    /\ LET r == resume /\ saved # "none" IN StartRun(goal, r, d, r /\ savedPaused)
    /\ UNCHANGED <<up, switching, halted, goal, progress, linked, exps, crashes>>

\* POST /api/research/pause, and pause_research of the Buddy edge
Pause ==
    /\ Loop
    /\ paused' = TRUE /\ status' = "paused"
    /\ Persist("paused", TRUE, goal)
    /\ UNCHANGED <<up, switching, halted, goal, progress, linked, exps, task, at, busy, locals,
                   orphan, history, counters>>

TaskGone == task \in {"none", "done"}
Resumable == goal # NoGoal /\ saved \in {"running", "paused", "interrupted"}

\* POST /api/research/resume: a checkpoint without a task is started anew ...
ResumeFromCheckpoint ==
    /\ Loop /\ TaskGone /\ Resumable /\ clicks < MaxClicks
    /\ clicks' = clicks + 1
    /\ StartRun(goal, TRUE, FALSE, FALSE)
    /\ UNCHANGED <<up, switching, halted, goal, progress, linked, exps, crashes>>

\* ... otherwise resume() clears the pause.
Resume ==
    /\ Loop /\ ~(TaskGone /\ Resumable)
    /\ paused' = FALSE /\ status' = "running"
    /\ Persist("running", FALSE, goal)
    /\ UNCHANGED <<up, switching, halted, goal, progress, linked, exps, task, at, busy, locals,
                   orphan, history, counters>>

\* POST /api/research/stop
Stop ==
    /\ Loop
    /\ StopRun
    /\ UNCHANGED <<up, switching, halted, goal, progress, linked, exps, at, busy, locals,
                   orphan, history, counters>>

\* POST /api/research/reset
Reset ==
    /\ Loop
    /\ StopRun
    /\ goal' = NoGoal
    /\ UNCHANGED <<up, switching, halted, progress, linked, exps, at, busy, locals,
                   orphan, history, counters>>

\* POST /api/jobs/halt
Halt ==
    /\ Loop
    /\ halted' = TRUE
    /\ StopRun
    /\ UNCHANGED <<up, switching, goal, progress, linked, exps, at, busy, locals,
                   orphan, history, counters>>

\* POST /api/admin/agents/hold, hold_all of the Buddy edge, POST
\* /api/jobs/resume: the flag and nothing else.
SetHold(h) ==
    /\ Loop
    /\ halted' = h
    /\ UNCHANGED <<up, switching, files, agent, task, at, busy, locals, orphan, history, counters>>

\* Another World is mounted, on a worker thread, in three steps of its own: the
\* switch reads a goal of the old World and archives it ...
SwitchReads ==
    /\ up /\ switching = "no" /\ goal # NoGoal
    /\ switching' = "read"
    /\ UNCHANGED <<up, halted, files, agent, task, at, busy, locals, orphan, history, counters>>

\* ... unlinks current.json, whatever it holds by now; an update the event loop is
\* in the middle of writes the goal back ...
SwitchUnlinks ==
    /\ up /\ switching = "read"
    /\ switching' = "unlinked"
    /\ goal' = NoGoal \/ (busy /\ goal' = goal)
    /\ UNCHANGED <<up, halted, progress, linked, exps, record, agent, task, at, busy, locals,
                   orphan, history, counters>>

\* ... and clears the run record, whosever it is by now, unless that fails or a
\* transition of the run is just writing it. The run is not told.
SwitchForgets ==
    /\ up /\ switching = "unlinked"
    /\ switching' = "no"
    /\ \/ Gone /\ swept' = (swept \/ goal = runGoal) /\ UNCHANGED <<unwritten, faults>>
       \/ UNCHANGED <<record, swept>>
    /\ UNCHANGED <<up, halted, goal, progress, linked, exps, agent, task, at, busy, locals,
                   orphan, runGoal, disowned, counters>>

\* The archive or the unlink raises; _switch_goal_for_world swallows it.
SwitchGivesUp ==
    /\ up /\ switching = "read"
    /\ switching' = "no"
    /\ UNCHANGED <<up, halted, files, agent, task, at, busy, locals, orphan, history, counters>>

WorldSwitch == SwitchReads \/ SwitchUnlinks \/ SwitchForgets \/ SwitchGivesUp

-----------------------------------------------------------------------------
(* The coroutine _run. Between two awaits nothing but a World switch and a   *)
(* crash comes in between.                                                   *)

Turn(p) == up /\ task = "live" /\ at = p

\* A phase starts past its _wait_if_paused.
Passes(p) == Turn(p) /\ ~halted /\ ~paused

Goto(p) == at' = p /\ busy' = TRUE

\* update_progress writes to whatever goal is current then.
Checkpoint(n) ==
    progress' = IF goal = NoGoal THEN progress ELSE [progress EXCEPT ![goal] = n]

PhaseFor(r) == IF r < 3 THEN "plan" ELSE IF r < 5 THEN "source"
               ELSE IF r < 9 THEN "run" ELSE "collect"

\* Mutant: a resumed run always plans anew.
ResumePointAlwaysZero == 0

\* Below 0.3 a resume plans anew; from there on it reloads the experiments.
ResumePoint ==
    IF resumed /\ goal # NoGoal /\ progress[goal] >= 3 THEN progress[goal] ELSE 0

\* Mutants: all are run again; one cut off by a crash counts as done.
UnfinishedAll(S) == S
UnfinishedPlanned(S) == {e \in S : exps[e] = "planning"}

Unfinished(S) == {e \in S : exps[e] # "completed"}

\* Into the first phase that resume point r leaves to do.
Enter(r) ==
    /\ mine' = IF r >= 3 /\ goal # NoGoal THEN linked[goal] ELSE {}
    /\ todo' = Unfinished(mine')
    /\ Goto(PhaseFor(r))

\* The task's first step.
Begin ==
    /\ Loop /\ task = "queued" /\ ~orphan
    /\ task' = "live"
    /\ resumeAt' = ResumePoint
    /\ IF delayed THEN Goto("delay") /\ UNCHANGED <<mine, todo>>
                  ELSE Enter(ResumePoint)
    /\ delayed' = FALSE
    /\ Sync
    /\ UNCHANGED <<up, switching, halted, goal, progress, linked, exps, agent, resumed, running,
                   orphan, history, counters>>

DelaySleeps ==
    /\ Turn("delay") /\ busy /\ ~halted
    /\ busy' = FALSE
    /\ UNCHANGED <<up, switching, halted, files, agent, task, at, locals, orphan, history, counters>>

DelayOver ==
    /\ Turn("delay") /\ ~busy
    /\ Enter(resumeAt)
    /\ Sync
    /\ UNCHANGED <<up, switching, halted, goal, progress, linked, exps, agent, task, resumed,
                   resumeAt, delayed, running, orphan, history, counters>>

\* A hold seen in the delay or before an experiment: the run returns, and
\* run_state.json stays as it is.
ReturnsHeld ==
    /\ Turn("delay") \/ (Turn("loop") /\ todo # {})
    /\ halted
    /\ status' = "idle"
    /\ Ends
    /\ UNCHANGED <<up, switching, halted, files, paused, orphan, history, counters>>

\* Mutant: the hold is looked at before the pause loop only, not inside.
GateCancelsOnce ==
    /\ \E p \in Gates \cup {"exp"} : Turn(p)
    /\ halted /\ busy
    /\ CancelHandler
    /\ Ends
    /\ UNCHANGED <<up, switching, halted, goal, progress, linked, exps, paused,
                   orphan, history, counters>>

\* A hold seen by _wait_if_paused, before a phase or a model call of an
\* experiment: CancelledError.
GateCancels ==
    /\ \E p \in Gates \cup {"exp"} : Turn(p)
    /\ halted
    /\ CancelHandler
    /\ Ends
    /\ UNCHANGED <<up, switching, halted, goal, progress, linked, exps, paused, orphan, history, counters>>

GateParks ==
    /\ \E p \in Gates : Turn(p)
    /\ busy /\ paused /\ ~halted
    /\ busy' = FALSE
    /\ UNCHANGED <<up, switching, halted, files, agent, task, at, locals, orphan, history, counters>>

Plan ==
    /\ Passes("plan")
    /\ Checkpoint(1)
    /\ Sync
    /\ Goto("design")
    /\ UNCHANGED <<up, switching, halted, goal, linked, exps, agent, task, locals, orphan, history,
                   counters>>

\* A plan has a hypothesis at least; the ids of Exps bound the model here.
StartDesigning ==
    /\ Passes("design")
    /\ \E e \in Exps : exps[e] = "none"
    /\ Goto("designing")
    /\ UNCHANGED <<up, switching, halted, files, agent, task, locals, orphan, history, counters>>

\* The tracker creates an experiment, the goal links it, the loop sleeps.
Design(e) ==
    /\ Turn("designing") /\ Cardinality(mine) < ChosenLimit
    /\ exps[e] = "none"
    /\ exps' = [exps EXCEPT ![e] = "planning"]
    /\ linked' = IF goal = NoGoal THEN linked ELSE [linked EXCEPT ![goal] = @ \cup {e}]
    /\ mine' = mine \cup {e}
    /\ todo' = todo \cup {e}
    /\ busy' = FALSE
    /\ UNCHANGED <<up, switching, halted, goal, progress, record, agent, task, at, resumed,
                   resumeAt, delayed, running, orphan, history, counters>>

Designed ==
    /\ Turn("designing") /\ mine # {}
    /\ Checkpoint(3)
    /\ Sync
    /\ Goto("source")
    /\ UNCHANGED <<up, switching, halted, goal, linked, exps, agent, task, locals, orphan, history,
                   counters>>

GatherSources ==
    /\ Passes("source")
    /\ Checkpoint(5)
    /\ Sync
    /\ Goto("run")
    /\ UNCHANGED <<up, switching, halted, goal, linked, exps, agent, task, locals, orphan, history,
                   counters>>

EnterLoop ==
    /\ Passes("run")
    /\ Goto("loop")
    /\ UNCHANGED <<up, switching, halted, files, agent, task, locals, orphan, history, counters>>

StartExperiment(e) ==
    /\ Turn("loop") /\ e \in todo
    /\ ~halted
    /\ exps' = [exps EXCEPT ![e] = "in_progress"]
    /\ running' = e
    /\ Sync
    /\ Goto("exp")
    /\ UNCHANGED <<up, switching, halted, goal, progress, linked, agent, task, resumed, resumeAt,
                   delayed, mine, todo, orphan, history, counters>>

\* A model call on a worker thread, or a pause before one
ExperimentAwaits ==
    /\ Turn("exp") /\ busy
    /\ busy' = FALSE
    /\ UNCHANGED <<up, switching, halted, files, agent, task, at, locals, orphan, history, counters>>

\* Mutant: the finished experiment stays on the list.
CompleteExperimentKeeps ==
    /\ Turn("exp")
    /\ exps' = [exps EXCEPT ![running] = "completed"]
    /\ running' = NoExp
    /\ Goto("loop")
    /\ UNCHANGED <<up, switching, halted, goal, progress, linked, record, agent, task, resumed,
                   resumeAt, delayed, mine, todo, orphan, history, counters>>

CompleteExperiment ==
    /\ Turn("exp")
    /\ exps' = [exps EXCEPT ![running] = "completed"]
    /\ todo' = todo \ {running}
    /\ running' = NoExp
    /\ Goto("loop")
    /\ UNCHANGED <<up, switching, halted, goal, progress, linked, record, agent, task, resumed,
                   resumeAt, delayed, mine, orphan, history, counters>>

LoopDone ==
    /\ Turn("loop") /\ todo = {}
    /\ Checkpoint(7)
    /\ Sync
    /\ Goto("collect")
    /\ UNCHANGED <<up, switching, halted, goal, linked, exps, agent, task, locals, orphan, history,
                   counters>>

Collect ==
    /\ Turn("collect")
    /\ Checkpoint(9)
    /\ Goto("report")
    /\ UNCHANGED <<up, switching, halted, goal, linked, exps, record, agent, task, locals, orphan,
                   history, counters>>

\* The report goes into current.json and the knowledge base.
Report ==
    /\ Passes("report")
    /\ Checkpoint(10)
    /\ Sync
    /\ Goto("finish")
    /\ UNCHANGED <<up, switching, halted, goal, linked, exps, agent, task, locals, orphan, history,
                   counters>>

Finish ==
    /\ Turn("finish")
    /\ status' = "completed"
    /\ Forget
    /\ Ends
    /\ UNCHANGED <<up, switching, halted, goal, progress, linked, exps, paused, orphan,
                   history, counters>>

\* Any other exception in the coroutine, a write of current.json that fails and
\* may leave it torn among them; run_experiment swallows its own.
Fails ==
    /\ up /\ task = "live" /\ busy
    /\ status' = "error"
    /\ goal' \in {goal, NoGoal}
    /\ Persist("error", paused, goal')
    /\ Ends
    /\ UNCHANGED <<up, switching, halted, progress, linked, exps, paused, orphan, history, counters>>

\* stop() reaches the task at its await; one that never began has no handler.
CancelReaches ==
    /\ Loop /\ task = "cancelled"
    /\ IF at = "start" THEN UNCHANGED <<status, record>> ELSE CancelHandler
    /\ Ends
    /\ UNCHANGED <<up, switching, halted, goal, progress, linked, exps, paused, orphan,
                   history, counters>>

\* The same for a task start() replaced. asyncio wakes it before it runs the
\* first step of the new one (Begin).
OrphanCancelled ==
    /\ Loop /\ orphan
    /\ CancelHandler
    /\ orphan' = FALSE
    /\ disowned' = TRUE
    /\ UNCHANGED <<up, switching, halted, goal, progress, linked, exps, paused, task, at, busy,
                   locals, runGoal, swept, counters>>

-----------------------------------------------------------------------------
(* The process *)

\* `torn' is the file that was being written.
Crash(torn) ==
    /\ up /\ crashes + faults < MaxTroubles
    /\ up' = FALSE /\ switching' = "no"
    /\ crashes' = crashes + 1
    /\ goal' = IF torn = "current" THEN NoGoal ELSE goal
    /\ IF torn = "run_state" THEN Gone ELSE Unchanged
    /\ unwritten' = FALSE /\ UNCHANGED faults
    /\ status' = "idle" /\ paused' = FALSE
    /\ task' = "none" /\ NoLocals
    /\ orphan' = FALSE
    /\ runGoal' = NoGoal /\ disowned' = FALSE /\ swept' = FALSE
    /\ UNCHANGED <<halted, progress, linked, exps, clicks>>

Interrupted == goal # NoGoal /\ saved \in {"running", "paused"} /\ progress[goal] < 10

\* _reconcile_interrupted_research, at boot
Restart(d) ==
    /\ ~up
    /\ up' = TRUE
    /\ IF Interrupted /\ ~halted
         THEN StartRun(goal, TRUE, d, savedPaused)
         ELSE /\ IF Interrupted THEN Save("interrupted", savedPaused, savedGoal) ELSE UNCHANGED record
              /\ UNCHANGED <<agent, task, at, busy, locals, orphan, history>>
    /\ UNCHANGED <<switching, halted, goal, progress, linked, exps, counters>>

-----------------------------------------------------------------------------
Handlers ==
    \/ \E g \in Goals, auto, d \in BOOLEAN : SetGoal(g, auto, d)
    \/ \E resume, d \in BOOLEAN : ResearchStart(resume, d)
    \/ Pause \/ ResumeFromCheckpoint \/ Resume \/ Stop \/ Reset \/ Halt
    \/ \E h \in BOOLEAN : SetHold(h)
    \/ WorldSwitch

\* What the event loop does by itself with the tasks it has
RunStep ==
    \/ Begin \/ DelaySleeps \/ DelayOver \/ ReturnsHeld \/ GateCancels \/ GateParks
    \/ Plan \/ StartDesigning \/ Designed \/ GatherSources
    \/ EnterLoop \/ ExperimentAwaits \/ CompleteExperiment \/ LoopDone
    \/ \E e \in Exps : Design(e) \/ StartExperiment(e)
    \/ Collect \/ Report \/ Finish \/ Fails
    \/ CancelReaches \/ OrphanCancelled

Next ==
    \/ Handlers
    \/ RunStep
    \/ \E torn \in {"nothing", "current", "run_state"} : Crash(torn)
    \/ \E d \in BOOLEAN : Restart(d)

Spec == Init /\ [][Next]_vars

\* The loop keeps running its ready tasks; sleeps and model calls return (the
\* router has timeouts). Nobody has to click anything.
FairSpec == Spec /\ WF_vars(RunStep)

-----------------------------------------------------------------------------
(* Properties *)

\* "Idempotent re-entry: never re-run finished work" (researcher.py:1291):
\* over crashes, resumes, restarts and replaced runs a completed experiment
\* keeps its record. The list a run works from is a copy of the disk's.
FinishedStaysFinished ==
    [][\A e \in Exps : exps[e] = "completed" => exps'[e] = "completed"]_vars

\* A run taken up at a checkpoint never takes its goal's progress back; only
\* a run planned anew does, and one resumed over a finished goal, which writes
\* its report again.
ResumeKeepsProgress ==
    [][\A g \in Goals : progress'[g] < progress[g] => ~resumed \/ progress[g] = 10]_vars

\* A report is written over finished experiments only, in every run that went
\* through the experiment loop itself.
ReportIsFinished ==
    task = "live" /\ at \in {"collect", "report", "finish"} /\ resumeAt < 9
        => \A e \in mine : exps[e] = "completed"

\* The comment on step 5 (researcher.py:1329-1330) says that the report's
\* experiments are the finished records. A run that resumes at 0.9 skips the
\* loop and reports whatever is linked.
ReportsFinishedWorkOnly ==
    task = "live" /\ at \in {"report", "finish"} => \A e \in mine : exps[e] = "completed"

Suspended == up /\ task = "live" /\ ~busy

\* docs/persistence.md:56: the run state is persisted on every transition. A
\* run waiting in an await, on its own goal, is on disk as a run to take up.
LiveRunIsRecorded ==
    Suspended /\ goal # NoGoal /\ goal = runGoal
        => saved \in {"running", "paused"} /\ savedGoal = goal

\* It is, but for two races: a run it replaced died after it was made, or a World
\* switch that had read the goal before its own cleared the record after it began;
\* and while its newest record could not be written, until the next one is.
RecordedUnlessDisowned == ~disowned /\ ~swept /\ ~unwritten => LiveRunIsRecorded

\* CHANGELOG.md:469, "Resume revives dead tasks": a researcher that says it
\* is running has a task.
RunningHasATask == up /\ status = "running" => ~TaskGone

\* goals.py:77: set_goal makes a new active goal and archives the previous one;
\* what a run finds out goes to the goal it was started for.
WorksForItsGoal ==
    [][\A g \in Goals : progress'[g] > progress[g] => g = runGoal]_vars

\* Nothing but a pause keeps a run waiting.
RunsDoNotHang == ~TaskGone ~> TaskGone \/ ~up \/ (paused /\ ~halted)

\* A hold that is not lifted ends the run, wherever it is: no run waits out a
\* hold in a pause, a delay or the experiments.
HoldEndsTheRun == halted /\ task = "live" ~> ~halted \/ task # "live"
=============================================================================
