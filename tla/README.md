# Specifications of ARAIL

TLA+ models of the parts of ARAIL (`src/src/arail`) in which order, failure and
concurrency matter: the hold switch, the approvals ledger of the Buddy edge, the
researcher's run, the chat transcript, the inference slot, the phone's daily
budget, the agents' model calls with their traces, the deep verdict, the approval
manifest of the compiled knowledge base, and the mounting of Worlds. Paths below are
relative to `src/src/arail` unless they begin with `docs/`.

## 1. The system

ARAIL is a single-user research lab. One Python process, the *portal*
(FastAPI on one asyncio event loop), serves the web pages, runs the agents and
calls language models through a router. A second listener of the same process, the
*Buddy edge*, serves a paired phone. State lives in JSON, JSONL, Markdown
and SQLite files under the data directory; the process may be killed at any time.

Four kinds of concurrency occur, and each model says which of them it has:

- coroutines of the event loop, interleaved at awaits only;
- worker threads (`asyncio.to_thread`, the stream iterator), interleaved anywhere;
- other processes on the same files: the command line, `deep probe`, a second lab;
- the process with its own next incarnation, through what it left on disk.

### Inventory

| Component | State | Operations | Hard behaviour | Correct when | Module |
|---|---|---|---|---|---|
| Hold switch (`scheduler.py`) | `_halted`, `_halt_loaded`, `_halt_load_failed`; `halt.json` | hold, resume, read | rewriting in place, swallowed `OSError`, crash, lazy first read | a hold is refused on until a resume; a resume is final | `HoldSwitch` |
| Pause approvals (`buddy_host/ledger.py`, `portal/host_edge_routes.py`) | SQLite rows `executing`/`done` with outcome, nonce, digest | lookup, begin, pause, finish, reply | retries by the phone, crash or error between any two statements | at most one pause per approval; one unchanging answer | `ApprovalOnce`, `PauseApproval` |
| Researcher (`agents/researcher.py`, `goals.py`, `portal/app.py`) | `_status`, `_paused`, `_task`; `current.json`, `run_state.json`, experiment records | set goal, start, pause, resume, stop, reset, hold; phases of a run; boot reconciliation | clicks between awaits, a replaced task, a hold anywhere, crash and resume from three files, World switch on a thread | finished work is kept, nothing hangs, a hold ends it, it can be taken up again | `ResearchRun` |
| Chat transcript (`chat/conversations.py`) | `transcript.jsonl`, `meta.json`; live generators | start, complete, fail a turn, delete, fold, sweep | sweep thread beside live turns, cut appends, a client that goes away | acknowledged records survive, answers stand, no orphans | `ChatTranscript` |
| Inference slot (`portal/scheduler.py`) | semaphore, `_PENDING`, `_INFLIGHT`, worker threads | enter, wait, time out, leave, be cancelled | cancellation and time-out at the moment of being woken; threads outlive callers | no slot lost, no lost wake-up, honest gauges | `InferenceSlot` |
| Phone chat and budget (`buddy_host/budget.py`, `portal/host_edge_routes.py`, `router/core.py`) | `Budget` in memory, `budget.json` | admit, claim a turn, hold gate, count tokens, restart | checks made before a wait, failed writes, hung backends | the caps of the day hold, the phone hears something | `PhoneChat` |
| Edge admission and link (`buddy_host/admission.py`, `link.py`) | pairing file | authenticate, validate | one request at a time | – | planned (link) |
| Model calls and traces (`agents/deep_policy.py`, `router/core.py`, `agent_context.py`, `agent_trace.py`, `jsonl_purge.py`, `costs.py`) | hold flag, in-flight counter, ring, `agent_traces.jsonl` and `.1`, `flight_recorder.json` | decide, gate, enter, answer, break, trace, hold, resume, record on or off, purge | a hold, a switch or a purge between any two steps of a call; failed writes; the log put aside | one call at most after a hold, an exact count, one trace per call, words only where agreed | `ModelCalls` |
| Deep verdict (`deep_verdict.py`, `deep_probe.py`) | `verdict.json`, `_P.mem`, `verdict.lock`, `probe.lock` | note a failure, probe, record, read | several labs and a probe, writes refused, stamps read before the lock, a clock set back | a failure stands until a later probe passes; a pass lifts it | `DeepVerdict` |
| Approval manifest (`compiled_kb.py`) | `approved.json`, `rejected.json`, `unapproved.json` | approve, dismiss, revoke, mount, bootstrap, prune, roll back | three files read and rewritten with no lock by the loop, a thread and a process | what the operator said stays said | `CompiledKB` |
| Worlds (`world_mount.py`, `portal/world_routes.py`, `portal/app.py`) | catalog, staged copies, mount record, sidecars, approvals, goal | select, confirm, delete, edit, grow, mount, swap, unmount | eleven steps, any of which fails or is cut; shared temporary names; four actors | a mount heals, an unmount clears, a switch is refused | `WorldMount` |
| Sleep window and job daemons (`scheduler.py`, `agents/job_daemon.py`, `agents/dream_daemon.py`) | window, time override, next run | tick, override, run | override expiring, hold during a job | no job in the window or under a hold | planned |
| Model warmth and loading (`portal/model_warmth.py`, `models_api.py`) | load lock, warm flag | load, warm, evict | a lock taken inside the slot | no deadlock with the slot | planned |
| Knowledge base (`pkb*.py`, `vector_index.py`) | files and index | add, re-embed, publish | the publish of a rebuilt index | readers see one index | planned |
| Registry, capabilities, forge, nucleus, wiki, document generation, templates, scripts | tables and generated files | – | – | – | not modelled: pure functions of their input, batch programs or presentation |

`PROJECT.json` lists all of them with their sources, and the hazards that matter most at their lines;
section 5 has the smaller ones.

### How the parts interact

- The **hold switch** is read by the researcher's gates, by the router before each
  agent call, by the Buddy edge before it acts. `ResearchRun` and `PhoneChat` have it
  as one flag (`halted`, `held`), `PauseApproval` as the three-valued hold view;
  `HoldSwitch` says what a restart can do to it.
- The **Buddy edge** pauses the **researcher** (`PauseApproval` calls `pause()`, which
  is `Pause` in `ResearchRun`) and asks the model through the **inference slot**
  (`PhoneChat` extends `InferenceSlot`), which it shares with the chat's streams.
- The **chat** writes the transcript around a stream; the stream holds the slot.
- A **World** switch archives the goal a run may be working on, and clears a run record that may by
  then be another run's (`WorldSwitch`); in
  `WorldMount` that is the step `SwitchGoal`, and the step `Approve` is what `CompiledKB`
  opens up file by file (its operation `mount`).
- Every **agent call** goes through the router (`ModelCalls`), which reads the hold
  switch; the calls that are let in run inside the slot or beside it. Whether the deep model is
  tried at all is the **deep verdict**, whose failures those calls note.

## 2. The modules

### HoldSwitch

One process, any threads. Each public function of `scheduler.py` takes
`_halt_lock`, so the memory part of a command is one step (`Hold`, `Resume`); the
file part is not, because `write_text` truncates first: `Truncate`, then
`WriteRecord`, with `Crash` or `PersistFails` (the swallowed `OSError`) in between.
`busy` is the command inside the lock. `LoadedHalted` and `LoadedFailed` are the lazy
load every command and read begins with; `ReadFails` is that load raising where the code
catches it, `StatFails` where it does not: `_halt_loaded` is set before `path.exists()`, which is
outside the `try`, so an error of the stat leaves a process that takes the file for absent and does not know
of a failed load. `EdgeKeepsTheHold` leaves that process out (`unseen`): its edge is open until the next command.
`JobsHalted` is what agents ask; `EdgeHeld` is what the Buddy edge asks, and it also
counts a failed load as held. `wantHeld`, `released`, `unsaved` and `unseen` are history. `up` is declared in
`Portal`, because the handler of `PauseApproval` lives in the same process; the switch's own state machine is
`SwitchInit`, `SwitchNext`, `SwitchSpec`, so that both modules can be extended together.

### ApprovalOnce and PauseApproval

`ApprovalOnce` is the promise alone: per approval an answer that goes from `open` to
`acting` to one outcome for good, and at most one pause, with an outcome that does
not claim what did not happen. `PauseApproval` is the handler
`_core_pause_research`, cut where a crash or an exception can come: `Accept` or
`Replay` (lookup and checks), `Begin` (the committed INSERT), `Act`
(`researcher.pause()`), `Finish` (the committed UPDATE), `Reply`; `Raises` and
`ActRaises` are the exceptions. It has no await, so requests do not interleave inside
it. The ledger's columns are functions of the approval id. A body stands for its
SHA-256 digest. `ImplementsPromise` is the refinement, with the ledger row read as
the promise's answer.

### ResearchRun

One coroutine `_run` and the HTTP handlers around it. `at` is the suspension point or
phase, `busy` says that the coroutine is between two awaits, when no handler can run
(`Loop == up /\ ~busy`); a World switch, which runs on a thread, and a crash can come
even then. The switch itself is three steps (`SwitchReads`, `SwitchUnlinks`, `SwitchForgets`; `SwitchGivesUp` is
the exception `_switch_goal_for_world` swallows), so a goal may be set and a run begun between them, whose
record the last step then takes away (`swept`). `StartRun` replaces a task that is still alive: its cancellation is
delivered later (`orphan`, `OrphanCancelled`), which is why the record of the new run
can be wiped. Every gate (`_wait_if_paused`) is three steps: pass, park on a pause,
cancel on a hold. Progress is in tenths, as `current.json` has it, and decides at a
resume which phase is next (`ResumePoint`, `PhaseFor`). `Crash(torn)` may leave the
file being written unreadable; `Restart` is boot reconciliation. What the phases
compute (plans, sources, text) is left out; an experiment's awaits are one repeated
step. A checkpoint reads and writes `current.json`
in one step here; that a switch's unlink may fall inside it is the `busy` disjunct of `SwitchUnlinks`. A write or unlink of
`run_state.json` that raises is swallowed (`Swallows`): the file stays as it was or is torn, and `unwritten` says so until
the next one works; a write of `current.json` that raises is the run's error (`Fails`).

### ChatTranscript

One conversation, its lines as a sequence of records. An append that is cut leaves
nothing, a line that does not parse (`Bad`), one that is not UTF-8 (`Torn`), or the
whole line without its newline (`whole = FALSE`); the next append goes on that line
(`With`). `Records`, `Readable` and `Status` are `fold`. The handler writes
a turn's first event before the stream and its last one after it; a client that goes
away (`Closed`) ends it without a record. The boot sweep runs in a thread while the portal
serves, step by step: it folds, appends an event for an orphan, reads `meta.json`, and rewrites it, which can
make a deleted conversation's directory and `meta.json` again (`overtaken`). There is no `try` for each conversation
in `sweep_orphans`: another one that cannot be read or written ends the whole sweep before it came here
(`SweepStopsElsewhere`), and this one too if an append or a rewrite raises; `sound` says that neither
happened. `rmtree` of a `DELETE` may fail. Of `meta.json` the model keeps whether it can be
read; two rewrites that overlap count as one after the other. Text
and deltas are left out: no progress record is written by the code.

### InferenceSlot

`inference_slot` with the semaphore of asyncio (Python 3.12; external, modelled by
what it does): `free`, the first-come `queue`, and callers that have been woken
and have not run yet (`granted`). `TimesOut` and `CancelledWaiting` may hit a
caller that is `granted`, in which case the slot goes to the next one (`Back`,
`Wake`). A caller's model call runs in `thread`, which a cancelled stream leaves
behind. `pending` and `inflight` are the gauges.

### PhoneChat

Extends `InferenceSlot` with the phones: `Admit` or `Refuse` (checks that
count nothing), the slot, `claim_turn` in the same step as the acquisition, as in the
code where no await lies between, the hold gate at the router's chokepoint in the worker
thread, the answer, `add_tokens` before the slot is left. `Persist` writes `budget.json`
whole or not at all; `Restart` reads it back, or starts from zero when the read raises or does not parse, which
is a fault of its own. `reported` counts the tokens of all answers of the day, over every process, `forgotten` those
no later budget knows of, and the caps are stated of these and not of the counter in memory. Other callers (`ChatStep`) are the chat.

### ModelCalls

Threads (`Callers`, some of them agents) and the operator's commands. A decision is up to
three tries (`stage`: the deep model, a stream of the fast one, its plain completion),
`After` says what may follow what; each try is a call with a number. `at` is where the thread is:
before the gate, admitted but not yet counted, in the backend, or with a record that is in the ring
and not on disk. `Abandons` is a stream whose reader goes away, or that ends without an answer: the
count comes down and no record is made (`silent`). The cuts are those another thread can see: the hold may change between the
gate and the count, the log may be purged between the ring and the disk. The three ways a call
ends differ in when the count comes down (`Counted`): a plain answer before its record, a
stream and a broken call after it. `TrackFails` is `costs.json` not being writable.
`Append` may put the log aside first; the code does it at 5 MB, the model when it likes. A write that is
cut, by a full disk or a crash, leaves half a line with its words (`broken`, `open`), and the next record goes on that
line. The
purge reads a file, replaces it, goes to the next, and empties the ring last, if all went well.
The backend's answer and the prompt are one bit, whether the record has its bodies.
The operator's commands run on the event loop, so a purge is not overlapped by another command.

### DeepVerdict

Labs (processes) that loaded one build each, and one probe at a time. A failure is stamped
(`CallFails`) and noted later (`NoteSaved`, `NoteKept`), because the stamp is read before the
lock. What is done under `verdict.lock` ends in a rename and is one step. `Verdict` and
`Failing` are what a lab reads. `UpdateFails` has both ways to fail, before and after an
unreadable file was moved aside. `Slack` is `CLOCK_SLACK_S` in ticks, so a stamp may be
ahead of a clock set back by less than it or by more. A probe reads the clock (`BeginProbe`) before it takes its lock
(`TakeProbeLock`). Failures are numbered only in history variables: `standing` (noted, not answered by a later probe),
`blurred` (the stamps no longer tell them from earlier ones: `Blurs`, `Early`, `Misdated`),
`clear` (builds whose last pass nothing came after).

### CompiledKB

Three files, each read whole and replaced whole, without a lock. `Script` lists the accesses of each
operation in the code's order, and each access is a step, a save two: it writes a temporary copy whose
name all writers share, and renames it, so two writers at once can publish a torn file or find theirs gone. A
reading that fails gives an empty file, which the operation then writes back; a torn file is taken for an empty one. The actors are the portal's handlers
(one at a time, on the loop), a mount or swap (a worker thread), the command line (a process).
`Pick` and `Candidates` are `auto_approve_world_terms`; `DropDangling` looks at the files as they are.
A crash leaves what was written. `verdict` is the last thing the operator was told about a path and
`firm` the paths of which it was told while nothing else ran, until
the very file the verdict rests on is misread or torn.

### WorldMount

A job of an actor is a list of steps (`Script`), one change on disk each. The four actors
are the portal's handlers, the term editor and the grower (both call `swap` in a thread),
and the command line. Every step can be followed by a crash. The renames can fail (`RenameFails`,
with the roll-back of the code) and so can the record (`WriteRecord`); the steps in `Forgiven` log their failure and
the operation goes on and reports success, so its job keeps which of them `missed`, and the properties say
what is in order apart from those. `Approve` also misses where the approvals are opted out of or every term
was dismissed or revoked. `bring` is a command-line mount of a bundle outside the catalog, which
then replaces the World's entry there. Versions tell a bundle from a
later one of the same World; `Verify` is the check of the seal, which what comes later may no longer fit.
`settled` is the last operation that ended well with nothing beside it. Staged terms, pages and indexes are
a version; approvals are one bit per World.

## 3. The runs

Runs that pass:

| Run | Question | Instance | States |
|---|---|---|---|
| `hold_switch` | what the switch keeps over crashes, torn files and failed writes | 4 commands, 3 crashes, 2 faults | about 2 thousand |
| `pause_approval` | at most one pause, honest and equal answers, the refinement | 2 approvals, 2 nonces, 7 bodies, clock 0..2 | 264 thousand |
| `research_run` | safety of runs under every click order | 2 goals, 2 experiments, 2 clicks that start or set, 1 crash or failed write of the record, symmetric | 3 million |
| `research_live` | a hold ends a run; only a pause waits for ever | 1 goal, 2 experiments, 2 clicks, no crash | 160 thousand |
| `chat_transcript` | damage, orphans, answers, deletion | 2 turns, 2 crashes, 1 fault, symmetric | 244 thousand |
| `slot` | slots, wake-ups, gauges, service | 3 streams and 2 plain callers, 2 slots | 29 thousand |
| `phone_chat` | caps of the day, an answer to the phone | 3 phones and 1 stream, 1 slot, 2 turns, 1 token, 1 crash, 1 fault | 242 thousand |
| `model_calls` | one entry per hold, exact count, one trace, agreed words, purges | an agent and the lab, 3 calls, 2 commands, 1 failure, rotation, crash or stream cut short | 6.9 million |
| `deep_verdict` | failures stand, passes lift | 2 labs, 2 builds, 2 failures, 2 probes, 3 ticks, a slack of 1, 2 troubles, symmetric | 2.1 million |
| `compiled_kb` | what the operator said stays said | a term and a note, 4 operations of which 2 overlap, 1 crash, 1 failed reading or write | 5.9 million |
| `world_mount` | mounts heal, unmounts clear, switches need a race | 2 Worlds, 3 operations, no more than one pair of which overlaps, 1 failure or crash, a bundle brought in | 3.1 million |

Why the bounds are enough to be of interest:

- *HoldSwitch*: a bad history needs a hold, a second command that is cut, a restart
  and a reader; four commands, three crashes and two faults leave room for two of those.
- *PauseApproval*: the seven bodies are chosen so that each check of the handler
  is the only one to refuse some body; retries, replays and crashes are unbounded.
- *ResearchRun*: two clicks are a run and the one that replaces it; pause, resume
  without a checkpoint, stop, reset, hold and World switch are not bounded. Two
  experiments are one finished and one cut off. The liveness run has one goal and no
  crash: a second goal adds no suspension point, and what comes after a crash is a run begun anew, as the first one is.
- *ChatTranscript*: two turns are a live one and an old one; two crashes are a cut and a
  crash during the repair.
- *InferenceSlot*: five callers on two slots give a queue of three, so a caller can be
  woken, cancelled, and have somebody behind it, with another holder still in.
- *PhoneChat*: three phones are one more than the cap of turns; the token cap of one
  makes one answer enough to spend it.

- *ModelCalls*: three calls are a whole decision with both its fall-backs, or two decisions
  beside each other; two commands are a hold and its resume, or the recorder off and a purge.
  Two purges, or a purge under a hold with a crash, are beyond this instance: the
  theorems are about any number of each.
- *DeepVerdict*: two failures and two probes are the least that lets stamps be written in the wrong
  order around a probe and answered by the next; three ticks put a failure before,
  during and after it, and with a slack of one tick put a stamp ahead of a clock set back within and beyond it.
- *CompiledKB*: four operations are a click, its opposite, and two automatic ones
  between or across them; one term and one note are enough because no operation relates two paths.
- *WorldMount*: a World in place, one that replaces it, and an operation that repairs; every
  violation met while modelling had two operations and one fault.

The counters of commands, calls, operations, crashes and failures, the versions of a bundle and the
clock of `DeepVerdict` are the only bounds in the guards; each is a constant of its module.

### Fairness

- `ResearchRun!FairSpec`: weak fairness of `RunStep`, one step of whichever task is
  ready: the event loop runs ready tasks, sleeps end, model calls return (the router has
  time-outs). No click is fair.
- `InferenceSlot!FairSlotSpec`: a woken caller runs, a backend call ends, its caller
  leaves. Time-outs are not assumed: service must not rely on them.
- `PhoneChat!FairSpec`: an admitted question's task runs and its timer fires. Nothing is
  assumed of backends: `PhoneHears` holds although every other call hangs.

### Statements the code does not keep

The listed run `kb_rollback` checks one sentence and finds a behaviour against it:
`compiled_kb.py:468` calls an automatic approval "distinguishable and separately revocable from an
operator's own click". A mount of the World skips the dismissed and the revoked terms but not
the approved ones, so it turns the record of a term the operator approved into an automatic
one, and `arailctl pkb revoke --auto` then takes the operator's approval out
(`RollbackSparesClicks`).

Further statements are defined in the modules and have a configuration of their own, for
whoever works on that code: `tlc -config <cfg> <module>` finds each of them violated.

| Configuration (module) | Property | Sentence | What happens |
|---|---|---|---|
| `HoldSwitch_promise.cfg` (`HoldSwitch`) | `HoldSurvivesRestart` | `scheduler.py:216`: the hold lasts until an explicit resume, across crashes | a second hold empties `halt.json` and the process dies: the next one is not held (the Buddy edge still refuses: `EdgeKeepsTheHold`) |
| `ResearchRun_recorded.cfg` (`ResearchRun`) | `LiveRunIsRecorded` | `docs/persistence.md:56`: run state is persisted on every transition | the handler of a replaced task clears the new run's record; `RecordedUnlessDisowned` says that this, a World switch begun before the run, and a failed write until the next one are the only ways |
| `InferenceSlot_calls.cfg` (`InferenceSlot`) | `CallsWithinCapacity` | `docs/PUBLISH.md:197`: the semaphore limits concurrent model calls | a stream's client goes away, the slot is released, the thread calls on |
| `ChatTranscript_immutable.cfg` (`ChatTranscript`) | `CompletedIsImmutable` | `docs/conversation-memory.md:83`: `turn.completed` is immutable | the boot sweep folds, the turn completes, the sweep records it interrupted; `AnswerStands` bounds it to that |
| `ChatTranscript_badline.cfg` (`ChatTranscript`) | `OneBadLineNeverEatsTheLog` | `chat/conversations.py:18` | a line cut inside a character makes `fold` raise for the whole file |
| `ResearchRun_resume.cfg` (`ResearchRun`) | `RunningHasATask` | `CHANGELOG.md:469` | a resume after the end of a run says `running` without a task |
| `ResearchRun_goal.cfg` (`ResearchRun`) | `WorksForItsGoal` | `goals.py:77` | a goal set while a run is live gets that run's progress |
| `ResearchRun_report.cfg` (`ResearchRun`) | `ReportsFinishedWorkOnly` | `agents/researcher.py:1329` | a run planned anew at 0.9 and cut off resumes past its experiments; `ReportIsFinished` is what holds |
| `ChatTranscript_sweep.cfg` (`ChatTranscript`) | `SweepLeavesNoOrphans` | `chat/conversations.py:17` | what the sweep appends to a line without newline is lost with it |
| `ChatTranscript_one.cfg` (`ChatTranscript`) | `OneInFlight` | `docs/conversation-memory.md:79` | two requests start two turns |
| `ChatTranscript_forgotten.cfg` (`ChatTranscript`) | `ForgottenStaysForgotten` | – | the end of a turn makes a deleted directory again; `DeletedStaysHidden` says when the API does not show it |
| `WorldMount_failure.cfg` (`WorldMount`) | `OldWorldStays` | `world_mount.py:1657`: "Old world stays on failure." | the other Worlds are swept before the record is written; when that write fails the record names a World without files. `MountHeals` says that the next mount repairs it |
| `ModelCalls_purge.cfg` (`ModelCalls`) | `PurgeKeepsLines` | `jsonl_purge.py:13`: "the exact line count never changes" | a call appends its trace between the copy and the rename |
| `DeepVerdict_order.cfg` (`DeepVerdict`) | `NoneClearedDuringItsProbe` | `deep_verdict.py:19`: a pass clears no failure that could have landed while it ran | two failures are noted in the other order of their stamps, `_bump_failure` lowers `last_ts` to before the probe |
| `DeepVerdict_ahead.cfg` (`DeepVerdict`) | `SameRule` | `deep_verdict.py:1138`: the read applies the same rule as the probe's write | a failure kept in memory with a stamp ahead of a clock set back by more than the slack is not lifted; a saved one is |

Met while modelling, without a run: the sweep "preserves partial text"
(`docs/persistence.md:73`) but no progress record is ever written; `held_by_other`
(`router/core.py:174`) is true for every Buddy call, as its own slot is counted
(`InflightIsHonest`); `bootstrap` "always writes the manifest" (`compiled_kb.py:752`), but not when
a World with terms is staged and none of them qualifies; a purge passes lines it cannot parse as they are and still reports
success (`jsonl_purge.py:72`; `PurgedStaysPurged` speaks of lines that can be parsed); a purge that is overtaken by
the log's rotation reports success over words that moved into the file it had done; the
result of a probe that cannot be written is kept nowhere.

## 4. What is proved

TLAPS checks these for every value of the constants, from the named `ASSUME`s of the
modules (bounds are naturals, the clock's and the versions' at least one; `NoGoal`, `NoExp`, `NoBody`,
`NoTurn`, `NoWorld` are not goals, experiments, bodies, turns, Worlds; a body is a record of the stated
shape; a plan has a limit of at least one; phones are callers that are no streams; no lab is called
`probe`). Every safety property of a passing run is proved; so are the type invariants.

**`BuddyEdgeProofs`**, the hold switch and the approvals, whose models share the variable `up` of
`Portal`. Of the switch: `SwitchTypeCorrect`, `EdgeSafety`, `ResumeSafety`, `ReleaseOnlyByResume`,
`TornIsKnown`.
`EdgeKeepsTheHold` speaks of settled states only, so it is not inductive: while a
command is under way, or before the first read, it says nothing. `HoldInv` adds `BusyInv`
(a command under way belongs to a living process and has set the memory it is about
to save), `HeldInv` (a hold that was saved leaves some file, whole or torn, and who
loads it is held, knows of a failed load, or could not even look for the file) and `ReleasedInv` (after a saved resume the file is absent and
memory agrees). The counters are a lemma of their own (`HoldCounters`).

Of the approvals: `TypeCorrect`, `PauseAtMostOnce`, `NothingUnrecorded`,
`HonestOutcomes`, `PauseRespectsHold`, `RepliesStand`, `RowsStaySound`, `Refinement`. `HandlerInv` says what the handler
knows at each place (its row is `executing` between `Begin` and `Finish`, no pause was
made and the hold is free before the act, the result tells whether it was made after it), `LedgerInv` what each row says about its
pauses: none without a row, at most one while `executing`, exactly as the outcome says once
`done`. The refinement then has one step per action: `Begin` is `Take`, an `Act`
that pauses is `Pause`, `Finish` and the first replay of a row left `executing` are
`Settle`, and all else stutters. `BodyInv` adds what the handler knows of the request it serves
(checked before `Begin`, recorded after it), from which `RepliesStand` and `RowsStaySound` follow.

Of both: `StandingHoldStopsPauses`. When the hold view of the handler is the switch's
(`ViewIsTheSwitch`: `_hold_view` asks the two functions of the same process), no step pauses the
research while a saved hold stands, across any crash. It combines `PauseRespectsHold` with `EdgeSafety`. The
hypothesis also says that no hold is completed by another thread inside the handler; a hold that
comes then is as good as one that comes after it.

**`ResearchRunProofs`**: `TypeCorrect`, `ReportSafety`, `FinishedWorkIsKept`, `RecordSafety`,
`ProgressIsKept`. `WorkInv` says
that of the run's experiments exactly those on its list are unfinished, that the one it
is in is on the list, and that past the loop, unless the run resumed at 0.9 or
later, the list is empty. It holds across crashes because the list is always
rebuilt from the records (`Enter`). The steps are grouped in lemmas by what they do
(starting handlers, moving, checkpoints, experiments, ends). `RecordInv` is stronger than
`LiveRunIsRecorded` in two ways, which makes it inductive: it holds between awaits too, and it says
that the agent's status agrees with the record, since every `Sync` writes that status. It is
stated of a task that no orphan has disowned and whose record no World switch that had begun before has
swept; what it says of the file, of a file whose newest write worked. `ProgressInv` compares the goal's
progress with the tenth that a run at its place will record next (`Ahead`), also in the
courtesy delay, where the place is the one it will go to.

**`InferenceSlotProofs`**: `SlotTypeCorrect`, `SlotsAreConserved`, `WakeUpsAreKept`,
`InflightIsCounted`, `PendingIsAccounted`, for any finite set of callers and a capacity
of 1 to 4. `QueueInv` says that the queue is the callers that wait, each once: so a caller that
gives up is taken out at one index and the woken ones are as many as the slots handed
out, which is what keeps the sum. `CallerInv` says that nobody has a thread before an
acquisition. Five of the eight actions wake others; `WakeStep` proves them together,
from how many slots, gauge units and queue places the caller had and has (numbers 0 or
1), and `WakeFact` counts the woken by a bijection with the indices taken from the queue.

The same module has `PhoneChat`, which extends the slot: `PhoneTypeCorrect`, `TurnsStayWithinTheDay`,
`TokensStayWithinTheDay`. The slot's invariant holds there because every step is one of the slot,
leaves the slot alone, or empties it (`PhoneSlot`, `RestartSlot`). `BudgetInv` counts over all processes of
the day: calls made are turns counted plus turns no later budget knows of; every token an answer cost is counted, not
counted yet (`Owed`) or forgotten; and what is counted, plus the largest answer for
every phone that still owes its tokens (`Owing`), fits under the cap with a full slot, on disk too. Owing phones have the
slot (`PhoneInv`), so by conservation they are at most `Capacity` (`OwingFitsTheSlot`), which is also why a
crash without a fault forgets no more than the answers of a full slot.

**`ModelCallsProofs`**: `TypeCorrect`, `HoldLetsInOnce`, `OneRefusalIsEnough`,
`TheCountIsExact`, `OneTraceEach`, `WordsStayAgreed`, `PurgesLast`, that is all six
invariants of the run and the type invariant, for any finite set of callers. `Shapes` comes first: threads, files, switches and
counters are well formed, and every thread at the door has a call left for it (`DoorsFit`, without
which call numbers could leave their range). It says nothing of the in-flight count, whose range
follows from its being exact: `TheCountIsExact` is an induction over `Shapes`, in which one
thread comes in or goes out (`OneComesIn`, `OneGoesOut`), and `TypeCorrect` combines both. The
others are small inductive invariants above `Shapes`: an agent that is admitted in a hold has entered nothing
in it yet, and those at the door are refused (`EntryInv`); a refused call has no successor
(`RefusalInv`); words are kept only of calls that were latched, and latched calls are agreed
ones (`WordsInv`); the numbers of threads are those of begun calls, each of one thread
(`Numbered`), so a record is made once (`TraceInv`), and of the streams in `silent` never. `PurgesLast` needs most: only calls that ended are on
disk (`LinesEnded`), so no marked line is appended again; a call's words are in a line that can be parsed or
in a broken one, never in both (`Apart`), so those the purge passes by are not those it is about; the copy a purge holds has
every marked line of the file it rewrites; files it has done have none with words; and a
file put aside empties the mark. It is where one sees what the exception of the
rotation is needed for.

**`CompiledKBProofs`**: `TypeCorrect`, `RevocationStays`, `DismissalStays`, `ApprovalStays`. The portal only
ever runs reviews (`ReviewsOnly`), so what it tells the operator is one of the three verdicts. That the
files agree with what the operator was told (`OnFile`) is not inductive, because an operation that read a file
before could write the old content back. A verdict is no longer firm when the file it rests on is misread or
published torn, so `FirmInv` speaks of the others and follows what every operation carries: if
it has read a file (`KnowsA`, `KnowsR`, `KnowsU` say from which position of its script on), its copy
agrees with the verdict as well, and it has not picked the path if it must not (`Carried`). A verdict becomes
firm only when a review ends that nothing overlapped; `Unraced` says that nobody else has its temporary copy open
and `Written` what it has in that copy, and then on disk, by then. There
is a lemma per kind of access, one for each of the two halves of a save, and one for the positions each operation may have when it makes it.

**`ChatTranscriptProofs`**: `TranscriptTypeCorrect`, `DamageStaysBounded`, `SoundSweepIsThorough`,
`DeletedIsHidden`, `AnswersStand`, for any set of turns. The file is a
sequence, and what a step does to it is one of four things (`FileSteps`): nothing, an append that
returns, one that is cut, the deletion. `StatusMeans` replaces the search for a turn's last line by what
it implies of the lines, so that a status is followed through an append without induction over the file.
`DamageInv` charges the unfinished line in advance, because it may yet cost the record that goes on it. `SweepInv`
says that in a sound process the sweep's list has every orphan of an earlier process until it has
written for it; a process is sound when neither this file nor, for the sweep that goes over all, another
conversation's made it raise. `HiddenInv` says that a deleted conversation has no `meta.json` and the sweep
holds none to write back, unless a turn's append overtook the deletion. `GenInv` says that who completed a turn is through with it, so no second last word comes.

**`WorldMountProofs`**: `MountTypeCorrect`, `MountAlwaysHeals`, `UnmountAlwaysClears`, `SwitchIsARace`. Nothing
is said of what a race leaves. An operation that nothing overlapped is alone (`AloneInv`, also after
others crashed), and by the steps it is through with (`Past`) so much of the disk is in order:
`BindFacts` for a mount or swap, `UnbindFacts` for an unmount or deletion, one conjunct per step of the
script, each kept by all later steps. A conjunct is said of a step that did its work (`Done`), not of one
whose failure was forgiven: the job keeps those in `missed`, and the properties name what that excuses. At the end of the script these are `MountHeals` and `UnmountClears`, which
are part of the invariant because the settled state must survive until something begins. `SwitchIsARace` uses the conjunct
on the record: the World the guard read is still the record's while the job is alone.

**`DeepVerdictProofs`**: `VerdictTypeCorrect`, `FailuresStand`, `PassesLift`. The difficulty is that the
program orders failures by stamps and the properties by when they happened. `StampInv` says how far the
two agree: while a probe runs on a clock not set back, a failure that came later is stamped
within its time, which is what `Window` makes of it with the slack for a clock that was. `SavedInv` and `KeptInv` then say what the file and the memories hold of a failure that stands
and is not blurred, and that the record of the running probe will not clear it.
For `PassLifts` the converse is needed: `OrderInv`, on a clock that was never set back, says that a stamp
not before the probe's beginning belongs to a failure that stands and came after it; so a pass
after which nothing stands finds nothing to keep (`ClearInv`).

Each strengthening was first checked by TLC as an invariant of the instances above.
The type invariants that no run lists,
and `TornFileIsKnown`, `OnlyResumeReleases`, `RecordedBeforeActing`,
`OutcomeIsHonest`, `NoPauseWhileHeld`, `RowsAreSound` and `InflightIsHonest`, were checked by TLC before they
were proved and stand in no configuration any more: the theorem covers every instance.

Only model-checked: all liveness, that is `HoldEndsTheRun`, `RunsDoNotHang`, `WaitersAreServed` and
`PhoneHears` (fairness and `ENABLED` are beyond the prover).

## 5. Not modelled, and why

- The content of plans, experiments, prompts, answers and reports: data that no
  property tells apart.
- HTTP, authentication, schema validation: they decide per request; the models take
  what they let through.
- The rate per minute and midnight in the budget; rename and list of conversations; the
  sleep window: planned, below.
- The split of a checkpoint's read and write of `current.json` against a World switch
  thread: planned as `GoalFile`.
- The window between the two renames of `reseal_bundle` and the eviction of builds beyond 32: the
  process itself renames back, and 33 builds of one deep model are not met.
- Worlds from outside other than a command-line mount: the portal's import of an archive
  (`/api/worlds/import`), `unmount --remove-staged`, and the override of the data directory.
- Calls of a child process (`router/core.py:218`): the child makes their records, the parent none.
- A second `deep probe` that reads its clock while another holds `probe.lock`, and so begins before the
  first one ended: the modelled probe reads the clock and takes the lock with no other probe between.
- Which terms a version of a World holds: the grower overwrites an edit made while it drafted
  (`portal/world_routes.py:1369`), which needs terms and not versions.
- Sums of money and latencies in `costs.json`; subscribers to the live trace view.
- Backends (`router/backends.py`): an answer, a stream or an exception.
- `portal/app.py` beyond the endpoints named in the map: pages, forms, and calls into the
  modelled components one at a time.
- Everything in the last row of the inventory.

### Smaller hazards, noted for later

- Run and goals: pause, resume, stop and set-goal in an order that leaves a status without a task
  (`portal/app.py:4444`, `RunningHasATask`); `current.json` torn reads as no goal (`goals.py:286`); boot
  reconciliation never compares the run's goal with the current one (`portal/app.py:4346`); a hold inside an
  experiment completes it as `cannot_run` (`research/mini_experiments.py:667`).
- Slot and budget: a model load inside the slot must not ask for it again (`portal/app.py:9336`); the
  day of the budget is the local date (`buddy_host/budget.py:82`).
- Chat: two turns in flight (`chat/conversations.py:145`, `OneInFlight`); deltas live in a local list
  (`portal/app.py:8741`).
- Approvals: a revocation cut between its two files is not marked (`compiled_kb.py:615`), and one of a path
  that is no longer approved is not written (`:618`). Both are behaviours of `CompiledKB`; `RevocationHolds` counts what was reported as done.
- Worlds: `mount` removes no older hint (`world_mount.py:1592`, `HintFits`, in `MountHeals`, says when); a crash between the
  renames of `reseal_bundle` leaves the World in `.reseal-old`.
- Costs: totals are updated by threads without a lock (`costs.py:482`).
- Verdict: an unreadable file is moved aside with what it said of other builds (`deep_verdict.py:746`);
  eviction (`:802`) and a probe's lost result (`:1034`).

## 6. Plan

Next modules, in this order:

1. `WorkWindow` and `Background`: the sleep window, its override and expiry, the hold, the tick of the
   job and dream daemons. Known from reading: a later job of a tick starts under a hold that came
   during an earlier one (`agents/job_daemon.py:237`); a receipt that cannot be written skips the
   last-run stamp, so the job runs again; dreams promised once per window are once per UTC date.
2. `GoalFile`: `current.json` with its read and its write apart, `update_progress`,
   `link_experiment`, `set_goal` on the loop and the World switch on a thread; abstract
   specification: a goal cell with atomic updates, and the conditions under which it is implemented.
3. `ModelLoad`: the load lock and the slot, a caller that already holds it; deadlock freedom.
4. `PhoneChat` with midnight and the rate window; `Reembed`: building beside readers and the publish.
5. `CompiledKB` as the detailed form of `WorldMount`'s `Approve`, and `WorldMount` with terms, for the
   growth pass.

Composition: `ModelLoad` extends `InferenceSlot` as `PhoneChat` does; `GoalFile` refines the
one-step checkpoints of `ResearchRun`; `Background` takes the hold as a flag, as `ModelCalls` does.

Theorems: the modules above with their proofs as they come; then the implementation of one model by
another: a refinement of `ResearchRun`'s checkpoints by `GoalFile`; of an atomic approval manifest by `CompiledKB` in the
behaviours where nothing overlaps; of a one-step mount by `WorldMount`; and of the safety halves of
the liveness properties (a woken caller always has a step of its own, a hold leaves no suspension point without an exit).
