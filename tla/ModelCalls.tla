------------------------------ MODULE ModelCalls ------------------------------
(***************************************************************************)
(* How an agent's decision becomes model calls, and what is left of them:     *)
(* complete_preferring_deep (agents/deep_policy.py) tries the deep model,     *)
(* then a stream of the fast one, then its plain completion; each try goes    *)
(* through the one door of router/core.py, which the hold switch closes; each *)
(* try leaves a trace in agent_trace.py's ring and in agent_traces.jsonl,     *)
(* with the words in it when the flight recorder was on; and the operator can *)
(* purge those words while calls are still running.                          *)
(*                                                                         *)
(* The calls run in worker threads, the operator's commands on the event      *)
(* loop: a step is what no other thread can tell apart. The hold is the       *)
(* flag in memory (its file is HoldSwitch's). The ring is longer than the     *)
(* calls of a behaviour, so nothing leaves it. A call of the goal parser's     *)
(* child process (out_of_process) is not here: the child's router records      *)
(* nothing, its parent does. A backend's stream says nothing after its answer. *)
(* A write cut right before the end of its line is taken for a whole one.     *)
(***************************************************************************)
EXTENDS Naturals, FiniteSets

CONSTANTS Callers,
          Agents,      \* the callers whose context is an agent's; the rest is the lab's own
          MaxCalls,    \* calls through the door
          MaxCommands, \* hold, resume, recorder on or off, purge
          MaxTroubles  \* writes the file system refuses, files put aside, crashes, streams cut short

ASSUME CallersAssumption == IsFiniteSet(Callers) /\ Agents \subseteq Callers
ASSUME BoundsAssumption ==
    MaxCalls \in Nat /\ MaxCommands \in Nat /\ MaxTroubles \in Nat

Calls == 1..MaxCalls
Stages == {"none", "deep", "stream", "plain"}
Places == {"out", "door", "admitted", "backend", "traced"}
Outcomes == {"none", "ok", "error", "refused"}

VARIABLES up, held,
          recorder,    \* _recorder_enabled
          recFile,     \* flight_recorder.json
          stage,       \* which try of its decision each caller is at
          at,          \* where its thread is in that try
          call,        \* its number, 0 between decisions
          latched,     \* rec_bodies_at_start
          outcome,     \* what the trace will say
          inflight,    \* _in_flight_agent_calls
          begun,       \* calls that came to the door
          records,     \* how many records of each call the ring got
          words,       \* calls whose record in the ring has its bodies
          old, live,   \* agent_traces.jsonl.1 and agent_traces.jsonl: <<call, bodies>>
          broken,      \* calls with words in a line that cannot be parsed, also when a file put in its
                       \* place has dropped the line
          open,        \* agent_traces.jsonl ends in the middle of a line
          purge,       \* where the purge is
          purgeOk,     \* no file of it failed
          copy,        \* the lines it has read of the file it rewrites
          copyOpen,    \* which ended in the middle of a line
          entries,     \* history: calls of each caller that entered the backend in this hold
          refusals,    \* history: refused records of each caller's decision
          asked,       \* history: the last recorder command was on
          unsaved,     \* history: it did not reach the disk
          silent,      \* history: calls whose stream was closed, or ended without an answer
          clean,       \* history: calls on disk when a purge began that then succeeded
          marked,      \* history: calls on disk when the running purge began, {} once a file was put aside
          agreed,      \* history: calls that came while the operator had the recorder on
          commands, faults, rotations, crashes   \* what the bounds count

door == <<stage, at, call, latched, outcome>>
store == <<records, words, old, live, broken, open>>
purging == <<purge, purgeOk, copy, copyOpen, clean, marked>>
switches == <<held, recorder, recFile, asked, unsaved>>
history == <<entries, refusals, agreed, silent>>
counters == <<commands, faults, rotations, crashes>>
vars == <<up, switches, door, inflight, begun, store, purging, history, counters>>

TypeOK ==
    /\ up \in BOOLEAN /\ held \in BOOLEAN /\ recorder \in BOOLEAN
    /\ recFile \in {"absent", "on", "off", "torn"}
    /\ stage \in [Callers -> Stages] /\ at \in [Callers -> Places]
    /\ call \in [Callers -> 0..MaxCalls] /\ latched \in [Callers -> BOOLEAN]
    /\ outcome \in [Callers -> Outcomes]
    /\ \A c \in Callers : /\ (at[c] = "out") = (stage[c] = "none")
                          /\ (call[c] = 0) = (at[c] \in {"out", "door"})
                          /\ (outcome[c] = "none") = (at[c] # "traced")
    /\ inflight \in 0..Cardinality(Agents)
    /\ begun \in 0..MaxCalls
    /\ records \in [Calls -> Nat] /\ words \subseteq Calls
    /\ old \subseteq Calls \X BOOLEAN /\ live \subseteq Calls \X BOOLEAN
    /\ broken \subseteq Calls /\ open \in BOOLEAN /\ copyOpen \in BOOLEAN
    /\ purge \in {"none", "old", "copied old", "live", "copied live", "memory"}
    /\ purgeOk \in BOOLEAN /\ copy \subseteq Calls \X BOOLEAN
    /\ entries \in [Callers -> Nat] /\ refusals \in [Callers -> Nat]
    /\ asked \in BOOLEAN /\ unsaved \in BOOLEAN
    /\ clean \subseteq Calls /\ marked \subseteq Calls
    /\ agreed \subseteq Calls /\ silent \subseteq Calls
    /\ commands \in 0..MaxCommands
    /\ faults \in Nat /\ rotations \in Nat /\ crashes \in Nat
    /\ faults + rotations + crashes <= MaxTroubles

Init ==
    /\ up = TRUE /\ held = FALSE /\ recorder = FALSE /\ recFile = "absent"
    /\ stage = [c \in Callers |-> "none"] /\ at = [c \in Callers |-> "out"]
    /\ call = [c \in Callers |-> 0] /\ latched = [c \in Callers |-> FALSE]
    /\ outcome = [c \in Callers |-> "none"]
    /\ inflight = 0 /\ begun = 0
    /\ records = [n \in Calls |-> 0] /\ words = {}
    /\ old = {} /\ live = {} /\ broken = {} /\ open = FALSE
    /\ purge = "none" /\ purgeOk = TRUE /\ copy = {} /\ copyOpen = FALSE /\ clean = {} /\ marked = {}
    /\ entries = [c \in Callers |-> 0] /\ refusals = [c \in Callers |-> 0]
    /\ agreed = {} /\ silent = {}
    /\ asked = FALSE /\ unsaved = FALSE
    /\ commands = 0 /\ faults = 0 /\ rotations = 0 /\ crashes = 0

Trouble == faults + rotations + crashes + Cardinality(silent) < MaxTroubles

-----------------------------------------------------------------------------
(* complete_preferring_deep: the tries of one decision *)

Fast == {"stream", "plain"}   \* as ARAIL_AGENT_STREAM_FAST has it

\* Mutant: AgentHeldError is one more reason to fall back.
AfterAnyFailure(tried, out) ==
    IF tried = "deep" THEN IF out = "ok" THEN Fast \cup {"none"} ELSE Fast
    ELSE IF tried = "stream" /\ out # "ok" THEN {"plain"} ELSE {"none"}

\* What may follow a try: a refusal ends the decision, and so does an answer,
\* except a deep one without text.
After(tried, out) ==
    IF out = "refused" THEN {"none"}
    ELSE IF tried = "deep" THEN IF out = "ok" THEN Fast \cup {"none"} ELSE Fast
    ELSE IF tried = "stream" /\ out # "ok" THEN {"plain"} ELSE {"none"}

\* A bound: every try that is begun gets its number.
CallsLeft == begun + Cardinality({c \in Callers : at[c] = "door"}) < MaxCalls

\* The policy lets the call be deep, or not.
Decide(c, first) ==
    /\ up /\ stage[c] = "none" /\ CallsLeft
    /\ first \in {"deep"} \cup Fast
    /\ stage' = [stage EXCEPT ![c] = first]
    /\ at' = [at EXCEPT ![c] = "door"]
    /\ refusals' = [refusals EXCEPT ![c] = 0]
    /\ UNCHANGED <<up, switches, call, latched, outcome, inflight, begun, store, purging,
                   entries, agreed, silent, counters>>

\* The try of c is over; with no call left the decision is over too.
Over(c, out) ==
    \E next \in After(stage[c], out) :
        LET to == IF CallsLeft THEN next ELSE "none"
        IN  /\ stage' = [stage EXCEPT ![c] = to]
            /\ at' = [at EXCEPT ![c] = IF to = "none" THEN "out" ELSE "door"]
            /\ call' = [call EXCEPT ![c] = 0]
            /\ latched' = [latched EXCEPT ![c] = FALSE]
            /\ outcome' = [outcome EXCEPT ![c] = "none"]

-----------------------------------------------------------------------------
(* agent_trace.record puts the record in the ring, then on disk. *)

HasBodiesNow(c, out) == recorder /\ out = "ok"   \* mutant: the recorder is read when the answer is there
HasBodies(c, out) == latched[c] /\ out = "ok"

RecordedUnlessRefused(n, out) ==   \* mutant: the gate raises before anything is recorded
    IF out = "refused" THEN records ELSE [records EXCEPT ![n] = @ + 1]
Recorded(n, out) == [records EXCEPT ![n] = @ + 1]

\* What the thread of c did since the last step anyone can see ends in a record of
\* the call n with the given outcome.
Ring(c, n, out) ==
    /\ at' = [at EXCEPT ![c] = "traced"]
    /\ outcome' = [outcome EXCEPT ![c] = out]
    /\ records' = Recorded(n, out)
    /\ words' = IF HasBodies(c, out) THEN words \cup {n} ELSE words
    /\ UNCHANGED <<old, live, broken, open>>

-----------------------------------------------------------------------------
(* ModelRouter.complete and stream_complete *)

RefusedDeepOnly(c) == held /\ c \in Agents /\ stage[c] = "deep"  \* mutant: no gate on the fast path
Refused(c) == held /\ c \in Agents                      \* halt_gate

Counts(c) == IF c \in Agents THEN 1 ELSE 0       \* note_agent_call_entered

\* The recorder is read once, then the gate.
Gate(c) ==
    /\ up /\ at[c] = "door"
    /\ begun' = begun + 1
    /\ call' = [call EXCEPT ![c] = begun + 1]
    /\ latched' = [latched EXCEPT ![c] = recorder]
    /\ agreed' = IF asked \/ unsaved THEN agreed \cup {begun + 1} ELSE agreed
    /\ IF Refused(c)
       THEN /\ Ring(c, begun + 1, "refused")
            /\ refusals' = [refusals EXCEPT ![c] = @ + 1]
       ELSE /\ at' = [at EXCEPT ![c] = "admitted"]
            /\ UNCHANGED <<outcome, store, refusals>>
    /\ UNCHANGED <<up, switches, stage, inflight, purging, entries, silent, counters>>

Enter(c) ==
    /\ up /\ at[c] = "admitted"
    /\ at' = [at EXCEPT ![c] = "backend"]
    /\ inflight' = inflight + Counts(c)
    /\ entries' = [entries EXCEPT ![c] = IF held THEN @ + 1 ELSE @]
    /\ UNCHANGED <<up, switches, stage, call, latched, outcome, begun, store, purging, refusals,
                   agreed, silent, counters>>

\* A plain completion is out of the count before its record is made, a stream, or
\* a call that broke, only when it is written. The cost is tracked before.
Answers(c) ==
    /\ up /\ at[c] = "backend"
    /\ Ring(c, call[c], "ok")
    /\ inflight' = IF stage[c] = "stream" THEN inflight ELSE inflight - Counts(c)
    /\ UNCHANGED <<up, switches, stage, call, latched, begun, purging, history, counters>>

Breaks(c) ==
    /\ up /\ at[c] = "backend"
    /\ Ring(c, call[c], "error")
    /\ UNCHANGED <<up, switches, stage, call, latched, inflight, begun, purging, history, counters>>

\* The generator is closed before its answer, or ends without one.
Abandons(c) ==
    /\ up /\ at[c] = "backend" /\ stage[c] = "stream" /\ Trouble
    /\ silent' = silent \cup {call[c]}
    /\ inflight' = inflight - Counts(c)
    /\ Over(c, "ok")
    /\ UNCHANGED <<up, switches, begun, store, purging, entries, refusals, agreed, counters>>

\* The backend answered, but cost_tracker.track could not save costs.json: inside
\* the stream's try, where it is an error like any other, outside the plain one's.
TrackFails(c) ==
    /\ up /\ at[c] = "backend" /\ stage[c] # "stream" /\ Trouble
    /\ faults' = faults + 1
    /\ inflight' = inflight - Counts(c)
    /\ Over(c, "error")
    /\ UNCHANGED <<up, switches, begun, store, purging, history, commands, rotations, crashes>>

\* Still counted while its record is written: a stream, and a plain try that broke.
CountedStreams(c) == stage[c] = "stream"   \* mutant: a call that breaks never leaves
Counted(c) == outcome[c] = "error" \/ (outcome[c] = "ok" /\ stage[c] = "stream")

Line(c) == <<call[c], call[c] \in words>>   \* the ring's record is what is dumped

Leaves(c) ==
    /\ inflight' = IF Counted(c) THEN inflight - Counts(c) ELSE inflight
    /\ Over(c, outcome[c])

\* A record written to the end, on the line a cut write has left or on one of its own.
Written(c) ==
    /\ open' = FALSE
    /\ IF open THEN live' = live /\ broken' = broken \cup ({call[c]} \cap words)
       ELSE live' = live \cup {Line(c)} /\ broken' = broken

\* Writes of these calls' records are cut: each leaves nothing, or the beginning of a
\* line, with words in it or not.
Cut(calls) ==
    /\ \E begins \in SUBSET (calls \cap words) : broken' = broken \cup begins
    /\ open' \in IF broken' # broken THEN {TRUE}
                ELSE IF calls # {} THEN {open, TRUE} ELSE {open}

\* _append_disk, which first puts a file that is too long aside
Append(c, full) ==
    /\ up /\ at[c] = "traced"
    /\ full => Trouble
    /\ rotations' = IF full THEN rotations + 1 ELSE rotations
    /\ IF full THEN old' = live /\ live' = {Line(c)} /\ open' = FALSE /\ broken' = broken
       ELSE old' = old /\ Written(c)
    /\ marked' = IF full THEN {} ELSE marked
    /\ Leaves(c)
    /\ UNCHANGED <<up, switches, begun, records, words, purge, purgeOk, copy, copyOpen, clean,
                   history, commands, faults, crashes>>

\* _note_drop
AppendFails(c) ==
    /\ up /\ at[c] = "traced" /\ Trouble
    /\ faults' = faults + 1
    /\ Cut({call[c]})
    /\ Leaves(c)
    /\ UNCHANGED <<up, switches, begun, records, words, old, live, purging, history,
                   commands, rotations, crashes>>

-----------------------------------------------------------------------------
(* The operator's commands: the event loop runs one at a time, a purge to its end *)

Commands == up /\ purge = "none" /\ commands < MaxCommands

Hold ==
    /\ Commands /\ ~held
    /\ held' = TRUE
    /\ entries' = [c \in Callers |-> 0]
    /\ commands' = commands + 1
    /\ UNCHANGED <<up, recorder, recFile, asked, unsaved, door, inflight, begun, store, purging,
                   refusals, agreed, silent, faults, rotations, crashes>>

Resume ==
    /\ Commands /\ held
    /\ held' = FALSE
    /\ entries' = [c \in Callers |-> 0]
    /\ commands' = commands + 1
    /\ UNCHANGED <<up, recorder, recFile, asked, unsaved, door, inflight, begun, store, purging,
                   refusals, agreed, silent, faults, rotations, crashes>>

OnDisk == {line[1] : line \in old \cup live}

\* POST /api/admin/flight-recorder {enabled, purge}: set_recorder_enabled, whose
\* write may fail, then the purge.
SetRecorder(on, andPurge, fails) ==
    /\ Commands
    /\ recorder' = on /\ asked' = on
    /\ unsaved' = fails
    /\ IF fails THEN Trouble /\ faults' = faults + 1 /\ recFile' \in {recFile, "torn"}
       ELSE faults' = faults /\ recFile' = IF on THEN "on" ELSE "off"
    /\ IF andPurge THEN purge' = "old" /\ purgeOk' = TRUE /\ marked' = OnDisk
       ELSE UNCHANGED <<purge, purgeOk, marked>>
    /\ commands' = commands + 1
    /\ UNCHANGED <<up, held, door, inflight, begun, store, copy, copyOpen, clean, history,
                   rotations, crashes>>

-----------------------------------------------------------------------------
(* purge_flight_recorder_bodies and jsonl_purge.purge_jsonl_bodies *)

Stripped(lines) == {<<line[1], FALSE>> : line \in lines}

\* A line that cannot be parsed goes into the copy as it is.
AfterFile == IF purge \in {"old", "copied old"} THEN "live" ELSE "memory"

PurgeReads ==
    /\ up /\ purge \in {"old", "live"}
    /\ copy' = IF purge = "old" THEN old ELSE live
    /\ copyOpen' = (purge = "live" /\ open)
    /\ \/ purge' = IF purge = "old" THEN "copied old" ELSE "copied live"
       \/ copy' = {} /\ ~copyOpen' /\ purge' = AfterFile   \* no file
    /\ UNCHANGED <<up, switches, door, inflight, begun, store, purgeOk, clean, marked, history,
                   counters>>

\* os.replace puts the rewritten copy in the file's place.
PurgeReplaces ==
    /\ up /\ purge \in {"copied old", "copied live"}
    /\ IF purge = "copied old" THEN old' = Stripped(copy) /\ live' = live /\ open' = open
       ELSE live' = Stripped(copy) /\ open' = copyOpen /\ old' = old
    /\ purge' = AfterFile
    /\ copy' = {} /\ copyOpen' = FALSE
    /\ UNCHANGED <<up, switches, door, inflight, begun, records, words, broken, purgeOk, clean, marked,
                   history, counters>>

PurgeFails ==
    /\ up /\ purge \in {"copied old", "copied live"} /\ Trouble
    /\ faults' = faults + 1
    /\ purgeOk' = FALSE
    /\ purge' = AfterFile /\ copy' = {} /\ copyOpen' = FALSE
    /\ UNCHANGED <<up, switches, door, inflight, begun, store, clean, marked, history,
                   commands, rotations, crashes>>

\* Mutant: the ring keeps its bodies.
WordsLeftKept == words
WordsLeft == IF purgeOk THEN {} ELSE words

PurgeEnds ==
    /\ up /\ purge = "memory"
    /\ words' = WordsLeft
    /\ clean' = IF purgeOk THEN clean \cup marked ELSE clean
    /\ purge' = "none" /\ purgeOk' = TRUE /\ marked' = {}
    /\ UNCHANGED <<up, switches, door, inflight, begun, records, old, live, broken, open, copy,
                   copyOpen, history, counters>>

-----------------------------------------------------------------------------
(* The process *)

\* What dies with it; the writes under way are cut.
Down ==
    /\ up' = FALSE /\ crashes' = crashes + 1
    /\ stage' = [c \in Callers |-> "none"] /\ at' = [c \in Callers |-> "out"]
    /\ call' = [c \in Callers |-> 0] /\ latched' = [c \in Callers |-> FALSE]
    /\ outcome' = [c \in Callers |-> "none"]
    /\ inflight' = 0
    /\ records' = [n \in Calls |-> 0] /\ words' = {}
    /\ entries' = [c \in Callers |-> 0] /\ refusals' = [c \in Callers |-> 0]
    /\ Cut({call[c] : c \in {d \in Callers : at[d] = "traced"}})
    /\ UNCHANGED <<begun, old, live, clean, agreed, silent, faults, rotations>>

Crash ==
    /\ up /\ Trouble /\ Down
    /\ purge' = "none" /\ purgeOk' = TRUE /\ copy' = {} /\ copyOpen' = FALSE /\ marked' = {}
    /\ UNCHANGED <<switches, commands>>

\* It dies while it writes flight_recorder.json.
CrashInWrite(on) ==
    /\ Commands /\ Trouble /\ Down
    /\ recFile' = "torn" /\ asked' = on /\ unsaved' = FALSE
    /\ commands' = commands + 1
    /\ UNCHANGED <<held, recorder, purge, purgeOk, copy, copyOpen, marked>>

RecorderRead == recFile = "on"   \* _load_recorder_locked

Restart ==
    /\ ~up
    /\ up' = TRUE
    /\ recorder' = RecorderRead
    /\ UNCHANGED <<held, recFile, asked, unsaved, door, inflight, begun, store, purging, history,
                   counters>>

Calling(c) ==
    \/ Gate(c) \/ Enter(c) \/ Answers(c) \/ Breaks(c) \/ Abandons(c) \/ TrackFails(c)
    \/ (\E full \in BOOLEAN : Append(c, full)) \/ AppendFails(c)

Next ==
    \/ \E c \in Callers : Calling(c) \/ (\E first \in Stages : Decide(c, first))
    \/ Hold \/ Resume
    \/ \E on, andPurge, fails \in BOOLEAN : SetRecorder(on, andPurge, fails)
    \/ PurgeReads \/ PurgeReplaces \/ PurgeFails \/ PurgeEnds
    \/ Crash \/ (\E on \in BOOLEAN : CrashInWrite(on)) \/ Restart

Spec == Init /\ [][Next]_vars

-----------------------------------------------------------------------------
(* Properties *)

\* Admission control: however a decision falls back from one try to the next,
\* each agent enters a backend at most once after a hold, with the call that was
\* at the door when the hold came.
OneEntryPerHold == \A c \in Agents : entries[c] <= 1

\* "One refusal is enough": a decision that is refused does not knock again and
\* leaves one refused trace.
OneRefusalPerDecision == \A c \in Callers : refusals[c] <= 1

Inside(c) ==
    \/ at[c] = "backend"
    \/ at[c] = "traced" /\ Counted(c)

\* The number the panel shows under a hold is exact: it neither leaks a call that
\* broke, nor misses one a backend is still answering.
InFlightIsExact == inflight = Cardinality({c \in Agents : Inside(c)})

Ended(n) == n <= begun /\ \A c \in Callers : call[c] # n

\* One trace per call, whether it answered, broke or was refused, and never two. The
\* router forgets a call whose cost could not be saved, and a stream that is closed
\* before its answer or ends without one, but no other.
TracedOnce ==
    \A n \in Calls : /\ records[n] <= 1
                     /\ Ended(n) /\ n \notin silent /\ faults = 0 /\ crashes = 0 => records[n] = 1
                     /\ n \in silent => records[n] = 0

\* No prompt or answer is kept, in memory or on disk, of a call that came while the
\* recorder was off by the operator's last word, through restarts and a torn file;
\* the exception is a word that could not be written.
WordsAreAgreed ==
    /\ words \cup broken \subseteq agreed
    /\ \A line \in old \cup live : line[2] => line[1] \in agreed

\* What was on disk when a purge began that then succeeded is never readable again,
\* whatever ended, was cut or was appended meanwhile, unless a file was put aside
\* meanwhile. It is said of the lines that can be parsed: a line that a write cut, or
\* that a record was written behind, keeps its words, and the purge still succeeds.
PurgedStaysPurged ==
    \A n \in clean : n \notin words \cup broken /\ <<n, TRUE>> \notin old \cup live

\* "The exact line count never changes": a purge takes no line out of the log.
\* The code does not keep it (see the README).
PurgeKeepsLines == [][purge # "none" /\ rotations' = rotations => OnDisk \subseteq OnDisk']_vars
=============================================================================
