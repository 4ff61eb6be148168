----------------------------- MODULE DeepVerdict -----------------------------
(***************************************************************************)
(* The deep verdict (deep_verdict.py): one file for the whole checkout that   *)
(* says, for each build of the deep runtime, whether it generates. Several    *)
(* labs note the deep calls that fail; `deep probe' is the only writer that   *)
(* clears, and one runs at a time (probe.lock). A note the lock or the file   *)
(* system refuses stays in its lab's memory. Every stamp is the wall clock,   *)
(* read before the lock is asked for, and the clock may be set back.          *)
(*                                                                         *)
(* What is done under verdict.lock ends in one os.replace: a step. Failures   *)
(* are numbered in the order they happen, for the properties only: the        *)
(* program has the stamps and nothing else. Left out are the eviction beyond  *)
(* MAX_BINARIES builds, and a `deep probe' that reads the clock while another *)
(* still holds probe.lock and takes the lock after it.                        *)
(***************************************************************************)
EXTENDS Naturals, FiniteSets

CONSTANTS Labs, Builds,
          Slack,        \* CLOCK_SLACK_S, in ticks of the clock
          MaxTime,      \* how far the clock goes
          MaxFailures,  \* calls, loads and probes that fail
          MaxProbes,    \* probes begun
          MaxTroubles   \* refused writes, damage, restarts, dead probes, clocks set back

ASSUME BoundsAssumption ==
    Slack \in Nat /\ MaxTime \in Nat \ {0} /\ MaxFailures \in Nat /\ MaxProbes \in Nat /\ MaxTroubles \in Nat

ASSUME LabsAssumption == "probe" \notin Labs

Numbers == 1..MaxFailures
Times == 0..MaxTime        \* 0: never
Writers == Labs \cup {"probe"}
Notes == [n : Numbers, lab : Writers, build : Builds, stamp : Times, saves : BOOLEAN]
Entries == [probe : {"none", "pass", "fail"}, started : Times, failure : Times]
NoEntry == [probe |-> "none", started |-> 0, failure |-> 0]

VARIABLES clock,
          readable,   \* verdict.json can be read (a missing file can)
          entry,      \* its record of each build: failure is the stamp last_ts
          loaded,     \* the build each lab's process loaded
          mem,        \* _P.mem: the stamp of the failure each lab keeps for itself
          pending,    \* failures stamped and not yet noted
          probe,      \* where the probe is: none, begun, running, or with its result
          subject, started,   \* the build it will find, and started_ts
          upto,       \* history: how many failures there had been when it started
          skewed,     \* history: the clock was set back while it ran
          stepped,    \* history: the clock was set back
          standing,   \* history: failures noted that no later probe has answered
          blurred,    \* history: numbers the stamps no longer tell from earlier ones
          answered,   \* history: of each build, the failures the last recorded pass came after
          clear,      \* history: builds whose last recorded pass no failure came or was noted after
          failures, probes, troubles   \* what the bounds count

file == <<readable, entry>>
probing == <<probe, subject, started, upto, skewed>>
history == <<stepped, standing, blurred, answered, clear>>
counters == <<failures, probes, troubles>>
vars == <<clock, file, loaded, mem, pending, probing, history, counters>>

TypeOK ==
    /\ clock \in 1..MaxTime
    /\ readable \in BOOLEAN /\ entry \in [Builds -> Entries]
    /\ loaded \in [Labs -> Builds] /\ mem \in [Labs -> Times]
    /\ pending \subseteq Notes
    /\ \A r \in pending : r.stamp > 0 /\ r.n <= failures
    /\ probe \in {"none", "begun", "running", "pass", "fail"}
    /\ subject \in Builds /\ started \in Times /\ upto \in 0..failures
    /\ \A b \in Builds : (entry[b].probe = "none") = (entry[b].started = 0)
    /\ skewed \in BOOLEAN /\ stepped \in BOOLEAN
    /\ standing \subseteq Notes /\ blurred \subseteq Numbers
    /\ answered \in [Builds -> 0..failures] /\ clear \subseteq Builds
    /\ failures \in 0..MaxFailures /\ probes \in 0..MaxProbes /\ troubles \in 0..MaxTroubles

Init ==
    /\ clock = 1 /\ readable = TRUE /\ entry = [b \in Builds |-> NoEntry]
    /\ loaded \in [Labs -> Builds] /\ mem = [p \in Labs |-> 0]
    /\ pending = {}
    /\ probe = "none" /\ subject \in Builds /\ started = 0 /\ upto = 0 /\ skewed = FALSE
    /\ stepped = FALSE /\ standing = {} /\ blurred = {} /\ answered = [b \in Builds |-> 0]
    /\ clear = {}
    /\ failures = 0 /\ probes = 0 /\ troubles = 0

Trouble == troubles < MaxTroubles /\ troubles' = troubles + 1

-----------------------------------------------------------------------------
(* What every lab reads *)

\* Mutant: a failure of the probe's own moment is taken for an older one.
PassedSinceOrAt(stamp, e) == e.probe = "pass" /\ stamp <= e.started

\* Did a stored passing probe start after a failure with this stamp?
PassedSince(stamp, e) == e.probe = "pass" /\ stamp < e.started

Failing(p) ==
    LET e == entry[loaded[p]]
    IN  \/ ~readable
        \/ e.failure > 0
        \/ mem[p] > 0 /\ ~PassedSince(mem[p], e)

Verdict(p) ==
    IF Failing(p) THEN "failing"
    ELSE IF entry[loaded[p]].probe = "pass" THEN "passing" ELSE "untested"

-----------------------------------------------------------------------------
(* _locked_update: the document a writer starts from. An unreadable file is   *)
(* moved aside, and what it said is gone.                                     *)

Base == IF readable THEN entry ELSE [b \in Builds |-> NoEntry]

\* The history follows the file: what was saved is lost with it.
Kept == IF readable THEN standing ELSE {r \in standing : ~r.saves}

\* The update does not happen: the lock was busy for two seconds, or the folder
\* or the rename was refused; or the rename worked and the write then failed.
UpdateFails ==
    /\ Trouble
    /\ \/ UNCHANGED file
       \/ ~readable /\ readable' = TRUE /\ entry' = Base
    /\ clear' = IF readable' = readable THEN clear ELSE {}

-----------------------------------------------------------------------------
(* note_call and note_load_failure *)

\* A deep call or a load fails in a lab. A fault of the lab's own model folder
\* is not for the file.
CallFails(p, saves) ==
    /\ failures < MaxFailures
    /\ failures' = failures + 1
    /\ pending' = pending \cup {[n |-> failures + 1, lab |-> p, build |-> loaded[p],
                                 stamp |-> clock, saves |-> saves]}
    /\ clear' = clear \ {loaded[p]}
    /\ UNCHANGED <<clock, file, loaded, mem, probing, stepped, standing, blurred, answered,
                   probes, troubles>>

\* Failures that came later but whose stamp this write replaces with its own.
Blurs(r, others) == {x.n : x \in {y \in others : y.build = r.build /\ y.n > r.n /\ y.stamp # r.stamp}}

\* A failure after a recorded probe, on a clock set back to before it: it, and what
\* its lab keeps with it, reads as older than the probe.
Early(r) ==
    IF r.n > answered[r.build] /\ r.stamp < entry'[r.build].started
    THEN {r.n} \cup {x.n : x \in {y \in standing : y.lab = r.lab /\ ~y.saves}} ELSE {}

\* A failure that a recorded pass came after stands no more, whenever it is noted.
Stands(r, saved) == IF r.n > answered[r.build] THEN {[r EXCEPT !.saves = saved]} ELSE {}

\* _new_failure or _bump_failure: the stamp is the writer's own, also when a
\* later one is there.
Bumped(e, stamp) == [e EXCEPT !.failure = stamp]

NoteSaved(r) ==
    /\ r \in pending /\ r.lab \in Labs /\ r.saves
    /\ pending' = pending \ {r}
    /\ readable' = TRUE
    /\ entry' = [Base EXCEPT ![r.build] = Bumped(@, r.stamp)]
    /\ mem' = [mem EXCEPT ![r.lab] = 0]
    /\ standing' = {IF x.lab = r.lab /\ x.build = r.build THEN [x EXCEPT !.saves = TRUE] ELSE x : x \in Kept}
                     \cup Stands(r, TRUE)
    /\ blurred' = blurred \cup Blurs(r, {x \in Kept : x.saves \/ x.lab = r.lab})
    /\ clear' = (IF readable THEN clear ELSE {}) \ {r.build}
    /\ UNCHANGED <<clock, loaded, probing, stepped, answered, counters>>

\* _mem_note, with a new failure or one bumped: only the last stamp is read.
Keeps(p, stamp) == [mem EXCEPT ![p] = stamp]

NoteKept(r) ==
    /\ r \in pending /\ r.lab \in Labs
    /\ IF r.saves THEN UpdateFails ELSE UNCHANGED <<file, clear, troubles>>
    /\ pending' = pending \ {r}
    /\ mem' = Keeps(r.lab, r.stamp)
    /\ standing' = (IF readable' = readable THEN standing ELSE Kept) \cup Stands(r, FALSE)
    /\ blurred' = blurred \cup Blurs(r, {x \in standing : x.lab = r.lab}) \cup Early(r)
    /\ UNCHANGED <<clock, loaded, probing, stepped, answered, failures, probes>>

-----------------------------------------------------------------------------
(* deep probe, in a process of its own, and record_probe                     *)

\* execute reads the clock, and only then asks for probe.lock.
BeginProbe(b) ==
    /\ probe = "none" /\ probes < MaxProbes /\ clock < MaxTime
    /\ clock' = clock + 1          \* so that no earlier failure has its stamp
    /\ probe' = "begun" /\ subject' = b /\ started' = clock + 1
    /\ upto' = failures /\ skewed' = FALSE
    /\ probes' = probes + 1
    /\ UNCHANGED <<file, loaded, mem, pending, history, failures, troubles>>

TakeProbeLock ==
    /\ probe = "begun" /\ probe' = "running"
    /\ UNCHANGED <<clock, file, loaded, mem, pending, subject, started, upto, skewed, history, counters>>

ProbePasses ==
    /\ probe = "running" /\ probe' = "pass"
    /\ UNCHANGED <<clock, file, loaded, mem, pending, subject, started, upto, skewed, history, counters>>

\* It is a failure of the build like any other, and stamped before the lock.
ProbeFails ==
    /\ probe = "running" /\ probe' = "fail"
    /\ failures < MaxFailures /\ failures' = failures + 1
    /\ pending' = pending \cup {[n |-> failures + 1, lab |-> "probe", build |-> subject,
                                 stamp |-> clock, saves |-> TRUE]}
    /\ clear' = clear \ {subject}
    /\ UNCHANGED <<clock, file, loaded, mem, subject, started, upto, skewed,
                   stepped, standing, blurred, answered, probes, troubles>>

\* Mutant: a stamp ahead of now is one of the probe's time too.
LandedOpenEnded(stamp, from, now) == from <= stamp

\* _landed_during_probe
Landed(stamp, from, now) == from <= stamp /\ stamp <= now + Slack

Forget == probe' = "none" /\ UNCHANGED <<subject, started, upto, skewed>>

\* Mutant: the result is stored without the time its probe began.
ProbedUndated(e, result) == [e EXCEPT !.probe = result]

Probed(e, result) == [probe |-> result, started |-> started, failure |-> e.failure]

\* Of the failures that came while the probe ran, those whose stamps, of a clock set
\* back meanwhile, make the pass take them for older than the probe or ahead of now.
Window == started..(clock + Slack)
Misdated(later, stamp) ==
    {x.n : x \in {y \in later : IF y.saves THEN stamp \notin Window
                                ELSE mem[y.lab] < started \/ y.stamp < started}}

RecordPass ==
    LET e == Base[subject]
        landed == Landed(e.failure, started, clock)
        later == {r \in Kept : r.build = subject /\ r.n > upto}
    IN  /\ probe = "pass" /\ Forget
        /\ readable' = TRUE
        /\ entry' = [Base EXCEPT ![subject] =
                       Probed([e EXCEPT !.failure = IF landed THEN @ ELSE 0], "pass")]
        /\ standing' = {r \in Kept : r.build # subject \/ r.n > upto}
        /\ blurred' = IF skewed THEN blurred \cup Misdated(later, e.failure) ELSE blurred
        /\ answered' = [answered EXCEPT ![subject] = upto]
        /\ clear' = LET others == (IF readable THEN clear ELSE {}) \ {subject}
                        quiet == later = {} /\ \A r \in pending : r.build # subject
                        \* an earlier failure whose stamp a clock set back has come near again
                        caught == stepped /\ e.failure \in Window
                    IN  IF quiet /\ ~caught THEN others \cup {subject} ELSE others
        /\ UNCHANGED <<clock, loaded, mem, pending, stepped, counters>>

RecordFail(r) ==
    /\ probe = "fail" /\ Forget
    /\ r \in pending /\ r.lab = "probe"
    /\ pending' = pending \ {r}
    /\ readable' = TRUE
    /\ entry' = [Base EXCEPT ![subject] = Probed(Bumped(@, r.stamp), "fail")]
    /\ standing' = Kept \cup Stands(r, TRUE)
    /\ blurred' = blurred \cup Blurs(r, {x \in Kept : x.saves})
    /\ clear' = (IF readable THEN clear ELSE {}) \ {subject}
    /\ UNCHANGED <<clock, loaded, mem, stepped, answered, counters>>

\* Nothing keeps what a probe could not write; nor what one that died, or did not get
\* its lock, would have.
ProbeLost ==
    /\ probe # "none" /\ Forget
    /\ \/ probe \in {"pass", "fail"} /\ UpdateFails
       \/ Trouble /\ UNCHANGED <<file, clear>>
    /\ pending' = {r \in pending : r.lab # "probe"}
    /\ standing' = IF readable' = readable THEN standing ELSE Kept
    /\ UNCHANGED <<clock, loaded, mem, stepped, blurred, answered, failures, probes>>

-----------------------------------------------------------------------------
(* The rest of the world *)

Tick ==
    /\ clock < MaxTime /\ clock' = clock + 1
    /\ UNCHANGED <<file, loaded, mem, pending, probing, history, counters>>

SetBack(to) ==
    /\ Trouble /\ to < clock
    /\ clock' = to /\ stepped' = TRUE /\ skewed' = (skewed \/ probe # "none")
    /\ UNCHANGED <<file, loaded, mem, pending, probe, subject, started, upto,
                   standing, blurred, answered, clear, failures, probes>>

\* Another build may be installed by then; what the process kept goes with it.
Restart(p, b) ==
    /\ Trouble
    /\ loaded' = [loaded EXCEPT ![p] = b]
    /\ mem' = [mem EXCEPT ![p] = 0]
    /\ pending' = {r \in pending : r.lab # p}
    /\ standing' = {r \in standing : r.lab # p \/ r.saves}
    /\ UNCHANGED <<clock, file, probing, stepped, blurred, answered, clear, failures, probes>>

Damage ==
    /\ Trouble /\ readable /\ readable' = FALSE
    /\ UNCHANGED <<clock, entry, loaded, mem, pending, probing, history, failures, probes>>

Next ==
    \/ \E p \in Labs, saves \in BOOLEAN : CallFails(p, saves)
    \/ \E r \in pending : NoteSaved(r)
    \/ \E r \in pending : NoteKept(r)
    \/ \E r \in pending : RecordFail(r)
    \/ \E b \in Builds : BeginProbe(b)
    \/ TakeProbeLock \/ ProbePasses \/ ProbeFails \/ RecordPass \/ ProbeLost
    \/ Tick \/ Damage
    \/ \E to \in 1..MaxTime : SetBack(to)
    \/ \E p \in Labs, b \in Builds : Restart(p, b)

Spec == Init /\ [][Next]_vars

-----------------------------------------------------------------------------
(* Properties *)

Known(r, p) == loaded[p] = r.build /\ (r.saves \/ r.lab = p)

\* "Only record_probe with a 5/5 pass clears a failure, and not one that could have
\* landed while that probe ran": as long as no pass of a probe begun after it is
\* recorded, a failure keeps every lab that can know of it off the deep model: a
\* saved one every lab on that build, and one that could not be saved its own lab.
\* What was saved is forgotten with a file that the next writer cannot read and moves
\* aside (Kept). And three kinds of failures are left out, which the code does let go,
\* the stamps being all it has: those whose stamp an earlier one, noted later, has
\* overwritten (Blurs); those a lab kept to itself with a stamp that a clock set back
\* puts before a probe already recorded, and what that lab had kept (Early); and those
\* that came during a probe on a clock set back meanwhile, when the last stamp noted
\* is before the probe's or ahead of now (Misdated).
FailureStands ==
    \A r \in standing : r.n \notin blurred => \A p \in Labs : Known(r, p) => Failing(p)

\* A pass lifts: when no failure came or was noted after the probe began, the record
\* of its build carries none, and every lab on the build reads "passing", also one
\* that kept a failure to itself. On a clock that was set back the record carries none
\* unless the stamp it had is between the start of the probe and CLOCK_SLACK_S ahead
\* of now, and a lab may stay with what it kept.
PassLifts ==
    readable => \A b \in clear :
        /\ entry[b].failure = 0
        /\ ~stepped => \A p \in Labs : loaded[p] = b => Verdict(p) = "passing"

\* What the docstring of record_probe says of a pass, the overwritten stamps
\* included: with two notes written in the other order of their stamps a pass clears
\* a failure that landed while its probe ran.
NoneClearedDuringItsProbe ==
    ~stepped => \A r \in standing : \A p \in Labs : Known(r, p) => Failing(p)

\* "The read applies the same rule the probe's write applies": what a pass lifts from
\* the file it lifts from a lab's own memory. Not so of a stamp ahead of the clock.
SameRule ==
    readable => \A p \in Labs : loaded[p] \in clear => Verdict(p) = "passing"
=============================================================================
