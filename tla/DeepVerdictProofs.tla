-------------------------- MODULE DeepVerdictProofs --------------------------
(***************************************************************************)
(* Proofs about DeepVerdict, for any labs, builds, failures, probes and       *)
(* troubles, and any course of the clock.                                   *)
(*                                                                         *)
(* The program tells failures apart by their stamps, the properties by their  *)
(* numbers. The inductive invariant says how far the two agree: while a probe *)
(* runs on a clock nobody set back, a failure is later than its beginning     *)
(* exactly when its stamp is, and what the file and the memories hold is the  *)
(* stamp of a failure that stands, unless it is blurred.                      *)
(***************************************************************************)
EXTENDS DeepVerdict, TLAPS

Probing == probe # "none"
\* The probe under way began before failure x happened.
Since(x) == Probing /\ x.n > upto
Clear(x) == x.n \notin blurred

\* Who notes what.
NoteInv ==
    /\ \A r \in pending : r.lab \in Labs => r.build = loaded[r.lab]
    /\ \A r \in pending : r.lab = "probe" => (probe = "fail" /\ r.build = subject)
    /\ \A r, x \in pending : (r.lab = "probe" /\ x.lab = "probe") => r = x
    /\ \A r \in standing : r.n <= failures /\ r.n > answered[r.build]
    /\ \A r \in standing : ~r.saves => (r.lab \in Labs /\ r.build = loaded[r.lab])
    /\ Probing => \A b \in Builds : answered[b] <= upto
    /\ Probing => started > 0

\* A failure that came while the probe runs is stamped no earlier than it began.
StampInv ==
    (Probing /\ ~skewed) =>
        /\ started <= clock
        /\ \A r \in pending \cup standing : Since(r) => (started <= r.stamp /\ r.stamp <= clock)

\* A saved failure that stands is in the file, with a stamp that the record of the
\* running probe will take for one of its own time if it is.
SavedInv ==
    readable => \A r \in standing : (r.saves /\ Clear(r)) =>
        /\ entry[r.build].failure > 0
        /\ (Since(r) /\ subject = r.build /\ ~skewed) =>
              (started <= entry[r.build].failure /\ entry[r.build].failure <= clock)

\* One that could not be saved is in its lab's memory, not before the pass recorded.
KeptInv ==
    \A r \in standing : (~r.saves /\ Clear(r)) =>
        /\ mem[r.lab] > 0
        /\ (readable /\ entry[r.build].probe = "pass") =>
              (entry[r.build].started <= r.stamp /\ entry[r.build].started <= mem[r.lab])
        /\ (Since(r) /\ subject = r.build /\ ~skewed) => started <= mem[r.lab]

StandInv == TypeOK /\ NoteInv /\ StampInv /\ SavedInv /\ KeptInv

\* As long as the clock was never set back no stamp is ahead of it, and those of
\* earlier failures are before the running probe began; so a stamp after that is of
\* a failure that stands.
OrderInv ==
    ~stepped =>
        /\ ~skewed
        /\ \A r \in pending : r.stamp <= clock
        /\ \A b \in Builds : entry[b].failure <= clock
        /\ \A p \in Labs : mem[p] <= clock
        /\ Probing => \A r \in pending : r.n <= upto => r.stamp < started
        /\ (Probing /\ readable /\ entry[subject].failure >= started) =>
              \E r \in standing : r.saves /\ r.build = subject /\ r.n > upto
        /\ Probing => \A p \in Labs : mem[p] >= started =>
              \E r \in standing : ~r.saves /\ r.lab = p /\ r.n > upto

\* What a quiet pass leaves.
ClearInv ==
    readable => \A b \in clear :
        /\ entry[b].failure = 0 /\ entry[b].probe = "pass"
        /\ \A r \in pending : r.build # b
        /\ ~stepped => \A p \in Labs : loaded[p] = b => (mem[p] = 0 \/ mem[p] < entry[b].started)

LiftInv == StandInv /\ OrderInv /\ ClearInv

-----------------------------------------------------------------------------
(* Notes and entries *)

LEMMA Numbered ==
    ASSUME TypeOK
    PROVE  /\ clock \in Nat /\ Slack \in Nat /\ started \in Nat /\ upto \in Nat /\ failures \in Nat /\ upto <= failures
           /\ \A b \in Builds : entry[b].failure \in Nat /\ entry[b].started \in Nat
           /\ \A p \in Labs : mem[p] \in Nat
           /\ \A b \in Builds : answered[b] \in Nat
  BY BoundsAssumption DEF TypeOK, Entries, Times

LEMMA Marked ==
    ASSUME NEW r \in Notes, NEW b \in BOOLEAN
    PROVE  LET m == [r EXCEPT !.saves = b]
           IN  /\ m \in Notes /\ m.n = r.n /\ m.lab = r.lab /\ m.build = r.build
               /\ m.stamp = r.stamp /\ m.saves = b
  BY DEF Notes

LEMMA Entered ==
    ASSUME NEW e \in Entries, NEW t \in Times
    PROVE  /\ Bumped(e, t) \in Entries /\ Bumped(e, t).failure = t
           /\ Bumped(e, t).probe = e.probe /\ Bumped(e, t).started = e.started
           /\ [e EXCEPT !.failure = t] \in Entries /\ [e EXCEPT !.failure = t].failure = t
  BY DEF Entries, Bumped

LEMMA ProbedEntry ==
    ASSUME NEW e \in Entries, NEW result \in {"pass", "fail"}, started \in Times
    PROVE  /\ Probed(e, result) \in Entries /\ Probed(e, result).failure = e.failure
           /\ Probed(e, result).probe = result /\ Probed(e, result).started = started
  BY DEF Entries, Probed

LEMMA BaseEntries ==
    ASSUME TypeOK
    PROVE  /\ Base \in [Builds -> Entries]
           /\ \A b \in Builds : Base[b] \in Entries
           /\ \A b \in Builds : (Base[b].probe = "none") = (Base[b].started = 0)
           /\ readable => Base = entry
           /\ ~readable => \A b \in Builds :
                 Base[b].probe = "none" /\ Base[b].started = 0 /\ Base[b].failure = 0
<1>1. 0 \in Times /\ NoEntry \in Entries
  BY BoundsAssumption DEF Times, NoEntry, Entries
<1>2. NoEntry.probe = "none" /\ NoEntry.started = 0 /\ NoEntry.failure = 0
  BY DEF NoEntry
<1>3. QED
  BY <1>1, <1>2 DEF TypeOK, Base

LEMMA KeptNotes ==
    ASSUME TypeOK
    PROVE  Kept \subseteq standing /\ Kept \subseteq Notes /\ (readable => Kept = standing)
           /\ (~readable => \A r \in Kept : ~r.saves)
  BY DEF Kept, TypeOK

LEMMA BlursNumbers ==
    ASSUME NEW r \in Notes, NEW S \in SUBSET Notes
    PROVE  Blurs(r, S) \subseteq Numbers
  BY DEF Blurs, Notes

LEMMA StandsNotes ==
    ASSUME NEW r \in Notes, NEW b \in BOOLEAN
    PROVE  Stands(r, b) \subseteq Notes
           /\ \A x \in Stands(r, b) : /\ x.n = r.n /\ x.lab = r.lab /\ x.build = r.build
                                      /\ x.stamp = r.stamp /\ x.saves = b
                                      /\ r.n > answered[r.build]
<1> DEFINE m == [r EXCEPT !.saves = b]
<1>1. /\ m \in Notes /\ m.n = r.n /\ m.lab = r.lab /\ m.build = r.build
      /\ m.stamp = r.stamp /\ m.saves = b
  BY Marked
<1>2. Stands(r, b) = IF r.n > answered[r.build] THEN {m} ELSE {}
  BY DEF Stands
<1> HIDE DEF m
<1>3. QED
  BY <1>1, <1>2

\* What NoteSaved makes of the failures that stand.
Flushed(r) == {IF x.lab = r.lab /\ x.build = r.build THEN [x EXCEPT !.saves = TRUE] ELSE x : x \in Kept}

LEMMA FlushedNotes ==
    ASSUME TypeOK, NEW r, NEW y \in Flushed(r)
    PROVE  \E x \in Kept : /\ y \in Notes /\ y.n = x.n /\ y.lab = x.lab /\ y.build = x.build
                           /\ y.stamp = x.stamp
                           /\ (y.saves \/ y = x)
                           /\ ~y.saves => (x.lab # r.lab \/ x.build # r.build)
                           /\ (y.saves /\ ~x.saves) => (x.lab = r.lab /\ x.build = r.build)
<1>1. PICK x \in Kept :
        y = IF x.lab = r.lab /\ x.build = r.build THEN [x EXCEPT !.saves = TRUE] ELSE x
  BY DEF Flushed
<1>2. x \in Notes
  BY KeptNotes
<1>3. CASE x.lab = r.lab /\ x.build = r.build
  BY <1>1, <1>2, <1>3, Marked
<1>4. CASE ~(x.lab = r.lab /\ x.build = r.build)
  BY <1>1, <1>2, <1>4
<1>5. QED
  BY <1>3, <1>4

-----------------------------------------------------------------------------
(* Types *)

LEMMA InitTypes == Init => TypeOK
<1>1. /\ 1 \in 1..MaxTime /\ 0 \in Times /\ 0 \in 0..MaxFailures /\ 0 \in 0..MaxProbes
      /\ 0 \in 0..MaxTroubles /\ 0 \in 0..0
  BY BoundsAssumption DEF Times
<1>2. NoEntry \in Entries /\ NoEntry.probe = "none" /\ NoEntry.started = 0
  BY <1>1 DEF NoEntry, Entries
<1>3. QED
  BY <1>1, <1>2 DEF Init, TypeOK

\* UpdateFails and Trouble keep the types.
LEMMA FailsTyped ==
    ASSUME TypeOK
    PROVE  /\ Trouble => troubles' \in 0..MaxTroubles
           /\ UpdateFails => /\ readable' \in BOOLEAN /\ entry' \in [Builds -> Entries]
                             /\ \A b \in Builds : (entry'[b].probe = "none") = (entry'[b].started = 0)
                             /\ clear' \subseteq Builds /\ troubles' \in 0..MaxTroubles
<1>1. Trouble => troubles' \in 0..MaxTroubles
  BY BoundsAssumption DEF Trouble, TypeOK
<1>2. ASSUME UpdateFails
      PROVE  /\ readable' \in BOOLEAN /\ clear' \subseteq Builds /\ Trouble
             /\ entry' = entry \/ entry' = Base
  BY <1>2 DEF UpdateFails, TypeOK, file
<1>3. QED
  BY <1>1, <1>2, BaseEntries DEF TypeOK

LEMMA NextTypes == TypeOK /\ (probe # "none" => started > 0) /\ [Next]_vars => TypeOK'
<1> SUFFICES ASSUME TypeOK, probe # "none" => started > 0, [Next]_vars PROVE TypeOK'
  OBVIOUS
<1>1. ASSUME NEW p \in Labs, NEW saves \in BOOLEAN, CallFails(p, saves) PROVE TypeOK'
  <2> DEFINE r == [n |-> failures + 1, lab |-> p, build |-> loaded[p], stamp |-> clock,
                   saves |-> saves]
  <2>1. failures' = failures + 1 /\ failures' \in 0..MaxFailures /\ failures + 1 \in Numbers
    BY <1>1, BoundsAssumption DEF CallFails, TypeOK, Numbers
  <2>2. r \in Notes /\ r.n = failures' /\ r.stamp > 0
    <3>1. clock \in Times /\ clock > 0 /\ loaded[p] \in Builds /\ p \in Writers
      BY BoundsAssumption DEF TypeOK, Times, Writers
    <3>2. QED
      BY <2>1, <3>1 DEF Notes
  <2>3. pending' = pending \cup {r}
    BY <1>1 DEF CallFails
  <2> HIDE DEF r
  <2>4. pending' \subseteq Notes /\ \A x \in pending' : x.stamp > 0 /\ x.n <= failures'
    <3>1. \A x \in pending : x \in Notes /\ x.stamp > 0 /\ x.n <= failures
      BY DEF TypeOK
    <3>2. \A x \in pending : x.n <= failures'
      BY <2>1, <3>1, BoundsAssumption DEF TypeOK, Notes, Numbers
    <3>3. failures' <= failures'
      BY <2>1
    <3>4. QED
      BY <2>2, <2>3, <3>1, <3>2, <3>3
  <2>5. upto \in 0..failures' /\ answered \in [Builds -> 0..failures']
    BY <2>1 DEF TypeOK
  <2>6. clear' \subseteq Builds
    BY <1>1 DEF CallFails, TypeOK
  <2>7. QED
    BY <1>1, <2>1, <2>4, <2>5, <2>6 DEF CallFails, TypeOK, file, probing
<1>2. ASSUME NEW r \in pending, NoteSaved(r) PROVE TypeOK'
  <2>1. r \in Notes /\ r.stamp \in Times /\ r.build \in Builds
    BY DEF TypeOK, Notes
  <2>2. PICK e \in Entries : /\ e = Bumped(Base[r.build], r.stamp)
                             /\ (e.probe = "none") = (e.started = 0)
    <3>1. PICK b \in Entries : b = Base[r.build] /\ (b.probe = "none") = (b.started = 0)
      BY <2>1, BaseEntries
    <3>2. PICK e \in Entries : /\ e = Bumped(b, r.stamp) /\ e.probe = b.probe
                               /\ e.started = b.started
      BY <2>1, Entered
    <3>3. (e.probe = "none") = (e.started = 0)
      BY <3>1, <3>2
    <3>4. QED
      BY <3>1, <3>2, <3>3
  <2>3. entry' = [Base EXCEPT ![r.build] = e]
    BY <1>2, <2>2 DEF NoteSaved
  <2>4. entry' \in [Builds -> Entries]
        /\ \A b \in Builds : (entry'[b].probe = "none") = (entry'[b].started = 0)
    BY <2>1, <2>2, <2>3, BaseEntries
  <2>5. mem' \in [Labs -> Times]
    BY <1>2, BoundsAssumption DEF NoteSaved, TypeOK, Times
  <2>6. standing' \subseteq Notes
    BY <1>2, <2>1, FlushedNotes, StandsNotes DEF NoteSaved, Flushed
  <2>7. blurred' \subseteq Numbers
    <3>1. {x \in Kept : x.saves \/ x.lab = r.lab} \subseteq Notes
      BY KeptNotes
    <3>2. QED
      BY <1>2, <2>1, <3>1, BlursNumbers DEF NoteSaved, TypeOK
  <2>8. clear' \subseteq Builds
    BY <1>2 DEF NoteSaved, TypeOK
  <2>9. QED
    BY <1>2, <2>4, <2>5, <2>6, <2>7, <2>8 DEF NoteSaved, TypeOK, probing, counters
<1>3. ASSUME NEW r \in pending, NoteKept(r) PROVE TypeOK'
  <2>1. r \in Notes /\ r.stamp \in Times /\ r.build \in Builds /\ r.n \in Numbers
    BY DEF TypeOK, Notes
  <2>2. /\ readable' \in BOOLEAN /\ entry' \in [Builds -> Entries]
        /\ \A b \in Builds : (entry'[b].probe = "none") = (entry'[b].started = 0)
        /\ clear' \subseteq Builds /\ troubles' \in 0..MaxTroubles
    BY <1>3, FailsTyped DEF NoteKept, TypeOK, file
  <2>3. mem' \in [Labs -> Times]
    BY <1>3, <2>1 DEF NoteKept, Keeps, TypeOK
  <2>4. standing' \subseteq Notes
    <3>1. standing \subseteq Notes
      BY DEF TypeOK
    <3>2. QED
      BY <1>3, <2>1, <3>1, KeptNotes, StandsNotes DEF NoteKept
  <2>5. blurred' \subseteq Numbers
    <3>1. {x \in standing : x.lab = r.lab} \subseteq Notes
      BY DEF TypeOK
    <3>2. Early(r) \subseteq Numbers
      BY <2>1 DEF Early, TypeOK, Notes
    <3>3. QED
      BY <1>3, <2>1, <3>1, <3>2, BlursNumbers DEF NoteKept, TypeOK
  <2>6. QED
    BY <1>3, <2>2, <2>3, <2>4, <2>5 DEF NoteKept, TypeOK, probing
<1>4. ASSUME NEW r \in pending, RecordFail(r) PROVE TypeOK'
  <2>1. r \in Notes /\ r.stamp \in Times /\ subject \in Builds
    BY DEF TypeOK, Notes
  <2>2. PICK e \in Entries : e = Bumped(Base[subject], r.stamp)
    BY <2>1, BaseEntries, Entered
  <2>3. PICK f \in Entries : f = Probed(e, "fail") /\ f.probe = "fail" /\ f.started = started
    BY ProbedEntry DEF TypeOK
  <2>4. entry' = [Base EXCEPT ![subject] = f]
    BY <1>4, <2>2, <2>3 DEF RecordFail
  <2>5. started # 0
    BY <1>4 DEF RecordFail, TypeOK, Times
  <2>6. entry' \in [Builds -> Entries]
        /\ \A b \in Builds : (entry'[b].probe = "none") = (entry'[b].started = 0)
    BY <2>1, <2>3, <2>4, <2>5, BaseEntries
  <2>7. standing' \subseteq Notes
    BY <1>4, <2>1, KeptNotes, StandsNotes DEF RecordFail
  <2>8. blurred' \subseteq Numbers
    <3>1. {x \in Kept : x.saves} \subseteq Notes
      BY KeptNotes
    <3>2. QED
      BY <1>4, <2>1, <3>1, BlursNumbers DEF RecordFail, TypeOK
  <2>9. clear' \subseteq Builds /\ probe' = "none" /\ UNCHANGED <<subject, started, upto, skewed>>
    BY <1>4 DEF RecordFail, TypeOK, Forget
  <2>10. QED
    BY <1>4, <2>6, <2>7, <2>8, <2>9 DEF RecordFail, TypeOK, counters
<1>5. ASSUME NEW b \in Builds, BeginProbe(b) PROVE TypeOK'
  <2>1. clock' \in 1..MaxTime /\ started' \in Times /\ probes' \in 0..MaxProbes
    BY <1>5, BoundsAssumption DEF BeginProbe, TypeOK, Times
  <2>2. upto' \in 0..failures
    BY <1>5 DEF BeginProbe, TypeOK
  <2>3. QED
    BY <1>5, <2>1, <2>2 DEF BeginProbe, TypeOK, file, history
<1>6. CASE TakeProbeLock \/ ProbePasses
  BY <1>6 DEF TakeProbeLock, ProbePasses, TypeOK, file, history, counters
<1>7. CASE ProbeFails
  <2> DEFINE r == [n |-> failures + 1, lab |-> "probe", build |-> subject, stamp |-> clock,
                   saves |-> TRUE]
  <2>1. failures' = failures + 1 /\ failures' \in 0..MaxFailures /\ failures + 1 \in Numbers
    BY <1>7, BoundsAssumption DEF ProbeFails, TypeOK, Numbers
  <2>2. r \in Notes /\ r.n = failures' /\ r.stamp > 0
    <3>1. clock \in Times /\ clock > 0 /\ subject \in Builds /\ "probe" \in Writers
      BY BoundsAssumption DEF TypeOK, Times, Writers
    <3>2. QED
      BY <2>1, <3>1 DEF Notes
  <2>3. pending' = pending \cup {r}
    BY <1>7 DEF ProbeFails
  <2> HIDE DEF r
  <2>4. pending' \subseteq Notes /\ \A x \in pending' : x.stamp > 0 /\ x.n <= failures'
    <3>1. \A x \in pending : x \in Notes /\ x.stamp > 0 /\ x.n <= failures
      BY DEF TypeOK
    <3>2. \A x \in pending : x.n <= failures'
      BY <2>1, <3>1, BoundsAssumption DEF TypeOK, Notes, Numbers
    <3>3. failures' <= failures'
      BY <2>1
    <3>4. QED
      BY <2>2, <2>3, <3>1, <3>2, <3>3
  <2>5. upto \in 0..failures' /\ answered \in [Builds -> 0..failures']
    BY <2>1 DEF TypeOK
  <2>6. clear' \subseteq Builds
    BY <1>7 DEF ProbeFails, TypeOK
  <2>7. QED
    BY <1>7, <2>1, <2>4, <2>5, <2>6 DEF ProbeFails, TypeOK, file
<1>8. CASE RecordPass
  <2>1. subject \in Builds /\ 0 \in Times
    BY BoundsAssumption DEF TypeOK, Times
  <2>2. PICK e \in Entries : e = Base[subject]
    BY <2>1, BaseEntries
  <2> DEFINE f == IF Landed(e.failure, started, clock) THEN e.failure ELSE 0
  <2>3. f \in Times
    BY <2>1 DEF Entries
  <2>4. entry' = [Base EXCEPT ![subject] = Probed([e EXCEPT !.failure = f], "pass")]
    BY <1>8, <2>2 DEF RecordPass
  <2> HIDE DEF f
  <2>5. PICK c \in Entries : c = [e EXCEPT !.failure = f]
    BY <2>3, Entered
  <2>6. PICK g \in Entries : g = Probed(c, "pass") /\ g.probe = "pass" /\ g.started = started
    BY ProbedEntry DEF TypeOK
  <2>7. entry' = [Base EXCEPT ![subject] = g]
    BY <2>4, <2>5, <2>6
  <2>8. started # 0
    BY <1>8 DEF RecordPass, TypeOK, Times
  <2>9. entry' \in [Builds -> Entries]
        /\ \A b \in Builds : (entry'[b].probe = "none") = (entry'[b].started = 0)
    BY <2>1, <2>6, <2>7, <2>8, BaseEntries
  <2>10. standing' \subseteq Notes
    BY <1>8, KeptNotes DEF RecordPass
  <2>11. blurred' \subseteq Numbers
    <3>1. \A x \in Kept : x.n \in Numbers
      BY KeptNotes DEF Notes
    <3>2. PICK later \in SUBSET Kept :
             blurred' = IF skewed THEN blurred \cup Misdated(later, e.failure) ELSE blurred
      BY <1>8, <2>2 DEF RecordPass
    <3>3. Misdated(later, e.failure) \subseteq Numbers
      BY <3>1 DEF Misdated
    <3>4. QED
      BY <3>2, <3>3 DEF TypeOK
  <2>12. answered' \in [Builds -> 0..failures] /\ clear' \subseteq Builds
    BY <1>8, <2>1 DEF RecordPass, TypeOK
  <2>13. readable' \in BOOLEAN /\ probe' = "none" /\ UNCHANGED <<subject, started, upto, skewed>>
    BY <1>8 DEF RecordPass, Forget
  <2>14. QED
    BY <1>8, <2>9, <2>10, <2>11, <2>12, <2>13 DEF RecordPass, TypeOK, counters
<1>9. CASE ProbeLost
  <2>1. /\ readable' \in BOOLEAN /\ entry' \in [Builds -> Entries]
        /\ \A b \in Builds : (entry'[b].probe = "none") = (entry'[b].started = 0)
        /\ clear' \subseteq Builds /\ troubles' \in 0..MaxTroubles
    BY <1>9, FailsTyped DEF ProbeLost, TypeOK, file
  <2>2. standing' \subseteq Notes
    <3>1. standing \subseteq Notes
      BY DEF TypeOK
    <3>2. QED
      BY <1>9, <3>1, KeptNotes DEF ProbeLost
  <2>3. probe' = "none" /\ UNCHANGED <<subject, started, upto, skewed>> /\ pending' \subseteq pending
    BY <1>9 DEF ProbeLost, Forget
  <2>4. QED
    BY <1>9, <2>1, <2>2, <2>3 DEF ProbeLost, TypeOK
<1>10. CASE Tick
  <2>1. clock' \in 1..MaxTime
    BY <1>10, BoundsAssumption DEF Tick, TypeOK
  <2>2. QED
    BY <1>10, <2>1 DEF Tick, TypeOK, file, probing, history, counters
<1>11. CASE Damage
  BY <1>11, FailsTyped DEF Damage, TypeOK, probing, history
<1>12. ASSUME NEW to \in 1..MaxTime, SetBack(to) PROVE TypeOK'
  <2>1. skewed' \in BOOLEAN /\ stepped' \in BOOLEAN /\ troubles' \in 0..MaxTroubles
    BY <1>12, FailsTyped DEF SetBack, TypeOK
  <2>2. QED
    BY <1>12, <2>1 DEF SetBack, TypeOK, file
<1>13. ASSUME NEW p \in Labs, NEW b \in Builds, Restart(p, b) PROVE TypeOK'
  <2>1. /\ loaded' \in [Labs -> Builds] /\ mem' \in [Labs -> Times] /\ troubles' \in 0..MaxTroubles
        /\ pending' \subseteq pending /\ standing' \subseteq standing
    BY <1>13, FailsTyped, BoundsAssumption DEF Restart, TypeOK, Times
  <2>2. QED
    BY <1>13, <2>1 DEF Restart, TypeOK, file, probing
<1>14. CASE UNCHANGED vars
  BY <1>14 DEF vars, TypeOK, file, probing, history, counters
<1>15. QED
  BY <1>1, <1>2, <1>3, <1>4, <1>5, <1>6, <1>7, <1>8, <1>9, <1>10, <1>11, <1>12, <1>13, <1>14 DEF Next

-----------------------------------------------------------------------------
(* What the writers do, field by field *)

\* The same failure, as noted elsewhere.
Same(y, x) == y.n = x.n /\ y.lab = x.lab /\ y.build = x.build /\ y.stamp = x.stamp

LEMMA PendingNotes ==
    ASSUME TypeOK, NEW r \in pending
    PROVE  /\ r \in Notes /\ r.n \in Nat /\ r.stamp \in Nat /\ r.stamp > 0 /\ r.build \in Builds
           /\ r.n <= failures
  BY DEF TypeOK, Notes, Numbers, Times

LEMMA StandingNotes ==
    ASSUME TypeOK, NEW r \in standing
    PROVE  /\ r \in Notes /\ r.n \in Nat /\ r.stamp \in Nat /\ r.build \in Builds
  BY DEF TypeOK, Notes, Numbers, Times

LEMMA NoteSavedEffect ==
    ASSUME TypeOK, NEW r \in pending, NoteSaved(r)
    PROVE  /\ r.lab \in Labs /\ r.build \in Builds /\ readable' = TRUE
           /\ pending' = pending \ {r}
           /\ entry'[r.build].failure = r.stamp
           /\ entry'[r.build].probe = Base[r.build].probe
           /\ entry'[r.build].started = Base[r.build].started
           /\ \A b \in Builds : b # r.build => entry'[b] = Base[b]
           /\ mem'[r.lab] = 0 /\ \A p \in Labs : p # r.lab => mem'[p] = mem[p]
           /\ \A y \in standing' :
                 \/ Same(y, r) /\ y.saves /\ r.n > answered[r.build]
                 \/ \E x \in Kept : /\ Same(y, x) /\ (y.saves \/ y = x)
                                    /\ ~y.saves => (x.lab # r.lab \/ x.build # r.build)
                                    /\ (y.saves /\ ~x.saves) => (x.lab = r.lab /\ x.build = r.build)
           /\ \A x \in Kept : (/\ x.saves \/ x.lab = r.lab
                               /\ x.build = r.build /\ x.n > r.n /\ x.stamp # r.stamp)
                                 => x.n \in blurred'
           /\ blurred \subseteq blurred'
           /\ UNCHANGED <<clock, loaded, probing, stepped, answered, counters>>
<1>1. r \in Notes /\ r.stamp \in Times /\ r.build \in Builds /\ r.lab \in Labs
  BY DEF TypeOK, Notes, NoteSaved
<1>2. PICK b \in Entries : b = Base[r.build]
  BY <1>1, BaseEntries
<1>3. PICK e \in Entries : /\ e = Bumped(b, r.stamp) /\ e.probe = b.probe
                           /\ e.started = b.started /\ e.failure = r.stamp
  BY <1>1, Entered
<1>4. entry' = [Base EXCEPT ![r.build] = e]
  BY <1>2, <1>3 DEF NoteSaved
<1>5. entry'[r.build] = e /\ \A c \in Builds : c # r.build => entry'[c] = Base[c]
  BY <1>1, <1>4, BaseEntries
<1>6. mem'[r.lab] = 0 /\ \A p \in Labs : p # r.lab => mem'[p] = mem[p]
  BY <1>1 DEF NoteSaved, TypeOK
<1>7. ASSUME NEW y \in standing'
      PROVE  \/ Same(y, r) /\ y.saves /\ r.n > answered[r.build]
             \/ \E x \in Kept : /\ Same(y, x) /\ (y.saves \/ y = x)
                                /\ ~y.saves => (x.lab # r.lab \/ x.build # r.build)
                                /\ (y.saves /\ ~x.saves) => (x.lab = r.lab /\ x.build = r.build)
  <2>1. y \in Flushed(r) \/ y \in Stands(r, TRUE)
    BY <1>7 DEF NoteSaved, Flushed
  <2>2. CASE y \in Flushed(r)
    BY <2>2, FlushedNotes DEF Same
  <2>3. CASE y \in Stands(r, TRUE)
    BY <1>1, <2>3, StandsNotes DEF Same
  <2>4. QED
    BY <2>1, <2>2, <2>3
<1>8. /\ \A x \in Kept : (/\ x.saves \/ x.lab = r.lab
                          /\ x.build = r.build /\ x.n > r.n /\ x.stamp # r.stamp) => x.n \in blurred'
      /\ blurred \subseteq blurred'
  BY DEF NoteSaved, Blurs
<1>9. QED
  BY <1>1, <1>2, <1>3, <1>5, <1>6, <1>7, <1>8 DEF NoteSaved

\* Nothing that stands is lost by a note, and the failure noted stands if no pass answered it.
LEMMA NoteSavedKeeps ==
    ASSUME TypeOK, NEW r \in pending, NoteSaved(r)
    PROVE  /\ \A x \in Kept : \E y \in standing' :
                 Same(y, x) /\ (x.saves => y.saves) /\ (x.lab # r.lab => y = x)
           /\ r.n > answered[r.build] => \E y \in standing' : Same(y, r) /\ y.saves
<1>1. r \in Notes
  BY DEF TypeOK
<1>2. Flushed(r) \subseteq standing' /\ Stands(r, TRUE) \subseteq standing'
  BY DEF NoteSaved, Flushed
<1>3. ASSUME NEW x \in Kept
      PROVE  \E y \in standing' : Same(y, x) /\ (x.saves => y.saves) /\ (x.lab # r.lab => y = x)
  <2>1. x \in Notes
    BY KeptNotes
  <2>2. (IF x.lab = r.lab /\ x.build = r.build THEN [x EXCEPT !.saves = TRUE] ELSE x) \in standing'
    BY <1>2 DEF Flushed
  <2>3. CASE x.lab = r.lab /\ x.build = r.build
    BY <2>1, <2>2, <2>3, Marked DEF Same
  <2>4. CASE ~(x.lab = r.lab /\ x.build = r.build)
    BY <2>2, <2>4 DEF Same
  <2>5. QED
    BY <2>3, <2>4
<1>4. ASSUME r.n > answered[r.build] PROVE \E y \in standing' : Same(y, r) /\ y.saves
  <2>1. [r EXCEPT !.saves = TRUE] \in standing'
    BY <1>2, <1>4 DEF Stands
  <2>2. QED
    BY <1>1, <2>1, Marked DEF Same
<1>5. QED
  BY <1>3, <1>4

LEMMA FailsEffect ==
    ASSUME TypeOK, UpdateFails \/ UNCHANGED <<file, clear>>
    PROVE  \/ UNCHANGED <<readable, entry, clear>>
           \/ ~readable /\ readable' = TRUE /\ clear' = {} /\ entry' = Base
  BY DEF UpdateFails, file, TypeOK

LEMMA NoteKeptEffect ==
    ASSUME TypeOK, NEW r \in pending, NoteKept(r)
    PROVE  /\ r.lab \in Labs /\ pending' = pending \ {r}
           /\ \/ UNCHANGED <<readable, entry, clear>>
              \/ ~readable /\ readable' = TRUE /\ clear' = {} /\ entry' = Base
           /\ mem'[r.lab] = r.stamp /\ \A p \in Labs : p # r.lab => mem'[p] = mem[p]
           /\ \A y \in standing' :
                 \/ Same(y, r) /\ ~y.saves /\ r.n > answered[r.build]
                 \/ /\ y \in standing
                    /\ (y.saves /\ readable' # readable) => FALSE
           /\ \A x \in standing : (/\ x.lab = r.lab /\ x.build = r.build /\ x.n > r.n
                                   /\ x.stamp # r.stamp) => x.n \in blurred'
           /\ (r.n > answered[r.build] /\ r.stamp < entry'[r.build].started) =>
                 /\ r.n \in blurred'
                 /\ \A x \in standing : (x.lab = r.lab /\ ~x.saves) => x.n \in blurred'
           /\ blurred \subseteq blurred'
           /\ UNCHANGED <<clock, loaded, probing, stepped, answered, failures, probes>>
<1>1. r \in Notes /\ r.lab \in Labs
  BY DEF TypeOK, NoteKept
<1>2. /\ mem'[r.lab] = r.stamp /\ \A p \in Labs : p # r.lab => mem'[p] = mem[p]
  BY <1>1 DEF NoteKept, Keeps, TypeOK
<1>3. /\ \/ UNCHANGED <<readable, entry, clear>>
         \/ ~readable /\ readable' = TRUE /\ clear' = {} /\ entry' = Base
  BY FailsEffect DEF NoteKept
<1>4. ASSUME NEW y \in standing'
      PROVE  \/ Same(y, r) /\ ~y.saves /\ r.n > answered[r.build]
             \/ /\ y \in standing
                /\ (y.saves /\ readable' # readable) => FALSE
  <2>1. y \in Stands(r, FALSE) \/ y \in (IF readable' = readable THEN standing ELSE Kept)
    BY <1>4 DEF NoteKept
  <2>2. CASE y \in Stands(r, FALSE)
    BY <1>1, <2>2, StandsNotes DEF Same
  <2>3. CASE y \in (IF readable' = readable THEN standing ELSE Kept)
    <3>1. readable' = readable \/ ~readable
      BY <1>3
    <3>2. QED
      BY <2>3, <3>1, KeptNotes
  <2>4. QED
    BY <2>1, <2>2, <2>3
<1>5. /\ \A x \in standing : (/\ x.lab = r.lab /\ x.build = r.build /\ x.n > r.n
                              /\ x.stamp # r.stamp) => x.n \in blurred'
      /\ blurred \subseteq blurred' /\ Early(r) \subseteq blurred'
  BY DEF NoteKept, Blurs
<1>6. (r.n > answered[r.build] /\ r.stamp < entry'[r.build].started) =>
         /\ r.n \in blurred'
         /\ \A x \in standing : (x.lab = r.lab /\ ~x.saves) => x.n \in blurred'
  BY <1>5 DEF Early
<1>7. QED
  BY <1>1, <1>2, <1>3, <1>4, <1>5, <1>6 DEF NoteKept

LEMMA NoteKeptKeeps ==
    ASSUME TypeOK, NEW r \in pending, NoteKept(r)
    PROVE  /\ \A x \in standing : (x.saves => readable' = readable) => x \in standing'
           /\ r.n > answered[r.build] => \E y \in standing' : Same(y, r) /\ ~y.saves
<1>1. r \in Notes
  BY DEF TypeOK
<1>2. /\ (IF readable' = readable THEN standing ELSE Kept) \subseteq standing'
      /\ Stands(r, FALSE) \subseteq standing'
  BY DEF NoteKept
<1>3. \A x \in standing : (x.saves => readable' = readable) => x \in standing'
  BY <1>2 DEF Kept
<1>4. ASSUME r.n > answered[r.build] PROVE \E y \in standing' : Same(y, r) /\ ~y.saves
  <2>1. [r EXCEPT !.saves = FALSE] \in standing'
    BY <1>2, <1>4 DEF Stands
  <2>2. QED
    BY <1>1, <2>1, Marked DEF Same
<1>5. QED
  BY <1>3, <1>4

LEMMA RecordFailEffect ==
    ASSUME TypeOK, NEW r \in pending, RecordFail(r)
    PROVE  /\ probe = "fail" /\ probe' = "none" /\ UNCHANGED <<subject, started, upto, skewed>>
           /\ r.lab = "probe" /\ pending' = pending \ {r} /\ readable' = TRUE
           /\ entry'[subject].failure = r.stamp /\ entry'[subject].probe = "fail"
           /\ entry'[subject].started = started
           /\ \A b \in Builds : b # subject => entry'[b] = Base[b]
           /\ \A y \in standing' :
                 \/ Same(y, r) /\ y.saves /\ r.n > answered[r.build]
                 \/ y \in Kept
           /\ blurred \subseteq blurred'
           /\ UNCHANGED <<clock, loaded, mem, stepped, answered, counters>>
<1>1. r \in Notes /\ r.stamp \in Times /\ subject \in Builds
  BY DEF TypeOK, Notes
<1>2. PICK e \in Entries : e = Bumped(Base[subject], r.stamp) /\ e.failure = r.stamp
  <2>1. Base[subject] \in Entries
    BY <1>1, BaseEntries
  <2>2. /\ Bumped(Base[subject], r.stamp) \in Entries
        /\ Bumped(Base[subject], r.stamp).failure = r.stamp
    BY <1>1, <2>1, Entered
  <2>3. QED
    BY <2>2
<1>3. PICK f \in Entries : /\ f = Probed(e, "fail") /\ f.probe = "fail" /\ f.started = started
                           /\ f.failure = r.stamp
  BY <1>2, ProbedEntry DEF TypeOK
<1>4. entry' = [Base EXCEPT ![subject] = f]
  BY <1>2, <1>3 DEF RecordFail
<1>5. entry'[subject] = f /\ \A b \in Builds : b # subject => entry'[b] = Base[b]
  BY <1>1, <1>4, BaseEntries
<1>6. \A y \in standing' : \/ Same(y, r) /\ y.saves /\ r.n > answered[r.build]
                           \/ y \in Kept
  BY <1>1, StandsNotes DEF RecordFail, Same
<1>7. QED
  BY <1>3, <1>5, <1>6 DEF RecordFail, Forget

LEMMA RecordPassEffect ==
    ASSUME TypeOK, RecordPass
    PROVE  /\ probe = "pass" /\ probe' = "none" /\ UNCHANGED <<subject, started, upto, skewed>>
           /\ readable' = TRUE
           /\ entry'[subject].failure =
                 IF started <= Base[subject].failure /\ Base[subject].failure <= clock + Slack
                 THEN Base[subject].failure ELSE 0
           /\ entry'[subject].probe = "pass" /\ entry'[subject].started = started
           /\ \A b \in Builds : b # subject => entry'[b] = Base[b]
           /\ standing' = {r \in Kept : r.build # subject \/ r.n > upto}
           /\ blurred \subseteq blurred'
           /\ \A r \in Kept : (skewed /\ r.build = subject /\ r.n > upto /\ r.n \notin blurred') =>
                 /\ r.saves => Base[subject].failure \in Window
                 /\ ~r.saves => ~(mem[r.lab] < started) /\ ~(r.stamp < started)
           /\ answered'[subject] = upto
           /\ \A b \in Builds : b # subject => answered'[b] = answered[b]
           /\ UNCHANGED <<clock, loaded, mem, pending, stepped, counters>>
<1>1. subject \in Builds /\ 0 \in Times
  BY BoundsAssumption DEF TypeOK, Times
<1>2. PICK e \in Entries : e = Base[subject]
  BY <1>1, BaseEntries
<1> DEFINE f == IF Landed(e.failure, started, clock) THEN e.failure ELSE 0
<1>3. f \in Times
  BY <1>1 DEF Entries
<1>4. entry' = [Base EXCEPT ![subject] = Probed([e EXCEPT !.failure = f], "pass")]
  BY <1>2 DEF RecordPass
<1>5. f = IF started <= Base[subject].failure /\ Base[subject].failure <= clock + Slack
          THEN Base[subject].failure ELSE 0
  BY <1>2 DEF Landed
<1> HIDE DEF f
<1>6. PICK c \in Entries : c = [e EXCEPT !.failure = f] /\ c.failure = f
  BY <1>3, Entered
<1>7. PICK g \in Entries : g = Probed(c, "pass") /\ g.probe = "pass" /\ g.started = started
                           /\ g.failure = f
  <2>1. started \in Times
    BY DEF TypeOK
  <2>2. /\ Probed(c, "pass") \in Entries /\ Probed(c, "pass").probe = "pass"
        /\ Probed(c, "pass").started = started /\ Probed(c, "pass").failure = f
    BY <1>6, <2>1, ProbedEntry
  <2>3. QED
    BY <2>2
<1>8. entry' = [Base EXCEPT ![subject] = g]
  BY <1>4, <1>6, <1>7
<1>9. entry'[subject] = g /\ \A b \in Builds : b # subject => entry'[b] = Base[b]
  BY <1>1, <1>8, BaseEntries
<1>10. /\ blurred \subseteq blurred'
       /\ \A r \in Kept : (skewed /\ r.build = subject /\ r.n > upto /\ r.n \notin blurred') =>
             /\ r.saves => Base[subject].failure \in Window
             /\ ~r.saves => ~(mem[r.lab] < started) /\ ~(r.stamp < started)
  <2> DEFINE later == {r \in Kept : r.build = subject /\ r.n > upto}
  <2>1. blurred' = IF skewed THEN blurred \cup Misdated(later, e.failure) ELSE blurred
    BY <1>2 DEF RecordPass
  <2>2. \A r \in later : r.n \notin Misdated(later, e.failure) =>
             /\ r.saves => e.failure \in Window
             /\ ~r.saves => ~(mem[r.lab] < started) /\ ~(r.stamp < started)
    BY DEF Misdated
  <2>3. QED
    BY <1>2, <2>1, <2>2
<1>11. /\ answered'[subject] = upto
       /\ \A b \in Builds : b # subject => answered'[b] = answered[b]
  BY <1>1 DEF RecordPass, TypeOK
<1>12. QED
  BY <1>5, <1>7, <1>9, <1>10, <1>11 DEF RecordPass, Forget

-----------------------------------------------------------------------------
(* Who notes what *)

LEMMA InitNotes == Init => NoteInv
  BY DEF Init, NoteInv, Probing

LEMMA NextNotes == TypeOK /\ NoteInv /\ [Next]_vars => NoteInv'
<1> SUFFICES ASSUME TypeOK, NoteInv, [Next]_vars PROVE NoteInv'
  OBVIOUS
<1> USE LabsAssumption
<1>1. ASSUME NEW p \in Labs, NEW saves \in BOOLEAN, CallFails(p, saves) PROVE NoteInv'
  <2>1. \A r \in pending' : r \in pending \/ (r.lab = p /\ r.build = loaded[p])
    BY <1>1 DEF CallFails
  <2>2. \A r \in standing : r.n <= failures'
    BY <1>1, StandingNotes DEF CallFails, NoteInv, TypeOK
  <2>3. p # "probe"
    OBVIOUS
  <2>4. UNCHANGED <<loaded, probing, standing, answered>>
    BY <1>1 DEF CallFails
  <2>5. QED
    BY <2>1, <2>2, <2>3, <2>4 DEF NoteInv, Probing, probing
<1>2. ASSUME NEW r \in pending, NoteSaved(r) PROVE NoteInv'
  <2>1. \A y \in standing' : \/ y.n = r.n /\ y.build = r.build /\ y.saves /\ r.n > answered[r.build]
                             \/ \E x \in standing : Same(y, x) /\ (y.saves \/ y = x)
    <3>1. Kept \subseteq standing
      BY KeptNotes
    <3>2. \A y \in standing' :
             \/ Same(y, r) /\ y.saves /\ r.n > answered[r.build]
             \/ \E x \in Kept : Same(y, x) /\ (y.saves \/ y = x)
      BY <1>2, NoteSavedEffect
    <3>3. QED
      BY <3>1, <3>2 DEF Same
  <2>2. UNCHANGED <<loaded, probing, answered, failures>> /\ pending' \subseteq pending
    BY <1>2 DEF NoteSaved, counters
  <2>3. r.n <= failures
    BY PendingNotes
  <2>4. QED
    BY <2>1, <2>2, <2>3 DEF NoteInv, Probing, probing, Same
<1>3. ASSUME NEW r \in pending, NoteKept(r) PROVE NoteInv'
  <2>1. \A y \in standing' : \/ Same(y, r) /\ r.n > answered[r.build]
                             \/ y \in standing
    BY <1>3, NoteKeptEffect
  <2>2. UNCHANGED <<loaded, probing, answered, failures>> /\ pending' \subseteq pending /\ r.lab \in Labs
    BY <1>3 DEF NoteKept
  <2>3. r.n <= failures
    BY PendingNotes
  <2>4. QED
    BY <2>1, <2>2, <2>3 DEF NoteInv, Probing, probing, Same
<1>4. ASSUME NEW r \in pending, RecordFail(r) PROVE NoteInv'
  <2>1. \A y \in standing' : \/ y.n = r.n /\ y.build = r.build /\ y.saves /\ r.n > answered[r.build]
                             \/ y \in standing
    BY <1>4, RecordFailEffect, KeptNotes DEF Same
  <2>2. UNCHANGED <<loaded, answered, failures>> /\ pending' = pending \ {r} /\ probe' = "none"
        /\ r.lab = "probe"
    BY <1>4, RecordFailEffect DEF counters
  <2>3. r.n <= failures
    BY PendingNotes
  <2>4. QED
    BY <2>1, <2>2, <2>3 DEF NoteInv, Probing
<1>5. ASSUME NEW b \in Builds, BeginProbe(b) PROVE NoteInv'
  <2>1. \A c \in Builds : answered[c] <= failures
    BY DEF TypeOK
  <2>2. \A r \in pending : r.lab # "probe"
    BY <1>5 DEF NoteInv, BeginProbe
  <2>3. started' > 0
    BY <1>5 DEF BeginProbe, TypeOK
  <2>4. UNCHANGED <<loaded, pending, standing, answered, failures>> /\ upto' = failures
    BY <1>5 DEF BeginProbe, history
  <2>5. QED
    BY <2>1, <2>2, <2>3, <2>4 DEF NoteInv, Probing
<1>6. CASE TakeProbeLock \/ ProbePasses
  BY <1>6 DEF TakeProbeLock, ProbePasses, NoteInv, Probing, history, counters
<1>7. CASE ProbeFails
  <2>1. \A r \in pending' : r \in pending \/ (r.lab = "probe" /\ r.build = subject)
    BY <1>7 DEF ProbeFails
  <2>2. \A r \in pending : r.lab # "probe"
    BY <1>7 DEF NoteInv, ProbeFails
  <2>3. \A r, x \in pending' : (r.lab = "probe" /\ x.lab = "probe") => r = x
    BY <1>7, <2>2 DEF ProbeFails
  <2>4. \A r \in standing : r.n <= failures'
    BY <1>7, StandingNotes DEF ProbeFails, NoteInv, TypeOK
  <2>5. UNCHANGED <<loaded, subject, started, upto, standing, answered>> /\ probe' = "fail"
        /\ probe = "running"
    BY <1>7 DEF ProbeFails
  <2>6. QED
    BY <2>1, <2>2, <2>3, <2>4, <2>5 DEF NoteInv, Probing
<1>8. CASE RecordPass
  <2>1. /\ UNCHANGED <<loaded, pending, failures>> /\ probe' = "none" /\ probe = "pass"
        /\ answered'[subject] = upto
        /\ \A b \in Builds : b # subject => answered'[b] = answered[b]
    BY <1>8, RecordPassEffect DEF counters
  <2>2. \A r \in standing' : r \in standing /\ (r.build # subject \/ r.n > upto)
    BY <1>8, RecordPassEffect, KeptNotes
  <2>3. \A r \in standing' : r.n > answered'[r.build]
    BY <2>1, <2>2, StandingNotes DEF NoteInv
  <2>4. \A r \in pending : r.lab # "probe"
    BY <2>1 DEF NoteInv
  <2>5. QED
    BY <2>1, <2>2, <2>3, <2>4 DEF NoteInv, Probing
<1>9. CASE ProbeLost
  <2>1. standing' \subseteq standing
    BY <1>9, KeptNotes DEF ProbeLost
  <2>2. UNCHANGED <<loaded, answered, failures>> /\ probe' = "none"
        /\ pending' = {r \in pending : r.lab # "probe"}
    BY <1>9 DEF ProbeLost, Forget
  <2>3. QED
    BY <2>1, <2>2 DEF NoteInv, Probing
<1>10. CASE Tick
  BY <1>10 DEF Tick, NoteInv, Probing, probing, history, counters
<1>11. CASE Damage
  BY <1>11 DEF Damage, NoteInv, Probing, probing, history
<1>12. ASSUME NEW to \in 1..MaxTime, SetBack(to) PROVE NoteInv'
  BY <1>12 DEF SetBack, NoteInv, Probing
<1>13. ASSUME NEW p \in Labs, NEW b \in Builds, Restart(p, b) PROVE NoteInv'
  <2>1. \A q \in Labs : q # p => loaded'[q] = loaded[q]
    BY <1>13 DEF Restart, TypeOK
  <2>2. /\ pending' = {r \in pending : r.lab # p}
        /\ standing' = {r \in standing : r.lab # p \/ r.saves}
        /\ UNCHANGED <<probing, answered, failures>>
    BY <1>13 DEF Restart
  <2>3. QED
    BY <2>1, <2>2 DEF NoteInv, Probing, probing
<1>14. CASE UNCHANGED vars
  BY <1>14 DEF vars, NoteInv, Probing, probing, history, counters
<1>15. QED
  BY <1>1, <1>2, <1>3, <1>4, <1>5, <1>6, <1>7, <1>8, <1>9, <1>10, <1>11, <1>12, <1>13, <1>14 DEF Next

\* The types of the model, for any labs and builds and any bounds.
THEOREM VerdictTypeCorrect == Spec => []TypeOK
<1>1. Init => TypeOK /\ NoteInv
  BY InitTypes, InitNotes
<1>2. TypeOK /\ NoteInv /\ [Next]_vars => (TypeOK /\ NoteInv)'
  BY NextTypes, NextNotes DEF NoteInv, Probing
<1>3. QED
  BY <1>1, <1>2, PTL DEF Spec

-----------------------------------------------------------------------------
(* A failure stands until a pass of a probe begun after it is recorded *)

LEMMA InitStand == Init => StampInv /\ SavedInv /\ KeptInv
  BY DEF Init, StampInv, SavedInv, KeptInv, Probing

LEMMA NextStamps == TypeOK /\ NoteInv /\ StampInv /\ [Next]_vars => StampInv'
<1> SUFFICES ASSUME TypeOK, NoteInv, StampInv, [Next]_vars PROVE StampInv'
  OBVIOUS
<1> USE DEF Probing, Since
<1>1. ASSUME NEW p \in Labs, NEW saves \in BOOLEAN, CallFails(p, saves) PROVE StampInv'
  <2>1. \A r \in pending' : r \in pending \/ r.stamp = clock
    BY <1>1 DEF CallFails
  <2>2. UNCHANGED <<clock, probing, standing>>
    BY <1>1 DEF CallFails
  <2>3. clock <= clock
    BY DEF TypeOK
  <2>4. QED
    BY <2>1, <2>2, <2>3 DEF StampInv, probing
<1>2. ASSUME NEW r \in pending, NoteSaved(r) PROVE StampInv'
  <2>1. Kept \subseteq standing
    BY KeptNotes
  <2>2. \A y \in standing' : Same(y, r) \/ \E x \in standing : Same(y, x)
    BY <1>2, <2>1, NoteSavedEffect
  <2>3. UNCHANGED <<clock, probing>> /\ pending' \subseteq pending
    BY <1>2 DEF NoteSaved
  <2>4. QED
    BY <2>2, <2>3 DEF StampInv, Same, probing
<1>3. ASSUME NEW r \in pending, NoteKept(r) PROVE StampInv'
  <2>1. \A y \in standing' : Same(y, r) \/ y \in standing
    BY <1>3, NoteKeptEffect
  <2>2. UNCHANGED <<clock, probing>> /\ pending' \subseteq pending
    BY <1>3 DEF NoteKept
  <2>3. QED
    BY <2>1, <2>2 DEF StampInv, Same, probing
<1>4. ASSUME probe' = "none" PROVE StampInv'
  BY <1>4 DEF StampInv
<1>5. ASSUME NEW b \in Builds, BeginProbe(b) PROVE StampInv'
  <2>1. started' = clock' /\ started' <= clock'
    BY <1>5 DEF BeginProbe, TypeOK
  <2>2. UNCHANGED <<pending, standing>> /\ upto' = failures
    BY <1>5 DEF BeginProbe, history
  <2>3. \A r \in pending \cup standing : ~(r.n > failures)
    BY PendingNotes, StandingNotes DEF NoteInv, TypeOK
  <2>4. QED
    BY <2>1, <2>2, <2>3 DEF StampInv
<1>6. CASE TakeProbeLock \/ ProbePasses
  BY <1>6 DEF TakeProbeLock, ProbePasses, StampInv, history
<1>7. CASE ProbeFails
  <2>1. \A r \in pending' : r \in pending \/ r.stamp = clock
    BY <1>7 DEF ProbeFails
  <2>2. UNCHANGED <<clock, started, upto, skewed, standing>> /\ probe = "running"
    BY <1>7 DEF ProbeFails
  <2>3. clock <= clock
    BY DEF TypeOK
  <2>4. QED
    BY <2>1, <2>2, <2>3 DEF StampInv
<1>8. CASE Tick
  <2>1. UNCHANGED <<probing, pending, standing>> /\ clock' = clock + 1
    BY <1>8 DEF Tick, history
  <2>2. \A t \in Nat : t <= clock => t <= clock'
    BY <2>1 DEF TypeOK
  <2>3. started \in Nat /\ \A r \in pending \cup standing : r.stamp \in Nat
    BY PendingNotes, StandingNotes DEF TypeOK, Times
  <2>4. QED
    BY <2>1, <2>2, <2>3 DEF StampInv, probing
<1>9. CASE Damage
  BY <1>9 DEF Damage, StampInv, probing, history
<1>10. ASSUME NEW to \in 1..MaxTime, SetBack(to) PROVE StampInv'
  BY <1>10 DEF SetBack, StampInv
<1>11. ASSUME NEW p \in Labs, NEW b \in Builds, Restart(p, b) PROVE StampInv'
  <2>1. UNCHANGED <<clock, probing>> /\ pending' \subseteq pending /\ standing' \subseteq standing
    BY <1>11 DEF Restart
  <2>2. QED
    BY <2>1 DEF StampInv, probing
<1>12. CASE UNCHANGED vars
  BY <1>12 DEF vars, StampInv, probing, history
<1>13. QED
  BY <1>1, <1>2, <1>3, <1>4, <1>5, <1>6, <1>7, <1>8, <1>9, <1>10, <1>11, <1>12
     DEF Next, RecordFail, RecordPass, ProbeLost, Forget

LEMMA NextSaved == StandInv /\ [Next]_vars => SavedInv'
<1> SUFFICES ASSUME StandInv, [Next]_vars PROVE SavedInv'
  OBVIOUS
<1> USE DEF StandInv
<1>1. ASSUME NEW r \in pending, NoteSaved(r), NEW y \in standing', y.saves, y.n \notin blurred'
      PROVE  /\ entry'[y.build].failure > 0
             /\ (Since(y)' /\ subject' = y.build /\ ~skewed') =>
                   (started' <= entry'[y.build].failure /\ entry'[y.build].failure <= clock')
  <2>1. UNCHANGED <<clock, probing>> /\ blurred \subseteq blurred'
    BY <1>1, NoteSavedEffect
  <2>2. /\ r.stamp > 0 /\ r.stamp \in Nat /\ r.n \in Nat /\ r.build \in Builds
        /\ entry'[r.build].failure = r.stamp
    BY <1>1, NoteSavedEffect, PendingNotes
  <2>3. (Since(r) /\ ~skewed) => (started <= r.stamp /\ r.stamp <= clock)
    BY DEF StampInv, Since
  <2>4. CASE Same(y, r)
    BY <2>1, <2>2, <2>3, <2>4 DEF Same, Since, Probing, probing
  <2>5. ASSUME NEW x \in Kept, Same(y, x),
               (y.saves /\ ~x.saves) => (x.lab = r.lab /\ x.build = r.build)
        PROVE  /\ entry'[y.build].failure > 0
               /\ (Since(y)' /\ subject' = y.build /\ ~skewed') =>
                     (started' <= entry'[y.build].failure /\ entry'[y.build].failure <= clock')
    <3>1. x \in standing /\ x \in Notes /\ x.n \in Nat /\ x.stamp \in Nat /\ x.build \in Builds
      BY KeptNotes, StandingNotes
    <3>2. x.n \notin blurred /\ x.n \notin blurred'
      BY <1>1, <2>1, <2>5 DEF Same
    <3>3. Since(y)' => Since(x)
      BY <2>1, <2>5 DEF Since, Same, Probing, probing
    <3>4. (Since(x) /\ ~skewed) => (started <= x.stamp /\ x.stamp <= clock)
      BY <3>1 DEF StampInv, Since
    <3>5. CASE x.build = r.build
      <4>1. x.n > r.n => x.stamp = r.stamp
        BY <1>1, <2>5, <3>2, <3>5, NoteSavedEffect
      <4>2. (Since(x) /\ ~skewed) => (started <= r.stamp /\ r.stamp <= clock)
        <5>1. CASE r.n > upto
          BY <2>3, <5>1 DEF Since
        <5>2. CASE ~(r.n > upto)
          <6>1. Since(x) => x.n > r.n
            BY <2>2, <3>1, <5>2 DEF Since, TypeOK
          <6>2. QED
            BY <3>4, <4>1, <6>1
        <5>3. QED
          BY <5>1, <5>2
      <4>3. QED
        BY <2>1, <2>2, <2>5, <3>3, <3>5, <4>2 DEF Same, probing
    <3>6. CASE x.build # r.build
      <4>1. x.saves
        BY <1>1, <2>5, <3>6
      <4>2. readable
        BY <2>5, <4>1, KeptNotes
      <4>3. entry'[x.build] = entry[x.build]
        <5>1. Base = entry
          BY <4>2, BaseEntries
        <5>2. entry'[x.build] = Base[x.build]
          BY <1>1, <3>1, <3>6, NoteSavedEffect
        <5>3. QED
          BY <5>1, <5>2
      <4>4. /\ entry[x.build].failure > 0
            /\ (Since(x) /\ subject = x.build /\ ~skewed) =>
                  (started <= entry[x.build].failure /\ entry[x.build].failure <= clock)
        BY <3>1, <3>2, <4>1, <4>2 DEF SavedInv, Clear
      <4>5. QED
        BY <2>1, <2>5, <3>3, <4>3, <4>4 DEF Same, probing
    <3>7. QED
      BY <3>5, <3>6
  <2>6. QED
    BY <1>1, <2>4, <2>5, NoteSavedEffect
<1>2. ASSUME NEW r \in pending, NoteKept(r) PROVE SavedInv'
  <2>1. /\ \A y \in standing' : y.saves => (y \in standing /\ readable' = readable)
        /\ blurred \subseteq blurred' /\ UNCHANGED <<clock, probing>>
        /\ readable' = readable => entry' = entry
    <3>1. ASSUME NEW y \in standing', y.saves PROVE y \in standing /\ readable' = readable
      BY <1>2, <3>1, NoteKeptEffect
    <3>2. blurred \subseteq blurred' /\ UNCHANGED <<clock, probing>>
      BY <1>2, NoteKeptEffect
    <3>3. \/ UNCHANGED <<readable, entry, clear>>
          \/ ~readable /\ readable' = TRUE /\ clear' = {} /\ entry' = Base
      BY <1>2, NoteKeptEffect
    <3>4. QED
      BY <3>1, <3>2, <3>3
  <2>2. QED
    BY <2>1 DEF SavedInv, Clear, Since, Probing, probing
<1>3. ASSUME NEW r \in pending, RecordFail(r) PROVE SavedInv'
  <2>1. /\ r.build = subject /\ r.stamp > 0 /\ probe' = "none" /\ blurred \subseteq blurred'
        /\ entry'[subject].failure = r.stamp
        /\ \A b \in Builds : b # subject => entry'[b] = Base[b]
        /\ \A y \in standing' : Same(y, r) \/ y \in Kept
    <3>1. r.build = subject
      BY <1>3 DEF NoteInv, RecordFail
    <3>2. QED
      BY <1>3, <3>1, RecordFailEffect, PendingNotes
  <2>2. ASSUME NEW y \in Kept, y.saves, y.n \notin blurred, y.build # subject
        PROVE  entry'[y.build].failure > 0
    <3>1. y \in standing /\ y.build \in Builds /\ readable
      BY <2>2, KeptNotes, StandingNotes
    <3>2. QED
      BY <2>1, <2>2, <3>1, BaseEntries DEF SavedInv, Clear
  <2>3. QED
    BY <2>1, <2>2 DEF SavedInv, Clear, Since, Probing, Same
<1>4. CASE RecordPass
  <2>1. ASSUME NEW y \in standing', y.saves, y.n \notin blurred' PROVE entry'[y.build].failure > 0
    <3>1. y \in Kept /\ (y.build # subject \/ y.n > upto)
      BY <1>4, <2>1, RecordPassEffect
    <3>2. y \in standing /\ y.build \in Builds /\ readable /\ Base = entry
      BY <2>1, <3>1, KeptNotes, StandingNotes, BaseEntries
    <3>3. y.n \notin blurred
      BY <1>4, <2>1, RecordPassEffect
    <3>4. /\ entry[y.build].failure > 0
          /\ (Since(y) /\ subject = y.build /\ ~skewed) =>
                (started <= entry[y.build].failure /\ entry[y.build].failure <= clock)
      BY <2>1, <3>2, <3>3 DEF SavedInv, Clear
    <3>5. CASE y.build # subject
      BY <1>4, <3>2, <3>4, <3>5, RecordPassEffect
    <3>6. CASE y.build = subject
      <4>1. Since(y)
        BY <1>4, <3>1, <3>6, RecordPassEffect DEF Since, Probing
      <4>2. started <= Base[subject].failure /\ Base[subject].failure <= clock + Slack
        <5>1. CASE skewed
          <6>1. Base[subject].failure \in Window
            BY <1>4, <2>1, <3>1, <3>6, <5>1, RecordPassEffect
          <6>2. QED
            BY <6>1, Numbered DEF Window
        <5>2. CASE ~skewed
          <6>1. started <= Base[subject].failure /\ Base[subject].failure <= clock
            BY <3>2, <3>4, <3>6, <4>1, <5>2
          <6>2. Base[subject].failure \in Nat
            BY <3>2, <3>6, Numbered
          <6>3. QED
            BY <6>1, <6>2, Numbered
        <5>3. QED
          BY <5>1, <5>2
      <4>3. entry'[subject].failure = Base[subject].failure
        BY <1>4, <4>2, RecordPassEffect
      <4>4. QED
        BY <3>2, <3>4, <3>6, <4>3
    <3>7. QED
      BY <3>5, <3>6
  <2>2. probe' = "none"
    BY <1>4, RecordPassEffect
  <2>3. QED
    BY <2>1, <2>2 DEF SavedInv, Clear, Since, Probing
<1>5. ASSUME NEW p \in Labs, NEW saves \in BOOLEAN, CallFails(p, saves) PROVE SavedInv'
  BY <1>5 DEF CallFails, SavedInv, Clear, Since, Probing, probing, file
<1>6. ASSUME NEW b \in Builds, BeginProbe(b) PROVE SavedInv'
  <2>1. UNCHANGED <<readable, entry, standing, blurred>> /\ upto' = failures
    BY <1>6 DEF BeginProbe, history, file
  <2>2. \A r \in standing : ~(r.n > failures)
    BY StandingNotes DEF NoteInv, TypeOK
  <2>3. QED
    BY <2>1, <2>2 DEF SavedInv, Clear, Since
<1>7. CASE TakeProbeLock \/ ProbePasses
  <2>1. UNCHANGED <<readable, entry, standing, blurred, subject, started, upto, skewed, clock>> /\ probe # "none"
    <3>1. CASE TakeProbeLock
      BY <3>1 DEF TakeProbeLock, history, file
    <3>2. CASE ProbePasses
      BY <3>2 DEF ProbePasses, history, file
    <3>3. QED
      BY <1>7, <3>1, <3>2
  <2>2. QED
    BY <2>1 DEF SavedInv, Clear, Since, Probing
<1>8. CASE ProbeFails
  BY <1>8 DEF ProbeFails, SavedInv, Clear, Since, Probing, file
<1>9. CASE ProbeLost
  <2>1. \/ UNCHANGED <<readable, entry>> /\ standing' = standing
        \/ ~readable /\ readable' = TRUE /\ standing' = Kept
    BY <1>9, FailsEffect DEF ProbeLost
  <2>2. \A y \in standing' : y.saves => (y \in standing /\ UNCHANGED <<readable, entry>>)
    <3>1. ~readable => \A y \in Kept : ~y.saves
      BY KeptNotes
    <3>2. QED
      BY <2>1, <3>1
  <2>3. probe' = "none" /\ UNCHANGED blurred
    BY <1>9 DEF ProbeLost, Forget
  <2>4. QED
    BY <2>2, <2>3 DEF SavedInv, Clear, Since, Probing
<1>10. CASE Tick
  <2>1. UNCHANGED <<readable, entry, standing, blurred, probing>> /\ clock' = clock + 1
    BY <1>10 DEF Tick, history, file
  <2>2. \A t \in Nat : t <= clock => t <= clock'
    BY <2>1 DEF TypeOK
  <2>3. \A b \in Builds : entry[b].failure \in Nat
    BY DEF TypeOK, Entries, Times
  <2>4. \A r \in standing : r.build \in Builds
    BY StandingNotes
  <2>5. QED
    BY <2>1, <2>2, <2>3, <2>4 DEF SavedInv, Clear, Since, Probing, probing
<1>11. CASE Damage
  BY <1>11 DEF Damage, SavedInv
<1>12. ASSUME NEW to \in 1..MaxTime, SetBack(to) PROVE SavedInv'
  <2>1. /\ UNCHANGED <<readable, entry, standing, blurred, probe, upto>>
        /\ skewed' = (skewed \/ probe # "none")
    BY <1>12 DEF SetBack, file
  <2>2. QED
    BY <2>1 DEF SavedInv, Clear, Since, Probing
<1>13. ASSUME NEW p \in Labs, NEW b \in Builds, Restart(p, b) PROVE SavedInv'
  <2>1. UNCHANGED <<readable, entry, blurred, clock, probing>> /\ standing' \subseteq standing
    BY <1>13 DEF Restart, file
  <2>2. QED
    BY <2>1 DEF SavedInv, Clear, Since, Probing, probing
<1>14. CASE UNCHANGED vars
  BY <1>14 DEF vars, SavedInv, Clear, Since, Probing, probing, history, file
<1>15. QED
  <2>1. ASSUME NEW r \in pending, NoteSaved(r) PROVE SavedInv'
    BY <1>1, <2>1 DEF SavedInv, Clear
  <2>2. QED
    BY <2>1, <1>2, <1>3, <1>4, <1>5, <1>6, <1>7, <1>8, <1>9, <1>10, <1>11, <1>12, <1>13, <1>14
       DEF Next

LEMMA NextKept == StandInv /\ [Next]_vars => KeptInv'
<1> SUFFICES ASSUME StandInv, [Next]_vars PROVE KeptInv'
  OBVIOUS
<1> USE DEF StandInv
<1>1. ASSUME NEW r \in pending, NoteSaved(r) PROVE KeptInv'
  <2>1. ASSUME NEW y \in standing', ~y.saves, y.n \notin blurred'
        PROVE  /\ y \in standing /\ y.n \notin blurred /\ mem'[y.lab] = mem[y.lab]
               /\ entry'[y.build].probe = "pass" =>
                     (readable /\ entry[y.build].probe = "pass"
                      /\ entry'[y.build].started = entry[y.build].started)
    <3>1. y \in Kept /\ (y.lab # r.lab \/ y.build # r.build)
      BY <1>1, <2>1, NoteSavedEffect
    <3>2. y \in standing /\ y.build \in Builds /\ y.n \notin blurred
      BY <1>1, <2>1, <3>1, KeptNotes, StandingNotes, NoteSavedEffect
    <3>3. y.lab \in Labs /\ y.build = loaded[y.lab] /\ (r.lab \in Labs => r.build = loaded[r.lab])
      BY <2>1, <3>2 DEF NoteInv
    <3>4. r.lab \in Labs
      BY <1>1, NoteSavedEffect
    <3>5. y.lab # r.lab
      BY <3>1, <3>3, <3>4
    <3>6. mem'[y.lab] = mem[y.lab]
      BY <1>1, <3>3, <3>5, NoteSavedEffect
    <3>7. /\ entry'[y.build].probe = Base[y.build].probe
          /\ entry'[y.build].started = Base[y.build].started
      <4>1. CASE y.build = r.build
        BY <1>1, <4>1, NoteSavedEffect
      <4>2. CASE y.build # r.build
        BY <1>1, <3>2, <4>2, NoteSavedEffect
      <4>3. QED
        BY <4>1, <4>2
    <3>8. readable => Base = entry
      BY BaseEntries
    <3>9. ~readable => Base[y.build].probe = "none"
      BY <3>2, BaseEntries
    <3>10. QED
      BY <3>2, <3>6, <3>7, <3>8, <3>9
  <2>2. UNCHANGED probing
    BY <1>1, NoteSavedEffect
  <2>3. QED
    BY <2>1, <2>2 DEF KeptInv, Clear, Since, Probing, probing
<1>2. ASSUME NEW r \in pending, NoteKept(r) PROVE KeptInv'
  <2>1. /\ r.lab \in Labs /\ mem'[r.lab] = r.stamp /\ r.stamp > 0 /\ r.stamp \in Nat /\ r.n \in Nat
        /\ r.build \in Builds /\ r.build = loaded[r.lab]
        /\ UNCHANGED <<clock, probing>> /\ blurred \subseteq blurred'
    <3>1. r.lab \in Labs
      BY <1>2, NoteKeptEffect
    <3>2. r.build = loaded[r.lab]
      BY <3>1 DEF NoteInv
    <3>3. QED
      BY <1>2, <3>1, <3>2, NoteKeptEffect, PendingNotes
  <2>2. \/ UNCHANGED <<readable, entry>>
        \/ \A b \in Builds : entry'[b].probe = "none"
    BY <1>2, NoteKeptEffect, BaseEntries
  <2>3. \A b \in Builds : entry'[b].started \in Nat
    <3>1. entry' = entry \/ entry' = Base
      BY <1>2, NoteKeptEffect
    <3>2. QED
      BY <3>1, BaseEntries DEF TypeOK, Entries, Times
  <2>4. (Since(r) /\ ~skewed) => started <= r.stamp
    BY DEF StampInv, Since
  <2>5. (r.n > answered[r.build] /\ r.stamp < entry'[r.build].started) =>
           /\ r.n \in blurred'
           /\ \A x \in standing : (x.lab = r.lab /\ ~x.saves) => x.n \in blurred'
    BY <1>2, NoteKeptEffect
  <2>6. ASSUME NEW y \in standing', ~y.saves, y.n \notin blurred'
        PROVE  /\ mem'[y.lab] > 0
               /\ (readable' /\ entry'[y.build].probe = "pass") =>
                     (entry'[y.build].started <= y.stamp /\ entry'[y.build].started <= mem'[y.lab])
               /\ (Since(y) /\ subject = y.build /\ ~skewed) => started <= mem'[y.lab]
    <3>1. CASE Same(y, r) /\ r.n > answered[r.build]
      <4>1. ~(r.stamp < entry'[r.build].started)
        BY <2>5, <2>6, <3>1 DEF Same
      <4>2. entry'[r.build].started <= r.stamp
        BY <2>1, <2>3, <4>1
      <4>3. QED
        BY <2>1, <2>4, <3>1, <4>2 DEF Same, Since
    <3>2. ASSUME y \in standing
          PROVE  /\ mem'[y.lab] > 0
                 /\ (readable' /\ entry'[y.build].probe = "pass") =>
                       (entry'[y.build].started <= y.stamp /\ entry'[y.build].started <= mem'[y.lab])
                 /\ (Since(y) /\ subject = y.build /\ ~skewed) => started <= mem'[y.lab]
      <4>1. y.lab \in Labs /\ y.build = loaded[y.lab] /\ y.n > answered[y.build]
        BY <2>6, <3>2 DEF NoteInv
      <4>2. y.n \in Nat /\ y.stamp \in Nat /\ y.build \in Builds /\ y.n \notin blurred
        BY <2>1, <2>6, <3>2, StandingNotes
      <4>3. /\ mem[y.lab] > 0
            /\ (readable /\ entry[y.build].probe = "pass") =>
                  (entry[y.build].started <= y.stamp /\ entry[y.build].started <= mem[y.lab])
            /\ (Since(y) /\ subject = y.build /\ ~skewed) => started <= mem[y.lab]
        BY <2>6, <3>2, <4>2 DEF KeptInv, Clear
      <4>4. (readable' /\ entry'[y.build].probe = "pass") =>
               (entry'[y.build].started <= y.stamp
                /\ entry'[y.build].started <= mem[y.lab])
        BY <2>2, <4>2, <4>3
      <4>5. CASE y.lab # r.lab
        <5>1. mem'[y.lab] = mem[y.lab]
          BY <1>2, <4>1, <4>5, NoteKeptEffect
        <5>2. QED
          BY <4>3, <4>4, <5>1
      <4>6. CASE y.lab = r.lab
        <5>1. y.build = r.build /\ mem'[y.lab] = r.stamp
          BY <2>1, <4>1, <4>6
        <5>2. y.n > r.n => y.stamp = r.stamp
          BY <1>2, <2>6, <3>2, <4>6, <5>1, NoteKeptEffect
        <5>3. (readable' /\ entry'[y.build].probe = "pass") => entry'[y.build].started <= r.stamp
          <6>1. CASE r.n > answered[r.build]
            <7>1. ~(r.stamp < entry'[r.build].started)
              BY <2>5, <2>6, <3>2, <4>6, <6>1
            <7>2. QED
              BY <2>1, <2>3, <5>1, <7>1
          <6>2. CASE ~(r.n > answered[r.build])
            <7>1. answered[r.build] \in Nat
              BY <2>1 DEF TypeOK
            <7>2. y.n > r.n
              BY <2>1, <4>1, <4>2, <5>1, <6>2, <7>1
            <7>3. QED
              BY <4>4, <5>2, <7>2
          <6>3. QED
            BY <6>1, <6>2
        <5>4. (Since(y) /\ ~skewed) => started <= r.stamp
          <6>1. (Since(y) /\ ~skewed) => started <= y.stamp
            BY <3>2 DEF StampInv, Since
          <6>2. CASE r.n > upto
            BY <2>4, <6>2 DEF Since
          <6>3. CASE ~(r.n > upto)
            <7>1. Since(y) => y.n > r.n
              BY <2>1, <4>2, <6>3 DEF Since, TypeOK
            <7>2. QED
              BY <5>2, <6>1, <7>1
          <6>4. QED
            BY <6>2, <6>3
        <5>5. QED
          BY <2>1, <4>4, <5>1, <5>3, <5>4
      <4>7. QED
        BY <4>5, <4>6
    <3>3. QED
      BY <1>2, <3>1, <3>2, NoteKeptEffect
  <2>7. QED
    BY <2>1, <2>6 DEF KeptInv, Clear, Since, Probing, probing
<1>3. ASSUME NEW r \in pending, RecordFail(r) PROVE KeptInv'
  <2>1. ASSUME NEW y \in standing', ~y.saves, y.n \notin blurred'
        PROVE  /\ y \in standing /\ y.n \notin blurred
               /\ entry'[y.build].probe = "pass" => (readable /\ entry'[y.build] = entry[y.build])
    <3>1. y \in Kept
      BY <1>3, <2>1, RecordFailEffect
    <3>2. y \in standing /\ y.build \in Builds /\ y.n \notin blurred
      BY <1>3, <2>1, <3>1, KeptNotes, StandingNotes, RecordFailEffect
    <3>3. entry'[y.build].probe = "fail" \/ entry'[y.build] = Base[y.build]
      BY <1>3, <3>2, RecordFailEffect
    <3>4. (readable => Base = entry) /\ (~readable => Base[y.build].probe = "none")
      BY <3>2, BaseEntries
    <3>5. QED
      BY <3>2, <3>3, <3>4
  <2>2. probe' = "none" /\ UNCHANGED mem
    BY <1>3, RecordFailEffect
  <2>3. QED
    BY <2>1, <2>2 DEF KeptInv, Clear, Since, Probing
<1>4. CASE RecordPass
  <2>1. probe' = "none" /\ UNCHANGED mem
    BY <1>4, RecordPassEffect
  <2>2. ASSUME NEW y \in standing', ~y.saves, y.n \notin blurred'
        PROVE  /\ mem[y.lab] > 0
               /\ entry'[y.build].probe = "pass" =>
                     (entry'[y.build].started <= y.stamp /\ entry'[y.build].started <= mem[y.lab])
    <3>1. y \in Kept /\ (y.build # subject \/ y.n > upto)
      BY <1>4, <2>2, RecordPassEffect
    <3>2. y \in standing /\ y.build \in Builds /\ y.n \notin blurred
      BY <1>4, <2>2, <3>1, KeptNotes, StandingNotes, RecordPassEffect
    <3>3. /\ mem[y.lab] > 0
          /\ (readable /\ entry[y.build].probe = "pass") =>
                (entry[y.build].started <= y.stamp /\ entry[y.build].started <= mem[y.lab])
          /\ (Since(y) /\ subject = y.build /\ ~skewed) => started <= mem[y.lab]
      BY <2>2, <3>2 DEF KeptInv, Clear
    <3>4. CASE y.build # subject
      <4>1. entry'[y.build] = Base[y.build]
        BY <1>4, <3>2, <3>4, RecordPassEffect
      <4>2. (readable => Base = entry) /\ (~readable => Base[y.build].probe = "none")
        BY <3>2, BaseEntries
      <4>3. QED
        BY <3>3, <4>1, <4>2
    <3>5. CASE y.build = subject
      <4>1. Since(y)
        BY <1>4, <3>1, <3>5, RecordPassEffect DEF Since, Probing
      <4>2. started <= y.stamp /\ started <= mem[y.lab]
        <5>1. CASE skewed
          <6>1. ~(mem[y.lab] < started) /\ ~(y.stamp < started)
            BY <1>4, <2>2, <3>1, <3>5, <5>1, RecordPassEffect
          <6>2. y.stamp \in Nat /\ mem[y.lab] \in Nat /\ started \in Nat
            BY <2>2, <3>2, StandingNotes, Numbered DEF NoteInv
          <6>3. QED
            BY <6>1, <6>2
        <5>2. CASE ~skewed
          BY <3>2, <3>3, <3>5, <4>1, <5>2 DEF StampInv, Since
        <5>3. QED
          BY <5>1, <5>2
      <4>3. entry'[y.build].started = started
        BY <1>4, <3>5, RecordPassEffect
      <4>4. QED
        BY <3>3, <4>2, <4>3
    <3>6. QED
      BY <3>4, <3>5
  <2>3. QED
    BY <2>1, <2>2 DEF KeptInv, Clear, Since, Probing
<1>5. ASSUME NEW p \in Labs, NEW saves \in BOOLEAN, CallFails(p, saves) PROVE KeptInv'
  BY <1>5 DEF CallFails, KeptInv, Clear, Since, Probing, probing, file
<1>6. ASSUME NEW b \in Builds, BeginProbe(b) PROVE KeptInv'
  <2>1. UNCHANGED <<readable, entry, mem, standing, blurred>> /\ upto' = failures
    BY <1>6 DEF BeginProbe, history, file
  <2>2. \A r \in standing : ~(r.n > failures)
    BY StandingNotes DEF NoteInv, TypeOK
  <2>3. QED
    BY <2>1, <2>2 DEF KeptInv, Clear, Since
<1>7. CASE TakeProbeLock \/ ProbePasses
  BY <1>7 DEF TakeProbeLock, ProbePasses, KeptInv, Clear, Since, Probing, history, file
<1>8. CASE ProbeFails
  BY <1>8 DEF ProbeFails, KeptInv, Clear, Since, Probing, file
<1>9. CASE ProbeLost
  <2>1. \/ UNCHANGED <<readable, entry>>
        \/ entry' = Base /\ ~readable
    BY <1>9, FailsEffect DEF ProbeLost
  <2>2. \A b \in Builds : (readable' /\ entry'[b].probe = "pass") => UNCHANGED <<readable, entry>>
    <3>1. ~readable => \A b \in Builds : Base[b].probe = "none"
      BY BaseEntries
    <3>2. QED
      BY <2>1, <3>1
  <2>3. probe' = "none" /\ UNCHANGED <<blurred, mem>> /\ standing' \subseteq standing
    BY <1>9, KeptNotes DEF ProbeLost, Forget
  <2>4. \A y \in standing : y.build \in Builds
    BY StandingNotes
  <2>5. QED
    BY <2>2, <2>3, <2>4 DEF KeptInv, Clear, Since, Probing
<1>10. CASE Tick
  BY <1>10 DEF Tick, KeptInv, Clear, Since, Probing, probing, history, file
<1>11. CASE Damage
  BY <1>11 DEF Damage, KeptInv, Clear, Since, Probing, probing, history
<1>12. ASSUME NEW to \in 1..MaxTime, SetBack(to) PROVE KeptInv'
  <2>1. /\ UNCHANGED <<readable, entry, mem, standing, blurred, probe, subject, started, upto>>
        /\ skewed' = (skewed \/ probe # "none")
    BY <1>12 DEF SetBack, file
  <2>2. QED
    BY <2>1 DEF KeptInv, Clear, Since, Probing
<1>13. ASSUME NEW p \in Labs, NEW b \in Builds, Restart(p, b) PROVE KeptInv'
  <2>1. /\ UNCHANGED <<readable, entry, blurred, probing>>
        /\ standing' = {r \in standing : r.lab # p \/ r.saves}
        /\ \A q \in Labs : q # p => mem'[q] = mem[q]
    BY <1>13 DEF Restart, file, TypeOK
  <2>2. \A y \in standing' : ~y.saves => (y \in standing /\ mem'[y.lab] = mem[y.lab])
    BY <2>1 DEF NoteInv
  <2>3. QED
    BY <2>1, <2>2 DEF KeptInv, Clear, Since, Probing, probing
<1>14. CASE UNCHANGED vars
  BY <1>14 DEF vars, KeptInv, Clear, Since, Probing, probing, history, file
<1>15. QED
  BY <1>1, <1>2, <1>3, <1>4, <1>5, <1>6, <1>7, <1>8, <1>9, <1>10, <1>11, <1>12, <1>13, <1>14 DEF Next

LEMMA StandHolds == Spec => []StandInv
<1>1. Init => StandInv
  BY InitTypes, InitNotes, InitStand DEF StandInv
<1>2. StandInv /\ [Next]_vars => StandInv'
  <2> SUFFICES ASSUME StandInv, [Next]_vars PROVE StandInv'
    OBVIOUS
  <2>1. TypeOK /\ NoteInv /\ StampInv /\ (probe # "none" => started > 0)
    BY DEF StandInv, NoteInv, Probing
  <2>2. TypeOK' /\ NoteInv' /\ StampInv'
    BY <2>1, NextTypes, NextNotes, NextStamps
  <2>3. QED
    BY <2>2, NextSaved, NextKept DEF StandInv
<1>3. QED
  BY <1>1, <1>2, PTL DEF Spec

\* As long as no pass of a probe begun after it is recorded, a failure keeps every
\* lab that can know of it off the deep model (deep_verdict.record_probe and
\* is_failing), whoever notes what in which order, through damage, refused writes,
\* restarts and a clock set back. What FailureStands leaves out, it leaves out here:
\* what was saved in a file moved aside, overwritten stamps, and the stamps that a
\* clock set back put before a recorded probe, or outside the time of a running one.
THEOREM FailuresStand == Spec => []FailureStands
<1>1. StandInv => FailureStands
  <2> SUFFICES ASSUME StandInv, NEW r \in standing, r.n \notin blurred, NEW p \in Labs, Known(r, p)
               PROVE  Failing(p)
    BY DEF FailureStands
  <2>1. r.build = loaded[p] /\ r.build \in Builds
    BY StandingNotes DEF Known, StandInv
  <2>2. CASE r.saves
    BY <2>1, <2>2 DEF StandInv, SavedInv, Clear, Failing
  <2>3. CASE ~r.saves
    <3>1. r.lab = p /\ mem[p] > 0
      BY <2>3 DEF Known, StandInv, KeptInv, Clear
    <3>2. (readable /\ entry[r.build].probe = "pass") => entry[r.build].started <= mem[p]
      BY <2>3, <3>1 DEF StandInv, KeptInv, Clear
    <3>3. mem[p] \in Nat /\ entry[r.build].started \in Nat
      BY <2>1 DEF StandInv, TypeOK, Entries, Times
    <3>4. readable => ~PassedSince(mem[p], entry[r.build])
      BY <3>2, <3>3 DEF PassedSince
    <3>5. QED
      BY <2>1, <3>1, <3>4 DEF Failing
  <2>4. QED
    BY <2>2, <2>3
<1>2. QED
  BY <1>1, StandHolds, PTL

-----------------------------------------------------------------------------
(* On a clock nobody set back the stamps are in the order of the failures *)

LEMMA InitOrder == Init => OrderInv /\ ClearInv
<1>1. Init => \A b \in Builds : entry[b].failure = 0
  BY DEF Init, NoEntry
<1>2. Init => \A p \in Labs : mem[p] = 0
  BY DEF Init
<1>3. QED
  BY <1>1, <1>2 DEF Init, OrderInv, ClearInv, Probing

LEMMA NextOrder == StandInv /\ OrderInv /\ [Next]_vars => OrderInv'
<1> SUFFICES ASSUME StandInv, OrderInv, [Next]_vars, ~stepped' PROVE OrderInv'
  BY DEF OrderInv
<1> USE DEF StandInv
\* What the recording of a probe leaves to show.
<1>0. ASSUME ~stepped, ~skewed', probe' = "none", UNCHANGED <<clock, mem>>, pending' \subseteq pending,
             \A b \in Builds : entry'[b].failure <= clock
      PROVE  OrderInv'
  BY <1>0 DEF OrderInv, Probing
<1>1. ASSUME NEW p \in Labs, NEW saves \in BOOLEAN, CallFails(p, saves) PROVE OrderInv'
  <2>1. UNCHANGED <<clock, readable, entry, mem, probe, subject, started, upto, skewed, stepped, standing>>
    BY <1>1 DEF CallFails, file, probing
  <2>2. \A r \in pending' : r \in pending \/ (r.stamp = clock /\ ~(r.n <= upto))
    BY <1>1, Numbered DEF CallFails
  <2>3. clock <= clock
    BY Numbered
  <2>4. QED
    BY <2>1, <2>2, <2>3 DEF OrderInv, Probing
<1>2. ASSUME NEW r \in pending, NoteSaved(r) PROVE OrderInv'
  <2>1. /\ r.lab \in Labs /\ r.build \in Builds /\ pending' \subseteq pending
        /\ UNCHANGED <<clock, probe, subject, started, upto, skewed, stepped>>
    BY <1>2, NoteSavedEffect DEF probing
  <2>2. /\ ~skewed /\ \A x \in pending : x.stamp <= clock
        /\ \A b \in Builds : entry[b].failure <= clock
        /\ \A p \in Labs : mem[p] <= clock
        /\ Probing => \A x \in pending : x.n <= upto => x.stamp < started
    BY <2>1 DEF OrderInv
  <2>3. ASSUME NEW b \in Builds PROVE entry'[b].failure <= clock
    <3>1. Base[b].failure <= clock
      <4>1. CASE readable
        BY <2>2, <4>1, BaseEntries
      <4>2. CASE ~readable
        BY <4>2, BaseEntries, Numbered
      <4>3. QED
        BY <4>1, <4>2
    <3>2. CASE b = r.build
      BY <1>2, <2>2, <3>2, NoteSavedEffect
    <3>3. CASE b # r.build
      BY <1>2, <3>1, <3>3, NoteSavedEffect
    <3>4. QED
      BY <3>2, <3>3
  <2>4. ASSUME NEW p \in Labs PROVE mem'[p] <= clock
    <3>1. mem'[p] = 0 \/ mem'[p] = mem[p]
      BY <1>2, NoteSavedEffect
    <3>2. QED
      BY <2>2, <3>1, Numbered
  <2>5. ASSUME Probing, entry'[subject].failure >= started
        PROVE  \E y \in standing' : y.saves /\ y.build = subject /\ y.n > upto
    <3>1. CASE r.build = subject
      <4>1. r.stamp >= started
        BY <1>2, <2>5, <3>1, NoteSavedEffect
      <4>2. ~(r.n <= upto)
        BY <2>2, <2>5, <4>1, PendingNotes, Numbered
      <4>3. r.n > upto /\ r.n > answered[r.build]
        <5>1. answered[r.build] <= upto /\ answered[r.build] \in Nat
          BY <2>1, <2>5, Numbered DEF NoteInv
        <5>2. QED
          BY <4>2, <5>1, PendingNotes, Numbered
      <4>4. PICK y \in standing' : Same(y, r) /\ y.saves
        BY <1>2, <4>3, NoteSavedKeeps
      <4>5. QED
        BY <3>1, <4>3, <4>4 DEF Same
    <3>2. CASE r.build # subject
      <4>1. subject \in Builds /\ entry'[subject] = Base[subject]
        BY <1>2, <3>2, NoteSavedEffect DEF TypeOK
      <4>2. readable
        <5>1. started > 0
          BY <2>5 DEF NoteInv
        <5>2. ~readable => Base[subject].failure = 0
          BY <4>1, BaseEntries
        <5>3. QED
          BY <2>5, <4>1, <5>1, <5>2, Numbered
      <4>3. entry[subject].failure >= started
        BY <2>5, <4>1, <4>2, BaseEntries
      <4>4. PICK x \in standing : x.saves /\ x.build = subject /\ x.n > upto
        BY <2>1, <2>5, <4>2, <4>3 DEF OrderInv
      <4>5. x \in Kept
        BY <4>2, KeptNotes
      <4>6. PICK y \in standing' : Same(y, x) /\ y.saves
        BY <1>2, <4>4, <4>5, NoteSavedKeeps
      <4>7. QED
        BY <4>4, <4>6 DEF Same
    <3>3. QED
      BY <3>1, <3>2
  <2>6. ASSUME Probing, NEW p \in Labs, mem'[p] >= started
        PROVE  \E y \in standing' : ~y.saves /\ y.lab = p /\ y.n > upto
    <3>1. started > 0
      BY <2>6 DEF NoteInv
    <3>2. p # r.lab /\ mem'[p] = mem[p]
      <4>1. /\ mem'[r.lab] = 0
            /\ \A q \in Labs : q # r.lab => mem'[q] = mem[q]
        BY <1>2, NoteSavedEffect
      <4>2. ~(0 >= started)
        BY <3>1, Numbered
      <4>3. p # r.lab
        BY <2>6, <4>1, <4>2
      <4>4. QED
        BY <4>1, <4>3
    <3>3. PICK x \in standing : ~x.saves /\ x.lab = p /\ x.n > upto
      BY <2>1, <2>6, <3>2 DEF OrderInv
    <3>4. x \in Kept
      BY <3>3 DEF Kept
    <3>5. x \in standing'
      BY <1>2, <3>2, <3>3, <3>4, NoteSavedKeeps
    <3>6. QED
      BY <3>3, <3>5
  <2>7. QED
    BY <2>1, <2>2, <2>3, <2>4, <2>5, <2>6 DEF OrderInv, Probing
<1>3. ASSUME NEW r \in pending, NoteKept(r) PROVE OrderInv'
  <2>1. /\ r.lab \in Labs /\ r.build \in Builds /\ pending' \subseteq pending
        /\ UNCHANGED <<clock, probe, subject, started, upto, skewed, stepped>>
    BY <1>3, NoteKeptEffect, PendingNotes DEF probing
  <2>2. /\ ~skewed /\ \A x \in pending : x.stamp <= clock
        /\ \A b \in Builds : entry[b].failure <= clock
        /\ \A p \in Labs : mem[p] <= clock
        /\ Probing => \A x \in pending : x.n <= upto => x.stamp < started
    BY <2>1 DEF OrderInv
  <2>3. \/ UNCHANGED <<readable, entry>>
        \/ ~readable /\ readable' # readable /\ \A b \in Builds : entry'[b].failure = 0
    BY <1>3, NoteKeptEffect, BaseEntries
  <2>4. \A b \in Builds : entry'[b].failure <= clock
    BY <2>2, <2>3, Numbered
  <2>5. \A p \in Labs : mem'[p] <= clock
    BY <1>3, <2>2, NoteKeptEffect
  <2>6. ASSUME Probing, readable', entry'[subject].failure >= started
        PROVE  \E y \in standing' : y.saves /\ y.build = subject /\ y.n > upto
    <3>1. UNCHANGED <<readable, entry>>
      <4>1. started > 0 /\ subject \in Builds
        BY <2>6 DEF NoteInv, TypeOK
      <4>2. entry'[subject].failure # 0
        <5>1. ~(0 >= started)
          BY <4>1, Numbered
        <5>2. QED
          BY <2>6, <5>1
      <4>3. QED
        BY <2>3, <4>1, <4>2
    <3>2. PICK x \in standing : x.saves /\ x.build = subject /\ x.n > upto
      BY <2>1, <2>6, <3>1 DEF OrderInv
    <3>3. x \in standing'
      BY <1>3, <3>1, NoteKeptKeeps
    <3>4. QED
      BY <3>2, <3>3
  <2>7. ASSUME Probing, NEW p \in Labs, mem'[p] >= started
        PROVE  \E y \in standing' : ~y.saves /\ y.lab = p /\ y.n > upto
    <3>1. CASE p = r.lab
      <4>1. r.stamp >= started
        BY <1>3, <2>7, <3>1, NoteKeptEffect
      <4>2. ~(r.n <= upto)
        BY <2>2, <2>7, <4>1, PendingNotes, Numbered
      <4>3. r.n > upto /\ r.n > answered[r.build]
        <5>1. answered[r.build] <= upto /\ answered[r.build] \in Nat
          BY <2>1, <2>7, Numbered DEF NoteInv
        <5>2. QED
          BY <4>2, <5>1, PendingNotes, Numbered
      <4>4. PICK y \in standing' : Same(y, r) /\ ~y.saves
        BY <1>3, <4>3, NoteKeptKeeps
      <4>5. QED
        BY <3>1, <4>3, <4>4 DEF Same
    <3>2. CASE p # r.lab
      <4>1. mem'[p] = mem[p]
        BY <1>3, <3>2, NoteKeptEffect
      <4>2. PICK x \in standing : ~x.saves /\ x.lab = p /\ x.n > upto
        BY <2>1, <2>7, <4>1 DEF OrderInv
      <4>3. x \in standing'
        BY <1>3, <4>2, NoteKeptKeeps
      <4>4. QED
        BY <4>2, <4>3
    <3>3. QED
      BY <3>1, <3>2
  <2>8. QED
    BY <2>1, <2>2, <2>4, <2>5, <2>6, <2>7 DEF OrderInv, Probing
<1>4. ASSUME NEW r \in pending, RecordFail(r) PROVE OrderInv'
  <2>1. /\ UNCHANGED <<clock, mem, stepped, skewed>> /\ pending' \subseteq pending
        /\ probe' = "none"
    BY <1>4, RecordFailEffect
  <2>2. ~stepped /\ ~skewed /\ r.stamp <= clock
    BY <2>1 DEF OrderInv
  <2>3. \A b \in Builds : Base[b].failure <= clock
    <3>1. CASE readable
      BY <2>2, <3>1, BaseEntries DEF OrderInv
    <3>2. CASE ~readable
      BY <3>2, BaseEntries, Numbered
    <3>3. QED
      BY <3>1, <3>2
  <2>4. \A b \in Builds : entry'[b].failure <= clock
    BY <1>4, <2>2, <2>3, RecordFailEffect
  <2>5. QED
    BY <1>0, <2>1, <2>2, <2>4
<1>5. CASE RecordPass
  <2>1. /\ UNCHANGED <<clock, mem, stepped, skewed, pending>> /\ probe' = "none"
    BY <1>5, RecordPassEffect
  <2>2. ~stepped /\ ~skewed
    BY <2>1 DEF OrderInv
  <2>3. \A b \in Builds : Base[b].failure <= clock
    <3>1. CASE readable
      BY <2>2, <3>1, BaseEntries DEF OrderInv
    <3>2. CASE ~readable
      BY <3>2, BaseEntries, Numbered
    <3>3. QED
      BY <3>1, <3>2
  <2>4. \A b \in Builds : entry'[b].failure <= clock
    BY <1>5, <2>3, Numbered, RecordPassEffect
  <2>5. QED
    BY <1>0, <2>1, <2>2, <2>4
<1>6. CASE ProbeLost
  <2>1. /\ UNCHANGED <<clock, mem, stepped, skewed>> /\ pending' \subseteq pending
        /\ probe' = "none"
    BY <1>6 DEF ProbeLost, Forget
  <2>2. ~stepped /\ ~skewed
    BY <2>1 DEF OrderInv
  <2>3. entry' = entry \/ (~readable /\ entry' = Base)
    BY <1>6, FailsEffect DEF ProbeLost
  <2>4. \A b \in Builds : entry'[b].failure <= clock
    BY <2>2, <2>3, BaseEntries, Numbered DEF OrderInv
  <2>5. QED
    BY <1>0, <2>1, <2>2, <2>4
<1>7. ASSUME NEW b \in Builds, BeginProbe(b) PROVE OrderInv'
  <2>1. /\ UNCHANGED <<readable, entry, mem, pending, stepped>> /\ skewed' = FALSE
        /\ clock' = clock + 1 /\ started' = clock + 1 /\ subject' \in Builds
    BY <1>7 DEF BeginProbe, history, file
  <2>2. /\ \A r \in pending : r.stamp <= clock /\ r.stamp \in Nat
        /\ \A c \in Builds : entry[c].failure <= clock /\ entry[c].failure \in Nat
        /\ \A p \in Labs : mem[p] <= clock /\ mem[p] \in Nat
    BY <2>1, PendingNotes, Numbered DEF OrderInv
  <2>3. /\ \A r \in pending : r.stamp <= clock' /\ r.stamp < started'
        /\ \A c \in Builds : entry[c].failure <= clock' /\ ~(entry[c].failure >= started')
        /\ \A p \in Labs : mem[p] <= clock' /\ ~(mem[p] >= started')
    BY <2>1, <2>2, Numbered
  <2>4. QED
    BY <2>1, <2>3 DEF OrderInv
<1>8. CASE TakeProbeLock \/ ProbePasses
  BY <1>8 DEF TakeProbeLock, ProbePasses, OrderInv, Probing, history, file
<1>9. CASE ProbeFails
  <2>1. /\ UNCHANGED <<clock, readable, entry, mem, subject, started, upto, skewed, stepped, standing>>
        /\ Probing /\ Probing'
    BY <1>9 DEF ProbeFails, file, Probing
  <2>2. \A r \in pending' : r \in pending \/ (r.stamp = clock /\ ~(r.n <= upto))
    BY <1>9, Numbered DEF ProbeFails
  <2>3. clock <= clock
    BY Numbered
  <2>4. QED
    BY <2>1, <2>2, <2>3 DEF OrderInv
<1>10. CASE Tick
  <2>1. /\ UNCHANGED <<readable, entry, mem, pending, probing, stepped, standing>>
        /\ clock' = clock + 1
    BY <1>10 DEF Tick, history, file
  <2>2. \A t \in Nat : t <= clock => t <= clock'
    BY <2>1, Numbered
  <2>3. QED
    BY <2>1, <2>2, PendingNotes, Numbered DEF OrderInv, Probing, probing
<1>11. CASE Damage
  BY <1>11 DEF Damage, OrderInv, Probing, probing, history
<1>12. ASSUME NEW to \in 1..MaxTime, SetBack(to) PROVE OrderInv'
  BY <1>12 DEF SetBack
<1>13. ASSUME NEW p \in Labs, NEW b \in Builds, Restart(p, b) PROVE OrderInv'
  <2>1. /\ UNCHANGED <<clock, readable, entry, probe, subject, started, upto, skewed, stepped>>
        /\ pending' \subseteq pending
        /\ standing' = {r \in standing : r.lab # p \/ r.saves}
        /\ mem'[p] = 0 /\ \A q \in Labs : q # p => mem'[q] = mem[q]
    BY <1>13 DEF Restart, file, TypeOK, probing
  <2>2. \A q \in Labs : mem'[q] <= clock
    BY <2>1, Numbered DEF OrderInv
  <2>3. Probing => ~(mem'[p] >= started)
    BY <2>1, Numbered DEF NoteInv
  <2>4. ASSUME Probing, NEW q \in Labs, mem'[q] >= started
        PROVE  \E y \in standing' : ~y.saves /\ y.lab = q /\ y.n > upto
    <3>1. q # p /\ mem'[q] = mem[q]
      BY <2>1, <2>3, <2>4
    <3>2. PICK x \in standing : ~x.saves /\ x.lab = q /\ x.n > upto
      BY <2>1, <2>4, <3>1 DEF OrderInv
    <3>3. QED
      BY <2>1, <3>1, <3>2
  <2>5. ASSUME Probing, readable, entry[subject].failure >= started
        PROVE  \E y \in standing' : y.saves /\ y.build = subject /\ y.n > upto
    BY <2>1, <2>5 DEF OrderInv
  <2>6. QED
    BY <2>1, <2>2, <2>4, <2>5 DEF OrderInv, Probing
<1>14. CASE UNCHANGED vars
  BY <1>14 DEF vars, OrderInv, Probing, probing, history, file
<1>15. QED
  BY <1>1, <1>2, <1>3, <1>4, <1>5, <1>6, <1>7, <1>8, <1>9, <1>10, <1>11, <1>12, <1>13, <1>14 DEF Next

-----------------------------------------------------------------------------
(* What a pass lifts *)

LEMMA NextClear == StandInv /\ OrderInv /\ ClearInv /\ [Next]_vars => ClearInv'
<1> SUFFICES ASSUME StandInv, OrderInv, ClearInv, [Next]_vars, readable' PROVE ClearInv'
  BY DEF ClearInv
<1> USE DEF StandInv
<1>1. ASSUME NEW p \in Labs, NEW saves \in BOOLEAN, CallFails(p, saves) PROVE ClearInv'
  <2>1. UNCHANGED <<readable, entry, mem, loaded, stepped>> /\ clear' = clear \ {loaded[p]}
    BY <1>1 DEF CallFails, file
  <2>2. \A r \in pending' : r \in pending \/ r.build = loaded[p]
    BY <1>1 DEF CallFails
  <2>3. QED
    BY <2>1, <2>2 DEF ClearInv
<1>2. ASSUME NEW r \in pending, NoteSaved(r) PROVE ClearInv'
  <2>1. clear' = (IF readable THEN clear ELSE {}) \ {r.build} /\ pending' \subseteq pending
    BY <1>2 DEF NoteSaved
  <2>2. UNCHANGED <<loaded, stepped>> /\ \A p \in Labs : mem'[p] = 0 \/ mem'[p] = mem[p]
    BY <1>2, NoteSavedEffect
  <2>3. \A b \in clear' : readable /\ b \in clear /\ entry'[b] = entry[b]
    <3>1. \A b \in clear' : readable /\ b \in clear /\ b \in Builds /\ b # r.build
      BY <2>1 DEF TypeOK
    <3>2. QED
      BY <1>2, <3>1, NoteSavedEffect, BaseEntries
  <2>4. QED
    BY <2>1, <2>2, <2>3 DEF ClearInv
<1>3. ASSUME NEW r \in pending, NoteKept(r) PROVE ClearInv'
  <2>1. UNCHANGED <<loaded, stepped>> /\ pending' \subseteq pending /\ r.build = loaded[r.lab]
    BY <1>3, NoteKeptEffect DEF NoteInv
  <2>2. \/ UNCHANGED <<readable, entry, clear>>
        \/ clear' = {}
    BY <1>3, NoteKeptEffect
  <2>3. \A p \in Labs : p # r.lab => mem'[p] = mem[p]
    BY <1>3, NoteKeptEffect
  <2>4. CASE UNCHANGED <<readable, entry, clear>>
    <3>1. r.build \notin clear
      BY <2>4 DEF ClearInv
    <3>2. \A b \in clear, p \in Labs : loaded[p] = b => mem'[p] = mem[p]
      BY <2>1, <2>3, <3>1
    <3>3. QED
      BY <2>1, <2>4, <3>2 DEF ClearInv
  <2>5. CASE clear' = {}
    BY <2>5 DEF ClearInv
  <2>6. QED
    BY <2>2, <2>4, <2>5
<1>4. ASSUME NEW r \in pending, RecordFail(r) PROVE ClearInv'
  <2>1. clear' = (IF readable THEN clear ELSE {}) \ {subject} /\ pending' \subseteq pending
    BY <1>4 DEF RecordFail
  <2>2. UNCHANGED <<loaded, stepped, mem>>
    BY <1>4, RecordFailEffect
  <2>3. \A b \in clear' : readable /\ b \in clear /\ entry'[b] = entry[b]
    <3>1. \A b \in clear' : readable /\ b \in clear /\ b \in Builds /\ b # subject
      BY <2>1 DEF TypeOK
    <3>2. QED
      BY <1>4, <3>1, RecordFailEffect, BaseEntries
  <2>4. QED
    BY <2>1, <2>2, <2>3 DEF ClearInv
<1>5. CASE RecordPass
  <2> DEFINE later == {r \in Kept : r.build = subject /\ r.n > upto}
             others == (IF readable THEN clear ELSE {}) \ {subject}
             quiet == later = {} /\ \A r \in pending : r.build # subject
             caught == stepped /\ Base[subject].failure \in Window
  <2>1. clear' = IF quiet /\ ~caught THEN others \cup {subject} ELSE others
    BY <1>5 DEF RecordPass
  <2>2. /\ UNCHANGED <<loaded, stepped, mem, pending>> /\ Probing
        /\ subject \in Builds /\ started > 0
    BY <1>5, RecordPassEffect DEF Probing, NoteInv, TypeOK
  <2>3. \A b \in others : readable /\ b \in clear /\ entry'[b] = entry[b]
    <3>1. \A b \in others : readable /\ b \in clear /\ b \in Builds /\ b # subject
      BY DEF TypeOK
    <3>2. QED
      BY <1>5, <3>1, RecordPassEffect, BaseEntries
  <2>4. \A b \in others :
           /\ entry'[b].failure = 0 /\ entry'[b].probe = "pass"
           /\ \A r \in pending' : r.build # b
           /\ ~stepped' => \A p \in Labs :
                 loaded'[p] = b => (mem'[p] = 0 \/ mem'[p] < entry'[b].started)
    BY <2>2, <2>3 DEF ClearInv
  <2>5. ASSUME quiet, ~caught
        PROVE  /\ entry'[subject].failure = 0 /\ entry'[subject].probe = "pass"
               /\ \A r \in pending' : r.build # subject
               /\ ~stepped' => \A p \in Labs :
                     loaded'[p] = subject => (mem'[p] = 0 \/ mem'[p] < entry'[subject].started)
    <3>1. ~(started <= Base[subject].failure /\ Base[subject].failure <= clock + Slack)
      <4>1. CASE ~readable
        BY <2>2, <4>1, BaseEntries, Numbered
      <4>2. CASE readable /\ ~stepped
        <5>1. ~(entry[subject].failure >= started)
          <6>1. \A r \in standing : ~(r.build = subject /\ r.n > upto)
            BY <2>5, <4>2, KeptNotes
          <6>2. QED
            BY <2>2, <4>2, <6>1 DEF OrderInv
        <5>2. QED
          BY <2>2, <4>2, <5>1, BaseEntries, Numbered
      <4>3. CASE readable /\ stepped
        BY <2>2, <2>5, <4>3, BaseEntries, Numbered DEF Window
      <4>4. QED
        BY <4>1, <4>2, <4>3
    <3>2. entry'[subject].failure = 0 /\ entry'[subject].probe = "pass"
          /\ entry'[subject].started = started
      BY <1>5, <3>1, RecordPassEffect
    <3>3. ASSUME ~stepped, NEW p \in Labs, loaded[p] = subject PROVE mem[p] < started
      <4>1. SUFFICES ASSUME mem[p] >= started PROVE FALSE
        BY Numbered
      <4>2. PICK x \in standing : ~x.saves /\ x.lab = p /\ x.n > upto
        BY <2>2, <3>3, <4>1 DEF OrderInv
      <4>3. x.build = subject /\ x \in Kept
        BY <3>3, <4>2 DEF NoteInv, Kept
      <4>4. QED
        BY <2>5, <4>2, <4>3
    <3>4. QED
      BY <2>2, <2>5, <3>2, <3>3
  <2> HIDE DEF later, others, quiet, caught
  <2>6. \A b \in clear' : b \in others \/ (b = subject /\ quiet /\ ~caught)
    BY <2>1
  <2>7. QED
    BY <2>4, <2>5, <2>6 DEF ClearInv
<1>6. CASE ProbeLost
  <2>1. UNCHANGED <<loaded, stepped, mem>> /\ pending' \subseteq pending
    BY <1>6 DEF ProbeLost
  <2>2. \/ UNCHANGED <<readable, entry, clear>>
        \/ clear' = {}
    BY <1>6, FailsEffect DEF ProbeLost
  <2>3. QED
    BY <2>1, <2>2 DEF ClearInv
<1>7. ASSUME NEW b \in Builds, BeginProbe(b) PROVE ClearInv'
  BY <1>7 DEF BeginProbe, ClearInv, history, file
<1>8. CASE TakeProbeLock \/ ProbePasses
  <2>1. UNCHANGED <<readable, entry, clear, pending, stepped, loaded, mem>> /\ probe # "none"
    <3>1. CASE TakeProbeLock
      BY <3>1 DEF TakeProbeLock, history, file
    <3>2. CASE ProbePasses
      BY <3>2 DEF ProbePasses, history, file
    <3>3. QED
      BY <1>8, <3>1, <3>2
  <2>2. QED
    BY <2>1 DEF ClearInv
<1>9. CASE ProbeFails
  <2>1. UNCHANGED <<readable, entry, mem, loaded, stepped>> /\ clear' = clear \ {subject}
    BY <1>9 DEF ProbeFails, file
  <2>2. \A r \in pending' : r \in pending \/ r.build = subject
    BY <1>9 DEF ProbeFails
  <2>3. QED
    BY <2>1, <2>2 DEF ClearInv
<1>10. CASE Tick
  BY <1>10 DEF Tick, ClearInv, history, file
<1>11. CASE Damage
  BY <1>11 DEF Damage
<1>12. ASSUME NEW to \in 1..MaxTime, SetBack(to) PROVE ClearInv'
  BY <1>12 DEF SetBack, ClearInv, file
<1>13. ASSUME NEW p \in Labs, NEW b \in Builds, Restart(p, b) PROVE ClearInv'
  <2>1. /\ UNCHANGED <<readable, entry, stepped, clear>> /\ pending' \subseteq pending
        /\ mem'[p] = 0 /\ \A q \in Labs : q # p => (mem'[q] = mem[q] /\ loaded'[q] = loaded[q])
    BY <1>13 DEF Restart, file, TypeOK
  <2>2. QED
    BY <2>1 DEF ClearInv
<1>14. CASE UNCHANGED vars
  BY <1>14 DEF vars, ClearInv, history, file
<1>15. QED
  BY <1>1, <1>2, <1>3, <1>4, <1>5, <1>6, <1>7, <1>8, <1>9, <1>10, <1>11, <1>12, <1>13, <1>14 DEF Next

\* A pass recorded lifts (deep_verdict.record_probe and _mem_note): when no failure of
\* its build came or was noted after the probe began, the file holds none, unless a
\* clock set back left a stamp between the start of the probe and CLOCK_SLACK_S ahead
\* of now; and every lab on the build reads "passing" unless the clock was set back.
THEOREM PassesLift == Spec => []PassLifts
<1>1. StandInv /\ ClearInv => PassLifts
  <2> SUFFICES ASSUME StandInv, ClearInv, readable, NEW b \in clear
               PROVE  /\ entry[b].failure = 0
                      /\ ~stepped => \A p \in Labs : loaded[p] = b => Verdict(p) = "passing"
    BY DEF PassLifts
  <2>1. entry[b].failure = 0 /\ entry[b].probe = "pass" /\ b \in Builds
    BY DEF ClearInv, StandInv, TypeOK
  <2>2. ASSUME ~stepped, NEW p \in Labs, loaded[p] = b PROVE Verdict(p) = "passing"
    <3>1. mem[p] = 0 \/ mem[p] < entry[b].started
      BY <2>2 DEF ClearInv
    <3>2. ~(entry[b].failure > 0)
      BY <2>1
    <3>3. mem[p] > 0 => PassedSince(mem[p], entry[b])
      BY <2>1, <3>1 DEF PassedSince
    <3>4. ~Failing(p)
      BY <2>2, <3>2, <3>3 DEF Failing
    <3>5. QED
      BY <2>1, <2>2, <3>4 DEF Verdict
  <2>3. QED
    BY <2>1, <2>2
<1>2. Init => LiftInv
  BY InitTypes, InitNotes, InitStand, InitOrder DEF LiftInv, StandInv
<1>3. LiftInv /\ StandInv' /\ [Next]_vars => LiftInv'
  BY NextOrder, NextClear DEF LiftInv
<1>4. LiftInv => PassLifts
  BY <1>1 DEF LiftInv
<1>5. QED
  BY <1>2, <1>3, <1>4, StandHolds, PTL DEF Spec
=============================================================================
