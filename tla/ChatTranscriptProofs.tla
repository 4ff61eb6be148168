------------------------ MODULE ChatTranscriptProofs ------------------------
(***************************************************************************)
(* Proofs about ChatTranscript, for any set of turns and any number of       *)
(* crashes and failed appends.                                              *)
(*                                                                         *)
(* Every step does one of four things to the file: nothing, an append that   *)
(* returns, an append that is cut short, or the deletion (FileStep). What a   *)
(* turn's status is follows from the lines alone (StatusMeans).              *)
(***************************************************************************)
EXTENDS ChatTranscript, FiniteSetTheorems, NaturalsInduction, WellFoundedInduction, SequenceTheorems,
        TLAPS

Lines == Line \cup {Bad, Torn}

LogOK == log \in Seq(Lines)

\* The records of the finished lines.
Finished == IF whole THEN Len(log) ELSE Len(log) - 1
Solid == {log[i] : i \in {j \in 1..Finished : log[j] \in Line}}

\* A cut line may yet cost a record: the one that goes on it.
DamageInv ==
    /\ IsFiniteSet(acked)
    /\ Cardinality(acked \ Solid) + (IF whole THEN 0 ELSE 1) <= crashes + faults

\* Who completed a turn is through with it.
GenInv ==
    \A i \in 1..Len(log) : \A t \in Turns :
        log[i] = Rec("completed", t) => gen[t] = "over"

\* While no line was cut since before the boot, the sweep has every orphan of an
\* earlier process on its list until it has written for it.
SweepInv ==
    /\ sound => whole
    /\ ~up => \A t \in Turns : gen[t] # "live"
    /\ \A t \in old : gen[t] = "over"
    /\ (sound /\ sweep \in {"on", "wrote", "stamps"}) => InFlight \cap old \subseteq orphans
    /\ (sound /\ sweep = "done") => InFlight \cap old = {}

\* A deleted conversation has no meta.json, and the sweep does not hold one.
HiddenInv == deleted /\ ~overtaken => ~meta /\ sweep # "stamps"

-----------------------------------------------------------------------------
(* Lines *)

LEMMA LinesFact ==
    /\ \A t \in Turns : \A k \in {"started", "progress", "completed", "failed", "interrupted"} :
          Rec(k, t) \in Line /\ Rec(k, t).turn = t /\ Rec(k, t).kind = k
    /\ \A l \in Line : l.turn \in Turns /\ l = Rec(l.kind, l.turn)
    /\ Bad \notin Line /\ Torn \notin Line
    /\ \A b \in {Bad, Torn} : b.turn \notin Turns /\ b.kind \notin Terminal
<1>1. \A l \in Line : l.turn \in Turns /\ l = Rec(l.kind, l.turn)
  BY DEF Line, Rec
<1>2. \A b \in {Bad, Torn} : b.turn \notin Turns /\ b.kind \notin Terminal
  BY NoTurnAssumption DEF NoTurnAssumption, Bad, Torn, Terminal
<1>3. \A t \in Turns : \A k \in {"started", "progress", "completed", "failed", "interrupted"} :
          Rec(k, t) \in Line /\ Rec(k, t).turn = t /\ Rec(k, t).kind = k
  BY DEF Line, Rec, Terminal
<1>4. QED
  BY <1>1, <1>2, <1>3

\* What is under way to be written is a line of a turn that starts, is live, or is
\* an orphan of the sweep.
LEMMA WritableFact ==
    ASSUME TypeOK, NEW r \in Writable
    PROVE  /\ r \in Line
           /\ \/ gen[r.turn] = "new" /\ r.kind = "started"
              \/ gen[r.turn] = "live" /\ r.kind \in {"completed", "failed"}
              \/ r.turn \in orphans /\ r.kind = "interrupted"
<1>1. CASE \E t \in Turns : MayStart(t) /\ r = Rec("started", t)
  BY <1>1, LinesFact DEF MayStart
<1>2. CASE \E t \in Turns : \E k \in {"completed", "failed"} : gen[t] = "live" /\ r = Rec(k, t)
  BY <1>2, LinesFact
<1>3. CASE \E t \in orphans : r = Rec("interrupted", t)
  BY <1>3, LinesFact DEF TypeOK
<1>4. QED
  BY <1>1, <1>2, <1>3 DEF Writable

\* Appending to a whole file adds a line; to an unfinished one, it ruins the last.
LEMMA WithFact ==
    ASSUME log \in Seq(Lines), NEW r \in Lines
    PROVE  /\ With(r) \in Seq(Lines)
           /\ whole => /\ Len(With(r)) = Len(log) + 1 /\ With(r)[Len(log) + 1] = r
                       /\ \A i \in 1..Len(log) : With(r)[i] = log[i]
           /\ ~whole => /\ Len(With(r)) = Len(log)
                        /\ \A i \in 1..(Len(log) - 1) : With(r)[i] = log[i]
                        /\ Len(log) > 0 => With(r)[Len(log)] \in {Bad, Torn}
<1>1. CASE whole
  <2>1. With(r) = Append(log, r)
    BY <1>1 DEF With
  <2>2. QED
    BY <1>1, <2>1, AppendProperties
<1>2. CASE ~whole
  <2>1. PICK b \in {Bad, Torn} : With(r) = [log EXCEPT ![Len(log)] = b]
    BY <1>2 DEF With
  <2>2. b \in Lines
    BY DEF Lines
  <2> HIDE DEF Lines
  <2>3. Len(log) \in Nat /\ log \in [1..Len(log) -> Lines]
    OBVIOUS
  <2>4. With(r) \in [1..Len(log) -> Lines]
    BY <2>1, <2>2, <2>3
  <2>5. With(r) \in Seq(Lines) /\ Len(With(r)) = Len(log)
    BY <2>3, <2>4
  <2>6. \A i \in 1..Len(log) : With(r)[i] = IF i = Len(log) THEN b ELSE log[i]
    BY <2>1, <2>3
  <2>7. \A i \in 1..(Len(log) - 1) : i \in 1..Len(log) /\ i # Len(log)
    <3>1. \A n \in Nat : \A i \in 1..(n - 1) : i \in 1..n /\ i # n
      OBVIOUS
    <3>2. QED
      BY <2>3, <3>1
  <2>8. Len(log) > 0 => Len(log) \in 1..Len(log)
    BY <2>3
  <2> HIDE DEF With
  <2>9. QED
    BY <1>2, <2>5, <2>6, <2>7, <2>8
<1>3. QED
  BY <1>1, <1>2

-----------------------------------------------------------------------------
(* The status of a turn *)

\* A set of positions that is not empty has a last one.
LEMMA LastOne ==
    ASSUME NEW n \in Nat, NEW S, S \subseteq 1..n, S # {}
    PROVE  \E i \in S : \A j \in S : j <= i
<1> DEFINE T == {n - i : i \in S}
           R == OpToRel(<, Nat)
<1>1. T \subseteq Nat /\ T # {}
  <2>1. \A i \in S : n - i \in Nat
    OBVIOUS
  <2>2. PICK i \in S : TRUE
    OBVIOUS
  <2>3. QED
    BY <2>1, <2>2
<1>2. \A x, y \in Nat : <<x, y>> \in R <=> x < y
  BY DEF OpToRel
<1>3. IsWellFoundedOn(R, Nat)
  BY NatLessThanWellFounded
<1> HIDE DEF T, R
<1>4. PICK x \in T : \A y \in T : ~(<<y, x>> \in R)
  BY <1>1, <1>3, WFMin
<1>5. \A y \in T : y >= x
  <2>1. ASSUME NEW y \in T PROVE y >= x
    <3>1. x \in Nat /\ y \in Nat
      BY <1>1
    <3>2. ~(y < x)
      BY <1>2, <1>4, <3>1
    <3>3. QED
      BY <3>1, <3>2
  <2>2. QED
    BY <2>1
<1>6. PICK i \in S : x = n - i
  BY <1>4 DEF T
<1>7. ASSUME NEW j \in S PROVE j <= i
  <2>1. n - j \in T
    BY DEF T
  <2>2. n - j >= n - i
    BY <2>1, <1>5, <1>6
  <2>3. QED
    BY <2>2
<1>8. QED
  BY <1>7

\* Line i is the last terminal record of turn t.
Ends(i, t) == log[i].turn = t /\ log[i].kind \in Terminal
LastEnd(i, t) == Ends(i, t) /\ \A j \in 1..Len(log) : Ends(j, t) => j <= i

StatusByLines ==
    \A t \in Turns :
        /\ \A i \in 1..Len(log) : LastEnd(i, t) => Status(t) = log[i].kind
        /\ (\E i \in 1..Len(log) : Ends(i, t)) => \E i \in 1..Len(log) : LastEnd(i, t)
        /\ Status(t) = "in_flight"
              <=> (\E i \in 1..Len(log) : log[i].turn = t) /\ ~(\E i \in 1..Len(log) : Ends(i, t))
        /\ Status(t) = "completed"
              => \E i \in 1..Len(log) : LastEnd(i, t) /\ log[i].kind = "completed"

LEMMA StatusMeans == LogOK => StatusByLines
<1> SUFFICES ASSUME LogOK, NEW t \in Turns
             PROVE  /\ \A i \in 1..Len(log) : LastEnd(i, t) => Status(t) = log[i].kind
                    /\ (\E i \in 1..Len(log) : Ends(i, t)) => \E i \in 1..Len(log) : LastEnd(i, t)
                    /\ Status(t) = "in_flight"
                          <=> (\E i \in 1..Len(log) : log[i].turn = t) /\ ~(\E i \in 1..Len(log) : Ends(i, t))
                    /\ Status(t) = "completed"
                          => \E i \in 1..Len(log) : LastEnd(i, t) /\ log[i].kind = "completed"
  BY DEF StatusByLines
<1> DEFINE ends == {i \in 1..Len(log) : Ends(i, t)}
           last == CHOOSE i \in ends : \A j \in ends : j <= i
<1>1. Len(log) \in Nat /\ \A i \in 1..Len(log) : log[i] \in Lines
  BY DEF LogOK
<1>2. Status(t) = IF ends # {} THEN log[last].kind
                  ELSE IF \E r \in Records : r.turn = t THEN "in_flight" ELSE "none"
  BY DEF Status, Ends
<1>3. ends # {} => LastEnd(last, t) /\ last \in 1..Len(log)
  <2>1. ends \subseteq 1..Len(log)
    OBVIOUS
  <2>2. SUFFICES ASSUME ends # {} PROVE LastEnd(last, t) /\ last \in 1..Len(log)
    OBVIOUS
  <2> HIDE DEF ends
  <2>3. last \in ends /\ \A j \in ends : j <= last
    BY <1>1, <2>1, <2>2, LastOne
  <2> HIDE DEF last
  <2>4. QED
    BY <2>3 DEF ends, LastEnd
<1>4. \A i \in 1..Len(log) : LastEnd(i, t) => i = last /\ ends # {}
  BY <1>1, <1>3 DEF LastEnd
<1>5. (\E r \in Records : r.turn = t) <=> (\E i \in 1..Len(log) : log[i].turn = t)
  BY <1>1, LinesFact DEF Records, Lines
<1>6. \A i \in 1..Len(log) : LastEnd(i, t) => log[i].kind \in Terminal
  BY DEF LastEnd, Ends
<1> HIDE DEF last
<1>7. ends # {} <=> \E i \in 1..Len(log) : Ends(i, t)
  OBVIOUS
<1> HIDE DEF ends
<1>8. \A k \in Terminal : k # "in_flight" /\ k # "none"
  BY DEF Terminal
<1>9. CASE ends # {}
  BY <1>2, <1>3, <1>4, <1>6, <1>7, <1>8, <1>9
<1>10. CASE ends = {}
  BY <1>2, <1>4, <1>5, <1>7, <1>10
<1>11. QED
  BY <1>9, <1>10
-----------------------------------------------------------------------------
(* What a step does to the file *)

Keeps == UNCHANGED <<log, whole, acked>> /\ crashes' + faults' >= crashes + faults

Forgets == log' = <<>> /\ whole' = TRUE /\ acked' = {} /\ UNCHANGED <<gen, orphans>>

Returns(r) ==
    /\ log' = With(r) /\ whole' = TRUE /\ acked' = acked \cup {r}
    /\ UNCHANGED counters

IsCut(r) ==
    /\ \/ UNCHANGED <<log, whole>>
       \/ \E b \in {Bad, Torn} : log' = With(b) /\ whole' = FALSE
       \/ log' = With(r) /\ whole' \in BOOLEAN
    /\ UNCHANGED acked /\ crashes' + faults' = crashes + faults + 1

FileStep ==
    \/ Keeps
    \/ Forgets
    \/ \E r \in Writable : /\ Returns(r) \/ IsCut(r)
                           /\ r.kind = "completed" => gen'[r.turn] = "over"

LEMMA CutFact ==
    ASSUME NEW r, CutShort(r), crashes' + faults' = crashes + faults + 1
    PROVE  IsCut(r)
  BY DEF CutShort, IsCut

LEMMA FileSteps ==
    ASSUME TypeOK, [Next]_vars
    PROVE  FileStep
<1>0. crashes \in Nat /\ faults \in Nat /\ gen \in [Turns -> {"new", "live", "over"}]
      /\ orphans \subseteq Turns
  BY BoundsAssumption DEF BoundsAssumption, TypeOK
<1>1. ASSUME NEW t \in Turns, StartTurn(t) PROVE FileStep
  <2> DEFINE r == Rec("started", t)
  <2>1. r \in Writable /\ Returns(r)
    BY <1>1 DEF StartTurn, MayStart, Writable, Write, Returns
  <2>2. r.kind # "completed"
    BY LinesFact
  <2> HIDE DEF r
  <2>3. QED
    BY <2>1, <2>2 DEF FileStep
<1>2. ASSUME NEW t \in Turns, StartTurnFails(t) PROVE FileStep
  <2> DEFINE r == Rec("started", t)
  <2>1. r \in Writable
    BY <1>2 DEF StartTurnFails, MayStart, Writable
  <2>2. IsCut(r)
    BY <1>0, <1>2, CutFact DEF StartTurnFails, Fault
  <2>3. r.kind # "completed"
    BY LinesFact
  <2> HIDE DEF r
  <2>4. QED
    BY <2>1, <2>2, <2>3 DEF FileStep
<1>3. ASSUME NEW t \in Turns, NEW k \in {"completed", "failed"}, EndTurn(t, k) \/ EndTurnFails(t, k)
      PROVE  FileStep
  <2> DEFINE r == Rec(k, t)
  <2>1. gen[t] = "live" /\ gen' = [gen EXCEPT ![t] = "over"]
    BY <1>3 DEF EndTurn, EndTurnFails
  <2>2. r \in Writable
    BY <2>1 DEF Writable
  <2>3. Returns(r) \/ IsCut(r)
    <3>1. CASE EndTurn(t, k)
      BY <3>1 DEF EndTurn, Write, Returns
    <3>2. CASE EndTurnFails(t, k)
      <4>1. CutShort(r) /\ crashes' + faults' = crashes + faults + 1
        BY <1>0, <3>2 DEF EndTurnFails, Fault
      <4>2. QED
        BY <4>1, CutFact
    <3>3. QED
      BY <1>3, <3>1, <3>2
  <2>4. r.kind = "completed" => gen'[r.turn] = "over"
    BY <1>0, <2>1, LinesFact
  <2> HIDE DEF r
  <2>5. QED
    BY <2>2, <2>3, <2>4 DEF FileStep
<1>4. ASSUME NEW t \in Turns, SweepWrites(t) \/ SweepFails(t) PROVE FileStep
  <2> DEFINE r == Rec("interrupted", t)
  <2>1. r \in Writable
    BY <1>4 DEF SweepWrites, SweepFails, Writable
  <2>2. Returns(r) \/ IsCut(r)
    <3>1. CASE SweepWrites(t)
      BY <3>1 DEF SweepWrites, Write, Returns
    <3>2. CASE SweepFails(t)
      <4>1. CutShort(r) /\ crashes' + faults' = crashes + faults + 1
        BY <1>0, <3>2 DEF SweepFails, Fault
      <4>2. QED
        BY <4>1, CutFact
    <3>3. QED
      BY <1>4, <3>1, <3>2
  <2>3. r.kind # "completed"
    BY <1>0, LinesFact
  <2> HIDE DEF r
  <2>4. QED
    BY <2>1, <2>2, <2>3 DEF FileStep
<1>5. ASSUME NEW r \in Writable, CrashIn(r) PROVE FileStep
  <2>1. CutShort(r) /\ crashes' + faults' = crashes + faults + 1
    BY <1>0, <1>5 DEF CrashIn, Dies
  <2>2. IsCut(r)
    BY <2>1, CutFact
  <2>3. r.kind = "completed" => gen'[r.turn] = "over"
    <3>1. r.kind = "completed" => gen[r.turn] = "live" /\ r.turn \in Turns
      BY WritableFact, LinesFact
    <3>2. QED
      BY <1>5, <3>1 DEF CrashIn, Dies
  <2>4. QED
    BY <2>2, <2>3 DEF FileStep
<1>6. ASSUME Delete PROVE FileStep
  BY <1>6 DEF Delete, FileStep, Forgets, sweeper
<1>8. ASSUME DeleteFails PROVE FileStep
  <2>1. CASE UNCHANGED <<log, whole, acked>>
    BY <1>0, <1>8, <2>1 DEF DeleteFails, FileStep, Keeps
  <2>2. CASE log' = <<>> /\ whole' = TRUE /\ acked' = {}
    BY <1>8, <2>2 DEF DeleteFails, FileStep, Forgets, sweeper
  <2>3. QED
    BY <1>8, <2>1, <2>2 DEF DeleteFails
<1>7. ASSUME \/ \E t \in Turns : Closed(t)
             \/ SweepFolds \/ SweepCannotRead \/ SweepStopsElsewhere \/ SweepReadsMeta \/ SweepStamps
             \/ SweepStampFails \/ SweepLosesDirectory \/ SweepEnds
             \/ Crash \/ CrashInStamp \/ Restart \/ UNCHANGED vars
      PROVE  FileStep
  BY <1>0, <1>7 DEF Closed, SweepFolds, SweepCannotRead, SweepEnds, DeleteFails,
                    SweepStopsElsewhere, SweepReadsMeta, SweepStamps, SweepStampFails,
                    SweepLosesDirectory, CrashInStamp, Crash, Dies, Restart, vars, file, history,
                    gone, counters, sweeper, FileStep, Keeps
<1>9. QED
  BY <1>1, <1>2, <1>3, <1>4, <1>5, <1>6, <1>7, <1>8 DEF Next

-----------------------------------------------------------------------------
(* Types *)

LEMMA LogTyped ==
    ASSUME TypeOK, FileStep
    PROVE  /\ log' \in Seq(Lines) /\ whole' \in BOOLEAN
           /\ acked' \subseteq Line /\ (IsFiniteSet(acked) => IsFiniteSet(acked'))
<1>1. log \in Seq(Lines) /\ whole \in BOOLEAN /\ acked \subseteq Line
  BY DEF TypeOK, Lines
<1>2. CASE Keeps \/ Forgets
  <2>1. <<>> \in Seq(Lines)
    OBVIOUS
  <2>2. IsFiniteSet({})
    BY FS_EmptySet
  <2>3. QED
    BY <1>1, <1>2, <2>1, <2>2 DEF Keeps, Forgets
<1>3. ASSUME NEW r \in Writable, Returns(r) \/ IsCut(r)
      PROVE  /\ log' \in Seq(Lines) /\ whole' \in BOOLEAN
             /\ acked' \subseteq Line /\ (IsFiniteSet(acked) => IsFiniteSet(acked'))
  <2>1. r \in Line /\ r \in Lines /\ Bad \in Lines /\ Torn \in Lines
    BY WritableFact DEF Lines
  <2>2. With(r) \in Seq(Lines) /\ \A b \in {Bad, Torn} : With(b) \in Seq(Lines)
    BY <1>1, <2>1, WithFact
  <2>3. acked' = acked \cup {r} \/ acked' = acked
    BY <1>3 DEF Returns, IsCut
  <2>4. acked' \subseteq Line /\ (IsFiniteSet(acked) => IsFiniteSet(acked'))
    BY <1>1, <2>1, <2>3, FS_AddElement
  <2>5. log' \in Seq(Lines) /\ whole' \in BOOLEAN
    BY <1>1, <1>3, <2>2 DEF Returns, IsCut
  <2>6. QED
    BY <2>4, <2>5
<1>4. QED
  BY <1>2, <1>3 DEF FileStep

LEMMA Typed ==
    ASSUME TypeOK, [Next]_vars
    PROVE  TypeOK'
<1>1. log' \in Seq(Line \cup {Bad, Torn}) /\ whole' \in BOOLEAN /\ acked' \subseteq Line
  BY FileSteps, LogTyped DEF Lines
<1>2. crashes' \in 0..MaxCrashes /\ faults' \in 0..MaxFaults
  <2>1. \/ crashes' = crashes /\ faults' = faults
        \/ crashes < MaxCrashes /\ crashes' = crashes + 1 /\ faults' = faults
        \/ faults < MaxFaults /\ faults' = faults + 1 /\ crashes' = crashes
    BY DEF Next, vars, counters, StartTurn, StartTurnFails, Closed, EndTurn, EndTurnFails,
           SweepWrites, SweepFails, Delete, SweepFolds, SweepCannotRead, SweepEnds, DeleteFails,
           SweepStopsElsewhere, SweepReadsMeta, SweepStamps, SweepStampFails, SweepLosesDirectory,
           CrashInStamp, Crash, CrashIn, Dies, Restart, Fault
  <2>2. QED
    BY <2>1, BoundsAssumption DEF BoundsAssumption, TypeOK
<1>3. gen' \in [Turns -> {"new", "live", "over"}]
  BY DEF TypeOK, Next, vars, StartTurn, StartTurnFails, Closed, EndTurn, EndTurnFails, SweepWrites,
         SweepFails, Delete, SweepFolds, SweepCannotRead, SweepEnds, DeleteFails,
         SweepStopsElsewhere, SweepReadsMeta, SweepStamps, SweepStampFails, SweepLosesDirectory,
         CrashInStamp, Crash, CrashIn, Dies, Restart
<1>4. up' \in BOOLEAN /\ dir' \in BOOLEAN /\ meta' \in BOOLEAN /\ deleted' \in BOOLEAN
      /\ overtaken' \in BOOLEAN
  BY DEF TypeOK, Next, vars, file, history, gone, StartTurn, StartTurnFails, Closed, EndTurn,
         EndTurnFails, SweepWrites, SweepFails, Delete, SweepFolds, SweepCannotRead, SweepEnds,
         DeleteFails, SweepStopsElsewhere, SweepReadsMeta, SweepStamps, SweepStampFails,
         SweepLosesDirectory, CrashInStamp, Crash, CrashIn, Dies, Restart, Fault, CutShort, Write
<1>5. /\ sweep' \in {"off", "due", "on", "wrote", "stamps", "done"} /\ orphans' \subseteq Turns
      /\ old' \subseteq Turns
  BY DEF TypeOK, Next, vars, history, gone, sweeper, StartTurn, StartTurnFails, Closed, EndTurn,
         EndTurnFails, SweepWrites, SweepFails, Delete, SweepFolds, SweepCannotRead, SweepEnds,
         DeleteFails, SweepStopsElsewhere, SweepReadsMeta, SweepStamps, SweepStampFails,
         SweepLosesDirectory, CrashInStamp, Crash, CrashIn, Dies, Restart, InFlight
<1>6. sound' \in BOOLEAN
  BY <1>1 DEF TypeOK, Next, vars, history, gone, StartTurn, StartTurnFails, Closed, EndTurn,
              EndTurnFails, SweepWrites, SweepFails, Delete, SweepFolds, SweepCannotRead, SweepEnds,
              DeleteFails, SweepStopsElsewhere, SweepReadsMeta, SweepStamps, SweepStampFails,
              SweepLosesDirectory, CrashInStamp, Crash, CrashIn, Dies, Restart, Watch
<1>7. QED
  BY <1>1, <1>2, <1>3, <1>4, <1>5, <1>6 DEF TypeOK

-----------------------------------------------------------------------------
(* What an append does to the statuses *)

\* On a whole file, what is appended or cut is a line at the end, or nothing.
Extends(r) ==
    /\ Len(log') = Len(log) + 1 /\ log'[Len(log) + 1] = r
    /\ \A i \in 1..Len(log) : log'[i] = log[i]

LEMMA WholeGrows ==
    ASSUME TypeOK, whole, NEW r \in Writable, Returns(r) \/ IsCut(r)
    PROVE  \/ log' = log \/ Extends(r)
           \/ \E b \in {Bad, Torn} : Extends(b)
<1>1. log \in Seq(Lines) /\ r \in Lines /\ Bad \in Lines /\ Torn \in Lines
  BY WritableFact DEF TypeOK, Lines
<1>2. \A x \in {r, Bad, Torn} : log' = With(x) => Extends(x)
  BY <1>1, WithFact DEF Extends
<1>3. QED
  BY <1>2 DEF Returns, IsCut

\* A line at the end is the last word on its own turn, and on no other.
LEMMA ExtendedStatus ==
    ASSUME log \in Seq(Lines), log' \in Seq(Lines), NEW x, Extends(x), NEW t \in Turns
    PROVE  /\ x.turn # t => /\ Status(t) = "completed" => Status(t)' = "completed"
                            /\ Status(t)' = "in_flight" => Status(t) = "in_flight"
           /\ (x.turn = t /\ x.kind \in Terminal) => Status(t)' # "in_flight"
<1>1. StatusByLines /\ StatusByLines'
  <2>1. StatusByLines
    BY StatusMeans DEF LogOK
  <2>2. LogOK'
    BY DEF LogOK
  <2>3. StatusByLines'
    BY <2>2, StatusMeans, PTL
  <2>4. QED
    BY <2>1, <2>3
<1>2. PICK m \in Nat : m = Len(log)
  OBVIOUS
<1>3. /\ Len(log') = m + 1 /\ log'[m + 1] = x
      /\ \A i \in 1..m : log'[i] = log[i]
      /\ \A i \in 1..(m + 1) : i \in 1..m \/ i = m + 1
      /\ \A i \in 1..m : i \in 1..(m + 1) /\ i # m + 1
      /\ m + 1 \in 1..(m + 1)
  BY <1>2 DEF Extends
<1>4. /\ \A i \in 1..m : Ends(i, t)' <=> Ends(i, t)
      /\ Ends(m + 1, t)' <=> x.turn = t /\ x.kind \in Terminal
  BY <1>3 DEF Ends
<1>5. ASSUME x.turn # t, Status(t) = "completed" PROVE Status(t)' = "completed"
  <2>1. PICK i \in 1..m : LastEnd(i, t) /\ log[i].kind = "completed"
    BY <1>1, <1>2, <1>5 DEF StatusByLines
  <2>2. LastEnd(i, t)'
    BY <1>2, <1>3, <1>4, <1>5, <2>1 DEF LastEnd
  <2>3. QED
    BY <1>1, <1>3, <2>1, <2>2 DEF StatusByLines
<1>6. ASSUME x.turn # t, Status(t)' = "in_flight" PROVE Status(t) = "in_flight"
  <2>1. /\ \E i \in 1..(m + 1) : log'[i].turn = t
        /\ ~ \E i \in 1..(m + 1) : Ends(i, t)'
    BY <1>1, <1>3, <1>6 DEF StatusByLines
  <2>2. (\E i \in 1..m : log[i].turn = t) /\ ~ \E i \in 1..m : Ends(i, t)
    BY <1>3, <1>4, <1>6, <2>1
  <2>3. QED
    BY <1>1, <1>2, <2>2 DEF StatusByLines
<1>7. ASSUME x.turn = t, x.kind \in Terminal PROVE Status(t)' # "in_flight"
  BY <1>1, <1>3, <1>4, <1>7 DEF StatusByLines
<1>8. QED
  BY <1>5, <1>6, <1>7

\* A turn in flight has a line, so a transcript without lines has none in flight.
LEMMA NothingInFlight ==
    ASSUME log' = <<>>, log' \in Seq(Lines)
    PROVE  InFlight' = {}
<1>1. StatusByLines'
  <2>1. LogOK'
    BY DEF LogOK
  <2>2. QED
    BY <2>1, StatusMeans, PTL
<1>2. Len(log') = 0
  OBVIOUS
<1>3. QED
  BY <1>1, <1>2 DEF StatusByLines, InFlight

LEMMA SameLogSameStatus ==
    ASSUME log' = log
    PROVE  InFlight' = InFlight /\ \A t \in Turns : Status(t)' = Status(t)
  BY DEF InFlight, Status, Records

-----------------------------------------------------------------------------
(* The parts of the invariant *)

LEMMA GenStays ==
    ASSUME TypeOK, [Next]_vars, NEW t \in Turns, gen[t] = "over"
    PROVE  gen'[t] = "over"
  BY DEF TypeOK, Next, vars, MayStart, StartTurn, StartTurnFails, Closed, EndTurn, EndTurnFails,
         SweepWrites, SweepFails, Delete, SweepFolds, SweepCannotRead, SweepEnds, DeleteFails,
         SweepStopsElsewhere, SweepReadsMeta, SweepStamps, SweepStampFails, SweepLosesDirectory,
         CrashInStamp, Crash, CrashIn, Dies, Restart

LEMMA GenKept ==
    ASSUME TypeOK, GenInv, [Next]_vars
    PROVE  GenInv'
<1>1. FileStep /\ log \in Seq(Lines) /\ log' \in Seq(Lines)
  BY FileSteps, LogTyped DEF TypeOK, Lines
<1> SUFFICES ASSUME NEW i \in 1..Len(log'), NEW t \in Turns, log'[i] = Rec("completed", t)
             PROVE  gen'[t] = "over"
  BY DEF GenInv
<1>2. (\E j \in 1..Len(log) : log[j] = log'[i]) => gen'[t] = "over"
  BY GenStays DEF GenInv
<1>3. Rec("completed", t) \notin {Bad, Torn}
  BY LinesFact
<1>4. CASE Keeps
  BY <1>2, <1>4 DEF Keeps
<1>5. CASE Forgets
  BY <1>5 DEF Forgets
<1>6. ASSUME NEW r \in Writable, Returns(r) \/ IsCut(r), r.kind = "completed" => gen'[r.turn] = "over"
      PROVE  gen'[t] = "over"
  <2>1. r \in Line /\ r \in Lines /\ Bad \in Lines /\ Torn \in Lines
    BY WritableFact DEF Lines
  <2>2. PICK x \in {r, Bad, Torn} : log' = log \/ log' = With(x)
    BY <1>6 DEF Returns, IsCut
  <2>3. CASE log' = log
    BY <1>2, <2>3
  <2>4. CASE log' = With(x)
    <3>1. log'[i] \in {x, Bad, Torn} \/ \E j \in 1..Len(log) : log[j] = log'[i]
      <4>0. PICK n \in Nat : n = Len(log)
        BY <1>1
      <4>1. CASE whole
        <5>1. Len(log') = n + 1 /\ log'[n + 1] = x /\ \A j \in 1..n : log'[j] = log[j]
          BY <1>1, <2>1, <2>4, <4>0, <4>1, WithFact
        <5>2. i \in 1..n \/ i = n + 1
          BY <5>1
        <5>3. QED
          BY <4>0, <5>1, <5>2
      <4>2. CASE ~whole
        <5>1. /\ Len(log') = n /\ \A j \in 1..(n - 1) : log'[j] = log[j]
              /\ n > 0 => log'[n] \in {Bad, Torn}
          BY <1>1, <2>1, <2>4, <4>0, <4>2, WithFact
        <5>2. (i \in 1..(n - 1) /\ i \in 1..n) \/ (i = n /\ n > 0)
          BY <5>1
        <5>3. QED
          BY <4>0, <5>1, <5>2
      <4>3. QED
        BY <4>1, <4>2
    <3>2. CASE log'[i] = r
      BY <1>6, <3>2, LinesFact
    <3>3. QED
      BY <1>2, <1>3, <3>1, <3>2
  <2>5. QED
    BY <2>2, <2>3, <2>4
<1>7. QED
  BY <1>1, <1>4, <1>5, <1>6 DEF FileStep

\* While no line is cut, no turn of an earlier process comes into flight.
LEMMA OldInFlight ==
    ASSUME TypeOK, SweepInv, [Next]_vars, sound, old' = old
    PROVE  InFlight' \cap old' \subseteq InFlight \cap old
<1>0. /\ FileStep /\ log \in Seq(Lines) /\ log' \in Seq(Lines) /\ whole
      /\ old \subseteq Turns /\ \A t \in old : gen[t] = "over"
  BY FileSteps, LogTyped DEF TypeOK, Lines, SweepInv
<1>1. CASE Keeps
  BY <1>1, SameLogSameStatus DEF Keeps
<1>2. CASE Forgets
  BY <1>0, <1>2, NothingInFlight DEF Forgets
<1>3. ASSUME NEW r \in Writable, Returns(r) \/ IsCut(r)
      PROVE  InFlight' \cap old' \subseteq InFlight \cap old
  <2>1. CASE log' = log
    BY <2>1, SameLogSameStatus
  <2>2. ASSUME NEW x \in {r, Bad, Torn}, Extends(x), NEW t \in InFlight' \cap old'
        PROVE  t \in InFlight \cap old
    <3>1. t \in old /\ t \in Turns /\ Status(t)' = "in_flight" /\ gen[t] = "over"
      BY <1>0, <2>2 DEF InFlight
    <3>2. x.turn # t
      <4>1. SUFFICES ASSUME x.turn = t PROVE FALSE
        OBVIOUS
      <4>2. x = r /\ x.kind = "interrupted"
        BY <3>1, <4>1, LinesFact, WritableFact
      <4>3. QED
        BY <1>0, <2>2, <3>1, <4>1, <4>2, ExtendedStatus DEF Terminal
    <3>3. Status(t) = "in_flight"
      BY <1>0, <2>2, <3>1, <3>2, ExtendedStatus
    <3>4. QED
      BY <3>1, <3>3 DEF InFlight
  <2>3. QED
    BY <1>0, <1>3, <2>1, <2>2, WholeGrows
<1>4. QED
  BY <1>0, <1>1, <1>2, <1>3 DEF FileStep

\* The sweep's line takes its turn out of flight.
LEMMA SweptIsOver ==
    ASSUME TypeOK, whole, NEW t \in orphans, log' = With(Rec("interrupted", t)), log' \in Seq(Lines)
    PROVE  t \notin InFlight'
<1> DEFINE r == Rec("interrupted", t)
<1>1. log \in Seq(Lines) /\ t \in Turns
  BY DEF TypeOK, Lines
<1>2. r \in Lines /\ r.turn = t /\ r.kind \in Terminal
  BY <1>1, LinesFact DEF Lines, Terminal
<1>3. Extends(r)
  BY <1>1, <1>2, WithFact DEF Extends
<1>4. Status(t)' # "in_flight"
  BY <1>1, <1>2, <1>3, ExtendedStatus
<1>5. QED
  BY <1>4 DEF InFlight

LEMMA SweepKept ==
    ASSUME TypeOK, SweepInv, [Next]_vars
    PROVE  SweepInv'
<1>1. sound' => whole'
  BY DEF SweepInv, Next, vars, file, history, gone, StartTurn, StartTurnFails, Closed, EndTurn,
         EndTurnFails, SweepWrites, SweepFails, Delete, SweepFolds, SweepCannotRead, SweepEnds,
         DeleteFails, SweepStopsElsewhere, SweepReadsMeta, SweepStamps, SweepStampFails,
         SweepLosesDirectory, CrashInStamp, Crash, CrashIn, Restart, Watch, Write
<1>2. ~up' => \A t \in Turns : gen'[t] # "live"
  <2>1. (up /\ ~up') => Dies
    BY DEF Next, vars, StartTurn, StartTurnFails, Closed, EndTurn, EndTurnFails,
           SweepWrites, SweepFails, Delete, DeleteFails, SweepFolds, SweepCannotRead,
           SweepStopsElsewhere, SweepReadsMeta, SweepStamps, SweepStampFails, SweepLosesDirectory,
           SweepEnds, Crash, CrashIn, CrashInStamp, Restart
  <2>2. Dies => \A t \in Turns : gen'[t] # "live"
    BY DEF Dies
  <2>3. ~up => Restart \/ UNCHANGED vars
    BY DEF Next, MayStart, StartTurn, StartTurnFails, Closed, EndTurn, EndTurnFails,
           SweepWrites, SweepFails, Delete, DeleteFails, SweepFolds, SweepCannotRead,
           SweepStopsElsewhere, SweepReadsMeta, SweepStamps, SweepStampFails, SweepLosesDirectory,
           SweepEnds, Crash, CrashIn, CrashInStamp, Dies
  <2>4. QED
    BY <2>1, <2>2, <2>3 DEF SweepInv, Restart, vars
<1>3. \A t \in old' : gen'[t] = "over"
  <2>1. CASE Restart
    <3>1. /\ old' = {t \in Turns : gen[t] # "new"} /\ gen' = gen
          /\ \A t \in Turns : gen[t] # "live"
      BY <2>1 DEF Restart, SweepInv
    <3>2. QED
      BY <3>1 DEF TypeOK
  <2>2. CASE old' = old
    BY <2>2, GenStays DEF SweepInv, TypeOK
  <2>3. old' = old \/ Restart
    BY DEF Next, vars, history, gone, StartTurn, StartTurnFails, Closed, EndTurn, EndTurnFails,
           SweepWrites, SweepFails, Delete, SweepFolds, SweepCannotRead, SweepEnds, DeleteFails,
           SweepStopsElsewhere, SweepReadsMeta, SweepStamps, SweepStampFails, SweepLosesDirectory,
           CrashInStamp, Crash, CrashIn, Dies
  <2>4. QED
    BY <2>1, <2>2, <2>3
<1>4. \/ (sweep' = sweep /\ orphans' = orphans /\ sound /\ old' = old)
      \/ SweepFolds \/ SweepReadsMeta \/ SweepStamps \/ SweepEnds
      \/ (sound /\ \E t \in orphans : SweepWrites(t))
      \/ ~sound' \/ sweep' \in {"off", "due"}
  <2>1. CASE sound
    BY <2>1 DEF Next, vars, history, gone, sweeper, StartTurn, StartTurnFails, Closed, EndTurn,
                EndTurnFails, SweepWrites, SweepFails, Delete, DeleteFails, SweepCannotRead,
                SweepStopsElsewhere, SweepStampFails, SweepLosesDirectory,
                Crash, CrashIn, CrashInStamp, Dies, Restart
  <2>2. ~sound => ~sound' \/ sweep' = "due"
    BY DEF Next, vars, history, gone, StartTurn, StartTurnFails, Closed, EndTurn, EndTurnFails,
           SweepWrites, SweepFails, Delete, DeleteFails, SweepFolds, SweepCannotRead,
           SweepStopsElsewhere, SweepReadsMeta, SweepStamps, SweepStampFails, SweepLosesDirectory,
           SweepEnds, Crash, CrashIn, CrashInStamp, Restart, Watch
  <2>3. QED
    BY <2>1, <2>2
<1>5. /\ (sound' /\ sweep' \in {"on", "wrote", "stamps"}) => InFlight' \cap old' \subseteq orphans'
      /\ (sound' /\ sweep' = "done") => InFlight' \cap old' = {}
  <2>1. CASE sweep' = sweep /\ orphans' = orphans /\ sound /\ old' = old
    BY <2>1, OldInFlight DEF SweepInv
  <2>2. CASE SweepFolds
    <3>1. sweep' = "on" /\ orphans' = InFlight /\ InFlight' = InFlight
      BY <2>2, SameLogSameStatus DEF SweepFolds, file
    <3>2. QED
      BY <3>1
  <2>3. CASE SweepEnds
    <3>1. sweep = "on" /\ sweep' = "done" /\ orphans = {} /\ old' = old /\ sound' = sound
          /\ InFlight' = InFlight
      BY <2>3, SameLogSameStatus DEF SweepEnds, DeleteFails, SweepStopsElsewhere, SweepReadsMeta,
                                     SweepStamps, SweepStampFails, SweepLosesDirectory,
                                     CrashInStamp, file, history, gone
    <3>2. QED
      BY <3>1 DEF SweepInv
  <2>4. ASSUME sound, NEW t \in orphans, SweepWrites(t)
        PROVE  /\ (sound' /\ sweep' \in {"on", "wrote", "stamps"}) => InFlight' \cap old' \subseteq orphans'
               /\ (sound' /\ sweep' = "done") => InFlight' \cap old' = {}
    <3>1. /\ sweep = "on" /\ sweep' = "wrote" /\ orphans' = orphans \ {t} /\ old' = old
          /\ log' = With(Rec("interrupted", t))
      BY <2>4 DEF SweepWrites, Write
    <3>2. InFlight' \cap old' \subseteq InFlight \cap old
      BY <2>4, <3>1, OldInFlight
    <3>3. log' \in Seq(Lines) /\ whole
      BY <2>4, FileSteps, LogTyped DEF SweepInv
    <3>4. t \notin InFlight'
      BY <3>1, <3>3, SweptIsOver
    <3>5. QED
      BY <2>4, <3>1, <3>2, <3>4 DEF SweepInv
  <2>5. CASE ~sound' \/ sweep' \in {"off", "due"}
    BY <2>5
  <2>6. CASE SweepReadsMeta \/ SweepStamps
    <3>1. /\ sweep \in {"wrote", "stamps"} /\ sweep' \in {"stamps", "on"}
          /\ orphans' = orphans /\ old' = old /\ sound' = sound /\ InFlight' = InFlight
      BY <2>6, SameLogSameStatus DEF SweepReadsMeta, SweepStamps, file, history
    <3>2. QED
      BY <3>1 DEF SweepInv
  <2>7. QED
    BY <1>4, <2>1, <2>2, <2>3, <2>4, <2>5, <2>6
<1>6. QED
  BY <1>1, <1>2, <1>3, <1>5 DEF SweepInv

\* A finished line stays what it is, and a line that finishes a whole file is one.
LEMMA SolidGrows ==
    ASSUME log \in Seq(Lines), whole' \in BOOLEAN, NEW x \in Lines, log' = With(x)
    PROVE  /\ Solid \subseteq Solid'
           /\ (whole /\ whole' /\ x \in Line) => x \in Solid'
<1>1. PICK n \in Nat : n = Len(log)
  OBVIOUS
<1>2. CASE whole
  <2>1. /\ Len(log') = n + 1 /\ log'[n + 1] = x /\ \A i \in 1..n : log'[i] = log[i]
        /\ Finished = n /\ Finished' = IF whole' THEN n + 1 ELSE n
    BY <1>1, <1>2, WithFact DEF Finished
  <2>2. /\ \A i \in 1..n : i \in 1..(n + 1) /\ i \in 1..Finished'
        /\ n + 1 \in 1..(n + 1)
    BY <2>1
  <2>3. QED
    BY <1>2, <2>1, <2>2 DEF Solid
<1>3. CASE ~whole
  <2>1. /\ Len(log') = n /\ \A i \in 1..(n - 1) : log'[i] = log[i]
        /\ Finished = n - 1 /\ Finished' = IF whole' THEN n ELSE n - 1
    BY <1>1, <1>3, WithFact DEF Finished
  <2>2. \A i \in 1..(n - 1) : i \in 1..Finished'
    BY <2>1
  <2>3. QED
    BY <1>3, <2>1, <2>2 DEF Solid
<1>4. QED
  BY <1>2, <1>3

LEMMA DamageKept ==
    ASSUME TypeOK, DamageInv, [Next]_vars
    PROVE  DamageInv'
<1>0. /\ FileStep /\ log \in Seq(Lines) /\ whole \in BOOLEAN /\ whole' \in BOOLEAN
      /\ IsFiniteSet(acked) /\ IsFiniteSet(acked')
      /\ crashes \in Nat /\ faults \in Nat
  BY FileSteps, LogTyped, BoundsAssumption DEF TypeOK, Lines, DamageInv, BoundsAssumption
<1>1. PICK d \in Nat, e \in Nat : d = Cardinality(acked \ Solid) /\ e = Cardinality(acked' \ Solid')
  BY <1>0, FS_Difference, FS_CardinalityType
<1> DEFINE cut == IF whole THEN 0 ELSE 1
           before == crashes + faults
           after == crashes' + faults'
<1>2. PICK c \in {0, 1}, f \in {0, 1} :
          /\ c = cut /\ (whole => c = 0) /\ (~whole => c = 1)
          /\ f = cut' /\ (whole' => f = 0)
  BY <1>0
<1>3. d + c <= before
  BY <1>1, <1>2 DEF DamageInv
<1>4. before \in Nat
  BY <1>0
<1>5. ASSUME acked' \ Solid' \subseteq acked \ Solid PROVE e <= d
  BY <1>0, <1>1, <1>5, FS_Difference, FS_Subset
<1>6. crashes' \in Nat /\ faults' \in Nat
  BY Typed, BoundsAssumption DEF TypeOK, BoundsAssumption
<1>7. after \in Nat
  <2>1. \A m, n \in Nat : m + n \in Nat
    OBVIOUS
  <2>2. QED
    BY <1>6, <2>1
<1> HIDE DEF cut, before, after
<1>8. e + f <= after
  <2>1. CASE Keeps
    <3>1. Solid' = Solid /\ acked' = acked /\ whole' = whole
      BY <2>1 DEF Keeps, Solid, Finished
    <3>2. QED
      <4>1. e = d /\ f = c /\ after >= before
        BY <1>1, <1>2, <2>1, <3>1 DEF Keeps, cut, before, after
      <4>2. QED
        BY <1>3, <1>4, <1>7, <4>1
  <2>2. CASE Forgets
    <3>1. acked' \ Solid' = {} /\ whole'
      BY <2>2 DEF Forgets
    <3>2. e = 0
      BY <1>1, <3>1, FS_EmptySet
    <3>3. f = 0
      BY <1>2, <3>1
    <3>4. QED
      BY <1>7, <3>2, <3>3
  <2>3. ASSUME NEW r \in Writable, Returns(r)
        PROVE  e + f <= after
    <3>1. r \in Line /\ r \in Lines
      BY WritableFact DEF Lines
    <3>2. /\ log' = With(r) /\ whole' = TRUE /\ acked' = acked \cup {r}
          /\ after = before /\ f = 0
      BY <1>2, <2>3 DEF Returns, counters, before, after
    <3>3. Solid \subseteq Solid' /\ (whole => r \in Solid')
      BY <1>0, <3>1, <3>2, SolidGrows
    <3>4. CASE whole
      <4>1. e <= d
        BY <1>5, <3>2, <3>3, <3>4
      <4>2. QED
        BY <1>3, <1>4, <3>2, <4>1
    <3>5. CASE ~whole
      <4>1. acked' \ Solid' \subseteq (acked \ Solid) \cup {r}
        BY <3>2, <3>3
      <4>2. /\ IsFiniteSet(acked \ Solid) /\ IsFiniteSet((acked \ Solid) \cup {r})
            /\ Cardinality((acked \ Solid) \cup {r}) <= d + 1
        <5>1. IsFiniteSet(acked \ Solid) /\ Cardinality(acked \ Solid) = d
          BY <1>0, <1>1, FS_Difference
        <5>2. QED
          BY <5>1, FS_AddElement
      <4>3. e <= Cardinality((acked \ Solid) \cup {r})
        BY <1>1, <4>1, <4>2, FS_Subset
      <4>4. Cardinality((acked \ Solid) \cup {r}) \in Nat
        BY <4>2, FS_CardinalityType
      <4>5. QED
        BY <1>2, <1>3, <1>4, <3>2, <3>5, <4>2, <4>3, <4>4
    <3>6. QED
      BY <3>4, <3>5
  <2>4. ASSUME NEW r \in Writable, IsCut(r)
        PROVE  e + f <= after
    <3>1. r \in Lines /\ Bad \in Lines /\ Torn \in Lines
      BY WritableFact DEF Lines
    <3>2. acked' = acked /\ after = before + 1
      BY <2>4 DEF IsCut, before, after
    <3>3. Solid \subseteq Solid'
      <4>1. CASE UNCHANGED <<log, whole>>
        BY <4>1 DEF Solid, Finished
      <4>2. ASSUME NEW x \in {r, Bad, Torn}, log' = With(x) PROVE Solid \subseteq Solid'
        BY <1>0, <3>1, <4>2, SolidGrows
      <4>3. QED
        BY <2>4, <4>1, <4>2 DEF IsCut
    <3>4. e <= d
      BY <1>5, <3>2, <3>3
    <3>5. QED
      <4>1. \A x \in {0, 1} : x <= 1 /\ x \in Nat
        OBVIOUS
      <4>2. c \in Nat /\ f \in Nat /\ f <= 1
        BY <1>2, <4>1
      <4>3. QED
        BY <1>1, <1>3, <1>4, <3>2, <3>4, <4>2
  <2>5. QED
    BY <1>0, <2>1, <2>2, <2>3, <2>4 DEF FileStep
<1>9. QED
  BY <1>0, <1>1, <1>2, <1>8 DEF DamageInv, cut, after

-----------------------------------------------------------------------------
(* The invariant *)

TranscriptInv == TypeOK /\ DamageInv /\ GenInv /\ SweepInv /\ HiddenInv

LEMMA InitTranscript == Init => TranscriptInv
<1> SUFFICES ASSUME Init PROVE TranscriptInv
  OBVIOUS
<1>1. TypeOK
  <2>1. <<>> \in Seq(Line \cup {Bad, Torn})
    OBVIOUS
  <2>2. 0 \in 0..MaxCrashes /\ 0 \in 0..MaxFaults
    BY BoundsAssumption DEF BoundsAssumption
  <2>3. QED
    BY <2>1, <2>2 DEF Init, TypeOK
<1>2. DamageInv
  <2>1. acked = {} /\ acked \ Solid = {} /\ whole = TRUE /\ crashes = 0 /\ faults = 0
    BY DEF Init
  <2>2. QED
    BY <2>1, FS_EmptySet DEF DamageInv
<1>3. GenInv /\ SweepInv /\ HiddenInv
  BY DEF Init, GenInv, SweepInv, HiddenInv
<1>4. QED
  BY <1>1, <1>2, <1>3 DEF TranscriptInv

LEMMA NextTranscript == TranscriptInv /\ [Next]_vars => TranscriptInv'
<1> SUFFICES ASSUME TranscriptInv, [Next]_vars PROVE TranscriptInv'
  OBVIOUS
<1>1. TypeOK /\ DamageInv /\ GenInv /\ SweepInv /\ HiddenInv
  BY DEF TranscriptInv
<1>2. HiddenInv'
  <2>1. meta' => meta \/ SweepStamps
    BY DEF Next, vars, file, history, gone, sweeper, StartTurn, StartTurnFails, Closed, EndTurn,
           EndTurnFails, SweepWrites, SweepFails, Delete, DeleteFails, SweepFolds, SweepCannotRead,
           SweepStopsElsewhere, SweepReadsMeta, SweepStampFails, SweepLosesDirectory, SweepEnds,
           Crash, CrashIn, CrashInStamp, Dies, Restart, Fault, CutShort, Write
  <2>2. gone' = gone \/ (Delete /\ (~overtaken' => ~meta' /\ sweep' # "stamps"))
    BY DEF Next, vars, file, history, sweeper, StartTurn, StartTurnFails, Closed, EndTurn,
           EndTurnFails, SweepWrites, SweepFails, Delete, DeleteFails, SweepFolds, SweepCannotRead,
           SweepStopsElsewhere, SweepReadsMeta, SweepStampFails, SweepLosesDirectory, SweepEnds,
           Crash, CrashIn, CrashInStamp, Dies, Restart, SweepStamps
  <2>3. sweep' = "stamps" => sweep = "stamps" \/ (meta /\ meta' = meta)
    BY DEF Next, vars, file, history, gone, sweeper, StartTurn, StartTurnFails, Closed, EndTurn,
           EndTurnFails, SweepWrites, SweepFails, Delete, DeleteFails, SweepFolds, SweepCannotRead,
           SweepStopsElsewhere, SweepReadsMeta, SweepStampFails, SweepLosesDirectory, SweepEnds,
           Crash, CrashIn, CrashInStamp, Dies, Restart, SweepStamps
  <2>4. CASE gone' = gone
    BY <1>1, <2>1, <2>3, <2>4 DEF HiddenInv, SweepStamps, gone
  <2>5. QED
    BY <2>2, <2>4 DEF HiddenInv
<1>3. QED
  BY <1>1, <1>2, Typed, DamageKept, GenKept, SweepKept DEF TranscriptInv

LEMMA Inductive == Spec => []TranscriptInv
  BY InitTranscript, NextTranscript, PTL DEF Spec

-----------------------------------------------------------------------------
\* Every variable keeps its type, whatever is cut.
THEOREM TranscriptTypeCorrect == Spec => []TypeOK
<1>1. TranscriptInv => TypeOK
  BY DEF TranscriptInv
<1> QED BY <1>1, Inductive, PTL

\* Each append that was cut costs at most one record whose append had returned.
THEOREM DamageStaysBounded == Spec => []DamageIsBounded
<1>1. TranscriptInv => DamageIsBounded
  <2> SUFFICES ASSUME TranscriptInv PROVE DamageIsBounded
    OBVIOUS
  <2>1. DamageInv /\ whole \in BOOLEAN /\ crashes \in Nat /\ faults \in Nat /\ log \in Seq(Lines)
    BY BoundsAssumption DEF TranscriptInv, TypeOK, BoundsAssumption, Lines
  <2>2. Solid \subseteq Records
    <3>1. PICK n \in Nat : n = Len(log)
      BY <2>1
    <3>2. \A i \in 1..Finished : i \in 1..n
      BY <2>1, <3>1 DEF Finished
    <3>3. QED
      BY <3>1, <3>2 DEF Solid, Records
  <2>3. IsFiniteSet(acked \ Solid) /\ Cardinality(acked \ Solid) \in Nat
    BY <2>1, FS_Difference, FS_CardinalityType DEF DamageInv
  <2>4. Cardinality(acked \ Records) \in Nat /\ Cardinality(acked \ Records) <= Cardinality(acked \ Solid)
    BY <2>2, <2>3, FS_Subset, FS_CardinalityType
  <2>5. QED
    BY <2>1, <2>3, <2>4 DEF DamageInv, DamageIsBounded
<1> QED BY <1>1, Inductive, PTL

\* A sweep that comes to a file without a cut line, and through it, leaves no
\* orphan behind, though turns of the new process begin, end and fail beside it.
THEOREM SoundSweepIsThorough == Spec => []SoundSweepLeavesNoOrphans
<1>1. TranscriptInv => SoundSweepLeavesNoOrphans
  BY DEF TranscriptInv, SweepInv, SoundSweepLeavesNoOrphans
<1> QED BY <1>1, Inductive, PTL

\* No late end of a turn brings a deleted conversation back, and no sweep but one
\* that had read its meta.json when the DELETE came.
THEOREM DeletedIsHidden == Spec => []DeletedStaysHidden
<1>1. TranscriptInv => DeletedStaysHidden
  BY DEF TranscriptInv, HiddenInv, DeletedStaysHidden
<1> QED BY <1>1, Inductive, PTL

\* What completed stays completed, but for a sweep that has the turn on its list
\* and for a line that was never finished.
THEOREM AnswersStand == Spec => AnswerStands
<1>1. TranscriptInv /\ [Next]_vars
        => [\A t \in Turns : (Status(t) = "completed" /\ whole /\ log' # <<>> /\ t \notin orphans)
                => Status(t)' = "completed"]_vars
  <2> SUFFICES ASSUME TypeOK, GenInv, [Next]_vars, NEW t \in Turns,
                      Status(t) = "completed", whole, log' # <<>>, t \notin orphans
               PROVE  Status(t)' = "completed"
    BY DEF TranscriptInv
  <2>0. FileStep /\ log \in Seq(Lines) /\ log' \in Seq(Lines)
    BY FileSteps, LogTyped DEF TypeOK, Lines
  <2>1. CASE Keeps
    BY <2>1, SameLogSameStatus DEF Keeps
  <2>2. CASE Forgets
    BY <2>2 DEF Forgets
  <2>3. ASSUME NEW r \in Writable, Returns(r) \/ IsCut(r)
        PROVE  Status(t)' = "completed"
    <3>1. CASE log' = log
      BY <3>1, SameLogSameStatus
    <3>2. gen[t] = "over"
      <4>1. PICK i \in 1..Len(log) : LastEnd(i, t) /\ log[i].kind = "completed"
        BY <2>0, StatusMeans DEF LogOK, StatusByLines
      <4>2. log[i] \in Line /\ log[i].turn = t
        BY <2>0, <4>1, LinesFact DEF LastEnd, Ends, Lines
      <4>3. log[i] = Rec("completed", t)
        BY <4>1, <4>2, LinesFact
      <4>4. QED
        BY <4>1, <4>3 DEF GenInv
    <3>3. ASSUME NEW x \in {r, Bad, Torn}, Extends(x) PROVE Status(t)' = "completed"
      <4>1. x.turn # t
        BY <3>2, LinesFact, WritableFact
      <4>2. QED
        BY <2>0, <3>3, <4>1, ExtendedStatus
    <3>4. QED
      BY <2>3, <3>1, <3>3, WholeGrows
  <2>4. QED
    BY <2>0, <2>1, <2>2, <2>3 DEF FileStep
<1>2. QED
  BY <1>1, Inductive, PTL DEF Spec, AnswerStands

=============================================================================
