--------------------------- MODULE ModelCallsProofs ---------------------------
(***************************************************************************)
(* What ModelCalls.cfg checks for two callers and three calls, for any        *)
(* number of callers, agents, calls, commands and troubles: the inductive     *)
(* invariants of ModelCalls and their proofs.                                 *)
(*                                                                         *)
(* Shapes is the typing of the state, with what ties the places of a thread   *)
(* together; each property then has an invariant of its own on top of it.     *)
(***************************************************************************)
EXTENDS ModelCalls, FiniteSetTheorems, TLAPS

\* Where the threads are.
Threads ==
    /\ stage \in [Callers -> Stages] /\ at \in [Callers -> Places]
    /\ call \in [Callers -> 0..MaxCalls] /\ latched \in [Callers -> BOOLEAN]
    /\ outcome \in [Callers -> Outcomes]
    /\ \A c \in Callers : /\ (at[c] = "out") <=> (stage[c] = "none")
                          /\ (call[c] = 0) <=> (at[c] \in {"out", "door"})
                          /\ (outcome[c] = "none") <=> (at[c] # "traced")
    /\ begun \in 0..MaxCalls

\* What is kept of the calls, and how far the purge is.
Stores ==
    /\ records \in [Calls -> Nat] /\ words \subseteq Calls
    /\ old \subseteq Calls \X BOOLEAN /\ live \subseteq Calls \X BOOLEAN
    /\ purge \in {"none", "old", "copied old", "live", "copied live", "memory"}
    /\ purgeOk \in BOOLEAN /\ copy \subseteq Calls \X BOOLEAN
    /\ broken \subseteq Calls /\ open \in BOOLEAN /\ copyOpen \in BOOLEAN
    /\ clean \subseteq Calls /\ marked \subseteq Calls
    /\ agreed \subseteq Calls /\ silent \subseteq Calls

Switches ==
    /\ up \in BOOLEAN /\ held \in BOOLEAN /\ recorder \in BOOLEAN
    /\ recFile \in {"absent", "on", "off", "torn"}
    /\ asked \in BOOLEAN /\ unsaved \in BOOLEAN

Counters ==
    /\ entries \in [Callers -> Nat] /\ refusals \in [Callers -> Nat]
    /\ commands \in 0..MaxCommands
    /\ faults \in Nat /\ rotations \in Nat /\ crashes \in Nat
    /\ faults + rotations + crashes <= MaxTroubles

Doors == {c \in Callers : at[c] = "door"}

\* Every thread at the door has a call left for it.
DoorsFit == begun + Cardinality(Doors) <= MaxCalls

Shapes == Threads /\ Stores /\ Switches /\ Counters /\ DoorsFit

-----------------------------------------------------------------------------
(* Lemmas about the operators                                                *)

\* What follows a try is a try or the end, and after a refusal it is the end.
LEMMA AfterTypes ==
    ASSUME NEW tried, NEW out
    PROVE  After(tried, out) \subseteq Stages /\ (out = "refused" => After(tried, out) = {"none"})
BY DEF After, Stages, Fast

\* The end of a try moves its thread out, or to the door if a call is left for it.
LEMMA OverMoves ==
    ASSUME NEW c \in Callers, NEW out, Over(c, out)
    PROVE  \E to \in Stages :
              /\ stage' = [stage EXCEPT ![c] = to]
              /\ at' = [at EXCEPT ![c] = IF to = "none" THEN "out" ELSE "door"]
              /\ call' = [call EXCEPT ![c] = 0]
              /\ latched' = [latched EXCEPT ![c] = FALSE]
              /\ outcome' = [outcome EXCEPT ![c] = "none"]
              /\ to # "none" => CallsLeft /\ out # "refused"
<1>1. PICK next \in After(stage[c], out) :
         LET to == IF CallsLeft THEN next ELSE "none"
         IN  /\ stage' = [stage EXCEPT ![c] = to]
             /\ at' = [at EXCEPT ![c] = IF to = "none" THEN "out" ELSE "door"]
             /\ call' = [call EXCEPT ![c] = 0]
             /\ latched' = [latched EXCEPT ![c] = FALSE]
             /\ outcome' = [outcome EXCEPT ![c] = "none"]
    BY DEF Over
<1> DEFINE to == IF CallsLeft THEN next ELSE "none"
<1>2. next \in Stages /\ (out = "refused" => next = "none")
    BY AfterTypes
<1>3. to \in Stages /\ (to # "none" => CallsLeft /\ out # "refused")
    BY <1>2 DEF Stages
<1> QED BY <1>1, <1>3

\* A write that is cut leaves words of its own record only.
LEMMA CutBreaks ==
    ASSUME NEW calls, Cut(calls), open \in BOOLEAN
    PROVE  /\ broken \subseteq broken' /\ broken' \subseteq broken \cup (calls \cap words)
           /\ open' \in BOOLEAN
BY DEF Cut

\* The bound on the troubles bounds those that are counted apart.
LEMMA TroubleLeft ==
    ASSUME Counters, silent \subseteq Calls, Trouble
    PROVE  faults + rotations + crashes < MaxTroubles
<1>0. MaxCalls \in Nat /\ MaxTroubles \in Nat
    BY BoundsAssumption DEF BoundsAssumption
<1>1. IsFiniteSet(Calls)
    BY <1>0, FS_Interval DEF Calls
<1>2. Cardinality(silent) \in Nat
    BY <1>1, FS_Subset, FS_CardinalityType
<1>3. faults + rotations + crashes + Cardinality(silent) < MaxTroubles
    BY DEF Trouble
<1>4. faults + rotations + crashes \in Nat
    BY DEF Counters
<1> QED BY <1>0, <1>2, <1>3, <1>4

\* The threads at the door are finitely many, and one that comes or goes is one
\* more or one less.
LEMMA DoorsAreCounted == IsFiniteSet(Doors) /\ Cardinality(Doors) \in Nat
<1>1. IsFiniteSet(Doors)
    BY CallersAssumption, FS_Subset DEF CallersAssumption, Doors
<1> QED BY <1>1, FS_CardinalityType

LEMMA OneMore ==
    ASSUME NEW S, IsFiniteSet(S), NEW T, NEW c, c \notin S, T = S \cup {c}
    PROVE  IsFiniteSet(T) /\ Cardinality(T) = Cardinality(S) + 1
<1>1. IsFiniteSet(S \cup {c}) /\ Cardinality(S \cup {c}) = Cardinality(S) + 1
    BY FS_AddElement
<1> QED BY <1>1, Zenon

LEMMA OneLess ==
    ASSUME NEW S, IsFiniteSet(S), NEW T, NEW c, c \in S, T = S \ {c}
    PROVE  IsFiniteSet(T) /\ Cardinality(T) = Cardinality(S) - 1
<1>1. IsFiniteSet(S \ {c}) /\ Cardinality(S \ {c}) = Cardinality(S) - 1
    BY FS_RemoveElement
<1> QED BY <1>1, Zenon

\* One thread moves.
Moved(c, s, a, n, l, o) ==
    /\ stage' = [stage EXCEPT ![c] = s] /\ at' = [at EXCEPT ![c] = a]
    /\ call' = [call EXCEPT ![c] = n] /\ latched' = [latched EXCEPT ![c] = l]
    /\ outcome' = [outcome EXCEPT ![c] = o]

\* A place that its try, its call and its outcome go with.
Fits(s, a, n, l, o) ==
    /\ s \in Stages /\ a \in Places /\ n \in 0..MaxCalls /\ l \in BOOLEAN /\ o \in Outcomes
    /\ (a = "out") <=> (s = "none")
    /\ (n = 0) <=> (a \in {"out", "door"})
    /\ (o = "none") <=> (a # "traced")

LEMMA ThreadMoves ==
    ASSUME Threads, NEW c \in Callers, NEW s, NEW a, NEW n, NEW l, NEW o,
           Moved(c, s, a, n, l, o), Fits(s, a, n, l, o), begun' \in 0..MaxCalls
    PROVE  Threads'
<1> USE DEF Moved, Fits
<1>1. /\ stage \in [Callers -> Stages] /\ at \in [Callers -> Places]
      /\ call \in [Callers -> 0..MaxCalls] /\ latched \in [Callers -> BOOLEAN]
      /\ outcome \in [Callers -> Outcomes]
    BY DEF Threads
<1>2. /\ stage' \in [Callers -> Stages] /\ at' \in [Callers -> Places]
      /\ call' \in [Callers -> 0..MaxCalls] /\ latched' \in [Callers -> BOOLEAN]
      /\ outcome' \in [Callers -> Outcomes]
    BY <1>1
<1>3. ASSUME NEW d \in Callers
      PROVE  /\ (at'[d] = "out") <=> (stage'[d] = "none")
             /\ (call'[d] = 0) <=> (at'[d] \in {"out", "door"})
             /\ (outcome'[d] = "none") <=> (at'[d] # "traced")
  <2>1. CASE d = c
      BY <1>1, <2>1
  <2>2. CASE d # c
    <3>1. /\ at'[d] = at[d] /\ stage'[d] = stage[d] /\ call'[d] = call[d] /\ outcome'[d] = outcome[d]
        BY <1>1, <2>2
    <3> QED BY <3>1 DEF Threads
  <2> QED BY <2>1, <2>2
<1> QED BY <1>2, <1>3 DEF Threads

\* What a thread leaves as it is.
LEMMA Still ==
    ASSUME Threads, NEW c \in Callers
    PROVE  /\ stage[c] \in Stages /\ stage = [stage EXCEPT ![c] = stage[c]]
           /\ call[c] \in 0..MaxCalls /\ call = [call EXCEPT ![c] = call[c]]
           /\ latched[c] \in BOOLEAN /\ latched = [latched EXCEPT ![c] = latched[c]]
           /\ outcome[c] \in Outcomes /\ outcome = [outcome EXCEPT ![c] = outcome[c]]
BY DEF Threads

-----------------------------------------------------------------------------
(* Shapes                                                                    *)

LEMMA ShapesInit == Init => Shapes
<1> SUFFICES ASSUME Init PROVE Shapes
    OBVIOUS
<1>0. MaxCalls \in Nat /\ MaxCommands \in Nat /\ MaxTroubles \in Nat
    BY BoundsAssumption DEF BoundsAssumption
<1>1. Threads
    BY <1>0 DEF Init, Threads, Stages, Places, Outcomes
<1>2. Stores
    BY <1>0 DEF Init, Stores, Calls
<1>3. Switches
    BY DEF Init, Switches
<1>4. Counters
    BY <1>0 DEF Init, Counters
<1>5. Doors = {}
    BY DEF Init, Doors
<1>6. DoorsFit
    BY <1>0, <1>5, FS_EmptySet DEF Init, DoorsFit
<1> QED BY <1>1, <1>2, <1>3, <1>4, <1>6 DEF Shapes

\* The end of a try keeps the shape of the threads.
LEMMA OverKeepsThreads ==
    ASSUME Shapes, NEW c \in Callers, NEW out, Over(c, out), at[c] # "door", begun' = begun
    PROVE  Threads' /\ DoorsFit'
<1>1. PICK to \in Stages :
              /\ stage' = [stage EXCEPT ![c] = to]
              /\ at' = [at EXCEPT ![c] = IF to = "none" THEN "out" ELSE "door"]
              /\ call' = [call EXCEPT ![c] = 0]
              /\ latched' = [latched EXCEPT ![c] = FALSE]
              /\ outcome' = [outcome EXCEPT ![c] = "none"]
              /\ to # "none" => CallsLeft /\ out # "refused"
    BY OverMoves
<1>2. Threads /\ DoorsFit /\ 0 \in 0..MaxCalls /\ MaxCalls \in Nat /\ begun \in Nat
    BY BoundsAssumption DEF BoundsAssumption, Shapes, Threads
<1>3. DoorsFit'
  <2>1. CASE to = "none"
    <3>1. Doors' = Doors
        BY <1>1, <1>2, <2>1 DEF Doors, Threads
    <3> QED BY <1>2, <3>1 DEF DoorsFit
  <2>2. CASE to # "none"
    <3>1. Doors' = Doors \cup {c} /\ c \notin Doors
        BY <1>1, <1>2, <2>2 DEF Doors, Threads
    <3>2. Cardinality(Doors') = Cardinality(Doors) + 1 /\ Cardinality(Doors) \in Nat
        BY <3>1, DoorsAreCounted, OneMore
    <3>3. begun + Cardinality(Doors) < MaxCalls
        BY <1>1, <2>2 DEF CallsLeft, Doors
    <3> QED BY <1>2, <3>2, <3>3 DEF DoorsFit
  <2> QED BY <2>1, <2>2
<1>4. Threads'
    BY <1>1, <1>2 DEF Threads, Stages, Places, Outcomes
<1> QED BY <1>3, <1>4

LEMMA ShapesStep == Shapes /\ [Next]_vars => Shapes'
<1> SUFFICES ASSUME Shapes, [Next]_vars PROVE Shapes'
    OBVIOUS
<1>0. MaxCalls \in Nat /\ MaxCommands \in Nat /\ MaxTroubles \in Nat
    BY BoundsAssumption DEF BoundsAssumption
<1>1. Threads /\ Stores /\ Switches /\ Counters /\ DoorsFit
    BY DEF Shapes
<1>2. ASSUME UNCHANGED <<door, begun>> PROVE Threads' /\ DoorsFit'
  <2>1. Doors' = Doors
      BY <1>2 DEF door, Doors
  <2> QED BY <1>1, <1>2, <2>1 DEF Threads, DoorsFit, door
<1>3. ASSUME UNCHANGED <<store, purging, agreed, silent>> PROVE Stores'
    BY <1>1, <1>3 DEF Stores, store, purging
<1>4. ASSUME UNCHANGED <<up, switches>> PROVE Switches'
    BY <1>1, <1>4 DEF Switches, switches
<1>5. ASSUME UNCHANGED <<entries, refusals, counters>> PROVE Counters'
    BY <1>1, <1>5 DEF Counters, counters
<1>d. ASSUME NEW c \in Callers, NEW first \in Stages, Decide(c, first) PROVE Shapes'
  <2>a. /\ stage[c] = "none" /\ first # "none" /\ begun' = begun
        /\ stage' = [stage EXCEPT ![c] = first] /\ at' = [at EXCEPT ![c] = "door"]
        /\ call' = call /\ latched' = latched /\ outcome' = outcome
      BY <1>d DEF Decide, Fast
  <2>b. at \in [Callers -> Places] /\ at[c] = "out" /\ call[c] = 0 /\ outcome[c] = "none" /\ begun \in 0..MaxCalls
      BY <1>1, <2>a DEF Threads
  <2>c. Moved(c, first, "door", 0, latched[c], "none") /\ latched[c] \in BOOLEAN
      BY <1>1, <2>a, <2>b, Still DEF Moved
  <2>1. Threads'
    <3>1. Fits(first, "door", 0, latched[c], "none")
        BY <1>0, <2>a, <2>c DEF Fits, Places, Outcomes
    <3>2. begun' \in 0..MaxCalls
        BY <2>a, <2>b
    <3> QED BY <1>1, <2>c, <3>1, <3>2, ThreadMoves
  <2>2. Stores' /\ Switches'
      BY <1>3, <1>4, <1>d DEF Decide
  <2>3. Counters'
      BY <1>1, <1>d DEF Counters, Decide, counters
  <2>4. Doors' = Doors \cup {c} /\ c \notin Doors
      BY <2>a, <2>b DEF Doors
  <2>5. begun + Cardinality(Doors) < MaxCalls /\ begun' = begun /\ begun \in Nat
      BY <1>1, <1>d DEF Decide, CallsLeft, Doors, Threads
  <2>6. Cardinality(Doors') = Cardinality(Doors) + 1 /\ Cardinality(Doors) \in Nat
      BY <2>4, DoorsAreCounted, OneMore
  <2>7. DoorsFit'
      BY <1>0, <2>5, <2>6 DEF DoorsFit
  <2> QED BY <2>1, <2>2, <2>3, <2>7 DEF Shapes
<1>g. ASSUME NEW c \in Callers, Gate(c) PROVE Shapes'
  <2>1. /\ call' = [call EXCEPT ![c] = begun + 1] /\ latched' = [latched EXCEPT ![c] = recorder]
        /\ stage' = stage /\ at[c] = "door" /\ recorder \in BOOLEAN /\ begun' = begun + 1
        /\ \/ at' = [at EXCEPT ![c] = "traced"] /\ outcome' = [outcome EXCEPT ![c] = "refused"]
           \/ at' = [at EXCEPT ![c] = "admitted"] /\ outcome' = outcome
      BY <1>1, <1>g DEF Gate, Ring, Switches
  <2>2. at \in [Callers -> Places] /\ stage[c] # "none" /\ outcome[c] = "none" /\ begun \in Nat
      BY <1>1, <2>1 DEF Threads
  <2>3. Doors' = Doors \ {c} /\ c \in Doors
      BY <2>1, <2>2 DEF Doors
  <2>4. Cardinality(Doors') = Cardinality(Doors) - 1 /\ Cardinality(Doors) \in Nat /\ Cardinality(Doors') \in Nat
      BY <2>3, DoorsAreCounted, OneLess, FS_CardinalityType
  <2>5. begun + Cardinality(Doors) <= MaxCalls
      BY <1>1 DEF DoorsFit
  <2>6. begun + 1 <= MaxCalls /\ begun + 1 \in Nat /\ DoorsFit'
      BY <1>0, <2>1, <2>2, <2>4, <2>5 DEF DoorsFit
  <2>7. begun + 1 \in Calls /\ begun + 1 \in 0..MaxCalls /\ begun + 1 # 0
      BY <1>0, <2>2, <2>6 DEF Calls
  <2>8. Threads'
    <3>1. stage[c] \in Stages /\ stage' = [stage EXCEPT ![c] = stage[c]]
        BY <1>1, <2>1, Still
    <3>2. begun' \in 0..MaxCalls
        BY <2>1, <2>7
    <3>3. CASE at' = [at EXCEPT ![c] = "traced"] /\ outcome' = [outcome EXCEPT ![c] = "refused"]
      <4>1. Moved(c, stage[c], "traced", begun + 1, recorder, "refused")
          BY <2>1, <3>1, <3>3 DEF Moved
      <4>2. Fits(stage[c], "traced", begun + 1, recorder, "refused")
          BY <2>1, <2>2, <2>7, <3>1 DEF Fits, Places, Outcomes
      <4> QED BY <1>1, <3>2, <4>1, <4>2, ThreadMoves
    <3>4. CASE at' = [at EXCEPT ![c] = "admitted"] /\ outcome' = outcome
      <4>1. outcome' = [outcome EXCEPT ![c] = "none"]
          BY <1>1, <2>2, <3>4, Still
      <4>2. Moved(c, stage[c], "admitted", begun + 1, recorder, "none")
          BY <2>1, <3>1, <3>4, <4>1 DEF Moved
      <4>3. Fits(stage[c], "admitted", begun + 1, recorder, "none")
          BY <2>1, <2>2, <2>7, <3>1 DEF Fits, Places, Outcomes
      <4> QED BY <1>1, <3>2, <4>2, <4>3, ThreadMoves
    <3> QED BY <2>1, <3>3, <3>4
  <2>9. Stores'
    <3>1. /\ UNCHANGED <<purging, old, live, broken, open, words, silent>>
          /\ \/ records' = [records EXCEPT ![begun + 1] = @ + 1]
             \/ records' = records
          /\ agreed' \subseteq agreed \cup {begun + 1}
        BY <1>g DEF Gate, Ring, Recorded, HasBodies, store
    <3>2. records' \in [Calls -> Nat] /\ agreed' \subseteq Calls
      <4>1. records \in [Calls -> Nat] /\ agreed \subseteq Calls
          BY <1>1 DEF Stores
      <4> QED BY <2>7, <3>1, <4>1
    <3> QED BY <1>1, <3>1, <3>2 DEF Stores, purging
  <2>10. Switches'
      BY <1>4, <1>g DEF Gate
  <2>11. Counters'
      BY <1>1, <1>g DEF Counters, Gate, counters
  <2> QED BY <2>6, <2>8, <2>9, <2>10, <2>11 DEF Shapes
<1>e. ASSUME NEW c \in Callers, Enter(c) \/ Answers(c) \/ Breaks(c) PROVE Shapes'
  <2>1. /\ stage' = stage /\ call' = call /\ latched' = latched /\ begun' = begun
        /\ at[c] \in {"admitted", "backend"}
        /\ \/ at' = [at EXCEPT ![c] = "backend"] /\ outcome' = outcome
           \/ \E out \in {"ok", "error"} : /\ at' = [at EXCEPT ![c] = "traced"]
                                           /\ outcome' = [outcome EXCEPT ![c] = out]
      BY <1>e DEF Enter, Answers, Breaks, Ring
  <2>2. /\ at \in [Callers -> Places] /\ stage[c] # "none" /\ outcome[c] = "none" /\ call[c] # 0
        /\ begun \in 0..MaxCalls
      BY <1>1, <2>1 DEF Threads
  <2>3. Doors' = Doors
      BY <2>1, <2>2 DEF Doors
  <2>4. /\ stage[c] \in Stages /\ stage' = [stage EXCEPT ![c] = stage[c]]
        /\ call[c] \in 0..MaxCalls /\ call' = [call EXCEPT ![c] = call[c]]
        /\ latched[c] \in BOOLEAN /\ latched' = [latched EXCEPT ![c] = latched[c]]
      BY <1>1, <2>1, Still
  <2>5. call[c] \in Calls
      BY <1>0, <2>2, <2>4 DEF Calls
  <2>6. Threads'
    <3>0. begun' \in 0..MaxCalls
        BY <2>1, <2>2
    <3>1. CASE at' = [at EXCEPT ![c] = "backend"] /\ outcome' = outcome
      <4>1. outcome' = [outcome EXCEPT ![c] = "none"]
          BY <1>1, <2>2, <3>1, Still
      <4>2. Moved(c, stage[c], "backend", call[c], latched[c], "none")
          BY <2>4, <3>1, <4>1 DEF Moved
      <4>3. Fits(stage[c], "backend", call[c], latched[c], "none")
          BY <2>2, <2>4 DEF Fits, Places, Outcomes
      <4> QED BY <1>1, <3>0, <4>2, <4>3, ThreadMoves
    <3>2. ASSUME NEW out \in {"ok", "error"},
                 at' = [at EXCEPT ![c] = "traced"], outcome' = [outcome EXCEPT ![c] = out]
          PROVE  Threads'
      <4>1. Moved(c, stage[c], "traced", call[c], latched[c], out)
          BY <2>4, <3>2 DEF Moved
      <4>2. Fits(stage[c], "traced", call[c], latched[c], out)
          BY <2>2, <2>4 DEF Fits, Places, Outcomes
      <4> QED BY <1>1, <3>0, <4>1, <4>2, ThreadMoves
    <3> QED BY <2>1, <3>1, <3>2
  <2>7. Stores'
    <3>1. /\ UNCHANGED <<purging, old, live, broken, open, agreed, silent>>
          /\ \/ records' = [records EXCEPT ![call[c]] = @ + 1]
             \/ records' = records
          /\ words' \subseteq words \cup {call[c]}
        BY <1>e DEF Enter, Answers, Breaks, Ring, Recorded, store, history
    <3>2. records' \in [Calls -> Nat] /\ words' \subseteq Calls
      <4>1. records \in [Calls -> Nat] /\ words \subseteq Calls
          BY <1>1 DEF Stores
      <4> QED BY <2>5, <3>1, <4>1
    <3> QED BY <1>1, <3>1, <3>2 DEF Stores, purging
  <2>8. Switches'
      BY <1>4, <1>e DEF Enter, Answers, Breaks
  <2>9. Counters'
      BY <1>1, <1>e DEF Counters, Enter, Answers, Breaks, history, counters
  <2>10. DoorsFit'
      BY <1>1, <2>1, <2>3 DEF DoorsFit
  <2> QED BY <2>6, <2>7, <2>8, <2>9, <2>10 DEF Shapes
<1>b. ASSUME Trouble PROVE faults + rotations + crashes < MaxTroubles
    BY <1>1, <1>b, TroubleLeft DEF Stores
<1>n. ASSUME NEW c \in Callers, Abandons(c) PROVE Shapes'
  <2>1. Over(c, "ok") /\ at[c] = "backend" /\ begun' = begun
      BY <1>n DEF Abandons
  <2>2. Threads' /\ DoorsFit'
      BY <2>1, OverKeepsThreads
  <2>3. call[c] \in Calls
    <3>1. call[c] \in 0..MaxCalls /\ call[c] # 0
        BY <1>1, <2>1 DEF Threads
    <3> QED BY <1>0, <3>1 DEF Calls
  <2>4. UNCHANGED <<store, purging, agreed>> /\ silent' = silent \cup {call[c]}
      BY <1>n DEF Abandons
  <2>5. Stores'
      BY <1>1, <2>3, <2>4 DEF Stores, store, purging
  <2>6. Switches' /\ Counters'
      BY <1>4, <1>5, <1>n DEF Abandons
  <2> QED BY <2>2, <2>5, <2>6 DEF Shapes
<1>t. ASSUME NEW c \in Callers, TrackFails(c) PROVE Shapes'
  <2>1. Over(c, "error") /\ at[c] # "door" /\ begun' = begun
      BY <1>t DEF TrackFails
  <2>2. Threads' /\ DoorsFit'
      BY <2>1, OverKeepsThreads
  <2>3. Stores' /\ Switches'
      BY <1>3, <1>4, <1>t DEF TrackFails, history
  <2>4. Counters'
    <3>1. /\ faults + rotations + crashes < MaxTroubles /\ faults' = faults + 1
          /\ UNCHANGED <<entries, refusals, commands, rotations, crashes>>
        BY <1>b, <1>t DEF TrackFails, history
    <3> QED BY <1>0, <1>1, <3>1 DEF Counters
  <2> QED BY <2>2, <2>3, <2>4 DEF Shapes
<1>a. ASSUME NEW c \in Callers, (\E full \in BOOLEAN : Append(c, full)) \/ AppendFails(c) PROVE Shapes'
  <2>1. Over(c, outcome[c]) /\ at[c] # "door" /\ begun' = begun
      BY <1>a DEF Append, AppendFails, Leaves
  <2>2. Threads' /\ DoorsFit'
      BY <2>1, OverKeepsThreads
  <2>a. at[c] = "traced" /\ call[c] \in 0..MaxCalls /\ call[c] # 0
      BY <1>1, <1>a DEF Threads, Append, AppendFails
  <2>3. Line(c) \in Calls \X BOOLEAN
    <3>1. call[c] \in Calls /\ (call[c] \in words) \in BOOLEAN
        BY <1>0, <2>a DEF Calls
    <3> QED BY <3>1, Zenon DEF Line
  <2>4. Stores'
    <3>0. call[c] \in Calls
        BY <1>0, <2>a DEF Calls
    <3>1. ASSUME NEW full \in BOOLEAN, Append(c, full) PROVE Stores'
      <4>1. /\ UNCHANGED <<records, words, purge, purgeOk, copy, copyOpen, clean, agreed, silent>>
            /\ marked' \subseteq marked
          BY <3>1 DEF Append, history
      <4>2. /\ old' \in {old, live} /\ live' \subseteq live \cup {Line(c)}
            /\ open' = FALSE /\ broken' \subseteq broken \cup {call[c]}
          BY <3>1 DEF Append, Written
      <4> QED BY <1>1, <2>3, <3>0, <4>1, <4>2 DEF Stores
    <3>2. CASE AppendFails(c)
      <4>1. Cut({call[c]}) /\ UNCHANGED <<records, words, old, live, purging, agreed, silent>>
          BY <3>2 DEF AppendFails, history
      <4>2. broken' \subseteq Calls /\ open' \in BOOLEAN
          BY <1>1, <3>0, <4>1, CutBreaks DEF Stores
      <4> QED BY <1>1, <4>1, <4>2 DEF Stores, purging
    <3> QED BY <1>a, <3>1, <3>2
  <2>5. Switches'
      BY <1>4, <1>a DEF Append, AppendFails
  <2>6. Counters'
    <3>1. UNCHANGED <<entries, refusals, commands, crashes>>
        BY <1>a DEF Append, AppendFails, history
    <3>2. \/ UNCHANGED <<faults, rotations>>
          \/ /\ faults + rotations + crashes < MaxTroubles
             /\ \/ faults' = faults /\ rotations' = rotations + 1
                \/ faults' = faults + 1 /\ rotations' = rotations
        BY <1>a, <1>b DEF Append, AppendFails
    <3> QED BY <1>0, <1>1, <3>1, <3>2 DEF Counters
  <2> QED BY <2>2, <2>4, <2>5, <2>6 DEF Shapes
<1>h. CASE Hold \/ Resume
  <2>1. Threads' /\ DoorsFit' /\ Stores'
      BY <1>2, <1>3, <1>h DEF Hold, Resume
  <2>2. Switches'
      BY <1>1, <1>h DEF Switches, Hold, Resume
  <2>3. /\ entries' = [c \in Callers |-> 0] /\ UNCHANGED <<refusals, faults, rotations, crashes>>
        /\ commands < MaxCommands /\ commands' = commands + 1
      BY <1>h DEF Hold, Resume, Commands
  <2>4. Counters'
      BY <1>0, <1>1, <2>3 DEF Counters
  <2> QED BY <2>1, <2>2, <2>4 DEF Shapes
<1>s. ASSUME NEW on \in BOOLEAN, NEW andPurge \in BOOLEAN, NEW fails \in BOOLEAN,
             SetRecorder(on, andPurge, fails)
      PROVE  Shapes'
  <2>1. Threads' /\ DoorsFit'
      BY <1>2, <1>s DEF SetRecorder
  <2>2. OnDisk \subseteq Calls
      BY <1>1 DEF OnDisk, Stores
  <2>3. Stores'
      BY <1>1, <1>s, <2>2 DEF Stores, SetRecorder, store, history
  <2>4. Switches'
      BY <1>1, <1>s DEF Switches, SetRecorder
  <2>5. Counters'
    <3>1. /\ UNCHANGED <<entries, refusals, rotations, crashes>>
          /\ commands < MaxCommands /\ commands' = commands + 1
          /\ \/ faults' = faults
             \/ faults' = faults + 1 /\ faults + rotations + crashes < MaxTroubles
        BY <1>s, <1>b DEF SetRecorder, Commands, history
    <3> QED BY <1>0, <1>1, <3>1 DEF Counters
  <2> QED BY <2>1, <2>3, <2>4, <2>5 DEF Shapes
<1>p. CASE PurgeReads \/ PurgeReplaces \/ PurgeFails \/ PurgeEnds
  <2>1. Threads' /\ DoorsFit' /\ Switches'
      BY <1>2, <1>4, <1>p DEF PurgeReads, PurgeReplaces, PurgeFails, PurgeEnds
  <2>2. Counters'
    <3>1. CASE PurgeFails
      <4>1. /\ UNCHANGED <<entries, refusals, commands, rotations, crashes>>
            /\ faults' = faults + 1 /\ faults + rotations + crashes < MaxTroubles
          BY <1>b, <3>1 DEF PurgeFails, history
      <4> QED BY <1>0, <1>1, <4>1 DEF Counters
    <3>2. CASE PurgeReads \/ PurgeReplaces \/ PurgeEnds
        BY <1>5, <3>2 DEF PurgeReads, PurgeReplaces, PurgeEnds, history
    <3> QED BY <1>p, <3>1, <3>2
  <2>3. Stripped(copy) \subseteq Calls \X BOOLEAN /\ WordsLeft \subseteq Calls
    <3>1. copy \subseteq Calls \X BOOLEAN /\ words \subseteq Calls
        BY <1>1 DEF Stores
    <3>2. ASSUME NEW line \in copy PROVE <<line[1], FALSE>> \in Calls \X BOOLEAN
        BY <3>1
    <3> QED BY <3>1, <3>2 DEF Stripped, WordsLeft
  <2>4. Stores'
    <3>1. CASE PurgeReads
        BY <1>1, <3>1 DEF Stores, PurgeReads, AfterFile, store, history
    <3>2. CASE PurgeReplaces
        BY <1>1, <3>2, <2>3 DEF Stores, PurgeReplaces, AfterFile, history
    <3>3. CASE PurgeFails
        BY <1>1, <3>3 DEF Stores, PurgeFails, AfterFile, store, history
    <3>4. CASE PurgeEnds
        BY <1>1, <3>4, <2>3 DEF Stores, PurgeEnds, history
    <3> QED BY <1>p, <3>1, <3>2, <3>3, <3>4
  <2> QED BY <2>1, <2>2, <2>4 DEF Shapes
<1>c. CASE Crash \/ (\E on \in BOOLEAN : CrashInWrite(on))
  <2>1. /\ stage' = [c \in Callers |-> "none"] /\ at' = [c \in Callers |-> "out"]
        /\ call' = [c \in Callers |-> 0] /\ latched' = [c \in Callers |-> FALSE]
        /\ outcome' = [c \in Callers |-> "none"] /\ begun' = begun
      BY <1>c DEF Crash, CrashInWrite, Down
  <2>2. begun \in 0..MaxCalls /\ 0 \in 0..MaxCalls
      BY <1>0, <1>1 DEF Threads
  <2>3. Threads'
      BY <2>1, <2>2 DEF Threads, Stages, Places, Outcomes
  <2>4. Doors' = {}
      BY <2>1 DEF Doors
  <2>5. DoorsFit'
      BY <1>0, <2>1, <2>2, <2>4, FS_EmptySet DEF DoorsFit
  <2>6. /\ records' = [n \in Calls |-> 0] /\ words' = {}
        /\ UNCHANGED <<old, live, clean, agreed, silent>>
        /\ \/ /\ purge' = "none" /\ purgeOk' = TRUE /\ copy' = {} /\ copyOpen' = FALSE
              /\ marked' = {}
           \/ UNCHANGED <<purge, purgeOk, copy, copyOpen, marked>>
      BY <1>c DEF Crash, CrashInWrite, Down
  <2>11. broken' \subseteq Calls /\ open' \in BOOLEAN
    <3>1. Cut({call[c] : c \in {d \in Callers : at[d] = "traced"}})
        BY <1>c DEF Crash, CrashInWrite, Down
    <3> QED BY <1>1, <3>1, CutBreaks DEF Stores
  <2>7. Stores'
      BY <1>1, <2>6, <2>11 DEF Stores
  <2>8. /\ entries' = [c \in Callers |-> 0] /\ refusals' = [c \in Callers |-> 0]
        /\ faults + rotations + crashes < MaxTroubles
        /\ crashes' = crashes + 1 /\ UNCHANGED <<faults, rotations>>
        /\ commands' = commands \/ (commands < MaxCommands /\ commands' = commands + 1)
      BY <1>b, <1>c DEF Crash, CrashInWrite, Down, Commands
  <2>9. Counters'
      BY <1>0, <1>1, <2>8 DEF Counters
  <2>10. Switches'
      BY <1>1, <1>c DEF Switches, Crash, CrashInWrite, Down, switches
  <2> QED BY <2>3, <2>5, <2>7, <2>9, <2>10 DEF Shapes
<1>r. CASE Restart
  <2>1. Threads' /\ DoorsFit' /\ Stores' /\ Counters'
      BY <1>2, <1>3, <1>5, <1>r DEF Restart, history
  <2>2. Switches'
      BY <1>1, <1>r DEF Switches, Restart, RecorderRead
  <2> QED BY <2>1, <2>2 DEF Shapes
<1>u. CASE UNCHANGED vars
    BY <1>2, <1>3, <1>4, <1>5, <1>u DEF vars, history, Shapes
<1> QED BY <1>d, <1>g, <1>e, <1>n, <1>t, <1>a, <1>h, <1>s, <1>p, <1>c, <1>r, <1>u DEF Next, Calling

-----------------------------------------------------------------------------
(* The steps of one thread, seen from each thread                            *)

TryEnds(c) ==
    Abandons(c) \/ TrackFails(c) \/ (\E full \in BOOLEAN : Append(c, full)) \/ AppendFails(c)

LEMMA TheTryEnds ==
    ASSUME Shapes, NEW c \in Callers, TryEnds(c)
    PROVE  /\ at[c] \in {"backend", "traced"} /\ begun' = begun
           /\ at'[c] \in {"out", "door"} /\ call'[c] = 0 /\ latched'[c] = FALSE
           /\ at[c] = "traced" /\ outcome[c] = "refused" => at'[c] = "out"
           /\ \A d \in Callers \ {c} : /\ at'[d] = at[d] /\ call'[d] = call[d] /\ stage'[d] = stage[d]
                                       /\ latched'[d] = latched[d] /\ outcome'[d] = outcome[d]
<1>1. \E out : /\ Over(c, out) /\ at[c] \in {"backend", "traced"} /\ begun' = begun
               /\ (at[c] = "traced" => out = outcome[c])
  <2>1. CASE Abandons(c) \/ TrackFails(c)
      BY <2>1 DEF Abandons, TrackFails
  <2>2. CASE (\E full \in BOOLEAN : Append(c, full)) \/ AppendFails(c)
      BY <2>2 DEF Append, AppendFails, Leaves
  <2> QED BY <2>1, <2>2 DEF TryEnds
<1>2. PICK out : /\ Over(c, out) /\ at[c] \in {"backend", "traced"} /\ begun' = begun
                 /\ (at[c] = "traced" => out = outcome[c])
    BY <1>1
<1>3. PICK to \in Stages :
              /\ stage' = [stage EXCEPT ![c] = to]
              /\ at' = [at EXCEPT ![c] = IF to = "none" THEN "out" ELSE "door"]
              /\ call' = [call EXCEPT ![c] = 0]
              /\ latched' = [latched EXCEPT ![c] = FALSE]
              /\ outcome' = [outcome EXCEPT ![c] = "none"]
              /\ to # "none" => CallsLeft /\ out # "refused"
    BY <1>2, OverMoves
<1>4. /\ stage \in [Callers -> Stages] /\ at \in [Callers -> Places]
      /\ call \in [Callers -> 0..MaxCalls] /\ latched \in [Callers -> BOOLEAN]
      /\ outcome \in [Callers -> Outcomes]
    BY DEF Shapes, Threads
<1> QED BY <1>2, <1>3, <1>4

\* What a try that ends leaves in the files.
LEMMA WhatATryWrites ==
    ASSUME Shapes, NEW c \in Callers, TryEnds(c)
    PROVE  /\ UNCHANGED <<up, switches, words, copy, clean, purge, purgeOk, agreed>>
           /\ \/ UNCHANGED <<old, live, marked, broken>>
              \/ /\ at[c] = "traced" /\ UNCHANGED <<old, live, marked>>
                 /\ broken' \subseteq broken \cup ({call[c]} \cap words)
              \/ /\ at[c] = "traced" /\ old' = live /\ live' = {Line(c)} /\ marked' = {}
                 /\ broken' = broken
              \/ /\ at[c] = "traced" /\ old' = old /\ live' = live \cup {Line(c)}
                 /\ marked' = marked /\ broken' = broken
<1>1. CASE Abandons(c) \/ TrackFails(c)
    BY <1>1 DEF Abandons, TrackFails, store, purging, history
<1>2. ASSUME NEW full \in BOOLEAN, Append(c, full)
      PROVE  /\ UNCHANGED <<up, switches, words, copy, clean, purge, purgeOk, agreed>>
             /\ at[c] = "traced"
             /\ \/ /\ UNCHANGED <<old, live, marked>>
                   /\ broken' \subseteq broken \cup ({call[c]} \cap words)
                \/ old' = live /\ live' = {Line(c)} /\ marked' = {} /\ broken' = broken
                \/ old' = old /\ live' = live \cup {Line(c)} /\ marked' = marked /\ broken' = broken
  <2>1. CASE full
      BY <1>2, <2>1 DEF Append, history
  <2>2. CASE ~full /\ open
      BY <1>2, <2>2 DEF Append, Written, history
  <2>3. CASE ~full /\ ~open
      BY <1>2, <2>3 DEF Append, Written, history
  <2> QED BY <2>1, <2>2, <2>3
<1>3. CASE AppendFails(c)
  <2>1. Cut({call[c]}) /\ open \in BOOLEAN
      BY <1>3 DEF AppendFails, Shapes, Stores
  <2>2. broken' \subseteq broken \cup ({call[c]} \cap words)
      BY <2>1, CutBreaks
  <2> QED BY <1>3, <2>2 DEF AppendFails, purging, history
<1> QED BY <1>1, <1>2, <1>3 DEF TryEnds

LEMMA TheGate ==
    ASSUME Shapes, NEW c \in Callers, Gate(c)
    PROVE  /\ at[c] = "door" /\ begun' = begun + 1 /\ call'[c] = begun + 1 /\ latched'[c] = recorder
           /\ outcome[c] = "none" /\ call[c] = 0
           /\ \/ Refused(c) /\ at'[c] = "traced" /\ outcome'[c] = "refused"
              \/ ~Refused(c) /\ at'[c] = "admitted"
           /\ \A d \in Callers \ {c} : /\ at'[d] = at[d] /\ call'[d] = call[d] /\ stage'[d] = stage[d]
                                       /\ latched'[d] = latched[d] /\ outcome'[d] = outcome[d]
<1>1. /\ stage \in [Callers -> Stages] /\ at \in [Callers -> Places]
      /\ call \in [Callers -> 0..MaxCalls] /\ latched \in [Callers -> BOOLEAN]
      /\ outcome \in [Callers -> Outcomes]
    BY DEF Shapes, Threads
<1>2. outcome[c] = "none" /\ call[c] = 0
    BY DEF Gate, Shapes, Threads
<1> QED BY <1>1, <1>2 DEF Gate, Ring

LEMMA TheBackend ==
    ASSUME Shapes, NEW c \in Callers, Enter(c) \/ Answers(c) \/ Breaks(c)
    PROVE  /\ begun' = begun /\ call' = call /\ latched' = latched /\ stage' = stage
           /\ outcome[c] = "none" /\ call[c] \in Calls
           /\ \/ Enter(c) /\ at[c] = "admitted" /\ at'[c] = "backend" /\ outcome' = outcome
              \/ Answers(c) /\ at[c] = "backend" /\ at'[c] = "traced" /\ outcome'[c] = "ok"
              \/ Breaks(c) /\ at[c] = "backend" /\ at'[c] = "traced" /\ outcome'[c] = "error"
           /\ \A d \in Callers \ {c} : at'[d] = at[d] /\ outcome'[d] = outcome[d]
<1>1. at \in [Callers -> Places] /\ outcome \in [Callers -> Outcomes]
    BY DEF Shapes, Threads
<1>2. at[c] \in {"admitted", "backend"}
    BY DEF Enter, Answers, Breaks
<1>3. outcome[c] = "none" /\ call[c] # 0 /\ call[c] \in 0..MaxCalls
    BY <1>2 DEF Shapes, Threads
<1>4. call[c] \in Calls
    BY <1>3, BoundsAssumption DEF Calls, BoundsAssumption
<1> QED BY <1>1, <1>3, <1>4 DEF Enter, Answers, Breaks, Ring

LEMMA TheDecision ==
    ASSUME Shapes, NEW c \in Callers, NEW first, Decide(c, first)
    PROVE  /\ at[c] = "out" /\ at'[c] = "door" /\ refusals'[c] = 0
           /\ UNCHANGED <<call, latched, outcome, begun>>
           /\ \A d \in Callers \ {c} : at'[d] = at[d] /\ stage'[d] = stage[d] /\ refusals'[d] = refusals[d]
<1>1. /\ at \in [Callers -> Places] /\ stage \in [Callers -> Stages] /\ refusals \in [Callers -> Nat]
    BY DEF Shapes, Threads, Counters
<1>2. at[c] = "out"
    BY DEF Decide, Shapes, Threads
<1> QED BY <1>1, <1>2 DEF Decide

\* Every step is one of these.
LEMMA NextCases ==
    ASSUME [Next]_vars
    PROVE  \/ \E c \in Callers : \/ \E first \in Stages : Decide(c, first)
                                 \/ Gate(c) \/ Enter(c) \/ Answers(c) \/ Breaks(c) \/ TryEnds(c)
           \/ Hold \/ Resume
           \/ \E on, andPurge, fails \in BOOLEAN : SetRecorder(on, andPurge, fails)
           \/ PurgeReads \/ PurgeReplaces \/ PurgeFails \/ PurgeEnds
           \/ Crash \/ (\E on \in BOOLEAN : CrashInWrite(on)) \/ Restart
           \/ UNCHANGED vars
BY DEF Next, Calling, TryEnds

\* The steps that leave the threads where they are.
Aside ==
    \/ Hold \/ Resume
    \/ \E on, andPurge, fails \in BOOLEAN : SetRecorder(on, andPurge, fails)
    \/ PurgeReads \/ PurgeReplaces \/ PurgeFails \/ PurgeEnds
    \/ Restart \/ UNCHANGED vars

LEMMA AsideKeeps == Aside => UNCHANGED <<door, begun>>
BY DEF Aside, Hold, Resume, SetRecorder, PurgeReads, PurgeReplaces, PurgeFails, PurgeEnds, Restart, vars

Dies == Crash \/ (\E on \in BOOLEAN : CrashInWrite(on))

LEMMA ADeathEmpties ==
    ASSUME Shapes, Dies
    PROVE  /\ \A c \in Callers : at'[c] = "out" /\ call'[c] = 0 /\ latched'[c] = FALSE
                               /\ entries'[c] = 0 /\ refusals'[c] = 0
           /\ UNCHANGED <<begun, old, live, clean, agreed, silent, held>> /\ words' = {} /\ up' = FALSE
           /\ \A n \in broken' : \/ n \in broken
                                 \/ n \in words /\ \E c \in Callers : at[c] = "traced" /\ n = call[c]
<1>1. Down /\ held' = held
    BY DEF Dies, Crash, CrashInWrite, switches
<1>2. /\ \A c \in Callers : at'[c] = "out" /\ call'[c] = 0 /\ latched'[c] = FALSE
                           /\ entries'[c] = 0 /\ refusals'[c] = 0
      /\ UNCHANGED <<begun, old, live, clean, agreed, silent>> /\ words' = {} /\ up' = FALSE
      /\ Cut({call[c] : c \in {d \in Callers : at[d] = "traced"}})
    BY <1>1 DEF Down
<1>3. broken' \subseteq broken \cup ({call[c] : c \in {d \in Callers : at[d] = "traced"}} \cap words)
    BY <1>2, CutBreaks DEF Shapes, Stores
<1> QED BY <1>1, <1>2, <1>3

-----------------------------------------------------------------------------
(* Admission under a hold                                                    *)

\* An agent that was let in before the hold has not been counted in it yet.
EntryInv ==
    \A c \in Agents : /\ entries[c] <= 1
                      /\ held /\ at[c] = "admitted" => entries[c] = 0
                      /\ ~held => entries[c] = 0

LEMMA EntryInit == Init => EntryInv
BY CallersAssumption DEF CallersAssumption, Init, EntryInv

LEMMA EntryStep == Shapes /\ EntryInv /\ [Next]_vars => EntryInv'
<1> SUFFICES ASSUME Shapes, EntryInv, [Next]_vars PROVE EntryInv'
    OBVIOUS
<1>0. Agents \subseteq Callers /\ entries \in [Callers -> Nat] /\ held \in BOOLEAN
    BY CallersAssumption DEF CallersAssumption, Shapes, Counters, Switches
<1>1. ASSUME UNCHANGED <<held, entries>>, \A d \in Callers : at'[d] = "admitted" => at[d] = "admitted"
      PROVE  EntryInv'
    BY <1>0, <1>1 DEF EntryInv
<1>2. ASSUME NEW c \in Callers, NEW first \in Stages, Decide(c, first) PROVE EntryInv'
  <2>1. \A d \in Callers : at'[d] = "admitted" => at[d] = "admitted"
      BY <1>2, TheDecision
  <2> QED BY <1>1, <1>2, <2>1 DEF Decide, switches
<1>3. ASSUME NEW c \in Callers, Gate(c) PROVE EntryInv'
  <2>1. UNCHANGED <<held, entries>>
      BY <1>3 DEF Gate, switches
  <2>2. /\ \A d \in Callers \ {c} : at'[d] = at[d]
        /\ at'[c] = "admitted" => ~Refused(c)
      BY <1>3, TheGate
  <2> QED BY <1>0, <2>1, <2>2 DEF EntryInv, Refused
<1>4. ASSUME NEW c \in Callers, Enter(c) PROVE EntryInv'
  <2>1. /\ held' = held /\ entries' = [entries EXCEPT ![c] = IF held THEN @ + 1 ELSE @]
        /\ at[c] = "admitted" /\ at'[c] = "backend" /\ \A d \in Callers \ {c} : at'[d] = at[d]
      BY <1>4, TheBackend DEF Enter, switches
  <2>2. ASSUME NEW d \in Agents
        PROVE  /\ entries'[d] <= 1
               /\ held' /\ at'[d] = "admitted" => entries'[d] = 0
               /\ ~held' => entries'[d] = 0
    <3>1. CASE d = c
        BY <1>0, <2>1, <3>1 DEF EntryInv
    <3>2. CASE d # c
        BY <1>0, <2>1, <3>2 DEF EntryInv
    <3> QED BY <3>1, <3>2
  <2> QED BY <2>2 DEF EntryInv
<1>5. ASSUME NEW c \in Callers, Answers(c) \/ Breaks(c) PROVE EntryInv'
  <2>1. \A d \in Callers : at'[d] = "admitted" => at[d] = "admitted"
      BY <1>5, TheBackend DEF Answers, Breaks
  <2> QED BY <1>1, <1>5, <2>1 DEF Answers, Breaks, switches, history
<1>6. ASSUME NEW c \in Callers, TryEnds(c) PROVE EntryInv'
  <2>1. \A d \in Callers : at'[d] = "admitted" => at[d] = "admitted"
      BY <1>6, TheTryEnds
  <2> QED BY <1>1, <1>6, <2>1 DEF TryEnds, Abandons, TrackFails, Append, AppendFails, switches, history
<1>7. CASE Hold \/ Resume
    BY <1>0, <1>7 DEF EntryInv, Hold, Resume
<1>8. CASE Dies
  <2>1. \A c \in Callers : entries'[c] = 0
      BY <1>8, ADeathEmpties
  <2> QED BY <1>0, <2>1 DEF EntryInv
<1>9. CASE Aside /\ ~(Hold \/ Resume)
  <2>1. at' = at
      BY <1>9, AsideKeeps DEF door
  <2>2. UNCHANGED <<held, entries>>
      BY <1>9 DEF Aside, SetRecorder, PurgeReads, PurgeReplaces, PurgeFails, PurgeEnds, Restart, vars, switches, history
  <2> QED BY <1>1, <2>1, <2>2
<1> QED BY <1>2, <1>3, <1>4, <1>5, <1>6, <1>7, <1>8, <1>9, NextCases DEF Aside, Dies

\* For any number of callers and of tries, a hold lets each agent in at most once:
\* the call that had passed the gate.
THEOREM HoldLetsInOnce == Spec => []OneEntryPerHold
<1>1. Init => Shapes /\ EntryInv
    BY ShapesInit, EntryInit
<1>2. Shapes /\ EntryInv /\ [Next]_vars => (Shapes /\ EntryInv)'
    BY ShapesStep, EntryStep
<1>3. EntryInv => OneEntryPerHold
    BY DEF EntryInv, OneEntryPerHold
<1> QED BY <1>1, <1>2, <1>3, PTL DEF Spec

-----------------------------------------------------------------------------
(* One refusal is enough                                                     *)

RefusalInv ==
    \A c \in Callers : /\ refusals[c] <= 1
                       /\ \/ refusals[c] = 0
                          \/ at[c] = "out"
                          \/ at[c] = "traced" /\ outcome[c] = "refused"

LEMMA RefusalStep == Shapes /\ RefusalInv /\ [Next]_vars => RefusalInv'
<1> SUFFICES ASSUME Shapes, RefusalInv, [Next]_vars PROVE RefusalInv'
    OBVIOUS
<1>0. refusals \in [Callers -> Nat]
    BY DEF Shapes, Counters
<1>1. ASSUME NEW c \in Callers, NEW first \in Stages, Decide(c, first) PROVE RefusalInv'
    BY <1>1, TheDecision DEF RefusalInv
<1>2. ASSUME NEW c \in Callers, Gate(c) PROVE RefusalInv'
  <2>1. /\ at[c] = "door" /\ outcome[c] = "none"
        /\ \/ Refused(c) /\ at'[c] = "traced" /\ outcome'[c] = "refused" /\ refusals' = [refusals EXCEPT ![c] = @ + 1]
           \/ refusals' = refusals
        /\ \A d \in Callers \ {c} : at'[d] = at[d] /\ outcome'[d] = outcome[d]
      BY <1>2, TheGate DEF Gate
  <2>2. refusals[c] = 0
      BY <2>1 DEF RefusalInv
  <2> QED BY <1>0, <2>1, <2>2 DEF RefusalInv
<1>3. ASSUME NEW c \in Callers, Enter(c) \/ Answers(c) \/ Breaks(c) PROVE RefusalInv'
  <2>1. refusals' = refusals /\ at[c] \in {"admitted", "backend"}
      BY <1>3 DEF Enter, Answers, Breaks, history
  <2>2. \A d \in Callers \ {c} : at'[d] = at[d] /\ outcome'[d] = outcome[d]
      BY <1>3, TheBackend
  <2> QED BY <2>1, <2>2 DEF RefusalInv
<1>4. ASSUME NEW c \in Callers, TryEnds(c) PROVE RefusalInv'
  <2>1. refusals' = refusals
      BY <1>4 DEF TryEnds, Abandons, TrackFails, Append, AppendFails, history
  <2> QED BY <1>4, <2>1, TheTryEnds DEF RefusalInv
<1>5. CASE Dies
  <2>1. \A c \in Callers : refusals'[c] = 0
      BY <1>5, ADeathEmpties
  <2> QED BY <2>1 DEF RefusalInv
<1>6. CASE Aside
  <2>1. at' = at /\ outcome' = outcome
      BY <1>6, AsideKeeps DEF door
  <2>2. refusals' = refusals
      BY <1>6 DEF Aside, Hold, Resume, SetRecorder, PurgeReads, PurgeReplaces, PurgeFails, PurgeEnds, Restart, vars, history
  <2> QED BY <2>1, <2>2 DEF RefusalInv
<1> QED BY <1>1, <1>2, <1>3, <1>4, <1>5, <1>6, NextCases DEF Aside, Dies

\* For any number of callers and of tries: a refused decision ends, it does not try
\* the next path.
THEOREM OneRefusalIsEnough == Spec => []OneRefusalPerDecision
<1>1. Init => Shapes /\ RefusalInv
  <2>1. Init => RefusalInv
      BY DEF Init, RefusalInv
  <2> QED BY ShapesInit, <2>1
<1>2. Shapes /\ RefusalInv /\ [Next]_vars => (Shapes /\ RefusalInv)'
    BY ShapesStep, RefusalStep
<1>3. RefusalInv => OneRefusalPerDecision
    BY DEF RefusalInv, OneRefusalPerDecision
<1> QED BY <1>1, <1>2, <1>3, PTL DEF Spec

-----------------------------------------------------------------------------
(* The words kept are agreed                                                 *)

\* The process holds the recorder on, and its file says so, only where the
\* operator's last word was that, or did not reach the disk.
SwitchInv ==
    /\ up /\ recorder => asked \/ unsaved
    /\ recFile = "on" => asked \/ unsaved

WordsInv ==
    /\ SwitchInv
    /\ \A c \in Callers : latched[c] => call[c] \in agreed
    /\ WordsAreAgreed

LEMMA WordsStep == Shapes /\ WordsInv /\ [Next]_vars => WordsInv'
<1> SUFFICES ASSUME Shapes, WordsInv, [Next]_vars PROVE WordsInv'
    OBVIOUS
<1>0. /\ SwitchInv /\ WordsAreAgreed /\ agreed \subseteq Calls
      /\ \A c \in Callers : latched[c] => call[c] \in agreed
    BY DEF WordsInv, Shapes, Stores
<1>1. ASSUME UNCHANGED <<up, switches>> PROVE SwitchInv'
    BY <1>0, <1>1 DEF SwitchInv, switches
<1>2. ASSUME UNCHANGED <<words, old, live, broken>>, agreed \subseteq agreed' PROVE WordsAreAgreed'
    BY <1>0, <1>2 DEF WordsAreAgreed
<1>3. ASSUME UNCHANGED <<latched, call, agreed>> PROVE \A c \in Callers : latched'[c] => call'[c] \in agreed'
    BY <1>0, <1>3
<1>d. ASSUME NEW c \in Callers, NEW first \in Stages, Decide(c, first) PROVE WordsInv'
    BY <1>1, <1>2, <1>3, <1>d DEF WordsInv, Decide, store
<1>g. ASSUME NEW c \in Callers, Gate(c) PROVE WordsInv'
  <2>1. /\ up /\ UNCHANGED <<up, switches, words, old, live, broken>>
        /\ agreed' = IF asked \/ unsaved THEN agreed \cup {begun + 1} ELSE agreed
      BY <1>g DEF Gate, Ring, HasBodies, store
  <2>2. /\ call'[c] = begun + 1 /\ latched'[c] = recorder
        /\ \A d \in Callers \ {c} : call'[d] = call[d] /\ latched'[d] = latched[d]
      BY <1>g, TheGate
  <2>3. ASSUME NEW d \in Callers, latched'[d] PROVE call'[d] \in agreed'
    <3>1. CASE d = c
        BY <1>0, <2>1, <2>2, <2>3, <3>1 DEF SwitchInv
    <3>2. CASE d # c
        BY <1>0, <2>1, <2>2, <2>3, <3>2
    <3> QED BY <3>1, <3>2
  <2> QED BY <1>1, <1>2, <2>1, <2>3 DEF WordsInv
<1>e. ASSUME NEW c \in Callers, Enter(c) \/ Answers(c) \/ Breaks(c) PROVE WordsInv'
  <2>1. UNCHANGED <<up, switches, latched, call, agreed, old, live, broken>>
      BY <1>e DEF Enter, Answers, Breaks, Ring, store, history
  <2>2. words' = words \/ (latched[c] /\ words' = words \cup {call[c]})
      BY <1>e DEF Enter, Answers, Breaks, Ring, HasBodies, store
  <2>3. WordsAreAgreed'
      BY <1>0, <2>1, <2>2 DEF WordsAreAgreed
  <2> QED BY <1>1, <1>3, <2>1, <2>3 DEF WordsInv
<1>t. ASSUME NEW c \in Callers, TryEnds(c) PROVE WordsInv'
  <2>1. UNCHANGED <<up, switches, agreed, words>>
      BY <1>t, WhatATryWrites
  <2>2. \A d \in Callers : latched'[d] => call'[d] \in agreed'
      BY <1>0, <1>t, <2>1, TheTryEnds
  <2>3. old' \cup live' \subseteq old \cup live \cup {Line(c)} /\ broken' \subseteq broken \cup words
      BY <1>t, WhatATryWrites
  <2>4. Line(c)[2] => Line(c)[1] \in agreed
      BY <1>0 DEF Line, WordsAreAgreed
  <2>5. WordsAreAgreed'
      BY <1>0, <2>1, <2>3, <2>4 DEF WordsAreAgreed
  <2> QED BY <1>1, <2>1, <2>2, <2>5 DEF WordsInv
<1>h. CASE Hold \/ Resume
  <2>1. UNCHANGED <<up, recorder, recFile, asked, unsaved, latched, call, agreed, words, old, live,
                   broken>>
      BY <1>h DEF Hold, Resume, door, store
  <2> QED BY <1>0, <1>2, <1>3, <2>1 DEF WordsInv, SwitchInv
<1>s. ASSUME NEW on \in BOOLEAN, NEW andPurge \in BOOLEAN, NEW fails \in BOOLEAN,
             SetRecorder(on, andPurge, fails)
      PROVE  WordsInv'
  <2>1. UNCHANGED <<latched, call, agreed, words, old, live, broken>>
      BY <1>s DEF SetRecorder, door, store, history
  <2>2. SwitchInv'
      BY <1>s DEF SwitchInv, SetRecorder
  <2> QED BY <1>2, <1>3, <2>1, <2>2 DEF WordsInv
<1>p. CASE PurgeReads \/ PurgeReplaces \/ PurgeFails \/ PurgeEnds
  <2>1. UNCHANGED <<up, switches, latched, call, agreed>>
      BY <1>p DEF PurgeReads, PurgeReplaces, PurgeFails, PurgeEnds, door, history
  <2>2. words' \subseteq words /\ broken' = broken
      BY <1>p DEF PurgeReads, PurgeReplaces, PurgeFails, PurgeEnds, WordsLeft, store
  <2>3. ASSUME NEW line \in Stripped(copy) PROVE ~line[2]
    <3>1. PICK l \in copy : line = <<l[1], FALSE>>
        BY <2>3 DEF Stripped
    <3> QED BY <3>1
  <2>4. old' \cup live' \subseteq old \cup live \cup Stripped(copy)
      BY <1>p DEF PurgeReads, PurgeReplaces, PurgeFails, PurgeEnds, store
  <2>5. WordsAreAgreed'
      BY <1>0, <2>1, <2>2, <2>3, <2>4 DEF WordsAreAgreed
  <2> QED BY <1>1, <1>3, <2>1, <2>5 DEF WordsInv
<1>c. CASE Dies
  <2>1. \A c \in Callers : latched'[c] = FALSE
      BY <1>c, ADeathEmpties
  <2>2. /\ UNCHANGED <<old, live, agreed>> /\ words' = {} /\ up' = FALSE
        /\ broken' \subseteq broken \cup words
      BY <1>c, ADeathEmpties
  <2>3. recFile' = "torn" \/ UNCHANGED <<recFile, asked, unsaved>>
      BY <1>c DEF Dies, Crash, CrashInWrite, Down, switches
  <2>4. SwitchInv' /\ WordsAreAgreed'
      BY <1>0, <2>2, <2>3 DEF SwitchInv, WordsAreAgreed
  <2> QED BY <2>1, <2>4 DEF WordsInv
<1>r. CASE Restart
  <2>1. UNCHANGED <<recFile, asked, unsaved, latched, call, agreed, words, old, live,
                   broken>>
      BY <1>r DEF Restart, door, store, history
  <2>2. recorder' = (recFile = "on")
      BY <1>r DEF Restart, RecorderRead
  <2> QED BY <1>0, <1>2, <1>3, <2>1, <2>2 DEF WordsInv, SwitchInv
<1>u. CASE UNCHANGED vars
    BY <1>1, <1>2, <1>3, <1>u DEF WordsInv, vars, door, store, history
<1> QED BY <1>d, <1>g, <1>e, <1>t, <1>h, <1>s, <1>p, <1>c, <1>r, <1>u, NextCases DEF Dies

\* No words are kept of a call the operator had not agreed to have recorded, for any
\* number of callers, commands, restarts and torn files.
THEOREM WordsStayAgreed == Spec => []WordsAreAgreed
<1>1. Init => Shapes /\ WordsInv
  <2>1. Init => WordsInv
      BY DEF Init, WordsInv, SwitchInv, WordsAreAgreed
  <2> QED BY ShapesInit, <2>1
<1>2. Shapes /\ WordsInv /\ [Next]_vars => (Shapes /\ WordsInv)'
    BY ShapesStep, WordsStep
<1>3. WordsInv => WordsAreAgreed
    BY DEF WordsInv
<1> QED BY <1>1, <1>2, <1>3, PTL DEF Spec

-----------------------------------------------------------------------------
(* The numbers of the calls                                                  *)

Numbered ==
    /\ \A c \in Callers : call[c] <= begun
    /\ \A c, d \in Callers : call[c] = call[d] /\ call[c] # 0 => c = d

LEMMA NumberedStep == Shapes /\ Numbered /\ [Next]_vars => Numbered'
<1> SUFFICES ASSUME Shapes, Numbered, [Next]_vars PROVE Numbered'
    OBVIOUS
<1>0. call \in [Callers -> 0..MaxCalls] /\ begun \in 0..MaxCalls /\ MaxCalls \in Nat
    BY BoundsAssumption DEF BoundsAssumption, Shapes, Threads
<1>1. ASSUME UNCHANGED <<call, begun>> PROVE Numbered'
    BY <1>1 DEF Numbered
<1>2. ASSUME NEW c \in Callers, Gate(c) PROVE Numbered'
  <2>1. /\ begun' = begun + 1 /\ call'[c] = begun + 1
        /\ \A d \in Callers \ {c} : call'[d] = call[d]
      BY <1>2, TheGate
  <2>2. \A d \in Callers : call'[d] <= begun'
      BY <1>0, <2>1 DEF Numbered
  <2>3. ASSUME NEW d \in Callers, NEW e \in Callers, call'[d] = call'[e], call'[d] # 0 PROVE d = e
    <3>1. \A f \in Callers \ {c} : call'[f] # begun + 1
        BY <1>0, <2>1 DEF Numbered
    <3>2. CASE d = c \/ e = c
        BY <2>1, <2>3, <3>1, <3>2
    <3>3. CASE d # c /\ e # c
        BY <2>1, <2>3, <3>3 DEF Numbered
    <3> QED BY <3>2, <3>3
  <2> QED BY <2>2, <2>3 DEF Numbered
<1>3. ASSUME NEW c \in Callers, TryEnds(c) PROVE Numbered'
  <2>1. /\ begun' = begun /\ call'[c] = 0
        /\ \A d \in Callers \ {c} : call'[d] = call[d]
      BY <1>3, TheTryEnds
  <2> QED BY <1>0, <2>1 DEF Numbered
<1>4. CASE Dies
  <2>1. (\A c \in Callers : call'[c] = 0) /\ begun' = begun
      BY <1>4, ADeathEmpties
  <2> QED BY <1>0, <2>1 DEF Numbered
<1>5. ASSUME NEW c \in Callers, Enter(c) \/ Answers(c) \/ Breaks(c) PROVE Numbered'
    BY <1>1, <1>5, TheBackend
<1>6. ASSUME NEW c \in Callers, NEW first \in Stages, Decide(c, first) PROVE Numbered'
    BY <1>1, <1>6, TheDecision
<1>7. CASE Aside
    BY <1>1, <1>7, AsideKeeps DEF door
<1> QED BY <1>2, <1>3, <1>4, <1>5, <1>6, <1>7, NextCases DEF Aside, Dies

LEMMA NumberedInit == Init => Numbered
BY DEF Init, Numbered

-----------------------------------------------------------------------------
(* The count of calls in flight                                              *)

InsideSet == {c \in Agents : Inside(c)}

LEMMA InsideIsCounted == IsFiniteSet(InsideSet) /\ Cardinality(InsideSet) \in Nat
<1>1. IsFiniteSet(Agents)
    BY CallersAssumption, FS_Subset DEF CallersAssumption
<1>2. IsFiniteSet(InsideSet)
    BY <1>1, FS_Subset DEF InsideSet
<1> QED BY <1>2, FS_CardinalityType

LEMMA SameInside ==
    ASSUME InFlightIsExact, inflight' = inflight, \A d \in Agents : Inside(d)' <=> Inside(d)
    PROVE  InFlightIsExact'
<1>1. {c \in Agents : Inside(c)}' = {c \in Agents : Inside(c)}
    OBVIOUS
<1> QED BY <1>1, Zenon DEF InFlightIsExact

\* One thread comes inside or leaves, and is counted if it is an agent's.
LEMMA OneComesIn ==
    ASSUME InFlightIsExact, NEW c \in Callers, ~Inside(c), Inside(c)',
           \A d \in Callers \ {c} : Inside(d)' <=> Inside(d),
           inflight' = inflight + Counts(c)
    PROVE  InFlightIsExact'
<1>0. Agents \subseteq Callers
    BY CallersAssumption DEF CallersAssumption
<1>1. CASE c \in Agents
  <2>1. c \notin InsideSet /\ InsideSet' = InsideSet \cup {c}
      BY <1>0, <1>1 DEF InsideSet
  <2>2. Cardinality(InsideSet') = Cardinality(InsideSet) + 1
      BY <2>1, InsideIsCounted, OneMore
  <2>3. inflight = Cardinality(InsideSet)
      BY DEF InFlightIsExact, InsideSet
  <2>4. inflight' = inflight + 1
      BY <1>1 DEF Counts
  <2>5. inflight' = Cardinality(InsideSet')
      BY <2>2, <2>3, <2>4
  <2> QED BY <2>5 DEF InFlightIsExact, InsideSet
<1>2. CASE c \notin Agents
  <2>1. \A d \in Agents : Inside(d)' <=> Inside(d)
      BY <1>0, <1>2
  <2>2. inflight \in Nat
      BY InsideIsCounted DEF InFlightIsExact, InsideSet
  <2>3. inflight' = inflight
      BY <1>2, <2>2 DEF Counts
  <2> QED BY <2>1, <2>3, SameInside
<1> QED BY <1>1, <1>2

LEMMA OneGoesOut ==
    ASSUME InFlightIsExact, NEW c \in Callers, Inside(c), ~Inside(c)',
           \A d \in Callers \ {c} : Inside(d)' <=> Inside(d),
           inflight' = inflight - Counts(c)
    PROVE  InFlightIsExact'
<1>0. Agents \subseteq Callers
    BY CallersAssumption DEF CallersAssumption
<1>1. CASE c \in Agents
  <2>1. c \in InsideSet /\ InsideSet' = InsideSet \ {c}
      BY <1>0, <1>1 DEF InsideSet
  <2>2. Cardinality(InsideSet') = Cardinality(InsideSet) - 1
      BY <2>1, InsideIsCounted, OneLess
  <2>3. inflight = Cardinality(InsideSet)
      BY DEF InFlightIsExact, InsideSet
  <2>4. inflight' = inflight - 1
      BY <1>1 DEF Counts
  <2>5. inflight' = Cardinality(InsideSet')
      BY <2>2, <2>3, <2>4
  <2> QED BY <2>5 DEF InFlightIsExact, InsideSet
<1>2. CASE c \notin Agents
  <2>1. \A d \in Agents : Inside(d)' <=> Inside(d)
      BY <1>0, <1>2
  <2>2. inflight \in Nat
      BY InsideIsCounted DEF InFlightIsExact, InsideSet
  <2>3. inflight' = inflight
      BY <1>2, <2>2 DEF Counts
  <2> QED BY <2>1, <2>3, SameInside
<1> QED BY <1>1, <1>2

LEMMA InFlightStep == Shapes /\ InFlightIsExact /\ [Next]_vars => InFlightIsExact'
<1> SUFFICES ASSUME Shapes, InFlightIsExact, [Next]_vars PROVE InFlightIsExact'
    OBVIOUS
<1>0. Agents \subseteq Callers /\ inflight \in Nat
    BY CallersAssumption, InsideIsCounted DEF CallersAssumption, InFlightIsExact, InsideSet
<1>1. ASSUME NEW c \in Callers, NEW first \in Stages, Decide(c, first) PROVE InFlightIsExact'
  <2>1. /\ at[c] = "out" /\ at'[c] = "door" /\ outcome' = outcome /\ inflight' = inflight
        /\ \A d \in Callers \ {c} : at'[d] = at[d] /\ stage'[d] = stage[d]
      BY <1>1, TheDecision DEF Decide
  <2>2. \A d \in Agents : Inside(d)' <=> Inside(d)
      BY <1>0, <2>1 DEF Inside, Counted
  <2> QED BY <2>1, <2>2, SameInside
<1>2. ASSUME NEW c \in Callers, Gate(c) PROVE InFlightIsExact'
  <2>1. /\ at[c] = "door" /\ inflight' = inflight
        /\ \/ at'[c] = "traced" /\ outcome'[c] = "refused"
           \/ at'[c] = "admitted"
        /\ \A d \in Callers \ {c} : at'[d] = at[d] /\ stage'[d] = stage[d] /\ outcome'[d] = outcome[d]
      BY <1>2, TheGate DEF Gate
  <2>2. \A d \in Agents : Inside(d)' <=> Inside(d)
      BY <1>0, <2>1 DEF Inside, Counted
  <2> QED BY <2>1, <2>2, SameInside
<1>3. ASSUME NEW c \in Callers, Enter(c) PROVE InFlightIsExact'
  <2>1. /\ at[c] = "admitted" /\ at'[c] = "backend" /\ stage' = stage
        /\ \A d \in Callers \ {c} : at'[d] = at[d] /\ outcome'[d] = outcome[d]
        /\ inflight' = inflight + Counts(c)
      BY <1>3, TheBackend DEF Enter, Answers, Breaks
  <2>2. ~Inside(c) /\ Inside(c)' /\ \A d \in Callers \ {c} : Inside(d)' <=> Inside(d)
      BY <2>1 DEF Inside, Counted
  <2> QED BY <2>1, <2>2, OneComesIn
<1>4. ASSUME NEW c \in Callers, Answers(c) PROVE InFlightIsExact'
  <2>0. at[c] = "backend" /\ outcome \in [Callers -> Outcomes] /\ outcome' = [outcome EXCEPT ![c] = "ok"]
      BY <1>4 DEF Answers, Ring, Shapes, Threads
  <2>1. /\ at[c] = "backend" /\ at'[c] = "traced" /\ outcome'[c] = "ok" /\ stage' = stage
        /\ \A d \in Callers \ {c} : at'[d] = at[d] /\ outcome'[d] = outcome[d]
        /\ inflight' = IF stage[c] = "stream" THEN inflight ELSE inflight - Counts(c)
    <3>1. at'[c] = "traced" /\ stage' = stage /\ \A d \in Callers \ {c} : at'[d] = at[d] /\ outcome'[d] = outcome[d]
        BY <1>4, <2>0, TheBackend
    <3>2. inflight' = IF stage[c] = "stream" THEN inflight ELSE inflight - Counts(c)
        BY <1>4 DEF Answers
    <3> QED BY <2>0, <3>1, <3>2
  <2>2. \A d \in Callers \ {c} : Inside(d)' <=> Inside(d)
      BY <2>1 DEF Inside, Counted
  <2>3. CASE stage[c] = "stream"
    <3>1. \A d \in Agents : Inside(d)' <=> Inside(d)
        BY <1>0, <2>1, <2>2, <2>3 DEF Inside, Counted
    <3> QED BY <2>1, <2>3, <3>1, SameInside
  <2>4. CASE stage[c] # "stream"
    <3>1. Inside(c) /\ ~Inside(c)'
        BY <2>1, <2>4 DEF Inside, Counted
    <3> QED BY <2>1, <2>2, <2>4, <3>1, OneGoesOut
  <2> QED BY <2>3, <2>4
<1>5. ASSUME NEW c \in Callers, Breaks(c) PROVE InFlightIsExact'
  <2>0. at[c] = "backend" /\ outcome \in [Callers -> Outcomes] /\ outcome' = [outcome EXCEPT ![c] = "error"]
      BY <1>5 DEF Breaks, Ring, Shapes, Threads
  <2>1. /\ at[c] = "backend" /\ at'[c] = "traced" /\ outcome'[c] = "error" /\ stage' = stage
        /\ \A d \in Callers \ {c} : at'[d] = at[d] /\ outcome'[d] = outcome[d]
        /\ inflight' = inflight
    <3>1. at'[c] = "traced" /\ stage' = stage /\ \A d \in Callers \ {c} : at'[d] = at[d] /\ outcome'[d] = outcome[d]
        BY <1>5, <2>0, TheBackend
    <3>2. inflight' = inflight
        BY <1>5 DEF Breaks
    <3> QED BY <2>0, <3>1, <3>2
  <2>2. \A d \in Agents : Inside(d)' <=> Inside(d)
      BY <1>0, <2>1 DEF Inside, Counted
  <2> QED BY <2>1, <2>2, SameInside
<1>6. ASSUME NEW c \in Callers, TryEnds(c) PROVE InFlightIsExact'
  <2>1. /\ at'[c] \in {"out", "door"}
        /\ \A d \in Callers \ {c} : at'[d] = at[d] /\ stage'[d] = stage[d] /\ outcome'[d] = outcome[d]
      BY <1>6, TheTryEnds
  <2>2. ~Inside(c)' /\ \A d \in Callers \ {c} : Inside(d)' <=> Inside(d)
      BY <2>1 DEF Inside, Counted
  <2>3. \/ Inside(c) /\ inflight' = inflight - Counts(c)
        \/ ~Inside(c) /\ inflight' = inflight
    <3>1. CASE Abandons(c) \/ TrackFails(c)
        BY <3>1 DEF Abandons, TrackFails, Inside
    <3>2. CASE (\E full \in BOOLEAN : Append(c, full)) \/ AppendFails(c)
        BY <3>2 DEF Append, AppendFails, Leaves, Inside
    <3> QED BY <1>6, <3>1, <3>2 DEF TryEnds
  <2>4. CASE Inside(c)
      BY <2>2, <2>3, <2>4, OneGoesOut
  <2>5. CASE ~Inside(c)
    <3>1. \A d \in Agents : Inside(d)' <=> Inside(d)
        BY <1>0, <2>2, <2>5
    <3> QED BY <2>3, <2>5, <3>1, SameInside
  <2> QED BY <2>4, <2>5
<1>7. CASE Dies
  <2>1. inflight' = 0
      BY <1>7 DEF Dies, Crash, CrashInWrite, Down
  <2>2. \A c \in Callers : at'[c] = "out"
      BY <1>7, ADeathEmpties
  <2>3. {c \in Agents : Inside(c)}' = {}
      BY <1>0, <2>2 DEF Inside
  <2> QED BY <2>1, <2>3, FS_EmptySet DEF InFlightIsExact
<1>8. CASE Aside
  <2>1. at' = at /\ outcome' = outcome /\ stage' = stage
      BY <1>8, AsideKeeps DEF door
  <2>2. inflight' = inflight
      BY <1>8 DEF Aside, Hold, Resume, SetRecorder, PurgeReads, PurgeReplaces, PurgeFails, PurgeEnds, Restart, vars
  <2>3. \A d \in Agents : Inside(d)' <=> Inside(d)
      BY <2>1 DEF Inside, Counted
  <2> QED BY <2>2, <2>3, SameInside
<1> QED BY <1>1, <1>2, <1>3, <1>4, <1>5, <1>6, <1>7, <1>8, NextCases DEF Aside, Dies

LEMMA InFlightInit == Init => InFlightIsExact
<1> SUFFICES ASSUME Init PROVE InFlightIsExact
    OBVIOUS
<1>1. {c \in Agents : Inside(c)} = {} /\ inflight = 0
    BY CallersAssumption DEF CallersAssumption, Init, Inside
<1> QED BY <1>1, FS_EmptySet DEF InFlightIsExact

\* For any number of callers: the count under a hold neither leaks a call that broke
\* nor misses one that is being answered.
THEOREM TheCountIsExact == Spec => []InFlightIsExact
<1>1. Init => Shapes /\ InFlightIsExact
    BY ShapesInit, InFlightInit
<1>2. Shapes /\ InFlightIsExact /\ [Next]_vars => (Shapes /\ InFlightIsExact)'
    BY ShapesStep, InFlightStep
<1> QED BY <1>1, <1>2, PTL DEF Spec

\* Every value of the state has its type; that the count has one is TheCountIsExact.
THEOREM TypeCorrect == Spec => []TypeOK
<1>1. Init => Shapes /\ InFlightIsExact
    BY ShapesInit, InFlightInit
<1>2. Shapes /\ InFlightIsExact /\ [Next]_vars => (Shapes /\ InFlightIsExact)'
    BY ShapesStep, InFlightStep
<1>3. Shapes /\ InFlightIsExact => TypeOK
  <2> SUFFICES ASSUME Shapes, InFlightIsExact PROVE TypeOK
      OBVIOUS
  <2>1. IsFiniteSet(Agents)
      BY CallersAssumption, FS_Subset DEF CallersAssumption
  <2>2. {c \in Agents : Inside(c)} \subseteq Agents
      OBVIOUS
  <2>3. /\ Cardinality({c \in Agents : Inside(c)}) <= Cardinality(Agents)
        /\ Cardinality(Agents) \in Nat /\ Cardinality({c \in Agents : Inside(c)}) \in Nat
      BY <2>1, <2>2, FS_Subset, FS_CardinalityType
  <2>4. inflight \in 0..Cardinality(Agents)
      BY <2>3 DEF InFlightIsExact
  <2>5. \A c \in Callers : /\ (at[c] = "out") = (stage[c] = "none")
                           /\ (call[c] = 0) = (at[c] \in {"out", "door"})
                           /\ (outcome[c] = "none") = (at[c] # "traced")
      BY DEF Shapes, Threads
  <2>6. /\ stage \in [Callers -> Stages] /\ at \in [Callers -> Places]
        /\ call \in [Callers -> 0..MaxCalls] /\ latched \in [Callers -> BOOLEAN]
        /\ outcome \in [Callers -> Outcomes] /\ begun \in 0..MaxCalls
      BY DEF Shapes, Threads
  <2> QED BY <2>4, <2>5, <2>6 DEF Shapes, Stores, Switches, Counters, TypeOK
<1> QED BY <1>1, <1>2, <1>3, PTL DEF Spec

-----------------------------------------------------------------------------
(* What is purged stays purged                                               *)

\* A call that has ended keeps its number for good.
LEMMA EndedStays ==
    ASSUME Shapes, [Next]_vars, NEW n \in Calls, Ended(n)
    PROVE  Ended(n)'
<1>0. /\ begun \in 0..MaxCalls /\ MaxCalls \in Nat /\ n \in Nat /\ n # 0
      /\ n <= begun /\ \A c \in Callers : call[c] # n
    BY BoundsAssumption DEF BoundsAssumption, Shapes, Threads, Calls, Ended
<1>1. ASSUME UNCHANGED <<call, begun>> PROVE Ended(n)'
    BY <1>1 DEF Ended
<1>2. ASSUME NEW c \in Callers, Gate(c) PROVE Ended(n)'
  <2>1. /\ begun' = begun + 1 /\ call'[c] = begun + 1
        /\ \A d \in Callers \ {c} : call'[d] = call[d]
      BY <1>2, TheGate
  <2>2. n <= begun' /\ n # begun + 1
      BY <1>0, <2>1
  <2> QED BY <1>0, <2>1, <2>2 DEF Ended
<1>3. ASSUME NEW c \in Callers, TryEnds(c) PROVE Ended(n)'
  <2>1. /\ begun' = begun /\ call'[c] = 0
        /\ \A d \in Callers \ {c} : call'[d] = call[d]
      BY <1>3, TheTryEnds
  <2> QED BY <1>0, <2>1 DEF Ended
<1>4. CASE Dies
  <2>1. (\A c \in Callers : call'[c] = 0) /\ begun' = begun
      BY <1>4, ADeathEmpties
  <2> QED BY <1>0, <2>1 DEF Ended
<1>5. ASSUME NEW c \in Callers, Enter(c) \/ Answers(c) \/ Breaks(c) PROVE Ended(n)'
    BY <1>1, <1>5, TheBackend
<1>6. ASSUME NEW c \in Callers, NEW first \in Stages, Decide(c, first) PROVE Ended(n)'
    BY <1>1, <1>6, TheDecision
<1>7. CASE Aside
    BY <1>1, <1>7, AsideKeeps DEF door
<1> QED BY <1>2, <1>3, <1>4, <1>5, <1>6, <1>7, NextCases DEF Aside, Dies

\* The lines on disk and in the purge's copy are of calls that have ended, and so are
\* those that cannot be parsed: a call that is appended, or cut, during the purge is
\* not one the purge is about.
LinesEnded ==
    /\ \A line \in old \cup live \cup copy : Ended(line[1])
    /\ \A n \in clean \cup marked \cup broken : Ended(n)

\* A call's record is written once: its words are in a line that can be parsed, or in
\* one that cannot, and the purge is about the former.
Apart ==
    /\ \A line \in old \cup live \cup copy : line[1] \notin broken
    /\ \A n \in clean \cup marked : n \notin broken

\* Each file the purge has passed holds no words of what it is about.
Passed ==
    /\ purge \in {"live", "copied live", "memory"} /\ purgeOk => \A n \in marked : <<n, TRUE>> \notin old
    /\ purge = "memory" /\ purgeOk => \A n \in marked : <<n, TRUE>> \notin live

PurgeInv == LinesEnded /\ Apart /\ Passed /\ PurgedStaysPurged

LEMMA LinesStep == Shapes /\ Numbered /\ LinesEnded /\ [Next]_vars => LinesEnded'
<1> SUFFICES ASSUME Shapes, Numbered, LinesEnded, [Next]_vars PROVE LinesEnded'
    OBVIOUS
<1>0. /\ \A line \in old \cup live \cup copy : line[1] \in Calls
      /\ clean \cup marked \cup broken \subseteq Calls
      /\ \A line \in old \cup live \cup copy : Ended(line[1])
      /\ \A n \in clean \cup marked \cup broken : Ended(n)
    BY DEF Shapes, Stores, LinesEnded
<1>1. /\ \A line \in old \cup live \cup copy : Ended(line[1])'
      /\ \A n \in clean \cup marked \cup broken : Ended(n)'
    BY <1>0, EndedStays
<1>2. ASSUME old' \cup live' \cup copy' \subseteq old \cup live \cup copy,
             clean' \cup marked' \cup broken' \subseteq clean \cup marked \cup broken
      PROVE  LinesEnded'
    BY <1>1, <1>2 DEF LinesEnded
<1>3. ASSUME NEW c \in Callers, NEW first \in Stages, Decide(c, first) PROVE LinesEnded'
    BY <1>2, <1>3 DEF Decide, store, purging
<1>4. ASSUME NEW c \in Callers, Gate(c) PROVE LinesEnded'
    BY <1>2, <1>4 DEF Gate, Ring, store, purging
<1>5. ASSUME NEW c \in Callers, Enter(c) \/ Answers(c) \/ Breaks(c) PROVE LinesEnded'
    BY <1>2, <1>5 DEF Enter, Answers, Breaks, Ring, store, purging
<1>6. ASSUME NEW c \in Callers, TryEnds(c) PROVE LinesEnded'
  <2>1. \/ UNCHANGED <<old, live, copy, clean, marked, broken>>
        \/ /\ old' \cup live' \subseteq old \cup live \cup {Line(c)}
           /\ copy' = copy /\ clean' = clean /\ marked' \subseteq marked
           /\ at[c] = "traced" /\ broken' \subseteq broken \cup {call[c]}
      BY <1>6, WhatATryWrites
  <2>2. ASSUME at[c] = "traced", NEW n, n = call[c] PROVE Ended(n)'
    <3>1. n # 0 /\ n <= begun /\ \A d \in Callers \ {c} : call[d] # n
        BY <2>2 DEF Shapes, Threads, Numbered
    <3>2. /\ begun' = begun /\ call'[c] = 0
          /\ \A d \in Callers \ {c} : call'[d] = call[d]
        BY <1>6, TheTryEnds
    <3> QED BY <3>1, <3>2 DEF Ended
  <2>3. ASSUME NEW line \in old' \cup live' \cup copy' PROVE Ended(line[1])'
    <3>1. CASE line \in old \cup live \cup copy
        BY <1>1, <3>1
    <3>2. CASE line = Line(c) /\ at[c] = "traced"
      <4>1. line[1] = call[c]
          BY <3>2 DEF Line
      <4> QED BY <2>2, <3>2, <4>1
    <3> QED BY <2>1, <2>3, <3>1, <3>2
  <2>4. ASSUME NEW n \in clean' \cup marked' \cup broken' PROVE Ended(n)'
    <3>1. CASE n \in clean \cup marked \cup broken
        BY <1>1, <3>1
    <3>2. CASE n = call[c] /\ at[c] = "traced"
        BY <2>2, <3>2
    <3> QED BY <2>1, <2>4, <3>1, <3>2
  <2> QED BY <2>3, <2>4 DEF LinesEnded
<1>7. CASE Hold \/ Resume
    BY <1>2, <1>7 DEF Hold, Resume, store, purging
<1>8. ASSUME NEW on \in BOOLEAN, NEW andPurge \in BOOLEAN, NEW fails \in BOOLEAN,
             SetRecorder(on, andPurge, fails)
      PROVE  LinesEnded'
  <2>1. UNCHANGED <<old, live, copy, clean, broken>> /\ (marked' = OnDisk \/ marked' = marked)
      BY <1>8 DEF SetRecorder, store
  <2>2. \A n \in OnDisk : Ended(n)'
      BY <1>1 DEF OnDisk
  <2> QED BY <1>1, <2>1, <2>2 DEF LinesEnded
<1>9. CASE PurgeReads \/ PurgeFails \/ PurgeEnds
    BY <1>2, <1>9 DEF PurgeReads, PurgeFails, PurgeEnds, store
<1>10. CASE PurgeReplaces
  <2>1. old' \cup live' \cup copy' \subseteq old \cup live \cup Stripped(copy)
        /\ clean' = clean /\ marked' = marked /\ broken' = broken
      BY <1>10 DEF PurgeReplaces
  <2>2. ASSUME NEW line \in Stripped(copy) PROVE Ended(line[1])'
    <3>1. PICK l \in copy : line = <<l[1], FALSE>>
        BY <2>2 DEF Stripped
    <3>2. line[1] = l[1]
        BY <3>1
    <3> QED BY <1>1, <3>2
  <2> QED BY <1>1, <2>1, <2>2 DEF LinesEnded
<1>11. CASE Dies
  <2>1. /\ UNCHANGED <<old, live, clean, begun>> /\ \A c \in Callers : call'[c] = 0
        /\ \A n \in broken' : n \in broken \/ \E c \in Callers : at[c] = "traced" /\ n = call[c]
      BY <1>11, ADeathEmpties
  <2>2. copy' \subseteq copy /\ marked' \subseteq marked
      BY <1>11 DEF Dies, Crash, CrashInWrite
  <2>3. ASSUME NEW c \in Callers, at[c] = "traced", NEW n, n = call[c] PROVE Ended(n)'
    <3>1. n # 0 /\ n <= begun
        BY <2>3 DEF Shapes, Threads, Numbered
    <3> QED BY <2>1, <3>1 DEF Ended
  <2>4. \A n \in broken' : Ended(n)'
      BY <1>1, <2>1, <2>3
  <2> QED BY <1>1, <2>1, <2>2, <2>4 DEF LinesEnded
<1>12. CASE Restart \/ UNCHANGED vars
    BY <1>2, <1>12 DEF Restart, vars, store, purging
<1> QED BY <1>3, <1>4, <1>5, <1>6, <1>7, <1>8, <1>9, <1>10, <1>11, <1>12, NextCases DEF Dies

\* What stays as it is, or loses a part, stays apart.
LEMMA ApartStep ==
    ASSUME Shapes, Numbered, LinesEnded, Apart, [Next]_vars
    PROVE  Apart'
<1>1. ASSUME broken' \subseteq broken, old' \cup live' \cup copy' \subseteq old \cup live \cup copy,
             clean' \cup marked' \subseteq clean \cup marked
      PROVE  Apart'
    BY <1>1 DEF Apart
<1>2. ASSUME NEW n, n \in {line[1] : line \in old \cup live \cup copy} \cup clean \cup marked \cup broken,
             NEW c \in Callers
      PROVE  n # call[c]
    BY <1>2 DEF LinesEnded, Ended
<1>3. ASSUME NEW c \in Callers, NEW first \in Stages, Decide(c, first) PROVE Apart'
    BY <1>1, <1>3 DEF Decide, store, purging
<1>4. ASSUME NEW c \in Callers, Gate(c) PROVE Apart'
    BY <1>1, <1>4 DEF Gate, Ring, store, purging
<1>5. ASSUME NEW c \in Callers, Enter(c) \/ Answers(c) \/ Breaks(c) PROVE Apart'
    BY <1>1, <1>5 DEF Enter, Answers, Breaks, Ring, store, purging
<1>6. ASSUME NEW c \in Callers, TryEnds(c) PROVE Apart'
  <2>1. copy' = copy /\ clean' = clean
      BY <1>6, WhatATryWrites
  <2>2. \/ UNCHANGED <<old, live, marked, broken>>
        \/ UNCHANGED <<old, live, marked>> /\ broken' \subseteq broken \cup {call[c]}
        \/ old' = live /\ live' = {Line(c)} /\ marked' = {} /\ broken' = broken
        \/ old' = old /\ live' = live \cup {Line(c)} /\ marked' = marked /\ broken' = broken
      BY <1>6, WhatATryWrites
  <2>3. Line(c)[1] \notin broken
      BY <1>2 DEF Line
  <2>4. CASE UNCHANGED <<old, live, marked>> /\ broken' \subseteq broken \cup {call[c]}
    <3>1. \A line \in old \cup live \cup copy : line[1] # call[c]
        BY <1>2
    <3>2. \A n \in clean \cup marked : n # call[c]
        BY <1>2
    <3> QED BY <2>1, <2>4, <3>1, <3>2 DEF Apart
  <2>5. CASE old' = live /\ live' = {Line(c)} /\ marked' = {} /\ broken' = broken
      BY <2>1, <2>3, <2>5 DEF Apart
  <2>6. CASE old' = old /\ live' = live \cup {Line(c)} /\ marked' = marked /\ broken' = broken
      BY <2>1, <2>3, <2>6 DEF Apart
  <2> QED BY <1>1, <2>1, <2>2, <2>4, <2>5, <2>6
<1>7. CASE Hold \/ Resume
    BY <1>1, <1>7 DEF Hold, Resume, store, purging
<1>8. ASSUME NEW on \in BOOLEAN, NEW andPurge \in BOOLEAN, NEW fails \in BOOLEAN,
             SetRecorder(on, andPurge, fails)
      PROVE  Apart'
  <2>1. UNCHANGED <<old, live, copy, clean, broken>> /\ (marked' = OnDisk \/ marked' = marked)
      BY <1>8 DEF SetRecorder, store
  <2>2. \A n \in OnDisk : n \notin broken
      BY DEF Apart, OnDisk
  <2> QED BY <2>1, <2>2 DEF Apart
<1>9. CASE PurgeReads \/ PurgeFails \/ PurgeEnds
    BY <1>1, <1>9 DEF PurgeReads, PurgeFails, PurgeEnds, store
<1>10. CASE PurgeReplaces
  <2>1. old' \cup live' \cup copy' \subseteq old \cup live \cup Stripped(copy)
        /\ clean' = clean /\ marked' = marked /\ broken' = broken
      BY <1>10 DEF PurgeReplaces
  <2>2. ASSUME NEW line \in Stripped(copy) PROVE line[1] \notin broken
    <3>1. PICK l \in copy : line = <<l[1], FALSE>>
        BY <2>2 DEF Stripped
    <3>2. line[1] = l[1]
        BY <3>1
    <3> QED BY <3>2 DEF Apart
  <2> QED BY <2>1, <2>2 DEF Apart
<1>11. CASE Dies
  <2>1. /\ UNCHANGED <<old, live, clean>>
        /\ \A n \in broken' : n \in broken \/ \E c \in Callers : n = call[c]
      BY <1>11, ADeathEmpties
  <2>2. copy' \subseteq copy /\ marked' \subseteq marked
      BY <1>11 DEF Dies, Crash, CrashInWrite
  <2>3. \A line \in old \cup live \cup copy : line[1] \notin broken'
      BY <1>2, <2>1 DEF Apart
  <2>4. \A n \in clean \cup marked : n \notin broken'
      BY <1>2, <2>1 DEF Apart
  <2> QED BY <2>1, <2>2, <2>3, <2>4 DEF Apart
<1>12. CASE Restart \/ UNCHANGED vars
    BY <1>1, <1>12 DEF Restart, vars, store, purging
<1> QED BY <1>3, <1>4, <1>5, <1>6, <1>7, <1>8, <1>9, <1>10, <1>11, <1>12, NextCases DEF Dies

\* What the purge has no need to know of the lines that cannot be parsed.
Gone == \A n \in clean : n \notin words /\ <<n, TRUE>> \notin old \cup live

LEMMA PurgeStep ==
    Shapes /\ Numbered /\ PurgeInv /\ [Next]_vars => (Passed /\ Gone)'
<1> SUFFICES ASSUME Shapes, Numbered, PurgeInv, [Next]_vars PROVE (Passed /\ Gone)'
    OBVIOUS
<1>0. LinesEnded /\ Passed /\ Gone
    BY DEF PurgeInv, PurgedStaysPurged, Gone
<1>1. ASSUME UNCHANGED <<old, live, purging>>, words' \subseteq words
      PROVE  (Passed /\ Gone)'
    BY <1>0, <1>1 DEF Passed, Gone, purging
<1>3. ASSUME NEW c \in Callers, NEW first \in Stages, Decide(c, first)
      PROVE  (Passed /\ Gone)'
    BY <1>1, <1>3 DEF Decide, store
<1>4. ASSUME NEW c \in Callers, Gate(c) PROVE (Passed /\ Gone)'
    BY <1>1, <1>4 DEF Gate, Ring, HasBodies, store
<1>5. ASSUME NEW c \in Callers, Enter(c) \/ Answers(c) \/ Breaks(c)
      PROVE  (Passed /\ Gone)'
  <2>1. UNCHANGED <<old, live, purging>> /\ words' \subseteq words \cup {call[c]}
      BY <1>5 DEF Enter, Answers, Breaks, Ring, store
  <2>2. call[c] \notin clean
      BY <1>0 DEF LinesEnded, Ended
  <2> QED BY <1>0, <2>1, <2>2 DEF Passed, Gone, purging
<1>6. ASSUME NEW c \in Callers, TryEnds(c) PROVE (Passed /\ Gone)'
  <2>1. \/ UNCHANGED <<old, live, marked>>
        \/ old' = live /\ live' = {Line(c)} /\ marked' = {}
        \/ old' = old /\ live' = live \cup {Line(c)} /\ marked' = marked
      BY <1>6, WhatATryWrites
  <2>2. UNCHANGED <<words, purge, purgeOk, clean>>
      BY <1>6, WhatATryWrites
  <2>3. call[c] \notin clean \cup marked
      BY <1>0 DEF LinesEnded, Ended
  <2>4. \A n \in clean \cup marked : <<n, TRUE>> # Line(c)
      BY <2>3 DEF Line
  <2> QED BY <1>0, <2>1, <2>2, <2>4 DEF Passed, Gone
<1>7. CASE Hold \/ Resume
    BY <1>1, <1>7 DEF Hold, Resume, store
<1>8. ASSUME NEW on \in BOOLEAN, NEW andPurge \in BOOLEAN, NEW fails \in BOOLEAN,
             SetRecorder(on, andPurge, fails)
      PROVE  (Passed /\ Gone)'
  <2>1. /\ UNCHANGED <<words, old, live, clean>>
        /\ \/ purge' = "old"
           \/ UNCHANGED <<purge, purgeOk, marked>>
      BY <1>8 DEF SetRecorder, store
  <2>2. Gone'
      BY <1>0, <2>1 DEF Gone
  <2>3. CASE purge' = "old"
    <3>1. Passed'
        BY <2>3 DEF Passed
    <3> QED BY <2>2, <3>1
  <2>4. CASE UNCHANGED <<purge, purgeOk, marked>>
    <3>1. Passed'
        BY <1>0, <2>1, <2>4 DEF Passed
    <3> QED BY <2>2, <3>1
  <2> QED BY <2>1, <2>3, <2>4
<1>9. CASE PurgeReads
  <2>1. /\ UNCHANGED <<words, old, live, clean, marked, purgeOk>>
        /\ \/ purge = "old" /\ (purge' = "copied old" \/ (old = {} /\ purge' = "live"))
           \/ purge = "live" /\ (purge' = "copied live" \/ (live = {} /\ purge' = "memory"))
      BY <1>9 DEF PurgeReads, AfterFile, store
  <2> QED BY <1>0, <2>1 DEF Passed, Gone
<1>10. CASE PurgeReplaces
  <2>1. /\ UNCHANGED <<words, clean, marked, purgeOk>>
        /\ \/ /\ purge = "copied old" /\ purge' = "live"
              /\ old' = Stripped(copy) /\ live' = live
           \/ /\ purge = "copied live" /\ purge' = "memory"
              /\ live' = Stripped(copy) /\ old' = old
      BY <1>10 DEF PurgeReplaces, AfterFile
  <2>2. ASSUME NEW n PROVE <<n, TRUE>> \notin Stripped(copy)
      BY DEF Stripped
  <2> QED BY <1>0, <2>1, <2>2 DEF Passed, Gone
<1>11. CASE PurgeFails
  <2>1. UNCHANGED <<words, old, live, clean>> /\ purgeOk' = FALSE
      BY <1>11 DEF PurgeFails, store
  <2> QED BY <1>0, <2>1 DEF Passed, Gone
<1>12. CASE PurgeEnds
  <2>1. /\ purge = "memory" /\ purge' = "none" /\ old' = old /\ live' = live
        /\ \/ purgeOk /\ words' = {} /\ clean' = clean \cup marked
           \/ words' = words /\ clean' = clean
      BY <1>12 DEF PurgeEnds, WordsLeft
  <2> QED BY <1>0, <2>1 DEF Passed, Gone
<1>13. CASE Dies
  <2>1. UNCHANGED <<old, live, clean>> /\ words' = {} /\ purge' = "none"
      BY <1>13, ADeathEmpties DEF Dies, Crash, CrashInWrite, Commands
  <2> QED BY <1>0, <2>1 DEF Passed, Gone
<1>14. CASE Restart \/ UNCHANGED vars
    BY <1>1, <1>14 DEF Restart, vars, store
<1> QED BY <1>3, <1>4, <1>5, <1>6, <1>7, <1>8, <1>9, <1>10, <1>11, <1>12, <1>13, <1>14, NextCases DEF Dies

\* A purge that succeeded is not undone by a call that ends, or a line that is
\* appended or cut, while it runs, for any number of calls and of purges: what it found
\* in lines that can be parsed is gone, and is in no broken line either. (Of words that
\* were in a broken line before, it is silent: they stay.)
THEOREM PurgesLast == Spec => []PurgedStaysPurged
<1>1. Init => Shapes /\ Numbered /\ PurgeInv
  <2>1. Init => PurgeInv
      BY DEF Init, PurgeInv, LinesEnded, Apart, Passed, PurgedStaysPurged
  <2> QED BY ShapesInit, NumberedInit, <2>1
<1>2. Shapes /\ Numbered /\ PurgeInv /\ [Next]_vars => (Shapes /\ Numbered /\ PurgeInv)'
  <2> SUFFICES ASSUME Shapes, Numbered, PurgeInv, [Next]_vars
               PROVE  (Shapes /\ Numbered /\ PurgeInv)'
      OBVIOUS
  <2>1. LinesEnded' /\ Apart' /\ Passed' /\ Gone'
      BY LinesStep, ApartStep, PurgeStep DEF PurgeInv
  <2>2. PurgedStaysPurged'
      BY <2>1 DEF Apart, Gone, PurgedStaysPurged
  <2> QED BY ShapesStep, NumberedStep, <2>1, <2>2 DEF PurgeInv
<1>3. PurgeInv => PurgedStaysPurged
    BY DEF PurgeInv
<1> QED BY <1>1, <1>2, <1>3, PTL DEF Spec

-----------------------------------------------------------------------------
(* One trace per call                                                        *)

Untroubled == faults = 0 /\ crashes = 0

\* A call has no record before it is traced, one after.
TraceInv ==
    /\ \A n \in Calls : records[n] <= 1 /\ (n > begun => records[n] = 0)
    /\ \A c \in Callers : at[c] \in {"admitted", "backend"} => records[call[c]] = 0
    /\ Untroubled => /\ \A c \in Callers : at[c] = "traced" => records[call[c]] = 1
                     /\ \A n \in Calls : Ended(n) /\ n \notin silent => records[n] = 1
    /\ \A n \in silent : Ended(n) /\ records[n] = 0

\* No thread comes to where a record is due, or has to be there.
Quiet ==
    /\ UNCHANGED <<call, begun, records, silent>>
    /\ faults' = 0 /\ crashes' = 0 => faults = 0 /\ crashes = 0
    /\ \A c \in Callers : at'[c] \in {at[c], "out", "door"} \/ (at'[c] = "backend" /\ at[c] = "admitted")

LEMMA TraceStep == Shapes /\ Numbered /\ TraceInv /\ [Next]_vars => TraceInv'
<1> SUFFICES ASSUME Shapes, Numbered, TraceInv, [Next]_vars PROVE TraceInv'
    OBVIOUS
<1>0. /\ records \in [Calls -> Nat] /\ begun \in 0..MaxCalls /\ MaxCalls \in Nat
      /\ Calls = 1..MaxCalls /\ faults \in Nat /\ crashes \in Nat
      /\ call \in [Callers -> 0..MaxCalls]
      /\ \A c \in Callers : (call[c] = 0) <=> (at[c] \in {"out", "door"})
    BY BoundsAssumption DEF BoundsAssumption, Shapes, Threads, Stores, Counters, Calls
<1>s. silent \subseteq Calls /\ \A n \in silent : Ended(n) /\ Ended(n)' /\ records[n] = 0
  <2>1. silent \subseteq Calls /\ \A n \in silent : Ended(n) /\ records[n] = 0
      BY DEF Shapes, Stores, TraceInv
  <2> QED BY <2>1, EndedStays
<1>1. ASSUME Quiet PROVE TraceInv'
  <2>1. \A n : Ended(n)' <=> Ended(n)
      BY <1>1 DEF Quiet, Ended
  <2> QED BY <1>1, <2>1 DEF Quiet, TraceInv, Untroubled
<1>2. ASSUME NEW c \in Callers, NEW first \in Stages, Decide(c, first) PROVE TraceInv'
  <2>1. /\ UNCHANGED <<call, begun>> /\ at'[c] = "door" /\ \A d \in Callers \ {c} : at'[d] = at[d]
      BY <1>2, TheDecision
  <2>2. UNCHANGED <<records, silent, faults, crashes>>
      BY <1>2 DEF Decide, store, counters
  <2>3. faults' = 0 /\ crashes' = 0 => faults = 0 /\ crashes = 0
      BY <2>2
  <2>4. \A d \in Callers : at'[d] = at[d] \/ at'[d] \in {"out", "door"}
      BY <2>1
  <2>5. Quiet
      BY <2>1, <2>2, <2>3, <2>4 DEF Quiet
  <2> QED BY <1>1, <2>5
<1>3. ASSUME NEW c \in Callers, Gate(c) PROVE TraceInv'
  <2> DEFINE n == begun + 1
  <2>1. /\ begun' = n /\ call'[c] = n /\ call[c] = 0
        /\ \A d \in Callers \ {c} : at'[d] = at[d] /\ call'[d] = call[d]
        /\ \/ Refused(c) /\ at'[c] = "traced"
           \/ ~Refused(c) /\ at'[c] = "admitted"
      BY <1>3, TheGate
  <2>2. /\ Refused(c) => records' = [records EXCEPT ![n] = @ + 1]
        /\ ~Refused(c) => records' = records
        /\ UNCHANGED <<silent, faults, crashes>>
      BY <1>3 DEF Gate, Ring, Recorded, store, counters
  <2>3. n \in Calls
    <3>1. begun' \in 0..MaxCalls
        BY ShapesStep DEF Shapes, Threads
    <3> QED BY <1>0, <2>1, <3>1
  <2>4. records[n] = 0 /\ \A d \in Callers \ {c} : call[d] # n
      BY <1>0, <2>3 DEF TraceInv, Numbered
  <2>5. /\ records'[n] = IF Refused(c) THEN 1 ELSE 0
        /\ \A m \in Calls \ {n} : records'[m] = records[m]
      BY <1>0, <2>2, <2>3, <2>4
  <2>6. ASSUME NEW m \in Calls PROVE records'[m] <= 1 /\ (m > begun' => records'[m] = 0)
    <3>1. CASE m = n
        BY <1>0, <2>1, <2>5, <3>1
    <3>2. CASE m # n
        BY <1>0, <2>1, <2>5, <3>2 DEF TraceInv
    <3> QED BY <3>1, <3>2
  <2>7. ASSUME NEW d \in Callers
        PROVE  /\ at'[d] \in {"admitted", "backend"} => records'[call'[d]] = 0
               /\ Untroubled' /\ at'[d] = "traced" => records'[call'[d]] = 1
    <3>1. CASE d = c
        BY <2>1, <2>5, <3>1
    <3>2. CASE d # c
      <4>1. at'[d] = at[d] /\ call'[d] = call[d] /\ call[d] # n
          BY <2>1, <2>4, <3>2
      <4>2. at[d] \in {"admitted", "backend", "traced"} => call[d] \in Calls \ {n}
          BY <1>0, <4>1
      <4> QED BY <2>2, <2>5, <4>1, <4>2 DEF TraceInv, Untroubled
    <3> QED BY <3>1, <3>2
  <2>8. ASSUME NEW m \in Calls, Untroubled', Ended(m)', m \notin silent' PROVE records'[m] = 1
    <3>1. m <= begun' /\ \A d \in Callers : call'[d] # m
        BY <2>8 DEF Ended
    <3>2. m # n /\ m <= begun
        BY <1>0, <2>1, <3>1
    <3>3. Ended(m)
        BY <1>0, <2>1, <3>1, <3>2 DEF Ended
    <3> QED BY <2>2, <2>5, <2>8, <3>2, <3>3 DEF TraceInv, Untroubled
  <2>9. ASSUME NEW m \in silent' PROVE Ended(m)' /\ records'[m] = 0
    <3>1. m \in silent /\ m # n
        BY <1>0, <1>s, <2>2, <2>9 DEF Ended
    <3> QED BY <1>s, <2>5, <3>1
  <2> QED BY <2>6, <2>7, <2>8, <2>9 DEF TraceInv
<1>4. ASSUME NEW c \in Callers, Enter(c) PROVE TraceInv'
  <2>1. UNCHANGED <<call, begun, records, silent, faults, crashes>>
      BY <1>4, TheBackend DEF Enter, store, counters
  <2>2. /\ at[c] = "admitted" /\ at'[c] = "backend" /\ \A d \in Callers \ {c} : at'[d] = at[d]
    <3>1. at[c] = "admitted" /\ at' = [at EXCEPT ![c] = "backend"] /\ at \in [Callers -> Places]
        BY <1>4 DEF Enter, Shapes, Threads
    <3> QED BY <3>1
  <2>3. faults' = 0 /\ crashes' = 0 => faults = 0 /\ crashes = 0
      BY <2>1
  <2>4. \A d \in Callers : at'[d] = at[d] \/ (at'[d] = "backend" /\ at[d] = "admitted")
      BY <2>2
  <2>5. Quiet
      BY <2>1, <2>3, <2>4 DEF Quiet
  <2> QED BY <1>1, <2>5
<1>5. ASSUME NEW c \in Callers, Answers(c) \/ Breaks(c) PROVE TraceInv'
  <2>1. /\ begun' = begun /\ call' = call /\ call[c] \in Calls
        /\ \A d \in Callers \ {c} : at'[d] = at[d]
      BY <1>5, TheBackend
  <2>2. /\ at[c] = "backend" /\ at' = [at EXCEPT ![c] = "traced"] /\ at \in [Callers -> Places]
        /\ records' = [records EXCEPT ![call[c]] = @ + 1]
        /\ UNCHANGED <<silent, faults, crashes>>
      BY <1>5 DEF Answers, Breaks, Ring, Recorded, history, counters, Shapes, Threads
  <2>3. at'[c] = "traced" /\ records[call[c]] = 0 /\ call[c] # 0
      BY <1>0, <2>1, <2>2 DEF TraceInv
  <2>4. /\ records'[call[c]] = 1
        /\ \A m \in Calls \ {call[c]} : records'[m] = records[m]
      BY <1>0, <2>1, <2>2, <2>3
  <2>5. ASSUME NEW m \in Calls PROVE records'[m] <= 1 /\ (m > begun' => records'[m] = 0)
    <3>1. call[c] <= begun
        BY DEF Numbered
    <3>2. CASE m = call[c]
        BY <1>0, <2>1, <2>4, <3>1, <3>2
    <3>3. CASE m # call[c]
        BY <2>1, <2>4, <3>3 DEF TraceInv
    <3> QED BY <3>2, <3>3
  <2>6. ASSUME NEW d \in Callers
        PROVE  /\ at'[d] \in {"admitted", "backend"} => records'[call'[d]] = 0
               /\ Untroubled' /\ at'[d] = "traced" => records'[call'[d]] = 1
    <3>1. CASE d = c
        BY <2>1, <2>3, <2>4, <3>1
    <3>2. CASE d # c
      <4>1. call[d] # call[c] /\ at'[d] = at[d] /\ call'[d] = call[d]
          BY <2>1, <2>3, <3>2 DEF Numbered
      <4>2. at[d] \in {"admitted", "backend", "traced"} => call[d] \in Calls \ {call[c]}
          BY <1>0, <4>1
      <4> QED BY <2>2, <2>4, <4>1, <4>2 DEF TraceInv, Untroubled
    <3> QED BY <3>1, <3>2
  <2>7. ASSUME NEW m \in Calls, Untroubled', Ended(m)', m \notin silent' PROVE records'[m] = 1
    <3>1. Ended(m) /\ m # call[c]
        BY <2>1, <2>7 DEF Ended
    <3> QED BY <2>2, <2>4, <2>7, <3>1 DEF TraceInv, Untroubled
  <2>8. ASSUME NEW m \in silent' PROVE Ended(m)' /\ records'[m] = 0
    <3>1. m \in silent /\ m # call[c]
        BY <1>s, <2>2, <2>8 DEF Ended
    <3> QED BY <1>s, <2>4, <3>1
  <2> QED BY <2>5, <2>6, <2>7, <2>8 DEF TraceInv
<1>6. ASSUME NEW c \in Callers, TryEnds(c) PROVE TraceInv'
  <2>1. /\ begun' = begun /\ at'[c] \in {"out", "door"} /\ call'[c] = 0
        /\ \A d \in Callers \ {c} : at'[d] = at[d] /\ call'[d] = call[d]
      BY <1>6, TheTryEnds
  <2>2. /\ records' = records
        /\ Untroubled' => Untroubled
        /\ \/ silent' = silent /\ (Untroubled' => at[c] = "traced")
           \/ silent' = silent \cup {call[c]} /\ at[c] = "backend"
    <3>1. CASE Abandons(c)
        BY <3>1 DEF Abandons, store, counters, Untroubled
    <3>2. CASE TrackFails(c) \/ AppendFails(c)
      <4>1. records' = records /\ silent' = silent /\ faults' = faults + 1
          BY <3>2 DEF TrackFails, AppendFails, store, history
      <4> QED BY <1>0, <4>1 DEF Untroubled
    <3>3. CASE \E full \in BOOLEAN : Append(c, full)
        BY <3>3 DEF Append, history, Untroubled
    <3> QED BY <1>6, <3>1, <3>2, <3>3 DEF TryEnds
  <2>3. \A m \in Calls : records'[m] <= 1 /\ (m > begun' => records'[m] = 0)
      BY <2>1, <2>2 DEF TraceInv
  <2>4. ASSUME NEW d \in Callers
        PROVE  /\ at'[d] \in {"admitted", "backend"} => records'[call'[d]] = 0
               /\ Untroubled' /\ at'[d] = "traced" => records'[call'[d]] = 1
      BY <2>1, <2>2 DEF TraceInv
  <2>5. ASSUME NEW m \in Calls, Untroubled', Ended(m)', m \notin silent' PROVE records'[m] = 1
    <3>1. CASE m = call[c]
        BY <2>2, <2>5, <3>1 DEF TraceInv
    <3>2. CASE m # call[c]
      <4>1. Ended(m)
          BY <2>1, <2>5, <3>2 DEF Ended
      <4> QED BY <2>2, <2>5, <4>1 DEF TraceInv
    <3> QED BY <3>1, <3>2
  <2>6. ASSUME NEW m \in silent' PROVE Ended(m)' /\ records'[m] = 0
    <3>1. CASE m \in silent
        BY <1>s, <2>2, <3>1
    <3>2. CASE m = call[c] /\ at[c] = "backend"
      <4>1. m # 0 /\ m <= begun /\ \A d \in Callers \ {c} : call[d] # m
          BY <1>0, <3>2 DEF Numbered
      <4>2. Ended(m)'
          BY <2>1, <4>1 DEF Ended
      <4> QED BY <2>2, <3>2, <4>2 DEF TraceInv
    <3> QED BY <2>2, <2>6, <3>1, <3>2
  <2> QED BY <2>3, <2>4, <2>5, <2>6 DEF TraceInv
<1>7. CASE Dies
  <2>1. /\ \A c \in Callers : at'[c] = "out"
        /\ records' = [n \in Calls |-> 0] /\ crashes' = crashes + 1 /\ silent' = silent
      BY <1>7, ADeathEmpties DEF Dies, Crash, CrashInWrite, Down
  <2>2. ~Untroubled'
      BY <1>0, <2>1 DEF Untroubled
  <2>3. \A m \in silent' : Ended(m)' /\ records'[m] = 0
      BY <1>s, <2>1
  <2> QED BY <2>1, <2>2, <2>3 DEF TraceInv
<1>8. CASE Aside
  <2>1. UNCHANGED <<at, call, begun>>
      BY <1>8, AsideKeeps DEF door
  <2>2. /\ records' = records /\ silent' = silent
        /\ crashes' = crashes /\ faults' \in {faults, faults + 1}
    <3>1. CASE Hold \/ Resume \/ Restart \/ UNCHANGED vars
        BY <3>1 DEF Hold, Resume, Restart, vars, store, history, counters
    <3>2. CASE \E on, andPurge, fails \in BOOLEAN : SetRecorder(on, andPurge, fails)
        BY <3>2 DEF SetRecorder, store, history, counters
    <3>3. CASE PurgeReads \/ PurgeReplaces \/ PurgeFails \/ PurgeEnds
        BY <3>3 DEF PurgeReads, PurgeReplaces, PurgeFails, PurgeEnds, store, history, counters
    <3> QED BY <1>8, <3>1, <3>2, <3>3 DEF Aside
  <2>3. faults' = 0 /\ crashes' = 0 => faults = 0 /\ crashes = 0
      BY <1>0, <2>2
  <2>4. Quiet
      BY <2>1, <2>2, <2>3 DEF Quiet
  <2> QED BY <1>1, <2>4
<1> QED BY <1>2, <1>3, <1>4, <1>5, <1>6, <1>7, <1>8, NextCases DEF Aside, Dies

\* For any number of calls: no call is recorded twice, and none that ended is missing
\* from the ring unless its stream was closed or ended without an answer, a write
\* failed or the process died; a stream that left no answer never has a record.
THEOREM OneTraceEach == Spec => []TracedOnce
<1>1. Init => Shapes /\ Numbered /\ TraceInv
  <2> SUFFICES ASSUME Init PROVE TraceInv
      BY ShapesInit, NumberedInit
  <2>1. /\ \A n \in Calls : records[n] = 0 /\ ~Ended(n)
        /\ silent = {}
        /\ \A c \in Callers : at[c] = "out"
      BY BoundsAssumption DEF BoundsAssumption, Init, Ended, Calls
  <2> QED BY <2>1 DEF TraceInv
<1>2. Shapes /\ Numbered /\ TraceInv /\ [Next]_vars => (Shapes /\ Numbered /\ TraceInv)'
    BY ShapesStep, NumberedStep, TraceStep
<1>3. TraceInv => TracedOnce
    BY DEF TraceInv, TracedOnce, Untroubled
<1> QED BY <1>1, <1>2, <1>3, PTL DEF Spec
=============================================================================
