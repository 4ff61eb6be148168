-------------------------- MODULE WorldMountProofs --------------------------
(***************************************************************************)
(* Proofs about WorldMount, for any Worlds, any number of operations at a     *)
(* time, crashes and failures.                                              *)
(*                                                                         *)
(* The actors race, and what a race leaves behind is not described. What is   *)
(* proved is about an operation that nothing overlapped, whatever was left    *)
(* before it began: by the steps it is through with (Past), so much of the    *)
(* disk is in order (BindFacts, UnbindFacts).                                *)
(***************************************************************************)
EXTENDS WorldMount, TLAPS

Binds == Mounts \cup Swaps
Unbinds == {"unmount", "delete"}

\* Job j is through with a step of its script, and the step did not miss.
Past(j, step) == \E i \in 1..(j.at - 1) : Script[j.op][i] = step
Done(j, step) == Past(j, step) /\ step \notin j.missed

FitsHint(j) ==
    hint = j.world \/ (j.world \notin Hinting /\ (j.op \in Swaps => hint = NoWorld))

\* What a mount or a swap that nothing overlaps has done to the disk so far.
BindFacts(j, x) ==
    /\ Past(j, "verify") => j.version \in 1..MaxVersion
    /\ (Past(j, "verify") /\ j.op # "bring") => j.version = catalog[j.world]
    /\ (Past(j, "copy") /\ ~Past(j, "live")) => copy[j.world] = [by |-> x, version |-> j.version]
    /\ (Past(j, "aside") /\ ~Past(j, "live")) => staged[j.world] = Absent
    /\ Past(j, "live") => staged[j.world] = j.version
    /\ Done(j, "sweep") => \A u \in Worlds : u # j.world => staged[u] = Absent
    /\ Past(j, "record") => mounted = [world |-> j.world, version |-> j.version]
    /\ (~Past(j, "record") /\ x # "cli") => mounted.world \in {NoWorld, j.world}
    /\ Done(j, "approve") => j.world \in approved
    /\ Done(j, "goal") => goal \in {NoGoal, j.world}
    /\ Done(j, "adopt") => catalog[j.world] = j.version
    /\ Done(j, "prune") => \A u \in approved : staged[u] # Absent
    /\ Done(j, "caps") => caps = j.world
    /\ Done(j, "hint") => FitsHint(j)

\* What an unmount or a deletion that nothing overlaps has done.
UnbindFacts(j) ==
    /\ Done(j, "unrecord") => mounted = Unmounted
    /\ Done(j, "uncaps") => caps = NoWorld
    /\ Done(j, "unhint") => hint = NoWorld
    /\ (Done(j, "unrecord") /\ Done(j, "goal")) => goal \in {NoGoal, Free}
    /\ Done(j, "unstage") => staged[j.world] = Absent
    /\ (Done(j, "unstage") /\ Done(j, "prune")) => j.world \notin approved
    /\ Past(j, "discard") => catalog[j.world] = Absent

\* The World of an operation, and how far it is.
Placed == \A x \in Actors : Busy(x) => (/\ job[x].world \in Worlds
                                        /\ job[x].at <= Len(Script[job[x].op]) + 1)

\* An operation that nothing overlapped is alone, and nothing goes on while the
\* last one is settled.
AloneInv ==
    /\ \A x, y \in Actors : (Busy(x) /\ job[x].alone /\ y # x) => ~Busy(y)
    /\ settled.op # "none" => (settled.world \in Worlds /\ \A x \in Actors : ~Busy(x))
    /\ Placed

ProgressInv ==
    \A x \in Actors : (Busy(x) /\ job[x].alone) =>
        /\ job[x].op \in Binds => BindFacts(job[x], x)
        /\ job[x].op \in Unbinds => UnbindFacts(job[x])

-----------------------------------------------------------------------------
(* Scripts *)

Ops == {"mount", "bring", "swap", "reswap", "found", "unmount", "delete", "discard"}

\* What the script of a mount or a swap has where: o is 1 when it begins with a
\* reseal, a is 1 when it has an adoption.
Place(op, o, a) ==
    /\ Len(Script[op]) = 11 + o + a
    /\ a = 1 <=> op = "bring"
    /\ a = 1 => o = 0
    /\ \A i \in 1..(11 + o + a) :
          /\ Script[op][i] = "reseal" => (i = 1 /\ o = 1)
          /\ Script[op][i] = "verify" <=> i = 1 + o
          /\ Script[op][i] = "copy" <=> i = 2 + o
          /\ Script[op][i] = "aside" <=> i = 3 + o
          /\ Script[op][i] = "live" <=> i = 4 + o
          /\ Script[op][i] = "sweep" <=> i = 5 + o
          /\ Script[op][i] = "record" <=> i = 6 + o
          /\ Script[op][i] = "approve" <=> i = 7 + o
          /\ Script[op][i] = "goal" <=> i = 8 + o
          /\ Script[op][i] = "adopt" <=> (i = 9 /\ a = 1)
          /\ Script[op][i] = "prune" <=> i = 9 + o + a
          /\ Script[op][i] = "caps" <=> i = 10 + o + a
          /\ Script[op][i] = "hint" <=> i = 11 + o + a
          /\ Script[op][i] \notin {"unrecord", "uncaps", "unhint", "unstage", "discard"}

LEMMA ScriptNames ==
    /\ DOMAIN Script = Ops
    /\ \A op \in {"mount", "swap"} : Script[op] = Bind
    /\ \A op \in {"reswap", "found"} : Script[op] = Rebind
    /\ Script["bring"] = <<"verify", "copy", "aside", "live", "sweep", "record", "approve", "goal",
                           "adopt", "prune", "caps", "hint">>
    /\ Script["unmount"] = Unbind /\ Script["discard"] = <<"discard">>
    /\ Script["delete"] = <<"unrecord", "uncaps", "unhint", "goal", "unstage", "prune", "discard">>
  BY DEF Script, Ops

LEMMA BindPlaces ==
    ASSUME NEW op \in Binds
    PROVE  \E o \in {0, 1}, a \in {0, 1} : Place(op, o, a)
<1>1. CASE op \in {"mount", "swap"}
  <2>1. /\ Script[op] = <<"verify", "copy", "aside", "live", "sweep", "record", "approve", "goal",
                           "prune", "caps", "hint">>
    BY <1>1, ScriptNames DEF Bind
  <2>2. \A i \in 1..11 : \/ i = 1 \/ i = 2 \/ i = 3 \/ i = 4 \/ i = 5 \/ i = 6 \/ i = 7 \/ i = 8
                         \/ i = 9 \/ i = 10 \/ i = 11
    OBVIOUS
  <2>3. Len(Script[op]) = 11 + 0 + 0 /\ 11 + 0 + 0 = 11
    BY <2>1
  <2>4. Place(op, 0, 0)
    BY <1>1, <2>1, <2>2, <2>3 DEF Place
  <2>5. QED
    BY <2>4
<1>2. CASE op \in {"reswap", "found"}
  <2>1. /\ Script[op] = <<"reseal", "verify", "copy", "aside", "live", "sweep", "record", "approve",
                           "goal", "prune", "caps", "hint">>
    BY <1>2, ScriptNames DEF Rebind
  <2>2. \A i \in 1..12 : \/ i = 1 \/ i = 2 \/ i = 3 \/ i = 4 \/ i = 5 \/ i = 6 \/ i = 7 \/ i = 8
                         \/ i = 9 \/ i = 10 \/ i = 11 \/ i = 12
    OBVIOUS
  <2>3. Len(Script[op]) = 11 + 1 + 0 /\ 11 + 1 + 0 = 12
    BY <2>1
  <2>4. Place(op, 1, 0)
    BY <1>2, <2>1, <2>2, <2>3 DEF Place
  <2>5. QED
    BY <2>4
<1>3. CASE op = "bring"
  <2>1. /\ Script[op] = <<"verify", "copy", "aside", "live", "sweep", "record", "approve", "goal",
                           "adopt", "prune", "caps", "hint">>
    BY <1>3, ScriptNames
  <2>2. \A i \in 1..12 : \/ i = 1 \/ i = 2 \/ i = 3 \/ i = 4 \/ i = 5 \/ i = 6 \/ i = 7 \/ i = 8
                         \/ i = 9 \/ i = 10 \/ i = 11 \/ i = 12
    OBVIOUS
  <2>3. Len(Script[op]) = 11 + 0 + 1 /\ 11 + 0 + 1 = 12
    BY <2>1
  <2>4. Place(op, 0, 1)
    BY <1>3, <2>1, <2>2, <2>3 DEF Place
  <2>5. QED
    BY <2>4
<1>4. QED
  BY <1>1, <1>2, <1>3 DEF Binds, Mounts, Swaps

\* ... and the script of an unmount or a deletion.
LEMMA UnbindPlaces ==
    /\ Len(Script["unmount"]) = 4 /\ Len(Script["delete"]) = 7
    /\ \A op \in Unbinds : \A i \in 1..Len(Script[op]) :
          /\ Script[op][i] = "unrecord" <=> i = 1
          /\ Script[op][i] = "uncaps" <=> i = 2
          /\ Script[op][i] = "unhint" <=> i = 3
          /\ Script[op][i] = "goal" <=> i = 4
          /\ Script[op][i] = "unstage" <=> (i = 5 /\ op = "delete")
          /\ Script[op][i] = "prune" <=> (i = 6 /\ op = "delete")
          /\ Script[op][i] = "discard" <=> (i = 7 /\ op = "delete")
          /\ Script[op][i] \in {"unrecord", "uncaps", "unhint", "goal", "unstage", "prune", "discard"}
<1>1. /\ Script["unmount"] = <<"unrecord", "uncaps", "unhint", "goal">>
      /\ Script["delete"]
            = <<"unrecord", "uncaps", "unhint", "goal", "unstage", "prune", "discard">>
  BY ScriptNames DEF Unbind
<1>2. Len(Script["unmount"]) = 4 /\ Len(Script["delete"]) = 7
  BY <1>1
<1>3. \A i \in 1..7 : i = 1 \/ i = 2 \/ i = 3 \/ i = 4 \/ i = 5 \/ i = 6 \/ i = 7
  OBVIOUS
<1>4. \A i \in 1..4 : i = 1 \/ i = 2 \/ i = 3 \/ i = 4
  OBVIOUS
<1>5. ASSUME NEW op \in Unbinds, NEW i \in 1..Len(Script[op])
      PROVE  /\ Script[op][i] = "unrecord" <=> i = 1
             /\ Script[op][i] = "uncaps" <=> i = 2
             /\ Script[op][i] = "unhint" <=> i = 3
             /\ Script[op][i] = "goal" <=> i = 4
             /\ Script[op][i] = "unstage" <=> (i = 5 /\ op = "delete")
             /\ Script[op][i] = "prune" <=> (i = 6 /\ op = "delete")
             /\ Script[op][i] = "discard" <=> (i = 7 /\ op = "delete")
             /\ Script[op][i] \in {"unrecord", "uncaps", "unhint", "goal", "unstage", "prune", "discard"}
  <2>1. CASE op = "unmount"
    <3>1. i = 1 \/ i = 2 \/ i = 3 \/ i = 4
      BY <1>2, <1>4, <2>1
    <3>2. QED
      BY <1>1, <2>1, <3>1
  <2>2. CASE op = "delete"
    <3>1. i = 1 \/ i = 2 \/ i = 3 \/ i = 4 \/ i = 5 \/ i = 6 \/ i = 7
      BY <1>2, <1>3, <2>2
    <3>2. QED
      BY <1>1, <2>2, <3>1
  <2>3. QED
    BY <2>1, <2>2 DEF Unbinds
<1>6. QED
  BY <1>2, <1>5

LEMMA ScriptLengths == \A op \in Ops : Len(Script[op]) \in 1..12
<1>1. ASSUME NEW op \in Binds PROVE Len(Script[op]) \in 1..12
  <2>1. PICK o \in {0, 1}, a \in {0, 1} : Len(Script[op]) = 11 + o + a /\ (a = 1 => o = 0)
    BY BindPlaces DEF Place
  <2>2. QED
    BY <2>1
<1>2. Len(Script["discard"]) = 1
  BY ScriptNames
<1>3. QED
  BY <1>1, <1>2, UnbindPlaces DEF Ops, Binds, Mounts, Swaps

\* A job at one of its steps.
At(j, step) ==
    j \in Jobs /\ j.op \in Ops /\ j.at \in 1..Len(Script[j.op]) /\ Script[j.op][j.at] = step

LEMMA DoesFact ==
    ASSUME TypeOK, NEW x \in Actors, NEW step, Does(x, step)
    PROVE  At(job[x], step) /\ Busy(x) /\ job[x].at \in 1..12
<1>1. job[x] \in Jobs /\ Busy(x) /\ job[x].op \in Ops
  BY ScriptNames DEF TypeOK, Does, Busy, Jobs
<1>2. Len(Script[job[x].op]) \in 1..12
  BY <1>1, ScriptLengths
<1>3. job[x].at \in 1..13 /\ job[x].at <= Len(Script[job[x].op]) /\ Script[job[x].op][job[x].at] = step
  BY <1>1 DEF Does, Jobs
<1>4. job[x].at \in 1..Len(Script[job[x].op]) /\ job[x].at \in 1..12
  BY <1>2, <1>3
<1>5. QED
  BY <1>1, <1>3, <1>4 DEF At

\* One more step is past than before.
LEMMA PastNext ==
    ASSUME NEW step, NEW j, At(j, step), NEW n, n.op = j.op, n.at = j.at + 1, NEW t
    PROVE  Past(n, t) <=> (Past(j, t) \/ t = step)
<1>1. PICK k \in Nat : k = j.at /\ k >= 1 /\ n.at - 1 = k /\ Script[j.op][k] = step
  BY DEF At, Jobs
<1>2. \A i \in 1..k : i \in 1..(k - 1) \/ i = k
  BY <1>1
<1>3. k \in 1..k /\ \A i \in 1..(k - 1) : i \in 1..k
  BY <1>1
<1>4. QED
  BY <1>1, <1>2, <1>3 DEF Past

\* The steps of a mount or a swap one by one.
LEMMA PlacedAt ==
    ASSUME NEW op, NEW o \in {0, 1}, NEW a \in {0, 1}, Place(op, o, a)
    PROVE  /\ Script[op][1 + o] = "verify" /\ Script[op][2 + o] = "copy"
           /\ Script[op][3 + o] = "aside" /\ Script[op][4 + o] = "live"
           /\ Script[op][5 + o] = "sweep" /\ Script[op][6 + o] = "record"
           /\ Script[op][7 + o] = "approve" /\ Script[op][8 + o] = "goal"
           /\ op = "bring" => Script[op][9] = "adopt"
           /\ Script[op][9 + o + a] = "prune" /\ Script[op][10 + o + a] = "caps"
           /\ Script[op][11 + o + a] = "hint"
<1>1. /\ 1 + o \in 1..(11 + o + a) /\ 2 + o \in 1..(11 + o + a) /\ 3 + o \in 1..(11 + o + a)
      /\ 4 + o \in 1..(11 + o + a) /\ 5 + o \in 1..(11 + o + a) /\ 6 + o \in 1..(11 + o + a)
      /\ 7 + o \in 1..(11 + o + a) /\ 8 + o \in 1..(11 + o + a) /\ 9 \in 1..(11 + o + a)
      /\ 9 + o + a \in 1..(11 + o + a) /\ 10 + o + a \in 1..(11 + o + a)
      /\ 11 + o + a \in 1..(11 + o + a)
  OBVIOUS
<1>2. QED
  BY <1>1 DEF Place

LEMMA PastAt ==
    ASSUME NEW j, NEW i \in 1..(j.at - 1)
    PROVE  Past(j, Script[j.op][i])
  BY DEF Past

\* What a mount or a swap is through with at each of its steps.
LEMMA BindOrder ==
    ASSUME NEW j, NEW step, At(j, step), j.op \in Binds
    PROVE  /\ step = "reseal" => \A t : ~Past(j, t)
           /\ step = "verify" => ~Past(j, "copy") /\ ~Past(j, "live") /\ ~Past(j, "record")
           /\ step \in {"copy", "live", "approve", "prune", "hint"} => Past(j, "verify")
           /\ step \in {"verify", "copy", "aside", "live"} => /\ ~Past(j, "live")
                                                            /\ ~Past(j, "adopt")
                                                            /\ ~Past(j, "prune")
           /\ step \in {"sweep", "approve"} => ~Past(j, "prune")
           /\ step = "live" => Past(j, "copy") /\ Past(j, "aside")
           /\ step \in {"approve", "prune"} => Past(j, "live")
           /\ step = "goal" => Past(j, "record")
           /\ step = "adopt" => j.op = "bring"
           /\ step \notin {"unrecord", "uncaps", "unhint", "unstage", "discard"}
<1>1. PICK o \in {0, 1}, a \in {0, 1} : Place(j.op, o, a)
  BY BindPlaces
<1>2. PICK k \in 1..(11 + o + a) : k = j.at /\ Script[j.op][k] = step
  BY <1>1 DEF At, Place
<1>3. \A t : Past(j, t) <=> \E i \in 1..(k - 1) : Script[j.op][i] = t
  BY <1>2 DEF Past
<1>4. \A i \in 1..(k - 1) : i \in 1..(11 + o + a)
  BY <1>1, <1>2
<1> USE <1>1, <1>2, <1>3, <1>4
<1>5. step = "reseal" => \A t : ~Past(j, t)
  BY DEF Place
<1>6. step = "verify" => k = 1 + o /\ ~Past(j, "copy") /\ ~Past(j, "live") /\ ~Past(j, "record")
  BY DEF Place
<1>7. step \in {"verify", "copy", "aside", "live"} => ~Past(j, "live")
  BY DEF Place
<1>8. \A m \in 1..10 : k > m + o => m + o \in 1..(k - 1) /\ m + o \in 1..(11 + o + a)
  OBVIOUS
<1>9. /\ k > 1 + o => Past(j, "verify")
      /\ k > 2 + o => Past(j, "copy")
      /\ k > 3 + o => Past(j, "aside")
      /\ k > 4 + o => Past(j, "live")
      /\ k > 6 + o => Past(j, "record")
  <2>1. \A m \in 1..10 : k > m + o => Past(j, Script[j.op][m + o])
    BY <1>8 DEF Past
  <2> HIDE <1>3, <1>4
  <2>2. /\ k > 1 + o => Past(j, Script[j.op][1 + o])
        /\ k > 2 + o => Past(j, Script[j.op][2 + o])
        /\ k > 3 + o => Past(j, Script[j.op][3 + o])
        /\ k > 4 + o => Past(j, Script[j.op][4 + o])
        /\ k > 6 + o => Past(j, Script[j.op][6 + o])
    BY <2>1
  <2>3. QED
    BY <2>2, PlacedAt
<1>10. /\ step = "copy" => k = 2 + o
       /\ step = "aside" => k = 3 + o
       /\ step = "live" => k = 4 + o
       /\ step = "sweep" => k = 5 + o
       /\ step = "approve" => k = 7 + o
       /\ step = "goal" => k = 8 + o
       /\ step = "adopt" => j.op = "bring"
       /\ step = "prune" => k = 9 + o + a
       /\ step = "hint" => k = 11 + o + a
       /\ step \notin {"unrecord", "uncaps", "unhint", "unstage", "discard"}
  BY DEF Place
<1>11. k <= 7 + o => ~Past(j, "prune") /\ ~Past(j, "adopt")
  <2>1. \A i \in 1..(11 + o + a) : /\ Script[j.op][i] = "prune" => i = 9 + o + a
                                   /\ Script[j.op][i] = "adopt" => (i = 9 /\ o = 0)
    BY <1>1 DEF Place
  <2>2. Past(j, "prune") => \E i \in 1..(k - 1) : i = 9 + o + a
    BY <1>3, <1>4, <2>1
  <2>3. Past(j, "adopt") => \E i \in 1..(k - 1) : i = 9 /\ o = 0
    BY <1>3, <1>4, <2>1
  <2> HIDE <1>3, <1>4
  <2>4. QED
    BY <1>2, <2>2, <2>3
<1>12. QED
  BY <1>5, <1>6, <1>7, <1>9, <1>10, <1>11

\* The record is written once.
LEMMA RecordOnce ==
    ASSUME NEW j, At(j, "record"), j.op \in Binds
    PROVE  ~Past(j, "record")
<1>1. PICK o \in {0, 1}, a \in {0, 1} : Place(j.op, o, a)
  BY BindPlaces
<1>2. PICK k \in 1..(11 + o + a) : k = j.at /\ Script[j.op][k] = "record"
  BY <1>1 DEF At, Place
<1>3. k = 6 + o /\ \A i \in 1..(k - 1) : i \in 1..(11 + o + a) /\ i # 6 + o
  BY <1>1, <1>2 DEF Place
<1>4. \A i \in 1..(k - 1) : Script[j.op][i] # "record"
  BY <1>1, <1>3 DEF Place
<1>5. QED
  BY <1>2, <1>4 DEF Past

LEMMA UnbindOrder ==
    ASSUME NEW j, NEW step, At(j, step), j.op \in Unbinds
    PROVE  /\ step \in {"unrecord", "uncaps", "unhint", "goal", "unstage", "prune", "discard"}
           /\ step = "unrecord" => ~Past(j, "goal")
           /\ step = "unstage" => ~Past(j, "prune")
<1>1. PICK k \in Nat : /\ k = j.at /\ k \in 1..Len(Script[j.op]) /\ Script[j.op][k] = step
                       /\ Len(Script[j.op]) \in {4, 7}
  BY UnbindPlaces DEF At, Unbinds
<1>2. \A i \in 1..(k - 1) : i \in 1..Len(Script[j.op]) /\ i < k
  BY <1>1
<1>3. step = "unrecord" => ~Past(j, "goal")
  <2>1. step = "unrecord" => k = 1
    BY <1>1, UnbindPlaces
  <2>2. Past(j, "goal") => k > 4
    BY <1>1, <1>2, UnbindPlaces DEF Past
  <2>3. QED
    BY <2>1, <2>2
<1>4. step = "unstage" => ~Past(j, "prune")
  <2>1. step = "unstage" => k = 5
    BY <1>1, UnbindPlaces
  <2>2. Past(j, "prune") => k > 6
    BY <1>1, <1>2, UnbindPlaces DEF Past
  <2>3. QED
    BY <2>1, <2>2
<1>5. QED
  BY <1>1, <1>3, <1>4, UnbindPlaces

\* A goal is looked at after the record was written.
LEMMA RecordBeforeGoal ==
    ASSUME NEW j \in Jobs, j.op \in Binds, j.at <= Len(Script[j.op]) + 1, Past(j, "goal")
    PROVE  Past(j, "record")
<1>1. PICK k \in 1..13 : k = j.at
  BY DEF Jobs
<1>2. PICK i \in 1..(k - 1) : Script[j.op][i] = "goal"
  BY <1>1 DEF Past
<1>3. PICK o \in {0, 1}, a \in {0, 1} : Place(j.op, o, a)
  BY BindPlaces
<1>4. i \in 1..(11 + o + a)
  BY <1>1, <1>2, <1>3 DEF Place
<1>5. i = 8 + o
  BY <1>2, <1>3, <1>4 DEF Place
<1>6. 6 + o \in 1..(k - 1) /\ 6 + o \in 1..(11 + o + a)
  BY <1>1, <1>2, <1>5
<1>7. Script[j.op][6 + o] = "record"
  BY <1>3, <1>6 DEF Place
<1>8. QED
  BY <1>1, <1>6, <1>7 DEF Past

\* An operation that is over is through with every step of its script.
LEMMA AllPast ==
    ASSUME NEW j \in Jobs, j.op \in Ops, j.at > Len(Script[j.op])
    PROVE  /\ j.op \in Binds =>
                /\ Past(j, "verify") /\ Past(j, "live") /\ Past(j, "sweep") /\ Past(j, "record")
                /\ Past(j, "approve") /\ Past(j, "goal") /\ Past(j, "prune") /\ Past(j, "caps")
                /\ Past(j, "hint") /\ (j.op = "bring" => Past(j, "adopt"))
           /\ j.op \in Unbinds =>
                Past(j, "unrecord") /\ Past(j, "uncaps") /\ Past(j, "unhint") /\ Past(j, "goal")
           /\ j.op = "delete" => Past(j, "unstage") /\ Past(j, "prune") /\ Past(j, "discard")
<1>1. PICK k \in 1..13 : k = j.at
  BY DEF Jobs
<1>2. ASSUME j.op \in Binds
      PROVE  /\ Past(j, "verify") /\ Past(j, "live") /\ Past(j, "sweep") /\ Past(j, "record")
             /\ Past(j, "approve") /\ Past(j, "goal") /\ Past(j, "prune") /\ Past(j, "caps")
             /\ Past(j, "hint") /\ (j.op = "bring" => Past(j, "adopt"))
  <2>1. PICK o \in {0, 1}, a \in {0, 1} : Place(j.op, o, a)
    BY <1>2, BindPlaces
  <2>2. /\ 1 + o \in 1..(j.at - 1) /\ 4 + o \in 1..(j.at - 1) /\ 5 + o \in 1..(j.at - 1)
        /\ 6 + o \in 1..(j.at - 1) /\ 7 + o \in 1..(j.at - 1) /\ 8 + o \in 1..(j.at - 1)
        /\ 9 \in 1..(j.at - 1) /\ 9 + o + a \in 1..(j.at - 1) /\ 10 + o + a \in 1..(j.at - 1)
        /\ 11 + o + a \in 1..(j.at - 1)
    <3>1. PICK l \in 11..13 : l = 11 + o + a /\ l = Len(Script[j.op])
      BY <2>1 DEF Place
    <3>2. k > l
      BY <1>1, <3>1
    <3>3. QED
      BY <1>1, <3>1, <3>2
  <2>3. /\ Past(j, Script[j.op][1 + o]) /\ Past(j, Script[j.op][4 + o])
        /\ Past(j, Script[j.op][5 + o]) /\ Past(j, Script[j.op][6 + o])
        /\ Past(j, Script[j.op][7 + o]) /\ Past(j, Script[j.op][8 + o])
        /\ Past(j, Script[j.op][9]) /\ Past(j, Script[j.op][9 + o + a])
        /\ Past(j, Script[j.op][10 + o + a]) /\ Past(j, Script[j.op][11 + o + a])
    BY <2>2, PastAt
  <2>4. PICK op : op = j.op
    OBVIOUS
  <2>5. Place(op, o, a)
    BY <2>1, <2>4
  <2>6. /\ Script[op][1 + o] = "verify" /\ Script[op][2 + o] = "copy"
        /\ Script[op][3 + o] = "aside" /\ Script[op][4 + o] = "live"
        /\ Script[op][5 + o] = "sweep" /\ Script[op][6 + o] = "record"
        /\ Script[op][7 + o] = "approve" /\ Script[op][8 + o] = "goal"
        /\ op = "bring" => Script[op][9] = "adopt"
        /\ Script[op][9 + o + a] = "prune" /\ Script[op][10 + o + a] = "caps"
        /\ Script[op][11 + o + a] = "hint"
    BY <2>5, PlacedAt
  <2>7. Past(j, "verify") /\ Past(j, "live") /\ Past(j, "sweep")
    BY <2>3, <2>4, <2>6
  <2>8. Past(j, "record") /\ Past(j, "approve") /\ Past(j, "goal")
    BY <2>3, <2>4, <2>6
  <2>9. Past(j, "prune") /\ Past(j, "caps") /\ Past(j, "hint")
    BY <2>3, <2>4, <2>6
  <2>10. j.op = "bring" => Past(j, "adopt")
    BY <2>3, <2>4, <2>6
  <2>11. QED
    BY <2>7, <2>8, <2>9, <2>10
<1>3. ASSUME j.op \in Unbinds
      PROVE  Past(j, "unrecord") /\ Past(j, "uncaps") /\ Past(j, "unhint") /\ Past(j, "goal")
  <2>1. Len(Script[j.op]) \in {4, 7}
    BY <1>3, UnbindPlaces DEF Unbinds
  <2>2. PICK l \in {4, 7} : l = Len(Script[j.op]) /\ k > l
    BY <1>1, <2>1
  <2>3. /\ 1 \in 1..(k - 1) /\ 2 \in 1..(k - 1) /\ 3 \in 1..(k - 1) /\ 4 \in 1..(k - 1)
        /\ 1 \in 1..l /\ 2 \in 1..l /\ 3 \in 1..l /\ 4 \in 1..l
    <3>1. k > l
      BY <2>2
    <3>2. k \in Int
      BY <1>1
    <3>3. l = 4 \/ l = 7
      BY <2>2
    <3>4. QED
      BY <3>1, <3>2, <3>3
  <2>4. QED
    BY <1>1, <1>3, <2>2, <2>3, UnbindPlaces DEF Past
<1>4. ASSUME j.op = "delete"
      PROVE  Past(j, "unstage") /\ Past(j, "prune") /\ Past(j, "discard")
  <2>1. \A m \in 1..7 : m \in 1..(k - 1) /\ m \in 1..Len(Script[j.op])
    BY <1>1, <1>4, UnbindPlaces
  <2>2. QED
    BY <1>1, <1>4, <2>1, UnbindPlaces DEF Past, Unbinds
<1>5. QED
  BY <1>2, <1>3, <1>4

\* A job that begins is through with nothing.
LEMMA NothingPast ==
    ASSUME NEW j, j.at = 1, NEW t
    PROVE  ~Past(j, t)
  BY DEF Past

-----------------------------------------------------------------------------
(* Types *)

\* A job one step on.
Next1(j, n) ==
    /\ n \in Jobs /\ n.op = j.op /\ n.world = j.world /\ n.at = j.at + 1
    /\ n.version = j.version /\ n.had = j.had /\ n.alone = j.alone /\ n.missed = j.missed

LEMMA GoesOn ==
    ASSUME TypeOK, NEW x \in Actors, NEW j \in Jobs, j.at \in 1..12, Go(x, j)
    PROVE  \E n \in Jobs : Next1(j, n) /\ job' = [job EXCEPT ![x] = n] /\ job'[x] = n
<1> DEFINE n == [j EXCEPT !.at = @ + 1]
<1>1. j.at + 1 \in 1..13
  OBVIOUS
<1>2. n \in Jobs /\ Next1(j, n)
  BY <1>1 DEF Jobs, Next1
<1>3. job' = [job EXCEPT ![x] = n]
  BY DEF Go
<1> HIDE DEF n
<1>4. job'[x] = n
  BY <1>3 DEF TypeOK
<1>5. QED
  BY <1>2, <1>3, <1>4

LEMMA IdleTyped == Idle \in Jobs /\ Idle.op = "none" /\ Idle.alone = TRUE
<1>1. Absent \in Versions
  BY DEF Versions
<1>2. QED
  BY <1>1 DEF Idle, Jobs

\* What an operation that begins does to the jobs.
Begun(x, op, w) ==
    /\ job'[x].op = op /\ job'[x].world = w /\ job'[x].at = 1
    /\ job'[x].alone => \A z \in Actors : ~Busy(z)
    /\ \A y \in Actors : y # x =>
          /\ job'[y].op = job[y].op /\ job'[y].world = job[y].world /\ job'[y].at = job[y].at
          /\ Busy(y) => ~job'[y].alone

LEMMA BeginJobs ==
    ASSUME TypeOK, NEW x, NEW op \in Ops, NEW w \in Worlds, Begin(x, op, w)
    PROVE  job' \in [Actors -> Jobs] /\ Begun(x, op, w) /\ x \in Actors /\ ~Busy(x)
<1>1. x \in Actors /\ ~Busy(x)
  BY DEF Begin
<1>2. PICK a \in BOOLEAN : a <=> \A z \in Actors : ~Busy(z)
  OBVIOUS
<1>3. (\A z \in Actors : ~Busy(z)) = a
  BY <1>2
<1> DEFINE n == [op |-> op, world |-> w, at |-> 1, version |-> Absent, had |-> FALSE, alone |-> a,
                missed |-> {}]
<1>4. [op |-> op, world |-> w, at |-> 1, version |-> Absent, had |-> FALSE,
       alone |-> \A z \in Actors : ~Busy(z), missed |-> {}] = n
  BY <1>3
<1>5. n \in Jobs /\ n.op = op /\ n.world = w /\ n.at = 1 /\ n.alone = a
  BY IdleTyped, ScriptNames DEF Jobs, Idle
<1> DEFINE m(y) == [job[y] EXCEPT !.alone = @ /\ ~Busy(y), !.missed = {}]
<1>6. ASSUME NEW y \in Actors
      PROVE  m(y) \in Jobs /\ m(y).op = job[y].op /\ m(y).world = job[y].world
             /\ m(y).at = job[y].at /\ (Busy(y) => ~m(y).alone)
  <2>1. job[y] \in Jobs
    BY DEF TypeOK
  <2>2. PICK b \in BOOLEAN : b = (job[y].alone /\ ~Busy(y))
    BY <2>1 DEF Jobs
  <2>3. m(y) = [job[y] EXCEPT !.alone = b, !.missed = {}]
    BY <2>2
  <2>4. QED
    BY <2>1, <2>2, <2>3 DEF Jobs
<1>7. job' = [y \in Actors |-> IF y = x THEN n ELSE m(y)]
  BY <1>4 DEF Begin
<1> HIDE DEF n, m
<1>8. job'[x] = n /\ \A y \in Actors : y # x => job'[y] = m(y)
  BY <1>1, <1>7
<1>9. job' \in [Actors -> Jobs]
  BY <1>5, <1>6, <1>7
<1>10. QED
  BY <1>1, <1>2, <1>5, <1>6, <1>8, <1>9 DEF Begun

\* An operation begins in no other way, and a handler or a thread mounts only the
\* World that is mounted, or one when none is.
Starts(x, op, w) ==
    /\ Begin(x, op, w)
    /\ (x # "cli" /\ op \in Binds) => mounted.world \in {NoWorld, w}

Starting ==
    \/ \E w \in Worlds : Select(w) \/ Confirm(w) \/ Delete(w) \/ Command(w)
    \/ Unselect
    \/ \E x \in {"edit", "grow"} : Edit(x)

LEMMA StartsSomehow ==
    ASSUME TypeOK, Starting
    PROVE  \E x \in Actors, op \in Ops, w \in Worlds : Starts(x, op, w)
<1>1. ASSUME NEW w \in Worlds, Select(w) PROVE Starts("portal", "mount", w) /\ "portal" \in Actors
  BY <1>1 DEF Select, Starts, Begin
<1>2. ASSUME NEW w \in Worlds, Confirm(w)
      PROVE  \E op \in Ops : Starts("portal", op, w) /\ "portal" \in Actors
  <2>1. PICK op \in {"found", "reswap"} : Begin("portal", op, w)
    BY <1>2 DEF Confirm
  <2>2. Starts("portal", op, w) /\ "portal" \in Actors /\ op \in Ops
    BY <1>2, <2>1 DEF Confirm, Starts, Begin, Ops
  <2>3. QED
    BY <2>2
<1>3. ASSUME NEW w \in Worlds, Delete(w)
      PROVE  \E op \in Ops : Starts("portal", op, w) /\ "portal" \in Actors
  <2>1. PICK op \in {"delete", "discard"} : Begin("portal", op, w)
    BY <1>3 DEF Delete
  <2>2. Starts("portal", op, w) /\ "portal" \in Actors /\ op \in Ops
    BY <2>1 DEF Starts, Begin, Ops, Binds, Mounts, Swaps
  <2>3. QED
    BY <2>2
<1>4. ASSUME NEW w \in Worlds, Command(w)
      PROVE  \E op \in Ops : Starts("cli", op, w) /\ "cli" \in Actors
  <2>1. PICK op \in {"mount", "bring", "swap", "unmount"} : Begin("cli", op, w)
    BY <1>4 DEF Command
  <2>2. Starts("cli", op, w) /\ "cli" \in Actors /\ op \in Ops
    BY <2>1 DEF Starts, Begin, Ops
  <2>3. QED
    BY <2>2
<1>5. ASSUME Unselect
      PROVE  \E w \in Worlds : Starts("portal", "unmount", w) /\ "portal" \in Actors
  <2>1. mounted.world \in Worlds
    BY <1>5 DEF Unselect, TypeOK
  <2>2. Starts("portal", "unmount", mounted.world) /\ "portal" \in Actors
    BY <1>5 DEF Unselect, Starts, Begin, Binds, Mounts, Swaps
  <2>3. QED
    BY <2>1, <2>2
<1>6. ASSUME NEW x \in {"edit", "grow"}, Edit(x)
      PROVE  \E w \in Worlds : Starts(x, "reswap", w) /\ x \in Actors
  <2>1. mounted.world \in Worlds
    BY <1>6 DEF Edit, TypeOK
  <2>2. Starts(x, "reswap", mounted.world) /\ x \in Actors
    BY <1>6 DEF Edit, Starts, Begin
  <2>3. QED
    BY <2>1, <2>2
<1>7. "mount" \in Ops /\ "unmount" \in Ops /\ "reswap" \in Ops
  BY DEF Ops
<1>8. QED
  BY <1>1, <1>2, <1>3, <1>4, <1>5, <1>6, <1>7 DEF Starting

\* The job of an actor at a step: it goes on, or it is over.
LEMMA Continues ==
    ASSUME TypeOK, NEW x \in Actors, NEW step, Does(x, step), Continue(x)
    PROVE  \E n \in Jobs : Next1(job[x], n) /\ job' = [job EXCEPT ![x] = n] /\ job'[x] = n
<1>1. job[x] \in Jobs /\ job[x].at \in 1..12
  BY DoesFact DEF At
<1>2. QED
  BY <1>1, GoesOn DEF Continue

LEMMA JobsTyped ==
    ASSUME TypeOK, NEW x \in Actors,
           \/ Abandon(x)
           \/ \E n \in Jobs : job' = [job EXCEPT ![x] = n]
    PROVE  job' \in [Actors -> Jobs]
  BY IdleTyped DEF TypeOK, Abandon

\* A job one step on, whatever it noted.
Moved(j, n) ==
    n \in Jobs /\ n.op = j.op /\ n.world = j.world /\ n.at = j.at + 1 /\ n.alone = j.alone

LEMMA VerifyGoes ==
    ASSUME TypeOK, NEW x \in Actors, NEW c \in Versions, Does(x, "verify"),
           Go(x, [job[x] EXCEPT !.version = c])
    PROVE  \E n \in Jobs : /\ Moved(job[x], n) /\ n.version = c /\ n.missed = job[x].missed
                           /\ job' = [job EXCEPT ![x] = n] /\ job'[x] = n
                           /\ UNCHANGED <<begun, faults, settled>>
<1>1. job[x] \in Jobs /\ job[x].at \in 1..12
  BY DoesFact DEF At
<1> DEFINE j == [job[x] EXCEPT !.version = c]
<1>2. /\ j \in Jobs /\ j.op = job[x].op /\ j.world = job[x].world /\ j.at = job[x].at
      /\ j.version = c /\ j.alone = job[x].alone /\ j.missed = job[x].missed
  BY <1>1 DEF Jobs
<1>3. Go(x, j)
  OBVIOUS
<1> HIDE DEF j
<1>4. PICK n \in Jobs : Next1(j, n) /\ job' = [job EXCEPT ![x] = n] /\ job'[x] = n
  BY <1>1, <1>2, <1>3, GoesOn
<1>5. QED
  BY <1>2, <1>3, <1>4 DEF Go, bounds, Next1, Moved

\* What is verified: a version, or there is none.
LEMMA VerifyReads ==
    ASSUME TypeOK, NEW x \in Actors, Verify(x), job[x].world \in Worlds
    PROVE  \/ Abandon(x) /\ UNCHANGED faults
           \/ \E c \in Versions :
                /\ c # Absent /\ (job[x].op # "bring" => c = catalog[job[x].world])
                /\ Go(x, [job[x] EXCEPT !.version = c])
<1>1. catalog[job[x].world] \in Versions
  BY DEF TypeOK
<1>2. Brought \subseteq Versions
  BY BoundsAssumption DEF Versions
<1>3. QED
  BY <1>1, <1>2 DEF Verify

LEMMA MissesGo ==
    ASSUME TypeOK, NEW x \in Actors, NEW step \in Forgiven, Does(x, step), Misses(x, step)
    PROVE  \E n \in Jobs : /\ Moved(job[x], n) /\ n.version = job[x].version
                           /\ job[x].alone => n.missed = job[x].missed \cup {step}
                           /\ job' = [job EXCEPT ![x] = n] /\ job'[x] = n
<1>1. job[x] \in Jobs /\ job[x].at \in 1..12
  BY DoesFact DEF At
<1>2. PICK m \in SUBSET Forgiven :
        m = IF job[x].alone THEN job[x].missed \cup {step} ELSE {}
  BY <1>1 DEF Jobs
<1>3. PICK k \in 1..13 : k = job[x].at + 1
  BY <1>1
<1> DEFINE n == [job[x] EXCEPT !.at = k, !.missed = m]
<1>4. job' = [job EXCEPT ![x] = n]
  BY <1>2, <1>3 DEF Misses
<1>5. n \in Jobs
  BY <1>1, <1>2, <1>3 DEF Jobs
<1>6. /\ n.op = job[x].op /\ n.world = job[x].world /\ n.at = k /\ n.alone = job[x].alone
      /\ n.version = job[x].version /\ n.missed = m
  BY <1>1 DEF Jobs
<1> HIDE DEF n
<1>7. job'[x] = n
  BY <1>4 DEF TypeOK
<1>8. QED
  BY <1>2, <1>3, <1>4, <1>5, <1>6, <1>7 DEF Moved

LEMMA PutAsideGoes ==
    ASSUME TypeOK, NEW x \in Actors, PutAside(x), job[x].world \in Worlds
    PROVE  \E n \in Jobs : /\ Moved(job[x], n) /\ n.version = job[x].version
                           /\ n.missed = job[x].missed
                           /\ job' = [job EXCEPT ![x] = n] /\ job'[x] = n
                           /\ UNCHANGED <<begun, faults, settled>>
<1>1. PICK b \in BOOLEAN : (staged[job[x].world] # Absent) = b
  OBVIOUS
<1>2. job[x] \in Jobs /\ job[x].at \in 1..12
  BY DoesFact DEF PutAside, At
<1> DEFINE j == [job[x] EXCEPT !.had = b]
<1>3. /\ j \in Jobs /\ j.op = job[x].op /\ j.world = job[x].world /\ j.at = job[x].at
      /\ j.version = job[x].version /\ j.alone = job[x].alone /\ j.missed = job[x].missed
  BY <1>2 DEF Jobs
<1>4. Go(x, j)
  BY <1>1 DEF PutAside
<1> HIDE DEF j
<1>5. PICK n \in Jobs : Next1(j, n) /\ job' = [job EXCEPT ![x] = n] /\ job'[x] = n
  BY <1>2, <1>3, <1>4, GoesOn
<1>6. QED
  BY <1>3, <1>4, <1>5 DEF Go, bounds, Next1, Moved

LEMMA StepTypes ==
    ASSUME TypeOK, Placed, NEW x \in Actors, Step(x)
    PROVE  TypeOK'
<1>1. /\ Absent \in Absent..MaxVersion /\ Partial \in Absent..MaxVersion
      /\ 1 \in Versions /\ Absent \in Versions /\ Versions \subseteq Absent..MaxVersion
  BY BoundsAssumption DEF Absent, Partial, Versions
<1>2. job[x] \in Jobs /\ job[x].version \in Versions
  BY DEF TypeOK, Jobs
<1>3. Breaks => faults' \in 0..MaxFaults
  BY BoundsAssumption DEF Breaks, TypeOK
<1>4. ASSUME NEW step, Does(x, step), Continue(x) PROVE job' \in [Actors -> Jobs]
  BY <1>4, Continues, JobsTyped
<1>5. Abandon(x) => job' \in [Actors -> Jobs]
  BY JobsTyped
<1>6. ASSUME NEW step, Does(x, step) PROVE job[x].world \in Worlds
  BY <1>6 DEF Placed, Does
<1>7. Continue(x) => UNCHANGED <<begun, faults, settled>>
  BY DEF Continue, Go, bounds
<1> DEFINE Typed == job' \in [Actors -> Jobs] /\ faults' \in 0..MaxFaults
                    /\ UNCHANGED <<begun, settled>>
<1>0. ASSUME NEW step \in Forgiven, Does(x, step), Continue(x) \/ Misses(x, step) PROVE Typed
  <2>1. CASE Continue(x)
    BY <1>0, <1>4, <1>7, <2>1 DEF TypeOK
  <2>2. CASE Misses(x, step)
    BY <1>0, <1>3, <2>2, MissesGo, JobsTyped DEF Misses
  <2>3. QED
    BY <1>0, <2>1, <2>2
<1> USE <1>1
<1> DEFINE w == job[x].world
<1>8. CASE Reseal(x)
  <2>1. w \in Worlds
    BY <1>6, <1>8 DEF Reseal
  <2>2. catalog' \in [Worlds -> Versions]
    <3> DEFINE next(v) == IF v = Absent THEN 1 ELSE v + 1
    <3>2. \A v \in Versions : v < MaxVersion => next(v) \in Versions
      BY BoundsAssumption DEF Absent, Versions
    <3>3. catalog[w] \in Versions
      BY <2>1 DEF TypeOK
    <3>4. catalog' = catalog
          \/ (catalog[w] < MaxVersion /\ catalog' = [catalog EXCEPT ![w] = next(catalog[w])])
      BY <1>8 DEF Reseal
    <3> HIDE DEF next
    <3>5. QED
      BY <2>1, <3>2, <3>3, <3>4 DEF TypeOK
  <2>3. job' \in [Actors -> Jobs] /\ UNCHANGED <<begun, faults, settled>>
    BY <1>4, <1>5, <1>7, <1>8 DEF Reseal, Abandon
  <2>4. QED
    BY <1>8, <2>2, <2>3 DEF Reseal, TypeOK, sidecars, kb
<1>9. CASE Verify(x)
  <2>1. w \in Worlds
    BY <1>6, <1>9 DEF Verify
  <2>2. job' \in [Actors -> Jobs] /\ UNCHANGED <<begun, faults, settled>>
    <3>1. CASE Abandon(x) /\ UNCHANGED faults
      BY <1>5, <3>1 DEF Abandon
    <3>2. CASE \E c \in Versions : Go(x, [job[x] EXCEPT !.version = c])
      BY <1>9, <3>2, VerifyGoes, JobsTyped DEF Verify
    <3>3. QED
      BY <1>9, <2>1, <3>1, <3>2, VerifyReads
  <2>3. QED
    BY <1>9, <2>2 DEF Verify, TypeOK, dirs, sidecars, kb
<1>10. CASE Copy(x)
  <2>1. w \in Worlds /\ job' \in [Actors -> Jobs] /\ UNCHANGED <<begun, faults, settled>>
    BY <1>4, <1>6, <1>7, <1>10 DEF Copy
  <2>2. PICK v \in Absent..MaxVersion : copy' = [copy EXCEPT ![w] = [by |-> x, version |-> v]]
    BY <1>2, <1>10, <2>1 DEF Copy, TypeOK
  <2>3. QED
    BY <1>10, <2>1, <2>2 DEF Copy, TypeOK, sidecars, kb
<1>11. CASE PutAside(x)
  <2>1. w \in Worlds
    BY <1>6, <1>11 DEF PutAside
  <2>2. job' \in [Actors -> Jobs] /\ UNCHANGED <<begun, faults, settled>>
    BY <1>11, <2>1, PutAsideGoes, JobsTyped
  <2>3. QED
    BY <1>11, <2>1, <2>2 DEF PutAside, TypeOK, sidecars, kb
<1>12. CASE PutLive(x)
  <2>1. w \in Worlds /\ job' \in [Actors -> Jobs] /\ UNCHANGED <<begun, faults, settled>>
    BY <1>4, <1>6, <1>7, <1>12 DEF PutLive
  <2>2. PICK v \in Absent..MaxVersion : staged' = [staged EXCEPT ![w] = v]
    BY <1>12, <2>1 DEF PutLive, TypeOK
  <2>3. /\ copy' = [copy EXCEPT ![w] = NoCopy]
        /\ aside' = aside \/ aside' = [aside EXCEPT ![w] = Absent]
    BY <1>12 DEF PutLive
  <2>4. QED
    BY <1>12, <2>1, <2>2, <2>3 DEF PutLive, TypeOK, NoCopy, sidecars, kb
<1>13. CASE RenameFails(x)
  <2>1. w \in Worlds /\ job' \in [Actors -> Jobs]
    BY <1>5, <1>6, <1>13 DEF RenameFails
  <2>2. faults' \in 0..MaxFaults /\ UNCHANGED <<begun, settled>>
    BY <1>3, <1>13 DEF RenameFails, Abandon, TypeOK
  <2>3. /\ staged' = staged \/ staged' = [staged EXCEPT ![w] = aside[w]]
        /\ aside' = aside \/ aside' = [aside EXCEPT ![w] = Absent]
    BY <1>13 DEF RenameFails
  <2>4. QED
    BY <1>13, <2>1, <2>2, <2>3 DEF RenameFails, TypeOK, sidecars, kb
<1>14. CASE Sweep(x)
  <2>1. Typed
    BY <1>0, <1>14 DEF Sweep, Forgiven
  <2>2. staged' \in [Worlds -> Absent..MaxVersion]
    BY <1>14 DEF Sweep, TypeOK
  <2>3. QED
    BY <1>14, <2>1, <2>2 DEF Sweep, TypeOK, sidecars, kb
<1>15. CASE WriteRecord(x)
  <2>1. w \in Worlds /\ job' \in [Actors -> Jobs]
    BY <1>4, <1>5, <1>6, <1>15 DEF WriteRecord
  <2>2. faults' \in 0..MaxFaults /\ UNCHANGED <<begun, settled>>
    BY <1>3, <1>7, <1>15 DEF WriteRecord, Abandon, TypeOK
  <2>3. mounted' = mounted \/ mounted' = [world |-> w, version |-> job[x].version]
    BY <1>15 DEF WriteRecord
  <2>4. QED
    BY <1>2, <1>15, <2>1, <2>2, <2>3 DEF WriteRecord, TypeOK, dirs, sidecars, kb
<1>16. CASE Approve(x)
  <2>1. Typed /\ w \in Worlds
    BY <1>0, <1>6, <1>16 DEF Approve, Forgiven
  <2>2. QED
    BY <1>16, <2>1 DEF Approve, TypeOK, dirs, sidecars
<1>17. CASE SwitchGoal(x)
  <2>1. Typed
    BY <1>0, <1>17 DEF SwitchGoal, Forgiven
  <2>2. QED
    BY <1>17, <2>1 DEF SwitchGoal, TypeOK, dirs, sidecars
<1>28. CASE Adopt(x)
  <2>1. Typed /\ w \in Worlds
    BY <1>0, <1>6, <1>28 DEF Adopt, Forgiven
  <2>2. PICK v \in Versions : catalog' = [catalog EXCEPT ![w] = v]
    BY <1>2, <1>28, <2>1 DEF Adopt, TypeOK
  <2>3. QED
    BY <1>28, <2>1, <2>2 DEF Adopt, TypeOK, sidecars, kb
<1>18. CASE PruneApprovals(x)
  <2>1. Typed
    BY <1>0, <1>18 DEF PruneApprovals, Forgiven
  <2>2. QED
    BY <1>18, <2>1 DEF PruneApprovals, TypeOK, dirs, sidecars
<1>19. CASE WriteCapabilities(x)
  <2>1. Typed /\ w \in Worlds
    BY <1>0, <1>6, <1>19 DEF WriteCapabilities, Forgiven
  <2>2. QED
    BY <1>19, <2>1 DEF WriteCapabilities, TypeOK, dirs, kb
<1>20. CASE WriteHint(x)
  <2>1. Typed /\ w \in Worlds
    BY <1>0, <1>6, <1>20 DEF WriteHint, Forgiven
  <2>2. QED
    BY <1>20, <2>1 DEF WriteHint, TypeOK, dirs, kb
<1>21. CASE RemoveRecord(x)
  <2>1. Typed
    BY <1>0, <1>21 DEF RemoveRecord, Forgiven
  <2>2. QED
    BY <1>21, <2>1 DEF RemoveRecord, Unmounted, TypeOK, dirs, sidecars, kb
<1>22. CASE RemoveCapabilities(x)
  <2>1. Typed
    BY <1>0, <1>22 DEF RemoveCapabilities, Forgiven
  <2>2. QED
    BY <1>22, <2>1 DEF RemoveCapabilities, TypeOK, dirs, kb
<1>23. CASE RemoveHint(x)
  <2>1. Typed
    BY <1>0, <1>23 DEF RemoveHint, Forgiven
  <2>2. QED
    BY <1>23, <2>1 DEF RemoveHint, TypeOK, dirs, kb
<1>24. CASE RemoveStaged(x)
  <2>1. Typed /\ w \in Worlds
    BY <1>0, <1>6, <1>24 DEF RemoveStaged, Forgiven
  <2>2. PICK v \in Absent..MaxVersion : staged' = [staged EXCEPT ![w] = v]
    BY <1>24, <2>1 DEF RemoveStaged, Left, TypeOK
  <2>3. QED
    BY <1>24, <2>1, <2>2 DEF RemoveStaged, TypeOK, sidecars, kb
<1>25. CASE Discard(x)
  BY <1>4, <1>6, <1>7, <1>25 DEF Discard, TypeOK, sidecars, kb
<1>26. CASE Return(x)
  <2>1. settled' \in Jobs /\ job' \in [Actors -> Jobs]
    BY <1>2, <1>26, IdleTyped DEF Return, TypeOK
  <2>2. QED
    BY <1>26, <2>1 DEF Return, TypeOK, dirs, sidecars, kb, bounds
<1>27. QED
  BY <1>8, <1>9, <1>10, <1>11, <1>12, <1>13, <1>14, <1>15, <1>16, <1>17, <1>18, <1>19, <1>20,
     <1>21, <1>22, <1>23, <1>24, <1>25, <1>26, <1>28 DEF Step

\* What an actor's step does to its own job, and to no other.
LEMMA StepJobs ==
    ASSUME TypeOK, Placed, NEW x \in Actors, Step(x)
    PROVE  \/ /\ \E n \in Jobs : Moved(job[x], n) /\ job' = [job EXCEPT ![x] = n] /\ job'[x] = n
              /\ settled' = settled /\ \E step : At(job[x], step)
           \/ Abandon(x)
           \/ Return(x)
<1> DEFINE Ahead == /\ \E n \in Jobs : /\ Moved(job[x], n)
                                       /\ job' = [job EXCEPT ![x] = n] /\ job'[x] = n
                    /\ settled' = settled /\ \E step : At(job[x], step)
<1>1. ASSUME NEW step, Does(x, step), Continue(x) PROVE Ahead
  <2>1. PICK n \in Jobs : Next1(job[x], n) /\ job' = [job EXCEPT ![x] = n] /\ job'[x] = n
    BY <1>1, Continues
  <2>2. QED
    BY <1>1, <2>1, DoesFact DEF Next1, Moved, Continue, Go
<1>0. ASSUME NEW step \in Forgiven, Does(x, step), Continue(x) \/ Misses(x, step) PROVE Ahead
  <2>1. CASE Continue(x)
    BY <1>0, <1>1, <2>1
  <2>2. CASE Misses(x, step)
    <3>1. PICK n \in Jobs : Moved(job[x], n) /\ job' = [job EXCEPT ![x] = n] /\ job'[x] = n
      BY <1>0, <2>2, MissesGo
    <3>2. QED
      BY <1>0, <2>2, <3>1, DoesFact DEF Misses
  <2>3. QED
    BY <1>0, <2>1, <2>2
<1>2. CASE Reseal(x)
  BY <1>1, <1>2 DEF Reseal
<1>3. CASE Verify(x)
  <2>1. At(job[x], "verify") /\ job[x].world \in Worlds
    BY <1>3, DoesFact DEF Verify, Placed
  <2>2. CASE \E c \in Versions : Go(x, [job[x] EXCEPT !.version = c])
    BY <1>3, <2>1, <2>2, VerifyGoes DEF Verify
  <2>3. QED
    BY <1>3, <2>1, <2>2, VerifyReads
<1>4. CASE PutAside(x)
  <2>1. At(job[x], "aside") /\ job[x].world \in Worlds
    BY <1>4, DoesFact DEF PutAside, Placed
  <2>2. QED
    BY <1>4, <2>1, PutAsideGoes
<1>5. CASE RenameFails(x)
  BY <1>5 DEF RenameFails
<1>6. CASE WriteRecord(x)
  BY <1>1, <1>6 DEF WriteRecord
<1>7. CASE Return(x)
  BY <1>7
<1>8. CASE Copy(x) \/ PutLive(x) \/ Discard(x)
  BY <1>1, <1>8 DEF Copy, PutLive, Discard
<1>9. CASE Sweep(x) \/ Approve(x) \/ SwitchGoal(x) \/ Adopt(x) \/ PruneApprovals(x)
  <2>1. PICK step \in Forgiven : Does(x, step) /\ (Continue(x) \/ Misses(x, step))
    BY <1>9 DEF Sweep, Approve, SwitchGoal, Adopt, PruneApprovals, Forgiven
  <2>2. QED
    BY <1>0, <2>1
<1>10. CASE WriteCapabilities(x) \/ WriteHint(x) \/ RemoveRecord(x) \/ RemoveCapabilities(x)
            \/ RemoveHint(x) \/ RemoveStaged(x)
  <2>1. PICK step \in Forgiven : Does(x, step) /\ (Continue(x) \/ Misses(x, step))
    BY <1>10 DEF WriteCapabilities, WriteHint, RemoveRecord, RemoveCapabilities, RemoveHint,
       RemoveStaged, Forgiven
  <2>2. QED
    BY <1>0, <2>1
<1>11. QED
  BY <1>2, <1>3, <1>4, <1>5, <1>6, <1>7, <1>8, <1>9, <1>10 DEF Step

\* The other disjuncts of Next.
Dies == Crash({"portal", "edit", "grow"}) \/ Crash({"cli"})

LEMMA CrashJobs ==
    ASSUME TypeOK, Dies
    PROVE  /\ \A x \in Actors : job'[x] = job[x] \/ job'[x] = Idle
           /\ job' \in [Actors -> Jobs]
<1>1. ASSUME NEW X, Crash(X)
      PROVE  /\ \A x \in Actors : job'[x] = job[x] \/ job'[x] = Idle
             /\ job' \in [Actors -> Jobs]
  BY <1>1, IdleTyped DEF Crash, TypeOK
<1>2. QED
  BY <1>1 DEF Dies

LEMMA InitTypes == Init => TypeOK
<1> SUFFICES ASSUME Init PROVE TypeOK
  OBVIOUS
<1>1. /\ Absent \in Absent..MaxVersion /\ 1 \in Absent..MaxVersion
      /\ Absent \in Versions /\ 1 \in Versions
      /\ 0 \in 0..MaxJobs /\ 0 \in 0..MaxFaults
  BY BoundsAssumption DEF Absent, Versions
<1>2. QED
  BY <1>1, IdleTyped DEF Init, TypeOK, NoCopy, Unmounted

LEMMA NextTypes == TypeOK /\ Placed /\ [Next]_vars => TypeOK'
<1> SUFFICES ASSUME TypeOK, Placed, [Next]_vars PROVE TypeOK'
  OBVIOUS
<1>1. ASSUME Starting PROVE TypeOK'
  <2>1. PICK x \in Actors, op \in Ops, w \in Worlds : Begin(x, op, w)
    BY <1>1, StartsSomehow DEF Starts
  <2>2. job' \in [Actors -> Jobs]
    BY <2>1, BeginJobs
  <2>5. settled' \in Jobs
    BY <2>1, IdleTyped DEF Begin
  <2>6. begun' = begun + 1 /\ begun < MaxJobs /\ begun \in 0..MaxJobs
    BY <2>1 DEF Begin, TypeOK
  <2>3. begun' \in 0..MaxJobs /\ settled' \in Jobs
    BY <2>5, <2>6, BoundsAssumption
  <2>4. QED
    BY <2>1, <2>2, <2>3 DEF Begin, TypeOK, dirs, sidecars, kb
<1>2. ASSUME SetGoal PROVE TypeOK'
  BY <1>2 DEF SetGoal, TypeOK, dirs, sidecars, bounds
<1>3. ASSUME Dies PROVE TypeOK'
  <2>1. faults' \in 0..MaxFaults /\ UNCHANGED <<dirs, mounted, sidecars, kb, begun, settled>>
    BY <1>3, BoundsAssumption DEF Dies, Crash, Breaks, TypeOK
  <2>2. QED
    BY <1>3, <2>1, CrashJobs DEF TypeOK, dirs, sidecars, kb
<1>4. ASSUME UNCHANGED vars PROVE TypeOK'
  BY <1>4 DEF vars, TypeOK, dirs, sidecars, kb, bounds
<1>5. QED
  BY <1>1, <1>2, <1>3, <1>4, StepTypes DEF Next, Starting, Dies

-----------------------------------------------------------------------------
(* Operations that nothing overlaps *)

LEMMA InitAlone == Init => AloneInv
<1> SUFFICES ASSUME Init PROVE AloneInv
  OBVIOUS
<1>1. \A x \in Actors : ~Busy(x)
  BY IdleTyped DEF Init, Busy
<1>2. settled.op = "none"
  BY IdleTyped DEF Init
<1>3. QED
  BY <1>1, <1>2 DEF AloneInv, Placed

LEMMA NextAlone == TypeOK /\ AloneInv /\ [Next]_vars => AloneInv'
<1> SUFFICES ASSUME TypeOK, AloneInv, [Next]_vars PROVE AloneInv'
  OBVIOUS
<1> USE IdleTyped
<1>1. ASSUME Starting PROVE AloneInv'
  <2>1. PICK x \in Actors, op \in Ops, w \in Worlds : Begin(x, op, w)
    BY <1>1, StartsSomehow DEF Starts
  <2>2. Begun(x, op, w) /\ ~Busy(x)
    BY <2>1, BeginJobs
  <2>3. settled'.op = "none"
    BY <2>1 DEF Begin
  <2>4. Len(Script[op]) \in Nat
    BY ScriptLengths
  <2>5. Placed'
    BY <2>2, <2>4 DEF AloneInv, Placed, Begun, Busy
  <2>6. (\A a, b \in Actors : (Busy(a) /\ job[a].alone /\ b # a) => ~Busy(b))'
    BY <2>2 DEF AloneInv, Begun, Busy
  <2>7. QED
    BY <2>3, <2>5, <2>6 DEF AloneInv
<1>2. ASSUME NEW x \in Actors, Busy(x), Step(x) PROVE AloneInv'
  <2>1. CASE /\ \E n \in Jobs : Moved(job[x], n) /\ job' = [job EXCEPT ![x] = n] /\ job'[x] = n
             /\ settled' = settled /\ \E step : At(job[x], step)
    <3>1. PICK n \in Jobs : Moved(job[x], n) /\ job'[x] = n /\ job' = [job EXCEPT ![x] = n]
      BY <2>1
    <3>2. \A y \in Actors : y # x => job'[y] = job[y]
      BY <3>1 DEF TypeOK
    <3>3. Busy(x)' /\ job'[x].alone = job[x].alone /\ job'[x].world = job[x].world
      BY <1>2, <3>1 DEF Moved, Busy
    <3>4. job'[x].at <= Len(Script[job'[x].op]) + 1
      <4>1. job[x].at \in 1..Len(Script[job[x].op]) /\ job[x].op \in Ops
        BY <2>1 DEF At
      <4>2. PICK l \in 1..12 : l = Len(Script[job[x].op])
        BY <4>1, ScriptLengths
      <4>3. job'[x].at = job[x].at + 1 /\ job'[x].op = job[x].op
        BY <3>1 DEF Moved
      <4>4. QED
        BY <4>1, <4>2, <4>3
    <3>5. Placed'
      BY <1>2, <3>2, <3>3, <3>4 DEF AloneInv, Placed, Busy
    <3>6. (\A a, b \in Actors : (Busy(a) /\ job[a].alone /\ b # a) => ~Busy(b))'
      BY <1>2, <3>2, <3>3 DEF AloneInv, Busy
    <3>7. settled'.op = "none"
      BY <1>2, <2>1 DEF AloneInv
    <3>8. QED
      BY <3>5, <3>6, <3>7 DEF AloneInv
  <2>2. CASE Abandon(x)
    <3>1. job'[x].op = "none" /\ \A y \in Actors : y # x => job'[y] = job[y]
      BY <2>2 DEF Abandon, TypeOK
    <3>2. settled'.op = "none"
      BY <1>2, <2>2 DEF AloneInv, Abandon
    <3>3. QED
      BY <3>1, <3>2 DEF AloneInv, Placed, Busy
  <2>3. CASE Return(x)
    <3>1. job'[x].op = "none" /\ \A y \in Actors : y # x => job'[y] = job[y]
      BY <2>3 DEF Return, TypeOK
    <3>2. settled'.op # "none" => (job[x].alone /\ settled'.world \in Worlds)
      BY <1>2, <2>3 DEF Return, AloneInv, Placed
    <3>3. QED
      BY <1>2, <3>1, <3>2 DEF AloneInv, Placed, Busy
  <2>4. QED
    BY <1>2, <2>1, <2>2, <2>3, StepJobs DEF AloneInv
<1>3. ASSUME Dies PROVE AloneInv'
  <2>1. settled' = settled
    BY <1>3 DEF Dies, Crash
  <2>2. QED
    BY <1>3, <2>1, CrashJobs DEF AloneInv, Placed, Busy
<1>4. ASSUME SetGoal \/ UNCHANGED vars PROVE AloneInv'
  <2>1. UNCHANGED <<job, settled>>
    BY <1>4 DEF SetGoal, vars
  <2>2. QED
    BY <2>1 DEF AloneInv, Placed, Busy
<1>5. QED
  BY <1>1, <1>2, <1>3, <1>4 DEF Next, Starting, Dies

\* The types of the model, for any Worlds and any bounds.
THEOREM MountTypeCorrect == Spec => []TypeOK
<1>1. Init => TypeOK /\ AloneInv
  BY InitTypes, InitAlone
<1>2. TypeOK /\ AloneInv /\ [Next]_vars => (TypeOK /\ AloneInv)'
  BY NextTypes, NextAlone DEF AloneInv
<1>3. QED
  BY <1>1, <1>2, PTL DEF Spec

-----------------------------------------------------------------------------
(* What a mount, a swap, an unmount and a deletion have done so far *)

\* A step of job j, which becomes n: what n is through with.
LEMMA StepOn ==
    ASSUME TypeOK, NEW x \in Actors, NEW step, Does(x, step), NEW j, j = job[x], NEW n, Moved(j, n)
    PROVE  /\ At(j, step)
           /\ \A t : Past(n, t) <=> (Past(j, t) \/ t = step)
           /\ n.op = j.op /\ n.world = j.world
<1>1. At(j, step)
  BY DoesFact
<1>2. QED
  BY <1>1, PastNext DEF Moved

\* ... whether it missed or not.
LEMMA GoesOrMisses ==
    ASSUME TypeOK, NEW x \in Actors, NEW step \in Forgiven, Does(x, step),
           Continue(x) \/ Misses(x, step), NEW j, j = job[x], j.alone,
           NEW n, job'[x] = n, Moved(j, n)
    PROVE  /\ n.version = j.version
           /\ Continue(x) => \A t : Done(n, t) => (Done(j, t) \/ t = step)
           /\ Misses(x, step) => \A t : Done(n, t) => (Done(j, t) /\ t # step)
<1>1. \A t : Past(n, t) <=> (Past(j, t) \/ t = step)
  BY StepOn
<1>2. Continue(x) => (n.version = j.version /\ n.missed = j.missed)
  BY Continues DEF Next1
<1>3. Misses(x, step) => (n.version = j.version /\ n.missed = j.missed \cup {step})
  BY MissesGo
<1>4. QED
  BY <1>1, <1>2, <1>3 DEF Done

\* Each step of a mount or a swap keeps in order what the steps before it did, and
\* puts in order what it is for, if it does not miss.
LEMMA BindStep ==
    ASSUME TypeOK, NEW x \in Actors, Step(x), NEW j, j = job[x], j.world \in Worlds, j.alone,
           j.op \in Binds, BindFacts(j, x), NEW n, job'[x] = n, Moved(j, n)
    PROVE  BindFacts(n, x)'
<1> DEFINE Later(step) == /\ At(j, step)
                          /\ \A t : Past(n, t) <=> (Past(j, t) \/ t = step)
                          /\ n.op = j.op /\ n.world = j.world
           Goes(step) == Later(step) /\ \A t : Done(n, t) => (Done(j, t) \/ t = step)
           Fails(step) == Later(step) /\ \A t : Done(n, t) => (Done(j, t) /\ t # step)
<1>1. ASSUME NEW step, Does(x, step) PROVE Later(step)
  BY <1>1, StepOn
<1>2. ASSUME NEW step, Does(x, step), Continue(x) PROVE Goes(step) /\ n.version = j.version
  <2>1. n.version = j.version /\ n.missed = j.missed
    BY <1>2, Continues DEF Next1
  <2>2. QED
    BY <1>1, <1>2, <2>1 DEF Done
<1>3. n # Idle
  BY IdleTyped DEF Moved, Binds, Mounts, Swaps
<1>20. ASSUME NEW step \in Forgiven, Does(x, step), Misses(x, step)
       PROVE  Fails(step) /\ n.version = j.version
  BY <1>1, <1>20, GoesOrMisses
<1> DEFINE w == j.world
<1>4. CASE Reseal(x)
  <2>1. Later("reseal") /\ \A t : ~Past(j, t)
    BY <1>1, <1>4, BindOrder DEF Reseal
  <2>2. UNCHANGED mounted
    BY <1>4 DEF Reseal
  <2>3. QED
    BY <2>1, <2>2 DEF BindFacts, Done
<1>5. CASE Verify(x)
  <2>1. Later("verify") /\ ~Past(j, "copy") /\ ~Past(j, "live") /\ ~Past(j, "record")
        /\ ~Past(j, "adopt")
    BY <1>1, <1>5, BindOrder DEF Verify
  <2>2. ~Abandon(x)
    BY <1>3 DEF Abandon, TypeOK
  <2>3. PICK c \in Versions : /\ c # Absent /\ (j.op # "bring" => c = catalog[w])
                              /\ Go(x, [job[x] EXCEPT !.version = c])
    BY <1>5, <2>2, VerifyReads
  <2>4. n.version = c /\ n.missed = j.missed
    BY <1>5, <2>3, VerifyGoes DEF Verify
  <2>5. n.version \in 1..MaxVersion /\ (j.op # "bring" => n.version = catalog[w])
    BY <2>3, <2>4 DEF Versions
  <2>6. \A t : Done(n, t) => (Done(j, t) \/ t = "verify")
    BY <2>1, <2>4 DEF Done
  <2>7. ~Done(n, "adopt")
    BY <2>1, <2>6 DEF Done
  <2>8. UNCHANGED <<catalog, copy, staged, aside, mounted, caps, hint, approved, goal>>
    BY <1>5 DEF Verify, dirs, sidecars, kb
  <2>9. QED
    BY <2>1, <2>5, <2>6, <2>7, <2>8 DEF BindFacts, FitsHint
<1>6. CASE Copy(x)
  <2>1. Goes("copy") /\ n.version = j.version /\ Past(j, "verify") /\ ~Past(j, "live")
    BY <1>1, <1>2, <1>6, BindOrder DEF Copy
  <2>2. copy'[w] = [by |-> x, version |-> j.version]
    BY <1>6, <2>1 DEF Copy, TypeOK, BindFacts, Absent
  <2>3. UNCHANGED <<catalog, staged, aside, mounted, caps, hint, approved, goal>>
    BY <1>6 DEF Copy, sidecars, kb
  <2>4. QED
    BY <2>1, <2>2, <2>3 DEF BindFacts, FitsHint
<1>7. CASE PutAside(x)
  <2>1. Later("aside") /\ ~Past(j, "live") /\ ~Past(j, "prune")
    BY <1>1, <1>7, BindOrder DEF PutAside
  <2>2. n.version = j.version /\ n.missed = j.missed
    BY <1>7, PutAsideGoes
  <2>3. \A t : Done(n, t) => (Done(j, t) \/ t = "aside")
    BY <2>1, <2>2 DEF Done
  <2>4. staged'[w] = Absent /\ \A u \in Worlds : u # w => staged'[u] = staged[u]
    BY <1>7 DEF PutAside, TypeOK
  <2>5. UNCHANGED <<catalog, copy, mounted, caps, hint, approved, goal>>
    BY <1>7 DEF PutAside, sidecars, kb
  <2>6. ~Done(n, "prune")
    BY <2>1, <2>3 DEF Done
  <2>7. QED
    BY <2>1, <2>2, <2>3, <2>4, <2>5, <2>6 DEF BindFacts, FitsHint
<1>8. CASE PutLive(x)
  <2>1. Goes("live") /\ n.version = j.version /\ Past(j, "copy") /\ Past(j, "aside")
        /\ ~Past(j, "live") /\ ~Past(j, "prune")
    BY <1>1, <1>2, <1>8, BindOrder DEF PutLive
  <2>2. copy[w].by = x /\ copy[w].version = j.version
    BY <2>1 DEF BindFacts
  <2>3. staged'[w] = j.version /\ \A u \in Worlds : u # w => staged'[u] = staged[u]
    BY <1>8, <2>2 DEF PutLive, TypeOK
  <2>4. UNCHANGED <<catalog, mounted, caps, hint, approved, goal>>
    BY <1>8 DEF PutLive, sidecars, kb
  <2>5. ~Done(n, "prune")
    BY <2>1 DEF Done
  <2>6. QED
    BY <2>1, <2>3, <2>4, <2>5 DEF BindFacts, FitsHint
<1>9. CASE RenameFails(x)
  BY <1>3, <1>9 DEF RenameFails, Abandon, TypeOK
<1>10. CASE Sweep(x)
  <2>1. Later("sweep") /\ n.version = j.version /\ ~Past(j, "prune")
    BY <1>1, <1>2, <1>10, <1>20, BindOrder DEF Sweep, Forgiven
  <2>2. staged'[w] = staged[w]
    BY <1>10 DEF Sweep
  <2>3. UNCHANGED <<catalog, copy, aside, mounted, caps, hint, approved, goal>>
    BY <1>10 DEF Sweep, sidecars, kb
  <2>4. CASE Misses(x, "sweep")
    <3>1. Fails("sweep")
      BY <1>10, <1>20, <2>4 DEF Sweep, Forgiven
    <3>2. ~Done(n, "prune") /\ ~Done(n, "sweep")
      BY <2>1, <3>1 DEF Done
    <3>3. QED
      BY <2>1, <2>2, <2>3, <3>1, <3>2 DEF BindFacts, FitsHint
  <2>5. CASE Continue(x) /\ \A u \in Worlds : u # w => staged'[u] = Absent
    <3>1. Goes("sweep")
      BY <1>2, <1>10, <2>5 DEF Sweep
    <3>2. ~Done(n, "prune")
      BY <2>1, <3>1 DEF Done
    <3>3. QED
      BY <2>1, <2>2, <2>3, <2>5, <3>1, <3>2 DEF BindFacts, FitsHint
  <2>6. QED
    BY <1>10, <2>4, <2>5 DEF Sweep
<1>11. CASE WriteRecord(x)
  <2>1. ~Abandon(x)
    BY <1>3 DEF Abandon, TypeOK
  <2>2. Goes("record") /\ n.version = j.version
    BY <1>2, <1>11, <2>1 DEF WriteRecord
  <2>3. mounted' = [world |-> w, version |-> j.version]
    BY <1>11, <2>1 DEF WriteRecord
  <2>4. UNCHANGED <<catalog, copy, staged, aside, caps, hint, approved, goal>>
    BY <1>11 DEF WriteRecord, dirs, sidecars, kb
  <2>5. QED
    BY <2>2, <2>3, <2>4 DEF BindFacts, FitsHint
<1>12. CASE Approve(x)
  <2>1. /\ Later("approve") /\ n.version = j.version
        /\ Past(j, "verify") /\ Past(j, "live") /\ ~Past(j, "prune")
    BY <1>1, <1>2, <1>12, <1>20, BindOrder DEF Approve, Forgiven
  <2>2. UNCHANGED <<catalog, copy, staged, aside, mounted, caps, hint, goal>>
    BY <1>12 DEF Approve, dirs, sidecars
  <2>3. CASE Misses(x, "approve")
    <3>1. Fails("approve")
      BY <1>12, <1>20, <2>3 DEF Approve, Forgiven
    <3>2. ~Done(n, "prune") /\ ~Done(n, "approve")
      BY <2>1, <3>1 DEF Done
    <3>3. QED
      BY <2>1, <2>2, <3>1, <3>2 DEF BindFacts, FitsHint
  <2>4. CASE Continue(x) /\ approved' = IF staged[w] = Absent THEN approved ELSE approved \cup {w}
    <3>1. Goes("approve")
      BY <1>2, <1>12, <2>4 DEF Approve
    <3>2. staged[w] # Absent
      BY <2>1 DEF BindFacts, Absent
    <3>3. w \in approved' /\ ~Done(n, "prune")
      BY <2>1, <2>4, <3>1, <3>2 DEF Done
    <3>4. QED
      BY <2>1, <2>2, <3>1, <3>3 DEF BindFacts, FitsHint
  <2>5. QED
    BY <1>12, <2>3, <2>4 DEF Approve
<1>13. CASE SwitchGoal(x)
  <2>1. UNCHANGED <<catalog, copy, staged, aside, mounted, caps, hint, approved>>
    BY <1>13 DEF SwitchGoal, dirs, sidecars
  <2>2. CASE Misses(x, "goal")
    BY <1>13, <1>20, <2>1, <2>2 DEF SwitchGoal, Forgiven, BindFacts, FitsHint
  <2>3. CASE Continue(x) /\ goal' \in {NoGoal, w}
    BY <1>2, <1>13, <2>1, <2>3 DEF SwitchGoal, BindFacts, FitsHint
  <2>4. QED
    BY <1>13, <2>2, <2>3 DEF SwitchGoal, Binds
<1>21. CASE Adopt(x)
  <2>1. j.op = "bring"
    BY <1>1, <1>21, BindOrder DEF Adopt
  <2>2. UNCHANGED <<copy, staged, aside, mounted, caps, hint, approved, goal>>
    BY <1>21 DEF Adopt, sidecars, kb
  <2>3. CASE Misses(x, "adopt")
    BY <1>20, <1>21, <2>1, <2>2, <2>3 DEF Adopt, Forgiven, BindFacts, FitsHint
  <2>4. CASE Continue(x) /\ catalog' = [catalog EXCEPT ![w] = j.version]
    <3>1. catalog'[w] = j.version
      BY <2>4 DEF TypeOK
    <3>2. QED
      BY <1>2, <1>21, <2>1, <2>2, <2>4, <3>1 DEF Adopt, BindFacts, FitsHint
  <2>5. QED
    BY <1>21, <2>3, <2>4 DEF Adopt
<1>14. CASE PruneApprovals(x)
  <2>1. /\ Later("prune") /\ n.version = j.version /\ Past(j, "verify") /\ Past(j, "live")
    BY <1>1, <1>2, <1>14, <1>20, BindOrder DEF PruneApprovals, Forgiven
  <2>2. UNCHANGED <<catalog, copy, staged, aside, mounted, caps, hint, goal>>
    BY <1>14 DEF PruneApprovals, dirs, sidecars
  <2>3. CASE Misses(x, "prune") /\ approved' = approved
    <3>1. Fails("prune")
      BY <1>14, <1>20, <2>3 DEF PruneApprovals, Forgiven
    <3>2. QED
      BY <2>1, <2>2, <2>3, <3>1 DEF BindFacts, FitsHint
  <2>4. CASE /\ Continue(x)
             /\ \E cut \in SUBSET {u \in Worlds : staged[u] = Partial} :
                  approved' = {u \in approved \ cut : staged[u] # Absent}
    <3>1. Goes("prune")
      BY <1>2, <1>14, <2>4 DEF PruneApprovals
    <3>2. staged[w] # Absent /\ staged[w] # Partial
      BY <2>1 DEF BindFacts, Absent, Partial
    <3>3. (w \in approved => w \in approved') /\ \A u \in approved' : staged[u] # Absent
      BY <2>4, <3>2
    <3>4. QED
      BY <2>1, <2>2, <3>1, <3>3 DEF BindFacts, FitsHint
  <2>5. QED
    BY <1>14, <2>3, <2>4 DEF PruneApprovals
<1>15. CASE WriteCapabilities(x)
  <2>1. UNCHANGED <<catalog, copy, staged, aside, mounted, hint, approved, goal>>
    BY <1>15 DEF WriteCapabilities, dirs, kb
  <2>2. CASE Misses(x, "caps")
    BY <1>15, <1>20, <2>1, <2>2 DEF WriteCapabilities, Forgiven, BindFacts, FitsHint
  <2>3. CASE Continue(x) /\ caps' = w
    BY <1>2, <1>15, <2>1, <2>3 DEF WriteCapabilities, BindFacts, FitsHint
  <2>4. QED
    BY <1>15, <2>2, <2>3 DEF WriteCapabilities
<1>16. CASE WriteHint(x)
  <2>1. Later("hint") /\ Past(j, "verify")
    BY <1>1, <1>16, BindOrder DEF WriteHint
  <2>2. UNCHANGED <<catalog, copy, staged, aside, mounted, caps, approved, goal>>
    BY <1>16 DEF WriteHint, dirs, kb
  <2>3. CASE Misses(x, "hint")
    BY <1>16, <1>20, <2>2, <2>3 DEF WriteHint, Forgiven, BindFacts
  <2>4. CASE /\ Continue(x)
             /\ hint' = IF w \in Hinting /\ (j.op = "bring" \/ catalog[w] # Absent) THEN w
                        ELSE IF j.op \in Mounts THEN hint ELSE NoWorld
    <3>1. j.op = "bring" \/ catalog[w] # Absent
      BY <2>1 DEF BindFacts, Absent
    <3>2. hint' = w \/ (w \notin Hinting /\ (j.op \in Swaps => hint' = NoWorld))
      BY <2>4, <3>1 DEF Mounts, Swaps
    <3>3. Goes("hint") /\ n.version = j.version
      BY <1>2, <1>16, <2>4 DEF WriteHint
    <3>4. QED
      BY <2>1, <2>2, <3>2, <3>3 DEF BindFacts, FitsHint
  <2>5. QED
    BY <1>16, <2>3, <2>4 DEF WriteHint
<1>17. CASE RemoveRecord(x) \/ RemoveCapabilities(x) \/ RemoveHint(x) \/ RemoveStaged(x) \/ Discard(x)
  <2>1. PICK step \in {"unrecord", "uncaps", "unhint", "unstage", "discard"} : Does(x, step)
    BY <1>17 DEF RemoveRecord, RemoveCapabilities, RemoveHint, RemoveStaged, Discard
  <2>2. At(j, step)
    BY <1>1, <2>1
  <2>3. QED
    BY <2>1, <2>2, BindOrder
<1>18. CASE Return(x)
  BY <1>3, <1>18 DEF Return, TypeOK
<1>19. QED
  BY <1>4, <1>5, <1>6, <1>7, <1>8, <1>9, <1>10, <1>11, <1>12, <1>13, <1>14, <1>15, <1>16, <1>17,
     <1>18, <1>21 DEF Step

LEMMA UnbindStep ==
    ASSUME TypeOK, NEW x \in Actors, Step(x), NEW j, j = job[x], j.world \in Worlds, j.alone,
           j.op \in Unbinds, UnbindFacts(j), NEW n, job'[x] = n, Moved(j, n)
    PROVE  UnbindFacts(n)'
<1> DEFINE Later(step) == /\ At(j, step)
                          /\ \A t : Past(n, t) <=> (Past(j, t) \/ t = step)
                          /\ n.op = j.op /\ n.world = j.world
           Goes(step) == Later(step) /\ \A t : Done(n, t) => (Done(j, t) \/ t = step)
           Fails(step) == Later(step) /\ \A t : Done(n, t) => (Done(j, t) /\ t # step)
<1>1. ASSUME NEW step, Does(x, step) PROVE Later(step)
  BY <1>1, StepOn
<1>2. n # Idle
  BY IdleTyped DEF Moved, Unbinds
<1>13. ASSUME NEW step, Does(x, step), Continue(x) PROVE Goes(step)
  <2>1. n.missed = j.missed
    BY <1>13, Continues DEF Next1
  <2>2. QED
    BY <1>1, <1>13, <2>1 DEF Done
<1>14. ASSUME NEW step \in Forgiven, Does(x, step), Misses(x, step) PROVE Fails(step)
  BY <1>1, <1>14, GoesOrMisses
<1> DEFINE w == j.world
<1>3. CASE SwitchGoal(x)
  <2>1. UNCHANGED <<catalog, copy, staged, aside, mounted, caps, hint, approved>>
    BY <1>3 DEF SwitchGoal, dirs, sidecars
  <2>2. CASE Misses(x, "goal")
    BY <1>3, <1>14, <2>1, <2>2 DEF SwitchGoal, Forgiven, UnbindFacts
  <2>3. CASE Continue(x) /\ goal' \in {NoGoal, Free}
    BY <1>3, <1>13, <2>1, <2>3 DEF SwitchGoal, UnbindFacts
  <2>4. QED
    BY <1>3, <2>2, <2>3 DEF SwitchGoal, Unbinds, Mounts, Swaps
<1>4. CASE PruneApprovals(x)
  <2>1. UNCHANGED <<catalog, copy, staged, aside, mounted, caps, hint, goal>>
    BY <1>4 DEF PruneApprovals, dirs, sidecars
  <2>2. CASE Misses(x, "prune")
    BY <1>4, <1>14, <2>1, <2>2 DEF PruneApprovals, Forgiven, UnbindFacts
  <2>3. CASE Continue(x) /\ (staged[w] = Absent => w \notin approved')
    BY <1>4, <1>13, <2>1, <2>3 DEF PruneApprovals, UnbindFacts
  <2>4. QED
    BY <1>4, <2>2, <2>3 DEF PruneApprovals
<1>5. CASE RemoveRecord(x)
  <2>1. Later("unrecord") /\ ~Past(j, "goal")
    BY <1>1, <1>5, UnbindOrder DEF RemoveRecord
  <2>2. ~Past(n, "goal")
    BY <2>1
  <2>3. UNCHANGED <<catalog, copy, staged, aside, caps, hint, approved, goal>>
    BY <1>5 DEF RemoveRecord, dirs, sidecars, kb
  <2>4. CASE Misses(x, "unrecord")
    BY <1>5, <1>14, <2>2, <2>3, <2>4 DEF RemoveRecord, Forgiven, UnbindFacts, Done
  <2>5. CASE Continue(x) /\ mounted' = Unmounted
    BY <1>5, <1>13, <2>2, <2>3, <2>5 DEF RemoveRecord, UnbindFacts, Done
  <2>6. QED
    BY <1>5, <2>4, <2>5 DEF RemoveRecord
<1>6. CASE RemoveCapabilities(x)
  <2>1. UNCHANGED <<catalog, copy, staged, aside, mounted, hint, approved, goal>>
    BY <1>6 DEF RemoveCapabilities, dirs, kb
  <2>2. CASE Misses(x, "uncaps")
    BY <1>6, <1>14, <2>1, <2>2 DEF RemoveCapabilities, Forgiven, UnbindFacts
  <2>3. CASE Continue(x) /\ caps' = NoWorld
    BY <1>6, <1>13, <2>1, <2>3 DEF RemoveCapabilities, UnbindFacts
  <2>4. QED
    BY <1>6, <2>2, <2>3 DEF RemoveCapabilities
<1>7. CASE RemoveHint(x)
  <2>1. UNCHANGED <<catalog, copy, staged, aside, mounted, caps, approved, goal>>
    BY <1>7 DEF RemoveHint, dirs, kb
  <2>2. CASE Misses(x, "unhint")
    BY <1>7, <1>14, <2>1, <2>2 DEF RemoveHint, Forgiven, UnbindFacts
  <2>3. CASE Continue(x) /\ hint' = NoWorld
    BY <1>7, <1>13, <2>1, <2>3 DEF RemoveHint, UnbindFacts
  <2>4. QED
    BY <1>7, <2>2, <2>3 DEF RemoveHint
<1>8. CASE RemoveStaged(x)
  <2>1. Later("unstage") /\ ~Past(j, "prune")
    BY <1>1, <1>8, UnbindOrder DEF RemoveStaged
  <2>2. ~Past(n, "prune")
    BY <2>1
  <2>3. UNCHANGED <<catalog, copy, aside, mounted, caps, hint, approved, goal>>
    BY <1>8 DEF RemoveStaged, sidecars, kb
  <2>4. CASE Misses(x, "unstage")
    BY <1>8, <1>14, <2>2, <2>3, <2>4 DEF RemoveStaged, Forgiven, UnbindFacts, Done
  <2>5. CASE Continue(x) /\ staged' = [staged EXCEPT ![w] = Absent]
    <3>1. staged'[w] = Absent
      BY <2>5 DEF TypeOK
    <3>2. QED
      BY <1>8, <1>13, <2>2, <2>3, <2>5, <3>1 DEF RemoveStaged, UnbindFacts, Done
  <2>6. QED
    BY <1>8, <2>4, <2>5 DEF RemoveStaged
<1>9. CASE Discard(x)
  <2>1. Goes("discard")
    BY <1>9, <1>13 DEF Discard
  <2>2. catalog'[w] = Absent
    BY <1>9 DEF Discard, TypeOK
  <2>3. UNCHANGED <<copy, staged, aside, mounted, caps, hint, approved, goal>>
    BY <1>9 DEF Discard, sidecars, kb
  <2>4. QED
    BY <2>1, <2>2, <2>3 DEF UnbindFacts
<1>10. CASE \/ Reseal(x) \/ Verify(x) \/ Copy(x) \/ PutAside(x) \/ PutLive(x) \/ RenameFails(x)
            \/ Sweep(x) \/ WriteRecord(x) \/ Approve(x) \/ Adopt(x) \/ WriteCapabilities(x)
            \/ WriteHint(x)
  <2>1. PICK step \in {"reseal", "verify", "copy", "aside", "live", "sweep", "record", "approve",
                       "adopt", "caps", "hint"} : Does(x, step)
    BY <1>10 DEF Reseal, Verify, Copy, PutAside, PutLive, RenameFails, Sweep, WriteRecord, Approve,
       Adopt, WriteCapabilities, WriteHint
  <2>2. At(j, step)
    BY <1>1, <2>1
  <2>3. QED
    BY <2>1, <2>2, UnbindOrder
<1>11. CASE Return(x)
  BY <1>2, <1>11 DEF Return, TypeOK
<1>12. QED
  BY <1>3, <1>4, <1>5, <1>6, <1>7, <1>8, <1>9, <1>10, <1>11 DEF Step

LEMMA InitProgress == Init => ProgressInv
<1> SUFFICES ASSUME Init PROVE ProgressInv
  OBVIOUS
<1>1. \A x \in Actors : ~Busy(x)
  BY IdleTyped DEF Init, Busy
<1>2. QED
  BY <1>1 DEF ProgressInv

\* Facts about a job depend on the disk only.
disk == <<catalog, copy, staged, mounted, caps, hint, approved, goal>>

LEMMA FactsStay ==
    ASSUME UNCHANGED disk, NEW j, NEW x
    PROVE  /\ BindFacts(j, x) => BindFacts(j, x)'
           /\ UnbindFacts(j) => UnbindFacts(j)'
  BY DEF disk, BindFacts, UnbindFacts, FitsHint, Done, Past

\* ... and what a goal changes about them.
LEMMA GoalFacts ==
    ASSUME TypeOK, SetGoal, NEW j \in Jobs, NEW x, j.world \in Worlds,
           j.at <= Len(Script[j.op]) + 1
    PROVE  /\ (j.op \in Binds /\ BindFacts(j, x)) => BindFacts(j, x)'
           /\ (j.op \in Unbinds /\ UnbindFacts(j)) => UnbindFacts(j)'
<1>1. UNCHANGED <<catalog, copy, staged, mounted, caps, hint, approved>>
  BY DEF SetGoal, dirs, sidecars
<1>2. goal' = IF mounted.world = NoWorld THEN Free ELSE mounted.world
  BY DEF SetGoal
<1>3. ASSUME j.op \in Binds, BindFacts(j, x) PROVE BindFacts(j, x)'
  <2>1. Past(j, "goal") => goal' = j.world
    <3>1. Past(j, "goal") => Past(j, "record")
      BY <1>3, RecordBeforeGoal
    <3>2. Past(j, "record") => mounted.world = j.world
      BY <1>3 DEF BindFacts
    <3>3. QED
      BY <1>2, <3>1, <3>2, WorldsAssumption
  <2>2. QED
    BY <1>1, <1>3, <2>1 DEF BindFacts, FitsHint, Done
<1>4. ASSUME j.op \in Unbinds, UnbindFacts(j) PROVE UnbindFacts(j)'
  <2>1. Done(j, "unrecord") => goal' = Free
    BY <1>2, <1>4 DEF UnbindFacts, Unmounted
  <2>2. QED
    BY <1>1, <1>4, <2>1 DEF UnbindFacts
<1>5. QED
  BY <1>3, <1>4

LEMMA NextProgress == TypeOK /\ AloneInv /\ ProgressInv /\ [Next]_vars => ProgressInv'
<1> SUFFICES ASSUME TypeOK, AloneInv, ProgressInv, [Next]_vars,
                    NEW x \in Actors, Busy(x)', job'[x].alone, NEW n, n = job'[x]
             PROVE  /\ n.op \in Binds => BindFacts(n, x)'
                    /\ n.op \in Unbinds => UnbindFacts(n)'
  BY DEF ProgressInv
<1> USE IdleTyped
<1> DEFINE Kept == /\ n.op \in Binds => BindFacts(n, x)'
                   /\ n.op \in Unbinds => UnbindFacts(n)'
<1>1. n.op # "none" /\ n.alone
  BY DEF Busy
<1>2. ASSUME Starting PROVE Kept
  <2>1. PICK y \in Actors, op \in Ops, w \in Worlds : Starts(y, op, w)
    BY <1>2, StartsSomehow
  <2>2. Begun(y, op, w)
    BY <2>1, BeginJobs DEF Starts
  <2>3. x = y
    BY <1>1, <2>2 DEF Begun, Busy
  <2>4. n.op = op /\ n.world = w /\ n.at = 1
    BY <2>2, <2>3 DEF Begun
  <2>5. \A t : ~Past(n, t)
    BY <2>4, NothingPast
  <2>6. UNCHANGED mounted
    BY <2>1 DEF Starts, Begin
  <2>7. (x # "cli" /\ n.op \in Binds) => mounted.world \in {NoWorld, n.world}
    BY <2>1, <2>3, <2>4 DEF Starts
  <2>8. QED
    BY <2>5, <2>6, <2>7 DEF BindFacts, UnbindFacts, Done
<1>3. ASSUME NEW y \in Actors, Busy(y), Step(y) PROVE Kept
  <2>1. PICK j \in Jobs : j = job[x]
    BY DEF TypeOK
  <2>2. CASE /\ \E m \in Jobs : Moved(job[y], m) /\ job' = [job EXCEPT ![y] = m] /\ job'[y] = m
             /\ settled' = settled /\ \E step : At(job[y], step)
    <3>1. PICK m \in Jobs : Moved(job[y], m) /\ job' = [job EXCEPT ![y] = m] /\ job'[y] = m
      BY <2>2
    <3>2. x = y
      <4>1. ASSUME x # y PROVE FALSE
        <5>1. job[x] = n
          BY <3>1, <4>1 DEF TypeOK
        <5>2. QED
          BY <1>1, <1>3, <4>1, <5>1 DEF AloneInv, Busy
      <4>2. QED
        BY <4>1
    <3>3. Moved(j, n) /\ n.op = j.op /\ j.alone /\ j.world \in Worlds
      BY <1>1, <1>3, <2>1, <3>1, <3>2 DEF Moved, AloneInv, Placed
    <3>4. /\ j.op \in Binds => BindFacts(j, x)
          /\ j.op \in Unbinds => UnbindFacts(j)
      BY <1>3, <2>1, <3>2, <3>3 DEF ProgressInv
    <3>5. Step(x)
      BY <1>3, <3>2
    <3>6. QED
      BY <2>1, <3>3, <3>4, <3>5, BindStep, UnbindStep
  <2>3. CASE Abandon(y) \/ Return(y)
    <3>1. job' = [job EXCEPT ![y] = Idle]
      BY <2>3 DEF Abandon, Return
    <3>2. x # y /\ n = job[x]
      BY <1>1, <3>1 DEF TypeOK
    <3>3. QED
      BY <1>1, <1>3, <3>2 DEF AloneInv, Busy
  <2>4. QED
    BY <1>3, <2>2, <2>3, StepJobs DEF AloneInv
<1>4. ASSUME Dies \/ UNCHANGED vars PROVE Kept
  <2>1. n = job[x]
    BY <1>1, <1>4, CrashJobs DEF vars
  <2>2. UNCHANGED disk
    BY <1>4 DEF Dies, Crash, vars, dirs, sidecars, kb, disk
  <2>3. /\ n.op \in Binds => BindFacts(n, x)
        /\ n.op \in Unbinds => UnbindFacts(n)
    BY <1>1, <2>1 DEF ProgressInv, Busy
  <2>4. QED
    BY <2>2, <2>3, FactsStay
<1>5. ASSUME SetGoal PROVE Kept
  <2>1. n = job[x] /\ n \in Jobs /\ n.world \in Worlds /\ n.at <= Len(Script[n.op]) + 1
    BY <1>1, <1>5 DEF SetGoal, TypeOK, AloneInv, Placed, Busy
  <2>2. /\ n.op \in Binds => BindFacts(n, x)
        /\ n.op \in Unbinds => UnbindFacts(n)
    BY <1>1, <2>1 DEF ProgressInv, Busy
  <2>3. QED
    BY <1>5, <2>1, <2>2, GoalFacts
<1>6. QED
  BY <1>2, <1>3, <1>4, <1>5 DEF Next, Starting, Dies

-----------------------------------------------------------------------------
(* What a settled operation leaves *)

MountInv == TypeOK /\ AloneInv /\ ProgressInv /\ MountHeals /\ UnmountClears

\* Nothing is settled.
LEMMA Unsettled ==
    ASSUME settled'.op = "none"
    PROVE  MountHeals' /\ UnmountClears'
  BY DEF MountHeals, UnmountClears, HintFits, Mounts, Swaps

LEMMA ReturnSettles ==
    ASSUME TypeOK, AloneInv, ProgressInv, NEW x \in Actors, Return(x), job[x].alone
    PROVE  MountHeals' /\ UnmountClears'
<1>1. PICK j \in Jobs : j = job[x] /\ j.op \in Ops /\ j.world \in Worlds /\ j.at > Len(Script[j.op])
  BY ScriptNames DEF TypeOK, Jobs, Return, Busy, AloneInv, Placed
<1>2. settled' = j
  BY <1>1 DEF Return
<1>3. UNCHANGED <<catalog, staged, mounted, caps, hint, approved, goal>>
  BY DEF Return, dirs, sidecars, kb
<1>4. /\ j.op \in Binds => BindFacts(j, x)
      /\ j.op \in Unbinds => UnbindFacts(j)
  BY <1>1 DEF ProgressInv, Return
<1>5. MountHeals'
  <2>1. ASSUME j.op \in Binds
        PROVE  /\ mounted = [world |-> j.world, version |-> j.version]
               /\ staged[j.world] = j.version
               /\ "sweep" \notin j.missed => \A u \in Worlds \ {j.world} : staged[u] = Absent
               /\ "approve" \notin j.missed => j.world \in approved
               /\ "prune" \notin j.missed => \A u \in approved : staged[u] # Absent
               /\ "goal" \notin j.missed => goal \in {NoGoal, j.world}
               /\ "caps" \notin j.missed => caps = j.world
               /\ "hint" \notin j.missed => FitsHint(j)
               /\ (j.op = "bring" /\ "adopt" \notin j.missed) => catalog[j.world] = j.version
    BY <1>1, <1>4, <2>1, AllPast DEF BindFacts, Done
  <2>2. QED
    BY <1>2, <1>3, <2>1 DEF MountHeals, HintFits, FitsHint, Binds
<1>6. UnmountClears'
  <2>1. ASSUME j.op \in Unbinds
        PROVE  /\ "unrecord" \notin j.missed => mounted = Unmounted
               /\ "uncaps" \notin j.missed => caps = NoWorld
               /\ "unhint" \notin j.missed => hint = NoWorld
               /\ ("unrecord" \notin j.missed /\ "goal" \notin j.missed) => goal \in {NoGoal, Free}
               /\ j.op = "delete" =>
                    /\ catalog[j.world] = Absent
                    /\ "unstage" \notin j.missed => staged[j.world] = Absent
                    /\ ("unstage" \notin j.missed /\ "prune" \notin j.missed) => j.world \notin approved
    BY <1>1, <1>4, <2>1, AllPast DEF UnbindFacts, Done
  <2>2. QED
    BY <1>2, <1>3, <2>1 DEF UnmountClears, Unbinds
<1>7. QED
  BY <1>5, <1>6

LEMMA NextSettles == MountInv /\ [Next]_vars => MountHeals' /\ UnmountClears'
<1> SUFFICES ASSUME MountInv, [Next]_vars PROVE MountHeals' /\ UnmountClears'
  OBVIOUS
<1> USE IdleTyped DEF MountInv
<1>1. ASSUME Starting PROVE settled'.op = "none"
  BY <1>1, StartsSomehow DEF Starts, Begin
<1>2. ASSUME NEW x \in Actors, Busy(x), Step(x) PROVE MountHeals' /\ UnmountClears'
  <2>1. CASE Return(x) /\ job[x].alone
    BY <2>1, ReturnSettles
  <2>2. CASE Return(x) /\ ~job[x].alone
    BY <2>2, Unsettled DEF Return
  <2>3. CASE settled' = settled
    BY <1>2, <2>3, Unsettled DEF AloneInv
  <2>4. QED
    BY <1>2, <2>1, <2>2, <2>3, StepJobs DEF AloneInv, Abandon
<1>3. ASSUME Dies \/ UNCHANGED vars PROVE MountHeals' /\ UnmountClears'
  <2>1. UNCHANGED <<catalog, staged, mounted, caps, hint, approved, goal, settled>>
    BY <1>3 DEF Dies, Crash, vars, dirs, sidecars, kb
  <2>2. QED
    BY <2>1 DEF MountHeals, UnmountClears, HintFits
<1>4. ASSUME SetGoal PROVE MountHeals' /\ UnmountClears'
  <2>1. UNCHANGED <<catalog, staged, mounted, caps, hint, approved, settled>>
    BY <1>4 DEF SetGoal, dirs, sidecars
  <2>2. goal' = IF mounted.world = NoWorld THEN Free ELSE mounted.world
    BY <1>4 DEF SetGoal
  <2>3. settled.op \in Mounts \cup Swaps => settled.op # "none"
    BY DEF Mounts, Swaps
  <2>4. settled.op \in Mounts \cup Swaps => settled.world \in Worlds
    BY <2>3 DEF AloneInv
  <2>5. settled.op \in Mounts \cup Swaps => goal' = settled.world
    BY <2>2, <2>4, WorldsAssumption DEF MountHeals
  <2>6. (settled.op \in Unbinds /\ "unrecord" \notin settled.missed) => goal' = Free
    BY <2>2 DEF UnmountClears, Unmounted, Unbinds
  <2>7. MountHeals'
    BY <2>1, <2>5 DEF MountHeals, HintFits
  <2>8. UnmountClears'
    BY <2>1, <2>6 DEF UnmountClears, Unbinds
  <2>9. QED
    BY <2>7, <2>8
<1>5. QED
  BY <1>1, <1>2, <1>3, <1>4, Unsettled DEF Next, Starting, Dies

LEMMA MountHolds == Spec => []MountInv
<1>1. Init => MountInv
  <2>1. Init => MountHeals /\ UnmountClears
    BY IdleTyped DEF Init, MountHeals, UnmountClears, HintFits, Mounts, Swaps
  <2>2. QED
    BY <2>1, InitTypes, InitAlone, InitProgress DEF MountInv
<1>2. MountInv /\ [Next]_vars => MountInv'
  <2> SUFFICES ASSUME MountInv, [Next]_vars PROVE MountInv'
    OBVIOUS
  <2>1. TypeOK /\ AloneInv /\ ProgressInv /\ Placed
    BY DEF MountInv, AloneInv
  <2>2. TypeOK' /\ AloneInv' /\ ProgressInv'
    BY <2>1, NextTypes, NextAlone, NextProgress
  <2>3. QED
    BY <2>2, NextSettles DEF MountInv
<1>3. QED
  BY <1>1, <1>2, PTL DEF Spec

\* A mount or a swap that nothing overlapped (world_mount.mount and swap) leaves the
\* record and the files of its World, and everything else in order but the parts
\* whose own step it logged as failed, whatever crashed, failed or raced before.
THEOREM MountAlwaysHeals == Spec => []MountHeals
<1>1. MountInv => MountHeals
  BY DEF MountInv
<1>2. QED
  BY <1>1, MountHolds, PTL

\* An unmount or a deletion that nothing overlapped leaves nothing of a World but
\* what it could not remove itself.
THEOREM UnmountAlwaysClears == Spec => []UnmountClears
<1>1. MountInv => UnmountClears
  BY DEF MountInv
<1>2. QED
  BY <1>1, MountHolds, PTL

\* The record goes from one World to another in one step only on the command line,
\* or when another operation overlapped the one that writes it.
THEOREM SwitchIsARace == Spec => SwitchNeedsARace
<1> DEFINE Switch == mounted.world # NoWorld /\ mounted'.world \notin {NoWorld, mounted.world}
           Raced == \E x \in Actors : Does(x, "record") /\ (x = "cli" \/ ~job[x].alone)
<1>1. MountInv /\ [Next]_vars => [Switch => Raced]_vars
  <2> SUFFICES ASSUME MountInv, Next, Switch PROVE Raced
    BY DEF vars
  <2>1. ASSUME Starting \/ SetGoal \/ Dies PROVE FALSE
    <3>1. UNCHANGED mounted
      BY <2>1, StartsSomehow DEF MountInv, Starts, Begin, SetGoal, Dies, Crash
    <3>2. QED
      BY <3>1
  <2>2. ASSUME NEW x \in Actors, Busy(x), Step(x) PROVE Raced
    <3>1. WriteRecord(x) \/ UNCHANGED mounted \/ mounted' = Unmounted
      BY <2>2 DEF Step, Reseal, Verify, Copy, PutAside, PutLive, RenameFails, Sweep, Approve,
         SwitchGoal, Adopt, PruneApprovals, WriteCapabilities, WriteHint, RemoveRecord,
         RemoveCapabilities, RemoveHint, RemoveStaged, Discard, Return, dirs
    <3>2. mounted' # Unmounted /\ mounted' # mounted
      BY DEF Unmounted
    <3>3. Does(x, "record") /\ mounted'.world = job[x].world
      BY <3>1, <3>2 DEF WriteRecord
    <3>4. ASSUME x # "cli", job[x].alone PROVE FALSE
      <4>1. PICK j \in Jobs : j = job[x] /\ At(j, "record")
        BY <3>3, DoesFact DEF MountInv, TypeOK
      <4>2. j.op \in Binds \/ j.op \in Unbinds \/ j.op = "discard"
        BY <4>1 DEF At, Ops, Binds, Unbinds, Mounts, Swaps
      <4>3. j.op \in Binds
        <5>1. j.op \notin Unbinds
          BY <4>1, UnbindOrder
        <5>2. j.op # "discard"
          BY <4>1, ScriptNames DEF At
        <5>3. QED
          BY <4>2, <5>1, <5>2
      <4>4. ~Past(j, "record")
        BY <4>1, <4>3, RecordOnce
      <4>5. BindFacts(j, x)
        BY <2>2, <3>4, <4>1, <4>3 DEF MountInv, ProgressInv
      <4>6. mounted.world \in {NoWorld, j.world}
        BY <3>4, <4>4, <4>5 DEF BindFacts
      <4>7. QED
        BY <3>3, <4>1, <4>6
    <3>5. QED
      BY <3>3, <3>4
  <2>3. QED
    BY <2>1, <2>2 DEF Next, Starting, Dies
<1>2. QED
  BY <1>1, MountHolds, PTL DEF Spec, SwitchNeedsARace

=============================================================================
