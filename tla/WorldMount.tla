------------------------------ MODULE WorldMount ------------------------------
(***************************************************************************)
(* Mounting, swapping and unmounting a World: src/arail/world_mount.py and    *)
(* the portal's endpoints on it. A World is a sealed bundle in the catalog;   *)
(* mounting copies it under the knowledge base, removes every other World     *)
(* there, and only then names it in the mount record all readers look at.     *)
(*                                                                         *)
(* Four actors: the portal's own handlers (on the event loop, one at a time), *)
(* the term editor and the grower (both swap in worker threads, on the World  *)
(* that was mounted when they began), and the command line. A step is one     *)
(* change on disk. Most of them log their failure and go on: the operation is *)
(* reported as done, and its job keeps which steps missed. A World's          *)
(* approvals are one bit here: the files they are kept in are those of        *)
(* CompiledKB.                                                                *)
(***************************************************************************)
EXTENDS Integers, Sequences, FiniteSets

CONSTANTS Worlds, NoWorld,
          Hinting,      \* the Worlds whose bundle has a model.json
          Actors,       \* among "portal", "edit", "grow" and "cli"
          MaxJobs, MaxVersion,
          Brought,      \* the versions a bundle outside the catalog may have
          Together,     \* how many operations are under way at once
          Chained,      \* whether one begins beside one that was overlapped before
          MaxFaults     \* how many crashes, failures and mounts that approve nothing

ASSUME WorldsAssumption == NoWorld \notin Worlds /\ Hinting \subseteq Worlds
ASSUME BoundsAssumption == MaxJobs \in Nat /\ MaxFaults \in Nat /\ MaxVersion \in Nat \ {0}
                           /\ Brought \subseteq 1..MaxVersion

VARIABLES catalog,    \* the version of each World's bundle in WORLDS_DIR
          copy,       \* .staging-<slug>: whose copy it is, and of what version
          staged,     \* world-<slug>: the version staged
          aside,      \* .old-<slug>: the version put aside
          mounted,    \* the mount record
          caps, hint, \* the World of each sidecar
          approved,   \* the Worlds whose term pages are approved
          goal,       \* the World of the current goal
          job,        \* what each actor is doing
          begun, faults,
          settled     \* the last operation, when it ended well and nothing overlapped it

dirs == <<catalog, copy, staged, aside>>
sidecars == <<caps, hint>>
kb == <<approved, goal>>
bounds == <<begun, faults>>
vars == <<dirs, mounted, sidecars, kb, job, bounds, settled>>

Absent == -1
Partial == 0     \* a directory without all of its files
Versions == {Absent} \cup 1..MaxVersion
Free == "free"   \* a goal set with no World mounted
NoGoal == "none"

Bind == <<"verify", "copy", "aside", "live", "sweep", "record", "approve", "goal",
          "prune", "caps", "hint">>
Rebind == <<"reseal", "verify", "copy", "aside", "live", "sweep", "record", "approve", "goal",
            "prune", "caps", "hint">>
Unbind == <<"unrecord", "uncaps", "unhint", "goal">>
Script == [mount   |-> Bind,
           bring   |-> <<"verify", "copy", "aside", "live", "sweep", "record", "approve", "goal",
                         "adopt", "prune", "caps", "hint">>,   \* a bundle outside the catalog
           swap    |-> Bind,
           reswap  |-> Rebind,   \* a term edit, a growth pass, a re-forge
           found   |-> Rebind,   \* a World forged into an empty lab
           unmount |-> Unbind,
           delete  |-> <<"unrecord", "uncaps", "unhint", "goal", "unstage", "prune", "discard">>,
           discard |-> <<"discard">>]
Mounts == {"mount", "bring", "found"}
Swaps == {"swap", "reswap"}
\* The steps whose failure is logged, or that may have nothing to do.
Forgiven == {"sweep", "approve", "goal", "adopt", "prune", "caps", "hint",
             "unrecord", "uncaps", "unhint", "unstage"}

Idle == [op |-> "none", world |-> NoWorld, at |-> 1, version |-> Absent,
         had |-> FALSE, alone |-> TRUE, missed |-> {}]
Jobs == [op : DOMAIN Script \cup {"none"}, world : Worlds \cup {NoWorld}, at : 1..13,
         version : Versions, had : BOOLEAN, alone : BOOLEAN,
         missed : SUBSET Forgiven]
NoCopy == [by |-> "nobody", version |-> Absent]
Unmounted == [world |-> NoWorld, version |-> Absent]

TypeOK ==
    /\ catalog \in [Worlds -> Versions]
    /\ copy \in [Worlds -> [by : Actors \cup {"nobody"}, version : Absent..MaxVersion]]
    /\ staged \in [Worlds -> Absent..MaxVersion] /\ aside \in [Worlds -> Absent..MaxVersion]
    /\ mounted \in [world : Worlds \cup {NoWorld}, version : Versions]
    /\ caps \in Worlds \cup {NoWorld} /\ hint \in Worlds \cup {NoWorld}
    /\ approved \in SUBSET Worlds
    /\ goal \in Worlds \cup {Free, NoGoal}
    /\ job \in [Actors -> Jobs] /\ settled \in Jobs
    /\ begun \in 0..MaxJobs /\ faults \in 0..MaxFaults

\* A lab with no World, or one whose World was mounted and left alone.
Init ==
    \E m \in Worlds \cup {NoWorld} :
        /\ catalog = [w \in Worlds |-> 1]
        /\ copy = [w \in Worlds |-> NoCopy]
        /\ staged = [w \in Worlds |-> IF w = m THEN 1 ELSE Absent]
        /\ aside = [w \in Worlds |-> Absent]
        /\ mounted = IF m = NoWorld THEN Unmounted ELSE [world |-> m, version |-> 1]
        /\ caps = m /\ hint = IF m \in Hinting THEN m ELSE NoWorld
        /\ approved = {m} \cap Worlds /\ goal = NoGoal
        /\ job = [x \in Actors |-> Idle]
        /\ begun = 0 /\ faults = 0
        /\ settled = Idle

Busy(x) == job[x].op # "none"
Does(x, step) == LET j == job[x]
                 IN  Busy(x) /\ j.at <= Len(Script[j.op]) /\ Script[j.op][j.at] = step
Go(x, j) == job' = [job EXCEPT ![x] = [j EXCEPT !.at = @ + 1]] /\ UNCHANGED <<bounds, settled>>
Continue(x) == Go(x, job[x])
\* An exception: the operation is over, and what it did stays.
Abandon(x) == job' = [job EXCEPT ![x] = Idle] /\ UNCHANGED <<begun, settled>>
Breaks == faults < MaxFaults /\ faults' = faults + 1
\* A failure that the operation logs and goes on from. Which steps missed is kept of
\* an operation that nothing overlaps.
Misses(x, step) ==
    /\ Breaks
    /\ LET j == job[x]
       IN  job' = [job EXCEPT ![x] =
                     [j EXCEPT !.at = @ + 1,
                               !.missed = IF j.alone THEN @ \cup {step} ELSE {}]]
    /\ UNCHANGED <<begun, settled>>

-----------------------------------------------------------------------------
(* Operations begin *)

Begin(x, op, w) ==
    /\ x \in Actors /\ ~Busy(x) /\ begun < MaxJobs
    /\ Cardinality({y \in Actors : Busy(y)}) < Together
    /\ Chained \/ \A y \in Actors : Busy(y) => job[y].alone
    /\ begun' = begun + 1
    /\ job' = [y \in Actors |->
                 IF y = x THEN [op |-> op, world |-> w, at |-> 1, version |-> Absent,
                                had |-> FALSE, alone |-> \A z \in Actors : ~Busy(z), missed |-> {}]
                 ELSE [job[y] EXCEPT !.alone = @ /\ ~Busy(y), !.missed = {}]]
    /\ settled' = Idle
    /\ UNCHANGED <<dirs, mounted, sidecars, kb, faults>>

\* Mutant: any World in the catalog may be selected.
SelectAny(w) == catalog[w] # Absent /\ Begin("portal", "mount", w)
\* /api/worlds/select: the first World, or the one that is mounted.
Select(w) ==
    /\ catalog[w] # Absent
    /\ mounted.world \in {NoWorld, w}
    /\ Begin("portal", "mount", w)

\* ... and "default".
Unselect ==
    /\ mounted.world # NoWorld
    /\ Begin("portal", "unmount", mounted.world)

\* /api/worlds/forge/confirm writes a new bundle of w, then mounts or swaps.
Confirm(w) ==
    /\ mounted.world \in {NoWorld, w}
    /\ Begin("portal", IF mounted.world = NoWorld THEN "found" ELSE "reswap", w)

\* DELETE /api/worlds/{slug}
Delete(w) ==
    /\ catalog[w] # Absent
    /\ Begin("portal", IF mounted.world = w THEN "delete" ELSE "discard", w)

\* The term editor (under its lock) and a growth pass (outside it) change the
\* World that is mounted now.
Edit(x) ==
    /\ mounted.world # NoWorld /\ catalog[mounted.world] # Absent
    /\ Begin(x, "reswap", mounted.world)

\* arailctl world mount, swap and unmount know no guard, and a mount may be of a
\* bundle anywhere on disk.
Command(w) ==
    \/ \E op \in {"mount", "bring", "swap"} : Begin("cli", op, w)
    \/ mounted.world = w /\ Begin("cli", "unmount", w)

\* A goal belongs to the World the record names when it is set.
SetGoal ==
    /\ "portal" \in Actors /\ ~Busy("portal") /\ goal = NoGoal
    /\ goal' = IF mounted.world = NoWorld THEN Free ELSE mounted.world
    /\ UNCHANGED <<dirs, mounted, sidecars, approved, job, bounds, settled>>

-----------------------------------------------------------------------------
(* mount and swap *)

\* A new sealed bundle takes the place of the old one; a reseal needs the old one,
\* the forge does not.
Reseal(x) ==
    /\ Does(x, "reseal")
    /\ LET w == job[x].world
       IN  \/ /\ catalog[w] < MaxVersion /\ (catalog[w] # Absent \/ x = "portal")
              /\ catalog' = [catalog EXCEPT ![w] = IF @ = Absent THEN 1 ELSE @ + 1]
              /\ Continue(x)
           \/ /\ catalog[w] = MaxVersion \/ (catalog[w] = Absent /\ x # "portal")
              /\ Abandon(x) /\ UNCHANGED <<catalog, faults>>
    /\ UNCHANGED <<copy, staged, aside, mounted, sidecars, kb>>

\* load_bundle, verify_seal and the other checks refuse before anything changes.
Verify(x) ==
    /\ Does(x, "verify")
    /\ \E v \in IF job[x].op = "bring" THEN Brought ELSE {catalog[job[x].world]} :
         IF v = Absent THEN Abandon(x) /\ UNCHANGED faults
                       ELSE Go(x, [job[x] EXCEPT !.version = v])
    /\ UNCHANGED <<dirs, mounted, sidecars, kb>>

\* A leftover copy goes; the files are read again, and in the catalog they may be
\* a later version's.
Copy(x) ==
    /\ Does(x, "copy")
    /\ LET w == job[x].world
       IN  copy' = [copy EXCEPT ![w] =
                      [by |-> x, version |-> IF job[x].op = "bring" THEN job[x].version
                                             ELSE IF catalog[w] = Absent THEN Partial
                                             ELSE catalog[w]]]
    /\ Continue(x)
    /\ UNCHANGED <<catalog, staged, aside, mounted, sidecars, kb>>

PutAside(x) ==
    /\ Does(x, "aside")
    /\ LET w == job[x].world
       IN  /\ aside' = [aside EXCEPT ![w] = staged[w]]
           /\ staged' = [staged EXCEPT ![w] = Absent]
           /\ Go(x, [job[x] EXCEPT !.had = staged[w] # Absent])
    /\ UNCHANGED <<catalog, copy, mounted, sidecars, kb>>

\* The copy goes live; somebody else's may not be complete.
PutLive(x) ==
    /\ Does(x, "live")
    /\ LET w == job[x].world
       IN  /\ copy[w].by # "nobody" /\ staged[w] = Absent
           /\ \E v \in {copy[w].version} \cup (IF copy[w].by = x THEN {} ELSE {Partial}) :
                staged' = [staged EXCEPT ![w] = v]
           /\ copy' = [copy EXCEPT ![w] = NoCopy]
           /\ aside' = IF job[x].had THEN [aside EXCEPT ![w] = Absent] ELSE aside
    /\ Continue(x)
    /\ UNCHANGED <<catalog, mounted, sidecars, kb>>

\* The rename fails, because the copy was taken or another one is live, or by itself:
\* what was put aside comes back.
RenameFails(x) ==
    /\ Does(x, "live")
    /\ LET w == job[x].world
           restores == job[x].had /\ staged[w] = Absent
       IN  /\ \/ (copy[w].by = "nobody" \/ staged[w] # Absent) /\ UNCHANGED faults
              \/ Breaks
           /\ staged' = IF restores THEN [staged EXCEPT ![w] = aside[w]] ELSE staged
           /\ aside' = IF restores THEN [aside EXCEPT ![w] = Absent] ELSE aside
    /\ Abandon(x)
    /\ UNCHANGED <<catalog, copy, mounted, sidecars, kb>>

\* Mutant: the other Worlds' directories stay.
SweepNothing(x) ==
    /\ Does(x, "sweep") /\ Continue(x)
    /\ UNCHANGED <<dirs, mounted, sidecars, kb>>
\* What a removal that fails leaves of a directory.
Left(w) == IF staged[w] = Absent THEN {Absent} ELSE {Absent, Partial, staged[w]}
Sweep(x) ==
    /\ Does(x, "sweep")
    /\ \/ /\ staged' = [w \in Worlds |-> IF w = job[x].world THEN staged[w] ELSE Absent]
          /\ Continue(x)
       \/ /\ \E left \in [Worlds -> Absent..MaxVersion] :
               /\ \A w \in Worlds :
                    left[w] \in IF w = job[x].world THEN {staged[w]} ELSE Left(w)
               /\ staged' = left
          /\ Misses(x, "sweep")
    /\ UNCHANGED <<catalog, copy, aside, mounted, sidecars, kb>>

WriteRecord(x) ==
    /\ Does(x, "record")
    /\ \/ /\ mounted' = [world |-> job[x].world, version |-> job[x].version]
          /\ Continue(x)
       \/ Breaks /\ Abandon(x) /\ UNCHANGED mounted
    /\ UNCHANGED <<dirs, sidecars, kb>>

\* auto_approve_world_terms, when the pages are there. It approves nothing when the
\* operator opted out or has dismissed or revoked every term, or when it fails.
Approve(x) ==
    /\ Does(x, "approve")
    /\ \/ /\ approved' = IF staged[job[x].world] = Absent THEN approved
                         ELSE approved \cup {job[x].world}
          /\ Continue(x)
       \/ Misses(x, "approve") /\ UNCHANGED approved
    /\ UNCHANGED <<dirs, mounted, sidecars, goal>>

\* archive_if_world_mismatch: an unmount keeps the goals of no World.
SwitchGoal(x) ==
    /\ Does(x, "goal")
    /\ LET fits == IF job[x].op \in Mounts \cup Swaps THEN job[x].world ELSE Free
       IN  \/ goal' = (IF goal = fits THEN goal ELSE NoGoal) /\ Continue(x)
           \/ Misses(x, "goal") /\ UNCHANGED goal
    /\ UNCHANGED <<dirs, mounted, sidecars, approved>>

\* A mount of a bundle outside the catalog puts a copy there in the place of the
\* World's own; the last rename may fail when the old one is put aside.
Adopt(x) ==
    /\ Does(x, "adopt")
    /\ LET w == job[x].world
       IN  \/ catalog' = [catalog EXCEPT ![w] = job[x].version] /\ Continue(x)
           \/ /\ \E v \in {Absent, catalog[w]} : catalog' = [catalog EXCEPT ![w] = v]
              /\ Misses(x, "adopt")
    /\ UNCHANGED <<copy, staged, aside, mounted, sidecars, kb>>

\* Mutant: nothing is pruned.
PruneNothing(x) ==
    /\ Does(x, "prune") /\ Continue(x)
    /\ UNCHANGED <<dirs, mounted, sidecars, kb>>
\* Approvals whose files are gone are dropped; a partial directory may have some.
PruneApprovals(x) ==
    /\ Does(x, "prune")
    /\ \/ /\ \E cut \in SUBSET {w \in Worlds : staged[w] = Partial} :
               approved' = {w \in approved \ cut : staged[w] # Absent}
          /\ Continue(x)
       \/ Misses(x, "prune") /\ UNCHANGED approved
    /\ UNCHANGED <<dirs, mounted, sidecars, goal>>

WriteCapabilities(x) ==
    /\ Does(x, "caps")
    /\ \/ caps' = job[x].world /\ Continue(x)
       \/ Misses(x, "caps") /\ UNCHANGED caps
    /\ UNCHANGED <<dirs, mounted, hint, kb>>

\* A World without a model.json writes none; only a swap removes the old one first.
\* The removal or the write may fail.
WriteHint(x) ==
    /\ Does(x, "hint")
    /\ LET w == job[x].world
           there == job[x].op = "bring" \/ catalog[w] # Absent
           kept == IF job[x].op \in Mounts THEN hint ELSE NoWorld
       IN  \/ hint' = (IF w \in Hinting /\ there THEN w ELSE kept) /\ Continue(x)
           \/ hint' \in {hint, kept} /\ Misses(x, "hint")
    /\ UNCHANGED <<dirs, mounted, caps, kb>>

-----------------------------------------------------------------------------
(* unmount and delete *)

\* Mutant: the record is emptied, not removed.
EmptyRecord(x) ==
    /\ Does(x, "unrecord")
    /\ mounted' = [world |-> NoWorld]
    /\ Continue(x)
    /\ UNCHANGED <<dirs, sidecars, kb>>
RemoveRecord(x) ==
    /\ Does(x, "unrecord")
    /\ \/ mounted' = Unmounted /\ Continue(x)
       \/ Misses(x, "unrecord") /\ UNCHANGED mounted
    /\ UNCHANGED <<dirs, sidecars, kb>>

RemoveCapabilities(x) ==
    /\ Does(x, "uncaps")
    /\ \/ caps' = NoWorld /\ Continue(x)
       \/ Misses(x, "uncaps") /\ UNCHANGED caps
    /\ UNCHANGED <<dirs, mounted, hint, kb>>

RemoveHint(x) ==
    /\ Does(x, "unhint")
    /\ \/ hint' = NoWorld /\ Continue(x)
       \/ Misses(x, "unhint") /\ UNCHANGED hint
    /\ UNCHANGED <<dirs, mounted, caps, kb>>

RemoveStaged(x) ==
    /\ Does(x, "unstage")
    /\ LET w == job[x].world
       IN  \/ staged' = [staged EXCEPT ![w] = Absent] /\ Continue(x)
           \/ /\ \E v \in Left(w) : staged' = [staged EXCEPT ![w] = v]
              /\ Misses(x, "unstage")
    /\ UNCHANGED <<catalog, copy, aside, mounted, sidecars, kb>>

Discard(x) ==
    /\ Does(x, "discard")
    /\ catalog' = [catalog EXCEPT ![job[x].world] = Absent]
    /\ Continue(x)
    /\ UNCHANGED <<copy, staged, aside, mounted, sidecars, kb>>

-----------------------------------------------------------------------------
Return(x) ==
    /\ Busy(x) /\ job[x].at > Len(Script[job[x].op])
    /\ settled' = IF job[x].alone THEN job[x] ELSE Idle
    /\ job' = [job EXCEPT ![x] = Idle]
    /\ UNCHANGED <<dirs, mounted, sidecars, kb, bounds>>

\* The portal dies with its threads, or the command line is killed.
Crash(X) ==
    /\ Breaks /\ \E x \in X \cap Actors : Busy(x)
    /\ job' = [x \in Actors |-> IF x \in X THEN Idle ELSE job[x]]
    /\ UNCHANGED <<dirs, mounted, sidecars, kb, begun, settled>>

Step(x) ==
    \/ Reseal(x) \/ Verify(x) \/ Copy(x) \/ PutAside(x) \/ PutLive(x) \/ RenameFails(x)
    \/ Sweep(x) \/ WriteRecord(x) \/ Approve(x) \/ SwitchGoal(x) \/ Adopt(x)
    \/ PruneApprovals(x) \/ WriteCapabilities(x) \/ WriteHint(x)
    \/ RemoveRecord(x) \/ RemoveCapabilities(x) \/ RemoveHint(x) \/ RemoveStaged(x)
    \/ Discard(x) \/ Return(x)

Next ==
    \/ \E w \in Worlds : Select(w) \/ Confirm(w) \/ Delete(w) \/ Command(w)
    \/ Unselect \/ SetGoal
    \/ \E x \in {"edit", "grow"} : Edit(x)
    \/ \E x \in Actors : Busy(x) /\ Step(x)
    \/ Crash({"portal", "edit", "grow"}) \/ Crash({"cli"})

Spec == Init /\ [][Next]_vars

-----------------------------------------------------------------------------
(* Properties *)

\* The model hint the gallery shows is the mounted World's, or a leftover that a
\* mount of a World without a hint does not remove; a swap does.
HintFits ==
    settled.op \in Mounts \cup Swaps =>
      hint = settled.world \/ (settled.world \notin Hinting
                               /\ (settled.op \in Swaps => hint = NoWorld))

\* A mount or a swap that nothing overlapped heals the lab, whatever crashes,
\* failures and races went before: the record names its World and the version
\* that was verified, and that version is staged. Every other part is in order but
\* the one whose own step missed: no other World is staged, its pages are
\* approved, no approval is of a World without files, no goal of another World
\* goes on, the sidecars are its own, and a bundle brought in is in the catalog.
MountHeals ==
    LET w == settled.world
        Did(step) == step \notin settled.missed
    IN  settled.op \in Mounts \cup Swaps =>
          /\ mounted = [world |-> w, version |-> settled.version]
          /\ staged[w] = settled.version
          /\ Did("sweep") => \A u \in Worlds \ {w} : staged[u] = Absent
          /\ Did("approve") => w \in approved
          /\ Did("prune") => \A u \in approved : staged[u] # Absent
          /\ Did("goal") => goal \in {NoGoal, w}
          /\ Did("caps") => caps = w
          /\ Did("hint") => HintFits
          /\ settled.op = "bring" /\ Did("adopt") => catalog[w] = settled.version

\* An unmount or a deletion that nothing overlapped leaves no World, but for the
\* removals that missed: no record, no sidecar, no goal of a World (one may be set
\* again while the record stays); a deleted World is out of the catalog and has no
\* file and, its files gone, no approval.
UnmountClears ==
    LET w == settled.world
        Did(step) == step \notin settled.missed
    IN  settled.op \in {"unmount", "delete"} =>
          /\ Did("unrecord") => mounted = Unmounted
          /\ Did("uncaps") => caps = NoWorld
          /\ Did("unhint") => hint = NoWorld
          /\ Did("unrecord") /\ Did("goal") => goal \in {NoGoal, Free}
          /\ settled.op = "delete" =>
               /\ catalog[w] = Absent
               /\ Did("unstage") => staged[w] = Absent
               /\ Did("unstage") /\ Did("prune") => w \notin approved

\* "Mounting a different World over one already mounted is refused" (app.py:3730):
\* the portal changes from one World to another in one step only when the guard's
\* answer had gone stale, another operation having come between.
SwitchNeedsARace ==
    [][mounted.world # NoWorld /\ mounted'.world \notin {NoWorld, mounted.world} =>
         \E x \in Actors : Does(x, "record") /\ (x = "cli" \/ ~job[x].alone)]_vars

\* swap (world_mount.py:1657): "Old world stays on failure." So between operations
\* the World the record names is staged.
OldWorldStays ==
    (\A x \in Actors : ~Busy(x)) /\ mounted.world # NoWorld => staged[mounted.world] # Absent
===============================================================================
