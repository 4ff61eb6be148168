------------------------------ MODULE CompiledKB ------------------------------
(***************************************************************************)
(* The human-approved layer of the knowledge base, src/arail/compiled_kb.py:  *)
(* approved.json, rejected.json and unapproved.json, each read whole, changed *)
(* in memory and replaced whole, with nothing that keeps two writers apart.   *)
(*                                                                         *)
(* Three actors use them: the portal's review handlers (they run on the event *)
(* loop, one at a time), a mount or swap (in a worker thread of the portal,   *)
(* when a term is edited), and the command line. A step reads a file, begins  *)
(* to write its temporary copy, whose name all writers share, or renames it.  *)
(* A file that cannot be read or parsed reads as empty: a cut one is modelled *)
(* as an empty one. Terms are the staged pages of one World, Notes all other  *)
(* candidates.                                                             *)
(***************************************************************************)
EXTENDS FiniteSets, Naturals, Sequences

CONSTANTS Terms, Notes,
          MaxJobs,     \* how many operations begin
          Together,    \* how many of them are under way at once
          MaxCrashes,
          MaxFaults    \* how many readings and writes fail

ASSUME BoundsAssumption == MaxJobs \in Nat /\ MaxCrashes \in Nat /\ MaxFaults \in Nat

Paths == Terms \cup Notes
Actors == {"portal", "mount", "cli"}

VARIABLES approved,    \* approved.json: who approved each path, or "nobody"
          rejected, unapproved,
          files,       \* the raw files on disk
          job,         \* what each actor is doing
          begun, crashes, faults,
          verdict,     \* the last thing the operator was told about a path
          firm         \* the paths whose verdict nothing overlapped, and whose file no
                       \* failed reading or torn copy has emptied since

disk == <<approved, rejected, unapproved, files>>
history == <<verdict, firm>>
vars == <<disk, job, begun, crashes, faults, history>>

\* The accesses of each operation, in the order of the code.
Admit == <<"readA", "readR", "readU", "saveA", "saveR", "saveU">>
Script ==
    [approve   |-> Admit,
     reject    |-> <<"readR", "saveR">>,
     revoke    |-> <<"readA", "readU", "saveA", "saveU">>,
     bootstrap |-> <<"readR", "readU", "pick",
                     "readA", "readR", "readU", "saveA", "saveR", "saveU">>,
     mount     |-> <<"readR", "readU", "pick",
                     "readA", "readR", "readU", "saveA", "saveR", "saveU",
                     "readA", "drop">>,
     prune     |-> <<"readA", "drop">>,
     rollback  |-> <<"readA", "pickAuto", "readA", "readU", "saveA">>]

Nothing == [p \in Paths |-> "nobody"]
Idle == [op |-> "none", paths |-> {}, at |-> 1, alone |-> TRUE, tmp |-> "no",
         a |-> Nothing, r |-> {}, u |-> {}, hit |-> {}]

\* The temporary copy a job is writing: not begun, its own, written by another as
\* well, or renamed away by the other.
Copies == {"no", "own", "shared", "gone"}

Jobs == [op : DOMAIN Script \cup {"none"}, paths : SUBSET Paths, at : Nat,
         alone : BOOLEAN, tmp : Copies, a : [Paths -> {"nobody", "operator", "auto"}],
         r : SUBSET Paths, u : SUBSET Paths, hit : SUBSET Paths]

TypeOK ==
    /\ approved \in [Paths -> {"nobody", "operator", "auto"}]
    /\ rejected \in SUBSET Paths /\ unapproved \in SUBSET Paths
    /\ files \in SUBSET Paths
    /\ job \in [Actors -> Jobs]
    /\ begun \in 0..MaxJobs /\ crashes \in 0..MaxCrashes /\ faults \in 0..MaxFaults
    /\ verdict \in [Paths -> {"none", "approve", "reject", "revoke"}]
    /\ firm \in SUBSET Paths

Init ==
    /\ approved = Nothing /\ rejected = {} /\ unapproved = {}
    /\ files = Paths
    /\ job = [x \in Actors |-> Idle]
    /\ begun = 0 /\ crashes = 0 /\ faults = 0
    /\ verdict = [p \in Paths |-> "none"] /\ firm = {}

Busy(x) == job[x].op # "none"
Access(x) == LET j == job[x]
             IN  IF ~Busy(x) \/ j.at > Len(Script[j.op]) THEN "over" ELSE Script[j.op][j.at]

\* x goes on with j, from the next access.
Continue(x, j) == job' = [job EXCEPT ![x] = [j EXCEPT !.at = @ + 1]]
Kept == UNCHANGED <<files, begun, crashes, verdict>>

\* The file each save replaces, and what the operator was told on its strength.
Target == [saveA |-> "A", drop |-> "A", saveR |-> "R", saveU |-> "U"]
Said(f) == {p \in firm : verdict[p] = [A |-> "approve", R |-> "reject", U |-> "revoke"][f]}

-----------------------------------------------------------------------------
(* An operation begins *)

Begin(x, op, P) ==
    /\ ~Busy(x) /\ begun < MaxJobs
    /\ Cardinality({y \in Actors : Busy(y)}) < Together
    /\ begun' = begun + 1
    /\ job' = [y \in Actors |->
                 IF y = x THEN [Idle EXCEPT !.op = op, !.paths = P,
                                            !.alone = \A z \in Actors : ~Busy(z)]
                 ELSE [job[y] EXCEPT !.alone = @ /\ ~Busy(y)]]
    /\ UNCHANGED <<approved, rejected, unapproved, crashes, faults>>

\* /api/pkb/promote, /reject and /revoke; what was said of the paths before no
\* longer counts.
Review(op, P) ==
    /\ Begin("portal", op, P)
    /\ firm' = firm \ P
    /\ verdict' = [p \in Paths |-> IF p \in P THEN "none" ELSE verdict[p]]
    /\ UNCHANGED files

\* A mount or a swap stages the pages T, sweeps the others, then approves and
\* prunes. T = {}: another World, whose own pages are not looked at.
Mount(T) ==
    /\ Begin("mount", "mount", T)
    /\ files' = (files \ Terms) \cup T
    /\ firm' = firm \ {p \in Terms \ T : verdict[p] = "approve"}
    /\ UNCHANGED verdict

\* arailctl pkb bootstrap: the catalog's terms when the World is staged, else none.
Bootstrap ==
    /\ IF files \cap Terms # {} THEN Begin("cli", "bootstrap", Terms)
                                ELSE Begin("cli", "approve", {})
    /\ UNCHANGED <<files, history>>

Prune ==
    /\ Begin("cli", "prune", {})
    /\ UNCHANGED <<files, history>>

\* arailctl pkb revoke --auto.
Rollback ==
    /\ Begin("cli", "rollback", {})
    /\ firm' = {p \in firm : verdict[p] # "approve"}
    /\ UNCHANGED <<files, verdict>>

-----------------------------------------------------------------------------
(* Its accesses *)

\* _load_json answers a failed reading with nothing, and the operation goes on.
Reads(x, f, copy, nothing) ==
    /\ UNCHANGED <<approved, rejected, unapproved>> /\ Kept
    /\ \/ Continue(x, copy) /\ UNCHANGED <<faults, firm>>
       \/ /\ faults < MaxFaults /\ faults' = faults + 1
          /\ Continue(x, nothing)
          /\ firm' = firm \ Said(f)

ReadApproved(x) ==
    /\ Access(x) = "readA"
    /\ Reads(x, "A", [job[x] EXCEPT !.a = approved], [job[x] EXCEPT !.a = Nothing])

ReadRejected(x) ==
    /\ Access(x) = "readR"
    /\ Reads(x, "R", [job[x] EXCEPT !.r = rejected], [job[x] EXCEPT !.r = {}])

ReadUnapproved(x) ==
    /\ Access(x) = "readU"
    /\ Reads(x, "U", [job[x] EXCEPT !.u = unapproved], [job[x] EXCEPT !.u = {}])

\* Mutants: the revoked terms are not left out; nor the dismissed ones.
CandidatesRevokedToo(j) == (j.paths \cap files) \ j.r
CandidatesRejectedToo(j) == (j.paths \cap files) \ j.u
\* auto_approve_world_terms: neither dismissed nor revoked, and staged.
Candidates(j) == (j.paths \cap files) \ (j.r \cup j.u)

\* With no candidate approve is not called; a mount still prunes.
Pick(x) ==
    /\ Access(x) = "pick"
    /\ LET C == Candidates(job[x])
       IN  Continue(x, [job[x] EXCEPT !.paths = C,
                                      !.at = IF C = {} THEN @ + Len(Admit) ELSE @])
    /\ UNCHANGED <<approved, rejected, unapproved, faults, firm>> /\ Kept

PickAuto(x) ==
    /\ Access(x) = "pickAuto"
    /\ Continue(x, [job[x] EXCEPT !.paths = {p \in Paths : job[x].a[p] = "auto"}])
    /\ UNCHANGED <<approved, rejected, unapproved, faults, firm>> /\ Kept

\* Those who are writing the temporary copy x writes, or is about to.
Sharers(x) == {y \in Actors \ {x} : job[y].tmp # "no" /\ Target[Access(y)] = Target[Access(x)]}

\* _save_json: x opens the copy to write what j holds, emptying what another has in it.
Opens(x, j) ==
    /\ job[x].tmp = "no"
    /\ job' = [y \in Actors |->
                 IF y = x THEN [j EXCEPT !.tmp = IF Sharers(x) = {} THEN "own" ELSE "shared"]
                 ELSE IF y \in Sharers(x) THEN [job[y] EXCEPT !.tmp = "shared"]
                 ELSE job[y]]
    /\ UNCHANGED <<approved, rejected, unapproved, faults, firm>> /\ Kept

\* Or there is nothing to save.
Skips(x) ==
    /\ job[x].tmp = "no"
    /\ Continue(x, job[x])
    /\ UNCHANGED <<approved, rejected, unapproved, faults, firm>> /\ Kept

Admits(op) == op \in {"approve", "bootstrap", "mount"}

\* approve adds what has a file; revoke takes out what it finds.
SaveApproved(x) ==
    /\ Access(x) = "saveA"
    /\ LET j == job[x]
           hit == IF Admits(j.op) THEN j.paths \cap files
                  ELSE {p \in j.paths : j.a[p] # "nobody"}
           new == IF ~Admits(j.op) THEN "nobody"
                  ELSE IF j.op = "approve" THEN "operator" ELSE "auto"
       IN  Opens(x, [j EXCEPT !.hit = hit,
                              !.a = [p \in Paths |-> IF p \in hit THEN new ELSE j.a[p]]])

SaveRejected(x) ==
    /\ Access(x) = "saveR"
    /\ LET j == job[x]
       IN  Opens(x, [j EXCEPT !.r = IF j.op = "reject" THEN j.r \cup j.paths ELSE j.r \ j.hit])

\* Written only when something was added or taken out; a revoke then marks every
\* path it was given.
Remember(j) == IF Admits(j.op) THEN j.u \ j.hit ELSE j.u \cup j.paths

SaveUnapproved(x) ==
    /\ Access(x) = "saveU"
    /\ IF job[x].hit = {} THEN Skips(x)
       ELSE Opens(x, [job[x] EXCEPT !.u = Remember(job[x])])

\* Mutant: prune keeps the World's terms only.
DanglingOrNote(j) == {p \in Paths : j.a[p] # "nobody" /\ (p \notin files \/ p \in Notes)}
Dangling(j) == {p \in Paths : j.a[p] # "nobody" /\ p \notin files}

\* prune_dangling leaves the manifest alone when nothing dangles.
DropDangling(x) ==
    /\ Access(x) = "drop"
    /\ LET j == job[x]
           D == Dangling(j)
       IN  IF D = {} THEN Skips(x)
           ELSE Opens(x, [j EXCEPT !.a = [p \in Paths |-> IF p \in D THEN "nobody" ELSE j.a[p]]])

\* The file f becomes what j holds of it.
Publish(f, j) ==
    /\ approved' = IF f = "A" THEN j.a ELSE approved
    /\ rejected' = IF f = "R" THEN j.r ELSE rejected
    /\ unapproved' = IF f = "U" THEN j.u ELSE unapproved

\* The rename. A copy that another writes as well may be the other's, or cut, or the
\* two on top of each other; the other will find it gone.
Rename(x) ==
    /\ job[x].tmp \in {"own", "shared"}
    /\ LET f == Target[Access(x)]
       IN  \/ Publish(f, job[x]) /\ UNCHANGED firm
           \/ /\ job[x].tmp = "shared"
              /\ \/ \E y \in Sharers(x) : Publish(f, job[y]) /\ UNCHANGED firm
                 \/ Publish(f, Idle) /\ firm' = firm \ Said(f)
    /\ job' = [y \in Actors |->
                 IF y = x THEN [job[x] EXCEPT !.tmp = "no", !.at = @ + 1]
                 ELSE IF y \in Sharers(x) THEN [job[y] EXCEPT !.tmp = "gone"]
                 ELSE job[y]]
    /\ UNCHANGED faults /\ Kept

\* An operation that raises ends; a mount swallows it and goes on to its prune.
Raises(x) ==
    job' = [job EXCEPT ![x] = IF @.op = "mount" /\ @.at <= 9
                              THEN [@ EXCEPT !.tmp = "no", !.at = 10] ELSE Idle]

\* The copy is gone: what x wrote, or still had to write, is in the file by now.
RenameFails(x) ==
    /\ job[x].tmp = "gone"
    /\ Publish(Target[Access(x)], job[x]) \/ UNCHANGED <<approved, rejected, unapproved>>
    /\ Raises(x)
    /\ UNCHANGED <<faults, firm>> /\ Kept

\* The copy cannot be written (a full disk).
SaveFails(x) ==
    /\ job[x].tmp # "no"
    /\ faults < MaxFaults /\ faults' = faults + 1
    /\ Raises(x)
    /\ UNCHANGED <<approved, rejected, unapproved, firm>> /\ Kept

\* What a review that returns tells the operator about: an approval of the paths it
\* added, a revocation if it took anything out.
Told(x) ==
    {p \in job[x].paths :
        /\ x = "portal"
        /\ job[x].op = "approve" => p \in job[x].hit
        /\ job[x].op = "revoke" => job[x].hit # {}}

Return(x) ==
    /\ Busy(x) /\ Access(x) = "over"
    /\ job' = [job EXCEPT ![x] = Idle]
    /\ verdict' = [p \in Paths |-> IF p \in Told(x) THEN job[x].op ELSE verdict[p]]
    /\ firm' = IF job[x].alone THEN firm \cup Told(x) ELSE firm
    /\ UNCHANGED <<disk, begun, crashes, faults>>

\* The portal dies with its worker threads; or the command line is killed.
Crash(X) ==
    /\ crashes < MaxCrashes /\ \E x \in X : Busy(x)
    /\ crashes' = crashes + 1
    /\ job' = [x \in Actors |-> IF x \in X THEN Idle ELSE job[x]]
    /\ UNCHANGED <<disk, begun, faults, history>>

-----------------------------------------------------------------------------
Step(x) ==
    \/ ReadApproved(x) \/ ReadRejected(x) \/ ReadUnapproved(x)
    \/ Pick(x) \/ PickAuto(x)
    \/ SaveApproved(x) \/ SaveRejected(x) \/ SaveUnapproved(x) \/ DropDangling(x)
    \/ Rename(x) \/ RenameFails(x) \/ SaveFails(x)
    \/ Return(x)

Next ==
    \/ \E P \in SUBSET Paths \ {{}}, op \in {"approve", "reject", "revoke"} : Review(op, P)
    \/ \E T \in {{}, Terms} : Mount(T)
    \/ Bootstrap \/ Prune \/ Rollback
    \/ \E x \in Actors : Busy(x) /\ Step(x)
    \/ Crash({"portal", "mount"}) \/ Crash({"cli"})

Spec == Init /\ [][Next]_vars

-----------------------------------------------------------------------------
(* Properties *)

\* A revocation that no other operation overlapped holds until the operator speaks
\* of the path again: whatever mounts, bootstraps, rollbacks and prunes come
\* later, however they race, raise and crash, none brings the term back into what
\* agents read ("so a later World mount does not silently re-approve it",
\* compiled_kb.py:597). Two things undo it, and firm leaves them out: a reading of
\* unapproved.json that fails, which counts as nothing revoked, and a copy of that
\* file that two writers at once have torn. Trouble with the other two files does not.
RevocationHolds ==
    \A p \in firm : verdict[p] = "revoke" => p \in unapproved /\ approved[p] = "nobody"

\* In the same sense, and while no reading of rejected.json fails and no torn copy of
\* it is published, a dismissal stays, and no mount approves over it.
DismissalHolds == \A p \in firm : verdict[p] = "reject" => p \in rejected

\* An approval stays while the file does and nobody rolls the automatic ones back:
\* later writers, racing or cut short, do not lose it, a failed reading or a torn
\* copy of approved.json apart.
ApprovalHolds == \A p \in firm : verdict[p] = "approve" => approved[p] # "nobody"

\* approve (compiled_kb.py:468): an automatic approval is "distinguishable and
\* separately revocable from an operator's own click". So a rollback that nothing
\* overlaps takes back no path the operator approved and never revoked.
RollbackSparesClicks ==
    [][\A p \in Paths :
         job["cli"].op = "rollback" /\ job["cli"].alone /\ verdict[p] = "approve"
           /\ approved[p] # "nobody" => approved'[p] # "nobody"]_vars
===============================================================================
