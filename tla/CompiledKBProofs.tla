-------------------------- MODULE CompiledKBProofs --------------------------
(***************************************************************************)
(* Proofs about CompiledKB, for any terms and notes and any number of        *)
(* operations and crashes.                                                  *)
(***************************************************************************)
EXTENDS CompiledKB, TLAPS

Approvers == {"nobody", "operator", "auto"}
Operations == {"approve", "reject", "revoke", "bootstrap", "mount", "prune", "rollback"}

LEMMA ScriptsAreNamed == DOMAIN Script = Operations
  BY DEF Script, Operations

LEMMA IdleIsAJob == Idle \in Jobs
  BY DEF Idle, Jobs, Nothing, Copies

\* The fields of a job, with those that the copy does not touch.
SameWork(k, j) ==
    /\ k.op = j.op /\ k.paths = j.paths /\ k.at = j.at /\ k.alone = j.alone
    /\ k.a = j.a /\ k.r = j.r /\ k.u = j.u /\ k.hit = j.hit

\* n is m, one access further.
Advanced(n, m) ==
    /\ n.op = m.op /\ n.paths = m.paths /\ n.alone = m.alone
    /\ n.a = m.a /\ n.r = m.r /\ n.u = m.u /\ n.hit = m.hit
    /\ n.at = m.at + 1

\* The others keep their work; whether they write a copy does not change either.
OthersWork(x) ==
    \A y \in Actors \ {x} : /\ SameWork(job'[y], job[y])
                            /\ job'[y].tmp = "no" <=> job[y].tmp = "no"

LEMMA ContinuesAs ==
    ASSUME TypeOK, NEW x \in Actors, NEW m \in Jobs, Continue(x, m)
    PROVE  /\ job' \in [Actors -> Jobs] /\ OthersWork(x)
           /\ \A y \in Actors \ {x} : job'[y] = job[y]
           /\ \E n \in Jobs : job'[x] = n /\ Advanced(n, m) /\ n.tmp = m.tmp
<1> DEFINE n == [m EXCEPT !.at = @ + 1]
<1>1. n \in Jobs /\ Advanced(n, m) /\ n.tmp = m.tmp
  BY DEF Jobs, Advanced
<1>2. job' = [job EXCEPT ![x] = n]
  BY DEF Continue
<1> HIDE DEF n
<1>3. job' \in [Actors -> Jobs] /\ job'[x] = n /\ \A y \in Actors \ {x} : job'[y] = job[y]
  BY <1>1, <1>2 DEF TypeOK
<1>4. QED
  BY <1>1, <1>3 DEF OthersWork, SameWork

LEMMA OpensAs ==
    ASSUME TypeOK, NEW x \in Actors, NEW j \in Jobs, Opens(x, j)
    PROVE  /\ job' \in [Actors -> Jobs] /\ OthersWork(x)
           /\ \E n \in Jobs : /\ job'[x] = n /\ SameWork(n, j) /\ n.tmp \in {"own", "shared"}
                              /\ Sharers(x) = {} => n.tmp = "own"
<1> DEFINE n == [j EXCEPT !.tmp = IF Sharers(x) = {} THEN "own" ELSE "shared"]
<1>1. /\ n \in Jobs /\ SameWork(n, j) /\ n.tmp \in {"own", "shared"}
      /\ Sharers(x) = {} => n.tmp = "own"
  BY DEF Jobs, Copies, SameWork
<1>2. job' = [y \in Actors |-> IF y = x THEN n
                               ELSE IF y \in Sharers(x) THEN [job[y] EXCEPT !.tmp = "shared"]
                               ELSE job[y]]
  BY DEF Opens
<1> HIDE DEF n
<1>3. ASSUME NEW y \in Actors, y # x
      PROVE  /\ job'[y] \in Jobs /\ SameWork(job'[y], job[y])
             /\ job'[y].tmp = "no" <=> job[y].tmp = "no"
  <2>1. job[y] \in Jobs
    BY DEF TypeOK
  <2>2. CASE y \in Sharers(x)
    <3>1. job'[y] = [job[y] EXCEPT !.tmp = "shared"] /\ job[y].tmp # "no"
      BY <1>2, <1>3, <2>2 DEF Sharers
    <3>2. QED
      BY <2>1, <3>1 DEF Jobs, Copies, SameWork
  <2>3. CASE y \notin Sharers(x)
    <3>1. job'[y] = job[y]
      BY <1>2, <1>3, <2>3
    <3>2. QED
      BY <2>1, <3>1 DEF SameWork
  <2>4. QED
    BY <2>2, <2>3
<1>4. job'[x] = n /\ job' \in [Actors -> Jobs]
  <2>1. \A y \in Actors : job'[y] \in Jobs
    BY <1>1, <1>2, <1>3
  <2>2. QED
    BY <1>2, <2>1
<1>5. QED
  BY <1>1, <1>3, <1>4 DEF OthersWork

LEMMA RenamesAs ==
    ASSUME TypeOK, NEW x \in Actors, Rename(x)
    PROVE  /\ job' \in [Actors -> Jobs] /\ OthersWork(x)
           /\ \E n \in Jobs : job'[x] = n /\ Advanced(n, job[x]) /\ n.tmp = "no"
<1> DEFINE n == [job[x] EXCEPT !.tmp = "no", !.at = @ + 1]
<1>1. job[x] \in Jobs
  BY DEF TypeOK
<1>2. n \in Jobs /\ Advanced(n, job[x]) /\ n.tmp = "no"
  <2>1. job[x].at + 1 \in Nat
    BY <1>1 DEF Jobs
  <2>2. n \in Jobs
    BY <1>1, <2>1 DEF Jobs, Copies
  <2>3. n.tmp = "no" /\ n.at = job[x].at + 1
    BY <1>1 DEF Jobs
  <2>4. n.op = job[x].op /\ n.paths = job[x].paths /\ n.alone = job[x].alone
        /\ n.a = job[x].a /\ n.r = job[x].r /\ n.u = job[x].u /\ n.hit = job[x].hit
    BY <1>1 DEF Jobs
  <2> HIDE DEF n
  <2>5. QED
    BY <2>2, <2>3, <2>4 DEF Advanced
<1>3. job' = [y \in Actors |-> IF y = x THEN n
                               ELSE IF y \in Sharers(x) THEN [job[y] EXCEPT !.tmp = "gone"]
                               ELSE job[y]]
  BY DEF Rename
<1> HIDE DEF n
<1>4. ASSUME NEW y \in Actors, y # x
      PROVE  /\ job'[y] \in Jobs /\ SameWork(job'[y], job[y])
             /\ job'[y].tmp = "no" <=> job[y].tmp = "no"
  <2>1. job[y] \in Jobs
    BY DEF TypeOK
  <2>2. CASE y \in Sharers(x)
    <3>1. job'[y] = [job[y] EXCEPT !.tmp = "gone"] /\ job[y].tmp # "no"
      BY <1>3, <1>4, <2>2 DEF Sharers
    <3>2. QED
      BY <2>1, <3>1 DEF Jobs, Copies, SameWork
  <2>3. CASE y \notin Sharers(x)
    <3>1. job'[y] = job[y]
      BY <1>3, <1>4, <2>3
    <3>2. QED
      BY <2>1, <3>1 DEF SameWork
  <2>4. QED
    BY <2>2, <2>3
<1>5. job'[x] = n /\ job' \in [Actors -> Jobs]
  <2>1. \A y \in Actors : job'[y] \in Jobs
    BY <1>2, <1>3, <1>4
  <2>2. QED
    BY <1>3, <2>1
<1>6. QED
  BY <1>2, <1>4, <1>5 DEF OthersWork

LEMMA RaisesAs ==
    ASSUME TypeOK, NEW x \in Actors, Raises(x)
    PROVE  /\ job' \in [Actors -> Jobs] /\ OthersWork(x)
           /\ \/ job'[x] = Idle
              \/ /\ job[x].op = "mount" /\ job[x].at <= 9
                 /\ \E n \in Jobs : /\ job'[x] = n /\ n.op = "mount" /\ n.at = 10 /\ n.tmp = "no"
                                    /\ n.paths = job[x].paths /\ n.alone = job[x].alone
                                    /\ n.r = job[x].r /\ n.u = job[x].u /\ n.hit = job[x].hit
<1>1. job[x] \in Jobs
  BY DEF TypeOK
<1>2. CASE job[x].op = "mount" /\ job[x].at <= 9
  <2> DEFINE n == [job[x] EXCEPT !.tmp = "no", !.at = 10]
  <2>1. /\ n \in Jobs /\ n.op = "mount" /\ n.at = 10 /\ n.tmp = "no"
        /\ n.paths = job[x].paths /\ n.alone = job[x].alone
        /\ n.r = job[x].r /\ n.u = job[x].u /\ n.hit = job[x].hit
    BY <1>1, <1>2 DEF Jobs, Copies
  <2>2. job' = [job EXCEPT ![x] = n]
    BY <1>2 DEF Raises
  <2> HIDE DEF n
  <2>3. job' \in [Actors -> Jobs] /\ job'[x] = n /\ \A y \in Actors \ {x} : job'[y] = job[y]
    BY <2>1, <2>2 DEF TypeOK
  <2>4. QED
    BY <1>2, <2>1, <2>3 DEF OthersWork, SameWork
<1>3. CASE ~(job[x].op = "mount" /\ job[x].at <= 9)
  <2>1. job' = [job EXCEPT ![x] = Idle]
    BY <1>3 DEF Raises
  <2>2. job' \in [Actors -> Jobs] /\ job'[x] = Idle /\ \A y \in Actors \ {x} : job'[y] = job[y]
    BY <2>1, IdleIsAJob DEF TypeOK
  <2>3. QED
    BY <2>2 DEF OthersWork, SameWork
<1>4. QED
  BY <1>2, <1>3

LEMMA PublishType ==
    ASSUME TypeOK, NEW f, NEW j \in Jobs, Publish(f, j)
    PROVE  /\ approved' \in [Paths -> Approvers]
           /\ rejected' \in SUBSET Paths /\ unapproved' \in SUBSET Paths
  BY DEF Publish, TypeOK, Jobs, Approvers

\* A new job starts with empty hands; the others only learn that they are not alone.
LEMMA Begins ==
    ASSUME TypeOK, NEW x \in Actors, NEW op \in Operations, NEW P \in SUBSET Paths, Begin(x, op, P)
    PROVE  /\ job' \in [Actors -> Jobs] /\ begun' \in 0..MaxJobs
           /\ UNCHANGED <<approved, rejected, unapproved, crashes, faults>>
<1>1. \A alone \in BOOLEAN : [Idle EXCEPT !.op = op, !.paths = P, !.alone = alone] \in Jobs
  BY ScriptsAreNamed DEF Idle, Jobs, Nothing, Copies
<1>2. ASSUME NEW y \in Actors PROVE [job[y] EXCEPT !.alone = @ /\ ~Busy(y)] \in Jobs
  <2>1. job[y] \in Jobs
    BY DEF TypeOK
  <2>2. (job[y].alone /\ ~Busy(y)) \in BOOLEAN
    OBVIOUS
  <2>3. QED
    BY <2>1, <2>2 DEF Jobs
<1>3. begun' \in 0..MaxJobs
  <2>1. begun \in 0..MaxJobs /\ begun < MaxJobs /\ begun' = begun + 1
    BY DEF TypeOK, Begin
  <2>2. QED
    BY <2>1, BoundsAssumption DEF BoundsAssumption
<1>4. (\A z \in Actors : ~Busy(z)) \in BOOLEAN
  OBVIOUS
<1>5. job' \in [Actors -> Jobs]
  BY <1>1, <1>2, <1>4 DEF Begin
<1>6. QED
  BY <1>3, <1>5 DEF Begin

LEMMA InitType == Init => TypeOK
  BY BoundsAssumption, IdleIsAJob DEF BoundsAssumption, Init, TypeOK, Nothing

\* The seven operations begin.
LEMMA BeginningType ==
    ASSUME TypeOK,
           \/ \E P \in SUBSET Paths \ {{}}, op \in {"approve", "reject", "revoke"} : Review(op, P)
           \/ \E T \in {{}, Terms} : Mount(T)
           \/ Bootstrap \/ Prune \/ Rollback
    PROVE  TypeOK'
<1>1. ASSUME NEW P \in SUBSET Paths, NEW op \in {"approve", "reject", "revoke"}, Review(op, P)
      PROVE  TypeOK'
  BY <1>1, Begins DEF Review, TypeOK, Actors, Operations
<1>2. ASSUME NEW T \in {{}, Terms}, Mount(T) PROVE TypeOK'
  BY <1>2, Begins DEF Mount, TypeOK, Actors, Operations, Paths
<1>3. CASE Bootstrap
  BY <1>3, Begins DEF Bootstrap, TypeOK, Actors, Operations, Paths, history
<1>4. CASE Prune
  BY <1>4, Begins DEF Prune, TypeOK, Actors, Operations, history
<1>5. CASE Rollback
  BY <1>5, Begins DEF Rollback, TypeOK, Actors, Operations
<1>6. QED
  BY <1>1, <1>2, <1>3, <1>4, <1>5

LEMMA FaultsCounted == TypeOK /\ faults < MaxFaults /\ faults' = faults + 1 => faults' \in 0..MaxFaults
  BY BoundsAssumption DEF BoundsAssumption, TypeOK

\* An access that only changes the job, and perhaps what counts as firm.
LEMMA QuietType ==
    ASSUME TypeOK, job' \in [Actors -> Jobs], Kept,
           UNCHANGED <<approved, rejected, unapproved>>,
           faults' \in 0..MaxFaults, firm' \in SUBSET firm
    PROVE  TypeOK'
  BY DEF TypeOK, Kept

LEMMA ReadsType ==
    ASSUME TypeOK, NEW x \in Actors, NEW f, NEW m \in Jobs, NEW z \in Jobs, Reads(x, f, m, z)
    PROVE  TypeOK'
<1>1. CASE Continue(x, m) /\ UNCHANGED <<faults, firm>>
  <2>1. job' \in [Actors -> Jobs]
    BY <1>1, ContinuesAs
  <2>2. faults' \in 0..MaxFaults /\ firm' \in SUBSET firm
    BY <1>1 DEF TypeOK
  <2>3. QED
    BY <2>1, <2>2, QuietType DEF Reads
<1>2. CASE Continue(x, z) /\ faults < MaxFaults /\ faults' = faults + 1 /\ firm' = firm \ Said(f)
  <2>1. job' \in [Actors -> Jobs]
    BY <1>2, ContinuesAs
  <2>2. faults' \in 0..MaxFaults /\ firm' \in SUBSET firm
    BY <1>2, FaultsCounted
  <2>3. QED
    BY <2>1, <2>2, QuietType DEF Reads
<1>3. QED
  BY <1>1, <1>2 DEF Reads

\* A reading of a file, or a pick, or the beginning of a copy.
LEMMA PreparesType ==
    ASSUME TypeOK, NEW x \in Actors, NEW m \in Jobs,
           Continue(x, m) \/ Opens(x, m),
           UNCHANGED <<approved, rejected, unapproved, faults, firm>>, Kept
    PROVE  TypeOK'
<1>1. job' \in [Actors -> Jobs]
  BY ContinuesAs, OpensAs
<1>2. faults' \in 0..MaxFaults /\ firm' \in SUBSET firm
  BY DEF TypeOK
<1>3. QED
  BY <1>1, <1>2, QuietType

\* What a save puts in the job is a copy of the file.
LEMMA CopiesAreTyped ==
    ASSUME TypeOK, NEW x \in Actors
    PROVE  /\ \A a \in [Paths -> Approvers], hit \in SUBSET Paths :
                  [job[x] EXCEPT !.hit = hit, !.a = a] \in Jobs
           /\ \A a \in [Paths -> Approvers] : [job[x] EXCEPT !.a = a] \in Jobs
           /\ \A r \in SUBSET Paths : [job[x] EXCEPT !.r = r] \in Jobs
           /\ \A u \in SUBSET Paths : [job[x] EXCEPT !.u = u] \in Jobs
<1>1. job[x] \in Jobs
  BY DEF TypeOK
<1>2. QED
  BY <1>1 DEF Jobs, Approvers

LEMMA AccessType ==
    ASSUME TypeOK, NEW x \in Actors, Step(x), ~Return(x)
    PROVE  TypeOK'
<1>1. job[x] \in Jobs
  BY DEF TypeOK
<1>2. CASE ReadApproved(x)
  <2>1. approved \in [Paths -> Approvers] /\ Nothing \in [Paths -> Approvers]
    BY DEF TypeOK, Nothing, Approvers
  <2>2. QED
    BY <1>2, <2>1, CopiesAreTyped, ReadsType DEF ReadApproved
<1>3. CASE ReadRejected(x)
  <2>1. rejected \in SUBSET Paths /\ {} \in SUBSET Paths
    BY DEF TypeOK
  <2>2. QED
    BY <1>3, <2>1, CopiesAreTyped, ReadsType DEF ReadRejected
<1>4. CASE ReadUnapproved(x)
  <2>1. unapproved \in SUBSET Paths /\ {} \in SUBSET Paths
    BY DEF TypeOK
  <2>2. QED
    BY <1>4, <2>1, CopiesAreTyped, ReadsType DEF ReadUnapproved
<1>5. CASE Pick(x)
  <2> DEFINE C == Candidates(job[x])
             n == IF C = {} THEN job[x].at + Len(Admit) ELSE job[x].at
  <2>1. C \in SUBSET Paths
    BY DEF Candidates, TypeOK
  <2>2. Len(Admit) \in Nat
    BY DEF Admit
  <2>3. n \in Nat
    BY <1>1, <2>2 DEF Jobs
  <2>4. [job[x] EXCEPT !.paths = C, !.at = n] \in Jobs
    BY <1>1, <2>1, <2>3 DEF Jobs
  <2>5. Continue(x, [job[x] EXCEPT !.paths = C, !.at = n])
    BY <1>5 DEF Pick
  <2>6. QED
    BY <1>5, <2>4, <2>5, PreparesType DEF Pick
<1>6. CASE PickAuto(x)
  <2>1. [job[x] EXCEPT !.paths = {p \in Paths : job[x].a[p] = "auto"}] \in Jobs
    BY <1>1 DEF Jobs
  <2>2. QED
    BY <1>6, <2>1, PreparesType DEF PickAuto
<1>7. CASE SaveApproved(x)
  <2> DEFINE j == job[x]
             hit == IF Admits(j.op) THEN j.paths \cap files
                    ELSE {p \in j.paths : j.a[p] # "nobody"}
             new == IF ~Admits(j.op) THEN "nobody"
                    ELSE IF j.op = "approve" THEN "operator" ELSE "auto"
             a == [p \in Paths |-> IF p \in hit THEN new ELSE j.a[p]]
  <2>1. hit \in SUBSET Paths
    BY <1>1 DEF Jobs
  <2>2. new \in Approvers
    BY DEF Approvers
  <2>3. a \in [Paths -> Approvers]
    BY <1>1, <2>2 DEF Jobs, Approvers
  <2>4. [j EXCEPT !.hit = hit, !.a = a] \in Jobs
    BY <2>1, <2>3, CopiesAreTyped
  <2>5. Opens(x, [j EXCEPT !.hit = hit, !.a = a])
    BY <1>7 DEF SaveApproved
  <2>6. QED
    BY <2>4, <2>5, PreparesType DEF Opens
<1>8. CASE SaveRejected(x)
  <2> DEFINE r == IF job[x].op = "reject" THEN job[x].r \cup job[x].paths
                  ELSE job[x].r \ job[x].hit
  <2>1. r \in SUBSET Paths
    BY <1>1 DEF Jobs
  <2>2. [job[x] EXCEPT !.r = r] \in Jobs
    BY <2>1, CopiesAreTyped
  <2>3. Opens(x, [job[x] EXCEPT !.r = r])
    BY <1>8 DEF SaveRejected
  <2>4. QED
    BY <2>2, <2>3, PreparesType DEF Opens
<1>9. CASE SaveUnapproved(x)
  <2> DEFINE m == [job[x] EXCEPT !.u = Remember(job[x])]
  <2>1. Remember(job[x]) \in SUBSET Paths
    BY <1>1 DEF Jobs, Remember
  <2>2. m \in Jobs
    BY <2>1, CopiesAreTyped
  <2>3. Skips(x) \/ Opens(x, m)
    BY <1>9 DEF SaveUnapproved
  <2> HIDE DEF m
  <2>4. QED
    BY <1>1, <2>2, <2>3, PreparesType DEF Skips, Opens
<1>10. CASE DropDangling(x)
  <2> DEFINE a == [p \in Paths |-> IF p \in Dangling(job[x]) THEN "nobody" ELSE job[x].a[p]]
             m == [job[x] EXCEPT !.a = a]
  <2>1. a \in [Paths -> Approvers]
    BY <1>1 DEF Jobs, Approvers
  <2>2. m \in Jobs
    BY <2>1, CopiesAreTyped
  <2>3. Skips(x) \/ Opens(x, m)
    BY <1>10 DEF DropDangling
  <2> HIDE DEF m
  <2>4. QED
    BY <1>1, <2>2, <2>3, PreparesType DEF Skips, Opens
<1>11. CASE Rename(x)
  <2>1. job' \in [Actors -> Jobs]
    BY <1>11, RenamesAs
  <2>2. \E j \in Jobs : Publish(Target[Access(x)], j)
    <3>1. \A y \in Sharers(x) : job[y] \in Jobs
      BY DEF Sharers, TypeOK
    <3>2. \/ Publish(Target[Access(x)], job[x])
          \/ \E y \in Sharers(x) : Publish(Target[Access(x)], job[y])
          \/ Publish(Target[Access(x)], Idle)
      BY <1>11 DEF Rename
    <3>3. QED
      BY <1>1, <3>1, <3>2, IdleIsAJob
  <2>3. firm' \in SUBSET firm /\ UNCHANGED faults /\ Kept
    BY <1>11 DEF Rename
  <2>4. QED
    BY <2>1, <2>2, <2>3, PublishType DEF TypeOK, Kept, Approvers
<1>12. CASE RenameFails(x)
  <2>1. job' \in [Actors -> Jobs]
    BY <1>12, RaisesAs DEF RenameFails
  <2>2. (\E f : Publish(f, job[x])) \/ UNCHANGED <<approved, rejected, unapproved>>
    BY <1>12 DEF RenameFails
  <2>3. /\ approved' \in [Paths -> Approvers]
        /\ rejected' \in SUBSET Paths /\ unapproved' \in SUBSET Paths
    BY <1>1, <2>2, PublishType DEF TypeOK, Approvers
  <2>4. UNCHANGED <<faults, firm>> /\ Kept
    BY <1>12 DEF RenameFails
  <2>5. QED
    BY <2>1, <2>3, <2>4 DEF TypeOK, Kept, Approvers
<1>13. CASE SaveFails(x)
  <2>1. job' \in [Actors -> Jobs]
    BY <1>13, RaisesAs DEF SaveFails
  <2>2. faults' \in 0..MaxFaults
    BY <1>13, FaultsCounted DEF SaveFails
  <2>3. QED
    BY <1>13, <2>1, <2>2, QuietType DEF SaveFails
<1>14. QED
  BY <1>2, <1>3, <1>4, <1>5, <1>6, <1>7, <1>8, <1>9, <1>10, <1>11, <1>12, <1>13 DEF Step

\* The portal's only operations are reviews: what it tells the operator is one of
\* the three verdicts.
ReviewsOnly == job["portal"].op \in {"none", "approve", "reject", "revoke"}

LEMMA ReturnType ==
    ASSUME TypeOK, ReviewsOnly, NEW x \in Actors, Return(x)
    PROVE  TypeOK'
<1>1. Told(x) \in SUBSET Paths
  BY DEF Told, TypeOK, Jobs
<1>2. Told(x) # {} => job[x].op \in {"approve", "reject", "revoke"}
  BY DEF Told, Return, Busy, ReviewsOnly
<1>3. verdict' \in [Paths -> {"none", "approve", "reject", "revoke"}] /\ firm' \in SUBSET Paths
  BY <1>1, <1>2 DEF Return, TypeOK
<1>4. job' \in [Actors -> Jobs]
  BY IdleIsAJob DEF Return, TypeOK
<1>5. QED
  BY <1>3, <1>4 DEF Return, TypeOK, disk

LEMMA CrashType ==
    ASSUME TypeOK, NEW X \in {{"portal", "mount"}, {"cli"}}, Crash(X)
    PROVE  TypeOK'
<1>1. job' \in [Actors -> Jobs]
  BY IdleIsAJob DEF Crash, TypeOK
<1>2. crashes' \in 0..MaxCrashes
  <2>1. crashes \in 0..MaxCrashes /\ crashes < MaxCrashes /\ crashes' = crashes + 1
    BY DEF Crash, TypeOK
  <2>2. QED
    BY <2>1, BoundsAssumption DEF BoundsAssumption
<1>3. QED
  BY <1>1, <1>2 DEF Crash, TypeOK, disk, history

\* An access leaves the operation what it is, or ends it.
LEMMA AccessKeepsOp ==
    ASSUME TypeOK, NEW x \in Actors, Step(x), ~Return(x), NEW y \in Actors
    PROVE  job'[y].op \in {job[y].op, "none"}
<1>1. job \in [Actors -> Jobs] /\ job[x] \in Jobs /\ Idle.op = "none"
  BY DEF TypeOK, Idle
<1>2. ASSUME NEW m, m.op = job[x].op, [m EXCEPT !.at = @ + 1].op = m.op, Continue(x, m)
      PROVE  job'[y].op = job[y].op
  BY <1>1, <1>2 DEF Continue
<1>3. ASSUME NEW m, m.op = job[x].op, NEW t, [m EXCEPT !.tmp = IF Sharers(x) = {} THEN "own" ELSE "shared"].op = m.op,
             Opens(x, m)
      PROVE  job'[y].op = job[y].op
  <2>1. [job[y] EXCEPT !.tmp = "shared"].op = job[y].op
    BY <1>1 DEF Jobs
  <2>2. QED
    BY <1>3, <2>1 DEF Opens
<1>4. CASE ReadApproved(x)
  BY <1>1, <1>2, <1>4 DEF ReadApproved, Reads, Jobs
<1>5. CASE ReadRejected(x)
  BY <1>1, <1>2, <1>5 DEF ReadRejected, Reads, Jobs
<1>6. CASE ReadUnapproved(x)
  BY <1>1, <1>2, <1>6 DEF ReadUnapproved, Reads, Jobs
<1>7. CASE Pick(x)
  BY <1>1, <1>2, <1>7 DEF Pick, Jobs
<1>8. CASE PickAuto(x)
  BY <1>1, <1>2, <1>8 DEF PickAuto, Jobs
<1>9. CASE SaveApproved(x)
  BY <1>1, <1>3, <1>9 DEF SaveApproved, Jobs
<1>10. CASE SaveRejected(x)
  BY <1>1, <1>3, <1>10 DEF SaveRejected, Jobs
<1>11. CASE SaveUnapproved(x)
  BY <1>1, <1>2, <1>3, <1>11 DEF SaveUnapproved, Skips, Jobs
<1>12. CASE DropDangling(x)
  BY <1>1, <1>2, <1>3, <1>12 DEF DropDangling, Skips, Jobs
<1>13. CASE Rename(x)
  BY <1>13, RenamesAs DEF Advanced, OthersWork, SameWork
<1>14. CASE Raises(x)
  BY <1>1, <1>14, RaisesAs DEF OthersWork, SameWork
<1>15. QED
  BY <1>4, <1>5, <1>6, <1>7, <1>8, <1>9, <1>10, <1>11, <1>12, <1>13, <1>14
     DEF Step, RenameFails, SaveFails

\* Nothing but Review begins an operation of the portal.
LEMMA NextReviews == TypeOK /\ ReviewsOnly /\ [Next]_vars => ReviewsOnly'
<1> SUFFICES ASSUME TypeOK, ReviewsOnly, [Next]_vars PROVE ReviewsOnly'
  OBVIOUS
<1>0. job \in [Actors -> Jobs] /\ "portal" \in Actors /\ Idle.op = "none"
  BY DEF TypeOK, Actors, Idle
<1>1. ASSUME NEW P \in SUBSET Paths, NEW op \in {"approve", "reject", "revoke"}, Review(op, P)
      PROVE  ReviewsOnly'
  BY <1>0, <1>1 DEF Review, Begin, ReviewsOnly, Idle
<1>2. ASSUME NEW y \in {"mount", "cli"}, NEW op, NEW P, Begin(y, op, P) PROVE ReviewsOnly'
  <2>1. job'["portal"] = [job["portal"] EXCEPT !.alone = @ /\ ~Busy("portal")]
    BY <1>0, <1>2 DEF Begin
  <2>2. QED
    BY <1>0, <2>1 DEF ReviewsOnly, Jobs
<1>3. ASSUME NEW x \in Actors, Step(x) PROVE ReviewsOnly'
  <2>1. CASE Return(x)
    BY <1>0, <2>1 DEF Return, ReviewsOnly
  <2>2. CASE ~Return(x)
    BY <1>0, <1>3, <2>2, AccessKeepsOp DEF ReviewsOnly
  <2>3. QED
    BY <2>1, <2>2
<1>4. ASSUME NEW X, Crash(X) PROVE ReviewsOnly'
  BY <1>0, <1>4 DEF Crash, ReviewsOnly
<1>5. CASE UNCHANGED vars
  BY <1>5 DEF vars, ReviewsOnly
<1>6. QED
  BY <1>1, <1>2, <1>3, <1>4, <1>5 DEF Next, Mount, Bootstrap, Prune, Rollback

\* The three files, the operations under way and what the operator was told stay
\* well formed, for any terms, notes and bounds.
THEOREM TypeCorrect == Spec => []TypeOK
<1>1. Init => TypeOK /\ ReviewsOnly
  BY InitType DEF Init, ReviewsOnly, Idle, Actors
<1>2. TypeOK /\ ReviewsOnly /\ [Next]_vars => TypeOK'
  <2> SUFFICES ASSUME TypeOK, ReviewsOnly, [Next]_vars PROVE TypeOK'
    OBVIOUS
  <2>1. ASSUME NEW x \in Actors, Step(x) PROVE TypeOK'
    BY <2>1, AccessType, ReturnType
  <2>2. CASE UNCHANGED vars
    BY <2>2 DEF vars, disk, history, TypeOK
  <2>3. QED
    BY <2>1, <2>2, BeginningType, CrashType DEF Next
<1>3. QED
  BY <1>1, <1>2, NextReviews, PTL DEF Spec

-----------------------------------------------------------------------------
(* What the operator was told holds *)

\* What an operation carries in memory from the files it has read.
KnowsA(j) ==
    \/ j.op \in {"approve", "revoke", "prune", "rollback"} /\ j.at > 1
    \/ j.op \in {"bootstrap", "mount"} /\ j.at \in 5..9
    \/ j.op = "mount" /\ j.at > 10
KnowsR(j) ==
    \/ j.op \in {"bootstrap", "mount", "reject"} /\ j.at > 1
    \/ j.op = "approve" /\ j.at > 2
KnowsU(j) ==
    \/ j.op \in {"bootstrap", "mount", "revoke"} /\ j.at > 2
    \/ j.op = "approve" /\ j.at > 3
    \/ j.op = "rollback" /\ j.at > 4

\* A mount or a bootstrap that has not picked its candidates yet.
Unpicked(j) == j.op \in {"bootstrap", "mount"} /\ j.at <= 3

\* Who runs what: the portal reviews, the worker thread mounts, the rest is the
\* command line's, whose approve has no paths.
Roles ==
    /\ job["portal"].op \in {"none", "approve", "reject", "revoke"}
    /\ job["mount"].op \in {"none", "mount"}
    /\ job["cli"].op \in {"none", "approve", "bootstrap", "prune", "rollback"}
    /\ job["cli"].op = "approve" => job["cli"].paths = {}
    /\ \A x \in Actors : job[x].at >= 1

\* The access that an operation is at.
Place(j) == IF j.op = "none" \/ j.at > Len(Script[j.op]) THEN "over" ELSE Script[j.op][j.at]

Saves == {"saveA", "saveR", "saveU", "drop"}

\* Only a save writes a copy.
Copying(j) == j.tmp # "no" => j.op # "none" /\ Place(j) \in Saves

\* The files say what the operator was told, while nothing overlapped it.
OnFile(p) ==
    /\ verdict[p] = "revoke" => p \in unapproved /\ approved[p] = "nobody"
    /\ verdict[p] = "reject" => p \in rejected
    /\ verdict[p] = "approve" => approved[p] # "nobody" /\ p \in files

\* And so does every operation under way, in what it read and what it will write.
Carried(j, p) ==
    /\ verdict[p] = "revoke" =>
        /\ KnowsU(j) => p \in j.u
        /\ KnowsA(j) => j.a[p] = "nobody"
        /\ p \notin j.hit
        /\ p \in j.paths => Unpicked(j)
    /\ verdict[p] = "reject" =>
        /\ KnowsR(j) => p \in j.r
        /\ p \in j.hit => j.op = "rollback"
        /\ p \in j.paths => j.op = "rollback" \/ Unpicked(j)
    /\ verdict[p] = "approve" =>
        /\ KnowsA(j) => j.a[p] # "nobody"
        /\ j.op # "rollback"

\* What a review has written so far, in its copy or in the files.
Written(j) ==
    /\ (j.op = "approve" /\ j.at = 4 /\ j.tmp # "no") =>
           \A p \in j.hit : j.a[p] # "nobody" /\ p \in files
    /\ (j.op = "reject" /\ j.at = 2 /\ j.tmp # "no") => j.paths \subseteq j.r
    /\ (j.op = "revoke" /\ j.at = 3 /\ j.tmp # "no") => \A p \in j.paths : j.a[p] = "nobody"
    /\ (j.op = "revoke" /\ j.at = 4 /\ j.tmp # "no") => j.paths \subseteq j.u
    /\ (j.op = "approve" /\ j.at > 4) => \A p \in j.hit : approved[p] # "nobody" /\ p \in files
    /\ (j.op = "reject" /\ j.at > 2) => j.paths \subseteq rejected
    /\ (j.op = "revoke" /\ j.at > 3) => \A p \in j.paths : approved[p] = "nobody"
    /\ (j.op = "revoke" /\ j.at > 4) => j.hit = {} \/ j.paths \subseteq unapproved

\* A review under way that nothing has overlapped so far: what it has written is
\* still there, and nobody else writes its copy.
Unraced(j) ==
    j.op # "none" /\ j.alone =>
        /\ job["mount"].op = "none" /\ job["cli"].op = "none"
        /\ j.tmp \in {"no", "own"}
        /\ Written(j)

FirmInv ==
    /\ Roles
    /\ \A p \in firm : /\ OnFile(p)
                       /\ Busy("portal") => p \notin job["portal"].paths
                       /\ \A x \in Actors : Busy(x) => Carried(job[x], p)
    /\ Unraced(job["portal"])
    /\ \A x \in Actors : Copying(job[x])

LEMMA AccessIsPlace == \A x \in Actors : Access(x) = Place(job[x])
  BY DEF Access, Place, Busy

\* Where in its script an operation is when it makes an access.
LEMMA PositionsOfReviews ==
    ASSUME TypeOK, Roles, NEW x \in Actors, job[x].op \in {"approve", "reject", "revoke"}
    PROVE  LET j == job[x]  acc == Access(x)
           IN  /\ j.op = "approve" =>
                    /\ acc = "readA" => j.at = 1
                    /\ acc = "readR" => j.at = 2
                    /\ acc = "readU" => j.at = 3
                    /\ acc = "saveA" => j.at = 4
                    /\ acc = "saveR" => j.at = 5
                    /\ acc = "saveU" => j.at = 6
                    /\ acc = "over" => j.at > 6
                    /\ acc \notin {"pick", "pickAuto", "drop"}
               /\ j.op = "reject" =>
                    /\ acc = "readR" => j.at = 1
                    /\ acc = "saveR" => j.at = 2
                    /\ acc = "over" => j.at > 2
                    /\ acc \in {"readR", "saveR", "over"}
               /\ j.op = "revoke" =>
                    /\ acc = "readA" => j.at = 1
                    /\ acc = "readU" => j.at = 2
                    /\ acc = "saveA" => j.at = 3
                    /\ acc = "saveU" => j.at = 4
                    /\ acc = "over" => j.at > 4
                    /\ acc \in {"readA", "readU", "saveA", "saveU", "over"}
<1>1. job[x].at \in Nat /\ job[x].at >= 1
  BY DEF TypeOK, Jobs, Roles
<1>2. CASE job[x].op = "approve"
  BY <1>1, <1>2 DEF Access, Busy, Script, Admit
<1>3. CASE job[x].op = "reject"
  BY <1>1, <1>3 DEF Access, Busy, Script
<1>4. CASE job[x].op = "revoke"
  BY <1>1, <1>4 DEF Access, Busy, Script
<1>5. QED
  BY <1>2, <1>3, <1>4

LEMMA PositionsOfMaintenance ==
    ASSUME TypeOK, Roles, NEW x \in Actors,
           job[x].op \in {"bootstrap", "mount", "prune", "rollback"}
    PROVE  LET j == job[x]  acc == Access(x)
           IN  /\ j.op \in {"bootstrap", "mount"} =>
                    /\ acc = "readR" => j.at \in {1, 5}
                    /\ acc = "readU" => j.at \in {2, 6}
                    /\ acc = "pick" => j.at = 3
                    /\ acc = "readA" => j.at = 4 \/ (j.at = 10 /\ j.op = "mount")
                    /\ acc = "saveA" => j.at = 7
                    /\ acc = "saveR" => j.at = 8
                    /\ acc = "saveU" => j.at = 9
                    /\ acc = "drop" => j.at = 11 /\ j.op = "mount"
                    /\ acc # "pickAuto"
               /\ j.op = "prune" =>
                    /\ acc = "readA" => j.at = 1
                    /\ acc = "drop" => j.at = 2
                    /\ acc \in {"readA", "drop", "over"}
               /\ j.op = "rollback" =>
                    /\ acc = "readA" => j.at \in {1, 3}
                    /\ acc = "pickAuto" => j.at = 2
                    /\ acc = "readU" => j.at = 4
                    /\ acc = "saveA" => j.at = 5
                    /\ acc \in {"readA", "pickAuto", "readU", "saveA", "over"}
<1>1. job[x].at \in Nat /\ job[x].at >= 1
  BY DEF TypeOK, Jobs, Roles
<1>2. CASE job[x].op = "bootstrap"
  BY <1>1, <1>2 DEF Access, Busy, Script
<1>3. CASE job[x].op = "mount"
  BY <1>1, <1>3 DEF Access, Busy, Script
<1>4. CASE job[x].op = "prune"
  BY <1>1, <1>4 DEF Access, Busy, Script
<1>5. CASE job[x].op = "rollback"
  BY <1>1, <1>5 DEF Access, Busy, Script
<1>6. QED
  BY <1>2, <1>3, <1>4, <1>5

\* A step of x: what is left to show once it turns x's job into n.
LEMMA StepFirm ==
    ASSUME TypeOK, FirmInv, NEW x \in Actors, Busy(x),
           job' \in [Actors -> Jobs], OthersWork(x), NEW n, job'[x] = n,
           \/ n = Idle
           \/ /\ n.op = job[x].op /\ n.at >= 1 /\ n.alone = job[x].alone
              /\ n.op \in {"approve", "reject", "revoke"} => n.paths = job[x].paths
              /\ \A p \in firm' : Carried(n, p)
              /\ Copying(n)
              /\ x = "portal" => Unraced(n)',
           UNCHANGED <<files, verdict>>, firm' \subseteq firm,
           \A p \in firm' : OnFile(p)'
    PROVE  FirmInv'
<1>1. /\ Actors = {"portal", "mount", "cli"}
      /\ Idle.op = "none" /\ Idle.paths = {} /\ Idle.at = 1 /\ Idle.tmp = "no"
  BY DEF Actors, Idle
<1>2. \A y \in Actors \ {x} : /\ SameWork(job'[y], job[y])
                              /\ job'[y].tmp = "no" <=> job[y].tmp = "no"
  BY DEF OthersWork
<1>3. Roles'
  <2>1. Roles
    BY DEF FirmInv
  <2>2. n = Idle \/ (n.op = job[x].op /\ n.at >= 1)
    OBVIOUS
  <2>3. n.op = "approve" => n = Idle \/ n.paths = job[x].paths
    OBVIOUS
  <2>4. QED
    BY <1>1, <1>2, <2>1, <2>2, <2>3 DEF Roles, SameWork
<1>4. \A y \in Actors : Busy(y)' => Busy(y)
  BY <1>1, <1>2 DEF Busy, SameWork
<1>5. Busy(x)' => n # Idle
  BY <1>1 DEF Busy
<1>6. ASSUME NEW p \in firm', Busy("portal")' PROVE p \notin job'["portal"].paths
  <2>1. p \in firm /\ p \notin job["portal"].paths /\ "portal" \in Actors
    BY <1>1, <1>4, <1>6 DEF FirmInv
  <2>2. CASE x = "portal"
    <3>1. n # Idle /\ n.op # "none"
      BY <1>5, <1>6, <2>2 DEF Busy
    <3>2. n.op \in {"approve", "reject", "revoke"}
      BY <3>1, <2>2 DEF FirmInv, Roles
    <3>3. QED
      BY <2>1, <2>2, <3>1, <3>2
  <2>3. CASE x # "portal"
    BY <1>2, <2>1, <2>3 DEF SameWork
  <2>4. QED
    BY <2>2, <2>3
<1>7. ASSUME NEW p \in firm', NEW y \in Actors, Busy(y)' PROVE Carried(job[y], p)'
  <2>1. CASE y = x
    <3>1. Carried(n, p)
      BY <1>5, <1>7, <2>1
    <3>2. QED
      BY <2>1, <3>1 DEF Carried, KnowsA, KnowsR, KnowsU, Unpicked
  <2>2. CASE y # x
    <3>1. Carried(job[y], p) /\ SameWork(job'[y], job[y])
      BY <1>2, <1>4, <1>7, <2>2 DEF FirmInv
    <3>2. QED
      BY <3>1 DEF SameWork, Carried, KnowsA, KnowsR, KnowsU, Unpicked
  <2>3. QED
    BY <2>1, <2>2
<1>8. ASSUME NEW y \in Actors PROVE Copying(job[y])'
  <2>1. CASE y = x
    <3>1. Copying(n)
      BY <1>1 DEF Copying
    <3>2. QED
      BY <2>1, <3>1 DEF Copying, Place
  <2>2. CASE y # x
    <3>1. Copying(job[y]) /\ SameWork(job'[y], job[y]) /\ (job'[y].tmp = "no" <=> job[y].tmp = "no")
      BY <1>2, <2>2 DEF FirmInv
    <3>2. QED
      BY <3>1 DEF Copying, Place, SameWork
  <2>3. QED
    BY <2>1, <2>2
<1>9. Unraced(job["portal"])'
  <2>1. CASE x # "portal"
    <3>1. job["portal"].op = "none" \/ ~job["portal"].alone
      BY <1>1, <2>1 DEF FirmInv, Unraced, Busy
    <3>2. SameWork(job'["portal"], job["portal"])
      BY <1>1, <1>2, <2>1
    <3>3. QED
      BY <3>1, <3>2 DEF Unraced, SameWork
  <2>2. CASE x = "portal" /\ n # Idle
    BY <2>2
  <2>3. CASE x = "portal" /\ n = Idle
    BY <1>1, <2>3 DEF Unraced
  <2>4. QED
    BY <2>1, <2>2, <2>3
<1>10. QED
  BY <1>3, <1>6, <1>7, <1>8, <1>9 DEF FirmInv

\* An access that writes nothing leaves the files as they were; what it leaves in
\* memory is the caller's to show.
LEMMA ReadFirm ==
    ASSUME TypeOK, FirmInv, NEW x \in Actors, Busy(x),
           Access(x) \in {"readA", "readR", "readU", "pick", "pickAuto"},
           NEW m \in Jobs, Continue(x, m),
           m.op = job[x].op, m.alone = job[x].alone, m.at >= 1, m.tmp = job[x].tmp,
           Access(x) \in {"readA", "readR", "readU"} => m.at = job[x].at /\ m.paths = job[x].paths,
           UNCHANGED <<approved, rejected, unapproved, files, verdict>>, firm' \subseteq firm,
           \A n \in Jobs : Advanced(n, m) => \A p \in firm' : Carried(n, p)
    PROVE  FirmInv'
<1>1. PICK n \in Jobs : job'[x] = n /\ Advanced(n, m) /\ n.tmp = m.tmp
  BY ContinuesAs
<1>0. /\ job' \in [Actors -> Jobs] /\ OthersWork(x)
      /\ \A y \in Actors \ {x} : job'[y] = job[y]
  BY ContinuesAs
<1>2. job[x].at \in Nat /\ m.at \in Nat
  BY DEF TypeOK, Jobs
<1>3. n.op \in {"approve", "reject", "revoke"} => Access(x) \in {"readA", "readR", "readU"}
  BY <1>1, PositionsOfReviews DEF Advanced, FirmInv
<1>4. /\ n.op = job[x].op /\ n.at >= 1 /\ n.alone = job[x].alone
      /\ n.op \in {"approve", "reject", "revoke"} => n.paths = job[x].paths /\ n.at = job[x].at + 1
  BY <1>1, <1>2, <1>3 DEF Advanced
<1>5. \A p \in firm' : OnFile(p)' /\ Carried(n, p)
  BY <1>1 DEF FirmInv, OnFile
<1>6. n.tmp = "no"
  <2>1. Copying(job[x]) /\ Place(job[x]) \notin Saves
    BY AccessIsPlace DEF FirmInv, Saves
  <2>2. QED
    BY <1>1, <2>1 DEF Copying
<1>7. ASSUME x = "portal" PROVE Unraced(n)'
  <2>1. job'["mount"] = job["mount"] /\ job'["cli"] = job["cli"]
    BY <1>0, <1>7 DEF Actors
  <2>2. /\ n.op = "approve" => ~(n.at > 4)
        /\ n.op = "reject" => ~(n.at > 2)
        /\ n.op = "revoke" => ~(n.at > 3) /\ ~(n.at > 4)
    BY <1>2, <1>3, <1>4, PositionsOfReviews DEF FirmInv
  <2>3. n.alone /\ n.op # "none" => job["mount"].op = "none" /\ job["cli"].op = "none"
    BY <1>4, <1>7 DEF Unraced, FirmInv
  <2>4. n.at \in Nat
    BY DEF Jobs
  <2>5. Written(n)'
    BY <1>6, <2>2 DEF Written
  <2>6. QED
    BY <1>6, <2>1, <2>3, <2>5 DEF Unraced
<1>8. Copying(n)
  BY <1>6 DEF Copying
<1>9. QED
  BY <1>0, <1>1, <1>4, <1>5, <1>7, <1>8, StepFirm

\* Whatever a reading put in m: the file, or nothing and then the file's verdicts
\* no longer count.
LEMMA ReadApprovedFirm ==
    ASSUME TypeOK, FirmInv, NEW x \in Actors, Busy(x), ReadApproved(x)
    PROVE  FirmInv'
<1> DEFINE j == job[x]
<1>1. j \in Jobs /\ j.at \in Nat /\ j.at >= 1
  BY DEF TypeOK, Jobs, FirmInv, Roles
<1>2. PICK a \in [Paths -> Approvers] :
          /\ Continue(x, [j EXCEPT !.a = a])
          /\ (a = approved /\ firm' = firm) \/ (a = Nothing /\ firm' = firm \ Said("A"))
  <2>1. approved \in [Paths -> Approvers] /\ Nothing \in [Paths -> Approvers]
    BY DEF TypeOK, Nothing, Approvers
  <2>2. \/ Continue(x, [j EXCEPT !.a = approved]) /\ firm' = firm
        \/ Continue(x, [j EXCEPT !.a = Nothing]) /\ firm' = firm \ Said("A")
    BY DEF ReadApproved, Reads
  <2>3. CASE Continue(x, [j EXCEPT !.a = approved]) /\ firm' = firm
    BY <2>1, <2>3
  <2>4. CASE Continue(x, [j EXCEPT !.a = Nothing]) /\ firm' = firm \ Said("A")
    BY <2>1, <2>4
  <2>5. QED
    BY <2>2, <2>3, <2>4
<1> DEFINE m == [j EXCEPT !.a = a]
<1>3. /\ m \in Jobs /\ m.op = j.op /\ m.paths = j.paths /\ m.alone = j.alone /\ m.tmp = j.tmp
      /\ m.a = a /\ m.r = j.r /\ m.u = j.u /\ m.hit = j.hit /\ m.at = j.at
  BY <1>1 DEF Jobs, Approvers
<1>4. Access(x) = "readA" /\ Continue(x, m) /\ firm' \subseteq firm
      /\ UNCHANGED <<approved, rejected, unapproved, files, verdict>>
  BY <1>2 DEF ReadApproved, Reads, Kept
<1>5. ASSUME NEW p \in firm' PROVE (verdict[p] = "approve" => a[p] # "nobody")
                                  /\ (verdict[p] = "revoke" => a[p] = "nobody")
  <2>1. p \in firm /\ p \in Paths /\ OnFile(p)
    BY <1>4, <1>5 DEF FirmInv, TypeOK
  <2>2. CASE a = approved
    BY <2>1, <2>2 DEF OnFile
  <2>3. CASE a = Nothing /\ firm' = firm \ Said("A")
    <3>1. verdict[p] # "approve"
      BY <1>5, <2>1, <2>3 DEF Said
    <3>2. a[p] = "nobody"
      BY <2>1, <2>3 DEF Nothing
    <3>3. QED
      BY <3>1, <3>2
  <2>4. QED
    BY <1>2, <2>2, <2>3
<1> HIDE DEF m
<1>6. ASSUME NEW n \in Jobs, Advanced(n, m), NEW p \in firm' PROVE Carried(n, p)
  <2>1. Carried(j, p)
    BY <1>4, <1>6 DEF FirmInv
  <2>2. /\ KnowsR(n) => KnowsR(j)
        /\ KnowsU(n) => KnowsU(j)
        /\ Unpicked(j) => Unpicked(n)
    BY <1>1, <1>3, <1>4, <1>6, PositionsOfReviews, PositionsOfMaintenance
       DEF KnowsR, KnowsU, Unpicked, FirmInv, Advanced
  <2>3. QED
    BY <1>3, <1>5, <1>6, <2>1, <2>2 DEF Carried, Advanced
<1>7. QED
  BY <1>1, <1>3, <1>4, <1>6, ReadFirm

LEMMA ReadRejectedFirm ==
    ASSUME TypeOK, FirmInv, NEW x \in Actors, Busy(x), ReadRejected(x)
    PROVE  FirmInv'
<1> DEFINE j == job[x]
<1>1. j \in Jobs /\ j.at \in Nat /\ j.at >= 1
  BY DEF TypeOK, Jobs, FirmInv, Roles
<1>2. PICK r \in SUBSET Paths :
          /\ Continue(x, [j EXCEPT !.r = r])
          /\ (r = rejected /\ firm' = firm) \/ (r = {} /\ firm' = firm \ Said("R"))
  <2>1. rejected \in SUBSET Paths /\ {} \in SUBSET Paths
    BY DEF TypeOK
  <2>2. \/ Continue(x, [j EXCEPT !.r = rejected]) /\ firm' = firm
        \/ Continue(x, [j EXCEPT !.r = {}]) /\ firm' = firm \ Said("R")
    BY DEF ReadRejected, Reads
  <2>3. CASE Continue(x, [j EXCEPT !.r = rejected]) /\ firm' = firm
    BY <2>1, <2>3
  <2>4. CASE Continue(x, [j EXCEPT !.r = {}]) /\ firm' = firm \ Said("R")
    BY <2>1, <2>4
  <2>5. QED
    BY <2>2, <2>3, <2>4
<1> DEFINE m == [j EXCEPT !.r = r]
<1>3. /\ m \in Jobs /\ m.op = j.op /\ m.paths = j.paths /\ m.alone = j.alone /\ m.tmp = j.tmp
      /\ m.a = j.a /\ m.r = r /\ m.u = j.u /\ m.hit = j.hit /\ m.at = j.at
  BY <1>1 DEF Jobs
<1>4. Access(x) = "readR" /\ Continue(x, m) /\ firm' \subseteq firm
      /\ UNCHANGED <<approved, rejected, unapproved, files, verdict>>
  BY <1>2 DEF ReadRejected, Reads, Kept
<1>5. ASSUME NEW p \in firm' PROVE verdict[p] = "reject" => p \in r
  <2>1. p \in firm /\ OnFile(p)
    BY <1>4, <1>5 DEF FirmInv
  <2>2. QED
    BY <1>2, <1>5, <2>1 DEF OnFile, Said
<1> HIDE DEF m
<1>6. ASSUME NEW n \in Jobs, Advanced(n, m), NEW p \in firm' PROVE Carried(n, p)
  <2>1. Carried(j, p)
    BY <1>4, <1>6 DEF FirmInv
  <2>2. /\ KnowsA(n) => KnowsA(j)
        /\ KnowsU(n) => KnowsU(j)
        /\ Unpicked(j) => Unpicked(n)
    BY <1>1, <1>3, <1>4, <1>6, PositionsOfReviews, PositionsOfMaintenance
       DEF KnowsA, KnowsU, Unpicked, FirmInv, Advanced
  <2>3. QED
    BY <1>3, <1>5, <1>6, <2>1, <2>2 DEF Carried, Advanced
<1>7. QED
  BY <1>1, <1>3, <1>4, <1>6, ReadFirm

LEMMA ReadUnapprovedFirm ==
    ASSUME TypeOK, FirmInv, NEW x \in Actors, Busy(x), ReadUnapproved(x)
    PROVE  FirmInv'
<1> DEFINE j == job[x]
<1>1. j \in Jobs /\ j.at \in Nat /\ j.at >= 1
  BY DEF TypeOK, Jobs, FirmInv, Roles
<1>2. PICK u \in SUBSET Paths :
          /\ Continue(x, [j EXCEPT !.u = u])
          /\ (u = unapproved /\ firm' = firm) \/ (u = {} /\ firm' = firm \ Said("U"))
  <2>1. unapproved \in SUBSET Paths /\ {} \in SUBSET Paths
    BY DEF TypeOK
  <2>2. \/ Continue(x, [j EXCEPT !.u = unapproved]) /\ firm' = firm
        \/ Continue(x, [j EXCEPT !.u = {}]) /\ firm' = firm \ Said("U")
    BY DEF ReadUnapproved, Reads
  <2>3. CASE Continue(x, [j EXCEPT !.u = unapproved]) /\ firm' = firm
    BY <2>1, <2>3
  <2>4. CASE Continue(x, [j EXCEPT !.u = {}]) /\ firm' = firm \ Said("U")
    BY <2>1, <2>4
  <2>5. QED
    BY <2>2, <2>3, <2>4
<1> DEFINE m == [j EXCEPT !.u = u]
<1>3. /\ m \in Jobs /\ m.op = j.op /\ m.paths = j.paths /\ m.alone = j.alone /\ m.tmp = j.tmp
      /\ m.a = j.a /\ m.r = j.r /\ m.u = u /\ m.hit = j.hit /\ m.at = j.at
  BY <1>1 DEF Jobs
<1>4. Access(x) = "readU" /\ Continue(x, m) /\ firm' \subseteq firm
      /\ UNCHANGED <<approved, rejected, unapproved, files, verdict>>
  BY <1>2 DEF ReadUnapproved, Reads, Kept
<1>5. ASSUME NEW p \in firm' PROVE verdict[p] = "revoke" => p \in u
  <2>1. p \in firm /\ OnFile(p)
    BY <1>4, <1>5 DEF FirmInv
  <2>2. QED
    BY <1>2, <1>5, <2>1 DEF OnFile, Said
<1> HIDE DEF m
<1>6. ASSUME NEW n \in Jobs, Advanced(n, m), NEW p \in firm' PROVE Carried(n, p)
  <2>1. Carried(j, p)
    BY <1>4, <1>6 DEF FirmInv
  <2>2. /\ KnowsA(n) => KnowsA(j)
        /\ KnowsR(n) => KnowsR(j)
        /\ Unpicked(j) => Unpicked(n)
    BY <1>1, <1>3, <1>4, <1>6, PositionsOfReviews, PositionsOfMaintenance
       DEF KnowsA, KnowsR, Unpicked, FirmInv, Advanced
  <2>3. QED
    BY <1>3, <1>5, <1>6, <2>1, <2>2 DEF Carried, Advanced
<1>7. QED
  BY <1>1, <1>3, <1>4, <1>6, ReadFirm

\* What is picked has been neither dismissed nor revoked, as far as was read, and
\* it was read after the operator spoke.
LEMMA PickFirm ==
    ASSUME TypeOK, FirmInv, NEW x \in Actors, Busy(x), Pick(x)
    PROVE  FirmInv'
<1> DEFINE j == job[x]
           C == Candidates(j)
           k == IF C = {} THEN j.at + Len(Admit) ELSE j.at
           m == [j EXCEPT !.paths = C, !.at = k]
<1>1. j \in Jobs /\ j.at \in Nat /\ j.at >= 1
  BY DEF TypeOK, Jobs, FirmInv, Roles
<1>2. C \in SUBSET Paths /\ C \cap (j.r \cup j.u) = {}
  BY DEF Candidates, TypeOK
<1>3. Access(x) = "pick" /\ Continue(x, m)
      /\ UNCHANGED <<approved, rejected, unapproved, files, verdict, firm>>
  BY DEF Pick, Kept
<1>4. j.op \in {"bootstrap", "mount"} /\ j.at = 3
  BY <1>1, <1>3, PositionsOfReviews, PositionsOfMaintenance DEF Jobs, FirmInv, Busy, Operations, Script
<1>5. k \in {3, 9}
  BY <1>4 DEF Admit
<1> HIDE DEF C, k
<1>6. /\ m \in Jobs /\ m.op = j.op /\ m.paths = C /\ m.alone = j.alone /\ m.tmp = j.tmp
      /\ m.a = j.a /\ m.r = j.r /\ m.u = j.u /\ m.hit = j.hit /\ m.at = k
  <2> HIDE DEF j
  <2>1. k \in Nat
    BY <1>5
  <2>2. QED
    BY <1>1, <1>2, <2>1 DEF Jobs
<1> HIDE DEF m
<1>7. ASSUME NEW n \in Jobs, Advanced(n, m), NEW p \in firm PROVE Carried(n, p)
  <2>1. Carried(j, p)
    BY DEF FirmInv
  <2>2. KnowsR(j) /\ KnowsU(j) /\ ~KnowsA(n)
    BY <1>4, <1>5, <1>6, <1>7 DEF KnowsA, KnowsR, KnowsU, Advanced
  <2>3. n.op = j.op /\ n.r = j.r /\ n.u = j.u /\ n.hit = j.hit /\ n.paths = C
    BY <1>6, <1>7 DEF Advanced
  <2>4. QED
    BY <1>2, <2>1, <2>2, <2>3 DEF Carried
<1>8. QED
  BY <1>1, <1>3, <1>5, <1>6, <1>7, ReadFirm

\* A rollback picks the automatic approvals it read: a revoked path has none.
LEMMA PickAutoFirm ==
    ASSUME TypeOK, FirmInv, NEW x \in Actors, Busy(x), PickAuto(x)
    PROVE  FirmInv'
<1> DEFINE j == job[x]
           C == {p \in Paths : j.a[p] = "auto"}
           m == [j EXCEPT !.paths = C]
<1>1. j \in Jobs /\ j.at \in Nat /\ j.at >= 1
  BY DEF TypeOK, Jobs, FirmInv, Roles
<1>2. Access(x) = "pickAuto" /\ Continue(x, m)
      /\ UNCHANGED <<approved, rejected, unapproved, files, verdict, firm>>
  BY DEF PickAuto, Kept
<1>3. j.op = "rollback" /\ j.at = 2
  BY <1>1, <1>2, PositionsOfReviews, PositionsOfMaintenance DEF Jobs, FirmInv, Busy, Operations, Script
<1>4. /\ m \in Jobs /\ m.op = j.op /\ m.paths = C /\ m.alone = j.alone /\ m.tmp = j.tmp
      /\ m.a = j.a /\ m.r = j.r /\ m.u = j.u /\ m.hit = j.hit /\ m.at = j.at
  BY <1>1 DEF Jobs
<1> HIDE DEF m
<1>5. ASSUME NEW n \in Jobs, Advanced(n, m), NEW p \in firm PROVE Carried(n, p)
  <2>1. Carried(j, p)
    BY DEF FirmInv
  <2>2. KnowsA(j) /\ ~KnowsR(n) /\ ~KnowsU(n)
    BY <1>3, <1>4, <1>5 DEF KnowsA, KnowsR, KnowsU, Advanced
  <2>3. n.op = "rollback" /\ n.a = j.a /\ n.hit = j.hit /\ n.paths = C
    BY <1>3, <1>4, <1>5 DEF Advanced
  <2>4. QED
    BY <1>3, <2>1, <2>2, <2>3 DEF Carried
<1>6. QED
  BY <1>1, <1>2, <1>3, <1>4, <1>5, ReadFirm

\* Where a save is, and what it knows.
LEMMA SavePlaces ==
    ASSUME TypeOK, FirmInv, NEW x \in Actors, Busy(x), Access(x) \in Saves
    PROVE  LET j == job[x]  acc == Access(x)
           IN  /\ j.op \in Operations /\ ~Unpicked(j)
               /\ acc = "saveA" =>
                    /\ KnowsA(j) /\ j.op \notin {"reject", "prune"}
                    /\ j.op = "approve" => j.at = 4
                    /\ j.op = "revoke" => j.at = 3
                    /\ j.op \in {"bootstrap", "mount"} => j.at = 7
                    /\ j.op = "rollback" => j.at = 5
               /\ acc = "saveR" =>
                    /\ KnowsR(j)
                    /\ \/ j.op = "approve" /\ j.at = 5
                       \/ j.op = "reject" /\ j.at = 2
                       \/ j.op \in {"bootstrap", "mount"} /\ j.at = 8
               /\ acc = "saveU" =>
                    /\ KnowsU(j)
                    /\ \/ j.op = "approve" /\ j.at = 6
                       \/ j.op = "revoke" /\ j.at = 4
                       \/ j.op \in {"bootstrap", "mount"} /\ j.at = 9
               /\ acc = "drop" =>
                    /\ KnowsA(j)
                    /\ \/ j.op = "prune" /\ j.at = 2
                       \/ j.op = "mount" /\ j.at = 11
<1> DEFINE j == job[x]
<1>1. j.op \in Operations /\ j.at \in Nat
  BY ScriptsAreNamed DEF TypeOK, Jobs, Busy
<1>2. Roles
  BY DEF FirmInv
<1>3. CASE j.op \in {"approve", "reject", "revoke"}
  BY <1>1, <1>2, <1>3, PositionsOfReviews DEF KnowsA, KnowsR, KnowsU, Unpicked, Saves
<1>4. CASE j.op \in {"bootstrap", "mount", "prune", "rollback"}
  BY <1>1, <1>2, <1>4, PositionsOfMaintenance DEF KnowsA, KnowsR, KnowsU, Unpicked, Saves
<1>5. QED
  BY <1>1, <1>3, <1>4 DEF Operations

\* What it carries does not change when its save is over.
LEMMA SavedCarries ==
    ASSUME TypeOK, FirmInv, NEW x \in Actors, Busy(x), Access(x) \in Saves,
           NEW n, Advanced(n, job[x]), NEW p \in firm
    PROVE  Carried(n, p)
<1> DEFINE j == job[x]
<1>1. Carried(j, p) /\ j.at \in Nat
  BY DEF FirmInv, TypeOK, Jobs
<1>2. n.op = j.op /\ n.at = j.at + 1 /\ ~Unpicked(j)
  BY SavePlaces DEF Advanced
<1>3. (KnowsR(n) => KnowsR(j)) /\ (KnowsU(n) => KnowsU(j)) /\ (KnowsA(n) => KnowsA(j))
  BY <1>1, <1>2, SavePlaces DEF KnowsA, KnowsR, KnowsU, Saves
<1>4. QED
  BY <1>1, <1>2, <1>3 DEF Carried, Advanced

\* x opens its copy with m in it.
LEMMA OpenFirm ==
    ASSUME TypeOK, FirmInv, NEW x \in Actors, Busy(x), Access(x) \in Saves,
           NEW m \in Jobs, Opens(x, m),
           m.op = job[x].op, m.at = job[x].at, m.alone = job[x].alone, m.paths = job[x].paths,
           \A p \in firm : Carried(m, p),
           \A n \in Jobs : x = "portal" /\ Unraced(job[x]) /\ n.alone /\ SameWork(n, m) => Written(n)
    PROVE  FirmInv'
<1>1. job' \in [Actors -> Jobs] /\ OthersWork(x)
  BY OpensAs
<1>2. PICK n \in Jobs : /\ job'[x] = n /\ SameWork(n, m) /\ n.tmp \in {"own", "shared"}
                        /\ Sharers(x) = {} => n.tmp = "own"
  BY OpensAs
<1>3. UNCHANGED <<approved, rejected, unapproved, files, verdict, firm>>
  BY DEF Opens, Kept
<1>4. /\ n.op = job[x].op /\ n.at >= 1 /\ n.alone = job[x].alone /\ n.paths = job[x].paths
  BY <1>2 DEF SameWork, FirmInv, Roles
<1>5. \A p \in firm' : OnFile(p)' /\ Carried(n, p)
  <2>1. \A p \in firm : OnFile(p)'
    BY <1>3 DEF FirmInv, OnFile
  <2>2. \A p \in firm : Carried(n, p)
    BY <1>2 DEF SameWork, Carried, KnowsA, KnowsR, KnowsU, Unpicked
  <2>3. QED
    BY <1>3, <2>1, <2>2
<1>6. Copying(n)
  <2>1. Place(job[x]) \in Saves /\ n.at = job[x].at
    BY <1>2, AccessIsPlace DEF SameWork
  <2>2. QED
    BY <1>4, <2>1 DEF Copying, Place, Busy
<1>7. ASSUME x = "portal" PROVE Unraced(n)'
  <2>1. Actors = {"portal", "mount", "cli"}
    BY DEF Actors
  <2>2. Unraced(job[x])
    BY <1>7 DEF FirmInv
  <2>3. SUFFICES ASSUME n.op # "none", n.alone PROVE Unraced(n)'
    BY DEF Unraced
  <2>4. job["mount"].op = "none" /\ job["cli"].op = "none"
    BY <1>4, <2>2, <2>3 DEF Unraced
  <2>5. Sharers(x) = {}
    BY <1>7, <2>1, <2>4 DEF Sharers, FirmInv, Copying
  <2>6. job'["mount"].op = "none" /\ job'["cli"].op = "none"
    BY <1>1, <1>7, <2>1, <2>4 DEF OthersWork, SameWork
  <2>7. Written(n)
    BY <1>2, <1>7, <2>2, <2>3
  <2>8. Written(n)'
    BY <1>3, <2>7 DEF Written
  <2>9. QED
    BY <1>2, <2>5, <2>6, <2>8 DEF Unraced
<1>8. QED
  BY <1>1, <1>2, <1>3, <1>4, <1>5, <1>6, <1>7, StepFirm

\* What a save of approved.json writes keeps the verdicts: a revoked path is not
\* among its paths, an approved one is in what it read.
LEMMA SaveApprovedFirm ==
    ASSUME TypeOK, FirmInv, NEW x \in Actors, Busy(x), SaveApproved(x)
    PROVE  FirmInv'
<1> DEFINE j == job[x]
           H == IF Admits(j.op) THEN j.paths \cap files
                ELSE {p \in j.paths : j.a[p] # "nobody"}
           new == IF ~Admits(j.op) THEN "nobody"
                  ELSE IF j.op = "approve" THEN "operator" ELSE "auto"
           a == [p \in Paths |-> IF p \in H THEN new ELSE j.a[p]]
           m == [j EXCEPT !.hit = H, !.a = a]
<1>1. /\ j \in Jobs /\ j.at \in Nat /\ j.at >= 1 /\ j.paths \in SUBSET Paths
      /\ j.a \in [Paths -> Approvers] /\ files \in SUBSET Paths
  BY DEF TypeOK, Jobs, FirmInv, Roles, Approvers
<1>2. H \in SUBSET Paths /\ H \subseteq j.paths
      /\ (Admits(j.op) => H \subseteq files)
      /\ (~Admits(j.op) => H = {p \in j.paths : j.a[p] # "nobody"})
  BY <1>1
<1>3. new \in Approvers /\ (Admits(j.op) <=> new # "nobody")
  BY DEF Approvers
<1>4. Access(x) = "saveA" /\ Opens(x, m)
  BY DEF SaveApproved
<1>5. /\ j.op \in Operations /\ KnowsA(j) /\ ~Unpicked(j) /\ j.op \notin {"reject", "prune"}
      /\ j.op = "approve" => j.at = 4
      /\ j.op = "revoke" => j.at = 3
  BY <1>4, SavePlaces DEF Saves
<1> HIDE DEF H, new
<1>6. a \in [Paths -> Approvers]
      /\ (\A p \in Paths : a[p] = IF p \in H THEN new ELSE j.a[p])
  BY <1>1, <1>3
<1> HIDE DEF a
<1>7. /\ m \in Jobs /\ m.op = j.op /\ m.paths = j.paths /\ m.alone = j.alone
      /\ m.a = a /\ m.r = j.r /\ m.u = j.u /\ m.hit = H /\ m.at = j.at
  BY <1>1, <1>2, <1>6 DEF Jobs, Approvers
<1> HIDE DEF m
<1>8. ASSUME NEW p \in firm PROVE Carried(m, p)
  <2>1. Carried(j, p) /\ p \in Paths
    BY <1>8 DEF FirmInv, TypeOK
  <2>2. j.op = "revoke" => p \notin j.paths
    BY <1>5, <1>8 DEF FirmInv, Roles, Actors, Busy
  <2>3. (KnowsA(m) <=> KnowsA(j)) /\ (KnowsR(m) <=> KnowsR(j)) /\ (KnowsU(m) <=> KnowsU(j))
        /\ (Unpicked(m) <=> Unpicked(j))
    BY <1>7 DEF KnowsA, KnowsR, KnowsU, Unpicked
  <2>4. CASE verdict[p] = "revoke"
    <3>1. p \notin H /\ j.a[p] = "nobody" /\ p \notin j.paths
      BY <1>2, <1>5, <2>1, <2>4 DEF Carried
    <3>2. a[p] = "nobody"
      BY <1>6, <2>1, <3>1
    <3>3. QED
      BY <1>7, <2>1, <2>3, <2>4, <3>1, <3>2 DEF Carried
  <2>5. CASE verdict[p] = "reject"
    BY <1>2, <1>5, <1>7, <2>1, <2>3, <2>5 DEF Carried
  <2>6. CASE verdict[p] = "approve"
    <3>1. j.a[p] # "nobody" /\ j.op # "rollback"
      BY <1>5, <2>1, <2>6 DEF Carried
    <3>2. p \in H => Admits(j.op)
      BY <1>2, <1>5, <2>2, <3>1 DEF Operations, Admits
    <3>3. a[p] # "nobody"
      BY <1>3, <1>6, <2>1, <3>1, <3>2
    <3>4. QED
      BY <1>7, <2>6, <3>1, <3>3 DEF Carried
  <2>7. CASE verdict[p] \notin {"approve", "reject", "revoke"}
    BY <2>7 DEF Carried
  <2>8. QED
    BY <2>4, <2>5, <2>6, <2>7
<1>9. ASSUME NEW n \in Jobs, x = "portal", SameWork(n, m) PROVE Written(n)
  <2>1. n.op = j.op /\ n.at = j.at /\ n.a = a /\ n.hit = H /\ n.paths = j.paths
    BY <1>7, <1>9 DEF SameWork
  <2>2. j.op \in {"approve", "revoke"}
    BY <1>5, <1>9 DEF FirmInv, Roles, Operations
  <2>3. CASE j.op = "approve"
    <3>1. \A p \in H : a[p] # "nobody" /\ p \in files
      BY <1>2, <1>3, <1>6, <2>3 DEF Admits
    <3>2. QED
      BY <1>5, <2>1, <2>3, <3>1 DEF Written
  <2>4. CASE j.op = "revoke"
    <3>1. ~Admits(j.op)
      BY <2>4 DEF Admits
    <3>2. \A p \in j.paths : a[p] = "nobody"
      BY <1>1, <1>2, <1>3, <1>6, <3>1
    <3>3. QED
      BY <1>5, <2>1, <2>4, <3>2 DEF Written
  <2>5. QED
    BY <2>2, <2>3, <2>4
<1>10. Access(x) \in Saves
  BY <1>4 DEF Saves
<1>11. QED
  BY <1>4, <1>7, <1>8, <1>9, <1>10, OpenFirm

LEMMA SaveRejectedFirm ==
    ASSUME TypeOK, FirmInv, NEW x \in Actors, Busy(x), SaveRejected(x)
    PROVE  FirmInv'
<1> DEFINE j == job[x]
           r == IF j.op = "reject" THEN j.r \cup j.paths ELSE j.r \ j.hit
           m == [j EXCEPT !.r = r]
<1>1. j \in Jobs /\ j.at \in Nat /\ r \in SUBSET Paths
  BY DEF TypeOK, Jobs
<1>2. Access(x) = "saveR" /\ Opens(x, m)
  BY DEF SaveRejected
<1>3. /\ KnowsR(j) /\ ~Unpicked(j)
      /\ \/ j.op = "approve" /\ j.at = 5
         \/ j.op = "reject" /\ j.at = 2
         \/ j.op \in {"bootstrap", "mount"} /\ j.at = 8
  BY <1>2, SavePlaces DEF Saves
<1>4. /\ j.op = "reject" => r = j.r \cup j.paths
      /\ j.op # "reject" => r = j.r \ j.hit
  OBVIOUS
<1> HIDE DEF r
<1>5. /\ m \in Jobs /\ m.op = j.op /\ m.paths = j.paths /\ m.alone = j.alone
      /\ m.a = j.a /\ m.r = r /\ m.u = j.u /\ m.hit = j.hit /\ m.at = j.at
  BY <1>1 DEF Jobs
<1> HIDE DEF m
<1>6. ASSUME NEW p \in firm PROVE Carried(m, p)
  <2>1. Carried(j, p)
    BY <1>6 DEF FirmInv
  <2>2. (KnowsA(m) <=> KnowsA(j)) /\ (KnowsR(m) <=> KnowsR(j)) /\ (KnowsU(m) <=> KnowsU(j))
        /\ (Unpicked(m) <=> Unpicked(j))
    BY <1>5 DEF KnowsA, KnowsR, KnowsU, Unpicked
  <2>3. verdict[p] = "reject" => p \in r
    BY <1>3, <1>4, <2>1 DEF Carried
  <2>4. QED
    BY <1>5, <2>1, <2>2, <2>3 DEF Carried
<1>7. ASSUME NEW n \in Jobs, x = "portal", Unraced(j), n.alone, SameWork(n, m) PROVE Written(n)
  <2>1. n.op = j.op /\ n.at = j.at /\ n.r = r /\ n.hit = j.hit /\ n.paths = j.paths /\ j.alone
    BY <1>5, <1>7 DEF SameWork
  <2>2. CASE j.op = "reject"
    <3>1. n.paths \subseteq n.r
      BY <1>4, <2>1, <2>2
    <3>2. QED
      BY <1>3, <2>1, <2>2, <3>1 DEF Written
  <2>3. CASE j.op = "approve"
    <3>1. Written(j)
      BY <1>7, <2>1, <2>3 DEF Unraced
    <3>2. QED
      BY <1>3, <2>1, <2>3, <3>1 DEF Written
  <2>4. QED
    BY <1>3, <1>7, <2>2, <2>3 DEF FirmInv, Roles
<1>8. Access(x) \in Saves
  BY <1>2 DEF Saves
<1>9. QED
  BY <1>2, <1>5, <1>6, <1>7, <1>8, OpenFirm

\* Nothing to save: x only goes on.
LEMMA SkipFirm ==
    ASSUME TypeOK, FirmInv, NEW x \in Actors, Busy(x), Skips(x),
           (Access(x) = "saveU" /\ job[x].hit = {}) \/ Access(x) = "drop"
    PROVE  FirmInv'
<1> DEFINE j == job[x]
<1>1. j \in Jobs /\ j.at \in Nat /\ j.at >= 1 /\ Access(x) \in Saves
  BY DEF TypeOK, Jobs, FirmInv, Roles, Saves
<1>2. /\ job' \in [Actors -> Jobs] /\ OthersWork(x)
      /\ \A y \in Actors \ {x} : job'[y] = job[y]
  BY <1>1, ContinuesAs DEF Skips
<1>3. PICK n \in Jobs : job'[x] = n /\ Advanced(n, j) /\ n.tmp = "no"
  BY <1>1, ContinuesAs DEF Skips
<1>4. UNCHANGED <<approved, rejected, unapproved, files, verdict, firm>>
  BY DEF Skips, Kept
<1>5. n.op = j.op /\ n.at = j.at + 1 /\ n.at >= 1 /\ n.alone = j.alone /\ n.paths = j.paths /\ n.hit = j.hit
  BY <1>1, <1>3 DEF Advanced
<1>6. \A p \in firm' : OnFile(p)' /\ Carried(n, p)
  <2>1. \A p \in firm : Carried(n, p)
    BY <1>1, <1>3, SavedCarries
  <2>2. QED
    BY <1>4, <2>1 DEF FirmInv, OnFile
<1>7. ASSUME x = "portal" PROVE Unraced(n)'
  <2>1. SUFFICES ASSUME n.op # "none", n.alone PROVE Unraced(n)'
    BY DEF Unraced
  <2>2. Unraced(j) /\ job'["mount"] = job["mount"] /\ job'["cli"] = job["cli"]
    BY <1>2, <1>7 DEF FirmInv, Actors
  <2>3. job["mount"].op = "none" /\ job["cli"].op = "none" /\ Written(j)
    BY <1>5, <2>1, <2>2 DEF Unraced
  <2>4. ((j.op = "approve" /\ j.at = 6) \/ (j.op = "revoke" /\ j.at = 4)) /\ j.hit = {}
    <3>1. j.op \notin {"prune", "mount", "bootstrap"}
      BY <1>7 DEF FirmInv, Roles
    <3>2. Access(x) # "drop"
      BY <1>1, <3>1, SavePlaces
    <3>3. QED
      BY <1>1, <3>1, <3>2, SavePlaces
  <2>5. Written(n)'
    BY <1>3, <1>4, <1>5, <2>3, <2>4 DEF Written
  <2>6. QED
    BY <1>3, <2>2, <2>3, <2>5 DEF Unraced
<1>8. Copying(n)
  BY <1>3 DEF Copying
<1>9. QED
  BY <1>2, <1>3, <1>4, <1>5, <1>6, <1>7, <1>8, StepFirm

LEMMA SaveUnapprovedFirm ==
    ASSUME TypeOK, FirmInv, NEW x \in Actors, Busy(x), SaveUnapproved(x)
    PROVE  FirmInv'
<1> DEFINE j == job[x]
           m == [j EXCEPT !.u = Remember(j)]
<1>1. j \in Jobs /\ j.at \in Nat /\ Remember(j) \in SUBSET Paths
  BY DEF TypeOK, Jobs, Remember
<1>2. Access(x) = "saveU" /\ Access(x) \in Saves
  BY DEF SaveUnapproved, Saves
<1>3. CASE j.hit = {}
  BY <1>2, <1>3, SkipFirm DEF SaveUnapproved
<1>4. CASE j.hit # {}
  <2>1. Opens(x, m)
    BY <1>4 DEF SaveUnapproved
  <2>2. /\ KnowsU(j) /\ ~Unpicked(j)
        /\ \/ j.op = "approve" /\ j.at = 6
           \/ j.op = "revoke" /\ j.at = 4
           \/ j.op \in {"bootstrap", "mount"} /\ j.at = 9
    BY <1>2, SavePlaces
  <2>3. /\ m \in Jobs /\ m.op = j.op /\ m.paths = j.paths /\ m.alone = j.alone
        /\ m.a = j.a /\ m.r = j.r /\ m.u = Remember(j) /\ m.hit = j.hit /\ m.at = j.at
    BY <1>1 DEF Jobs
  <2> HIDE DEF m
  <2>4. ASSUME NEW p \in firm PROVE Carried(m, p)
    <3>1. Carried(j, p)
      BY <2>4 DEF FirmInv
    <3>2. (KnowsA(m) <=> KnowsA(j)) /\ (KnowsR(m) <=> KnowsR(j)) /\ (KnowsU(m) <=> KnowsU(j))
          /\ (Unpicked(m) <=> Unpicked(j))
      BY <2>3 DEF KnowsA, KnowsR, KnowsU, Unpicked
    <3>3. verdict[p] = "revoke" => p \in Remember(j)
      BY <2>2, <3>1 DEF Carried, Remember
    <3>4. QED
      BY <2>3, <3>1, <3>2, <3>3 DEF Carried
  <2>5. ASSUME NEW n \in Jobs, x = "portal", Unraced(j), n.alone, SameWork(n, m) PROVE Written(n)
    <3>1. n.op = j.op /\ n.at = j.at /\ n.u = Remember(j) /\ n.hit = j.hit /\ n.paths = j.paths /\ j.alone
      BY <2>3, <2>5 DEF SameWork
    <3>2. j.op = "revoke" => n.paths \subseteq n.u
      BY <3>1 DEF Remember, Admits
    <3>3. Written(j)
      BY <2>2, <2>5, <3>1 DEF Unraced
    <3>4. j.op \in {"approve", "revoke"}
      BY <2>2, <2>5 DEF FirmInv, Roles
    <3>5. QED
      BY <2>2, <3>1, <3>2, <3>3, <3>4 DEF Written
  <2>6. QED
    BY <1>2, <2>1, <2>3, <2>4, <2>5, OpenFirm
<1>5. QED
  BY <1>3, <1>4

\* What is dropped has no file; an approval that counts has one.
LEMMA DropDanglingFirm ==
    ASSUME TypeOK, FirmInv, NEW x \in Actors, Busy(x), DropDangling(x)
    PROVE  FirmInv'
<1> DEFINE j == job[x]
           D == Dangling(j)
           a == [p \in Paths |-> IF p \in D THEN "nobody" ELSE j.a[p]]
           m == [j EXCEPT !.a = a]
<1>1. j \in Jobs /\ j.at \in Nat /\ j.a \in [Paths -> Approvers]
  BY DEF TypeOK, Jobs, Approvers
<1>2. Access(x) = "drop" /\ Access(x) \in Saves
  BY DEF DropDangling, Saves
<1>3. CASE D = {}
  BY <1>2, <1>3, SkipFirm DEF DropDangling
<1>4. CASE D # {}
  <2>1. Opens(x, m)
    BY <1>4 DEF DropDangling
  <2>2. KnowsA(j) /\ ~Unpicked(j) /\ j.op \in {"prune", "mount"}
    BY <1>2, SavePlaces
  <2>3. \A p \in D : p \notin files
    BY DEF Dangling
  <2> HIDE DEF D
  <2>4. a \in [Paths -> Approvers] /\ \A p \in Paths : a[p] = IF p \in D THEN "nobody" ELSE j.a[p]
    BY <1>1 DEF Approvers
  <2> HIDE DEF a
  <2>5. /\ m \in Jobs /\ m.op = j.op /\ m.paths = j.paths /\ m.alone = j.alone
        /\ m.a = a /\ m.r = j.r /\ m.u = j.u /\ m.hit = j.hit /\ m.at = j.at
    BY <1>1, <2>4 DEF Jobs, Approvers
  <2> HIDE DEF m
  <2>6. ASSUME NEW p \in firm PROVE Carried(m, p)
    <3>1. Carried(j, p) /\ OnFile(p) /\ p \in Paths
      BY <2>6 DEF FirmInv, TypeOK
    <3>2. (KnowsA(m) <=> KnowsA(j)) /\ (KnowsR(m) <=> KnowsR(j)) /\ (KnowsU(m) <=> KnowsU(j))
          /\ (Unpicked(m) <=> Unpicked(j))
      BY <2>5 DEF KnowsA, KnowsR, KnowsU, Unpicked
    <3>3. verdict[p] = "approve" => a[p] # "nobody"
      BY <2>2, <2>3, <2>4, <3>1 DEF Carried, OnFile
    <3>4. verdict[p] = "revoke" => a[p] = "nobody"
      BY <2>2, <2>4, <3>1 DEF Carried
    <3>5. QED
      BY <2>5, <3>1, <3>2, <3>3, <3>4 DEF Carried
  <2>7. x # "portal"
    BY <2>2 DEF FirmInv, Roles
  <2>8. QED
    BY <1>2, <2>1, <2>5, <2>6, <2>7, OpenFirm
<1>5. QED
  BY <1>3, <1>4

\* What anyone has in a copy, the files may become.
LEMMA PublishedOnFile ==
    ASSUME TypeOK, FirmInv, NEW y \in Actors, job[y].tmp # "no",
           Publish(Target[Access(y)], job[y]), UNCHANGED <<files, verdict>>, NEW p \in firm
    PROVE  OnFile(p)'
<1> DEFINE j == job[y]
<1>1. Busy(y) /\ Access(y) \in Saves
  BY AccessIsPlace DEF FirmInv, Copying, Busy
<1>2. Carried(j, p) /\ OnFile(p)
  BY <1>1 DEF FirmInv
<1>3. CASE Access(y) \in {"saveA", "drop"}
  <2>1. KnowsA(j)
    BY <1>1, <1>3, SavePlaces
  <2>2. approved' = j.a /\ UNCHANGED <<rejected, unapproved>>
    BY <1>3 DEF Publish, Target
  <2>3. QED
    BY <1>2, <2>1, <2>2 DEF Carried, OnFile
<1>4. CASE Access(y) = "saveR"
  <2>1. KnowsR(j)
    BY <1>1, <1>4, SavePlaces
  <2>2. rejected' = j.r /\ UNCHANGED <<approved, unapproved>>
    BY <1>4 DEF Publish, Target
  <2>3. QED
    BY <1>2, <2>1, <2>2 DEF Carried, OnFile
<1>5. CASE Access(y) = "saveU"
  <2>1. KnowsU(j)
    BY <1>1, <1>5, SavePlaces
  <2>2. unapproved' = j.u /\ UNCHANGED <<approved, rejected>>
    BY <1>5 DEF Publish, Target
  <2>3. QED
    BY <1>2, <2>1, <2>2 DEF Carried, OnFile
<1>6. QED
  BY <1>1, <1>3, <1>4, <1>5 DEF Saves

\* A cut copy empties the file: what the operator was told on its strength no
\* longer counts, and nothing else rests on it.
LEMMA TornOnFile ==
    ASSUME TypeOK, FirmInv, NEW acc \in Saves,
           Publish(Target[acc], Idle), UNCHANGED <<files, verdict>>,
           firm' = firm \ Said(Target[acc]), NEW p \in firm'
    PROVE  OnFile(p)'
<1>1. p \in firm /\ p \in Paths /\ OnFile(p) /\ p \notin Said(Target[acc])
  BY DEF FirmInv, TypeOK
<1>2. Idle.a = Nothing /\ Idle.r = {} /\ Idle.u = {} /\ Nothing[p] = "nobody"
  BY <1>1 DEF Idle, Nothing
<1>3. CASE acc \in {"saveA", "drop"}
  <2>1. approved' = Nothing /\ UNCHANGED <<rejected, unapproved>> /\ verdict[p] # "approve"
    BY <1>1, <1>2, <1>3 DEF Publish, Target, Said
  <2>2. QED
    BY <1>1, <1>2, <2>1 DEF OnFile
<1>4. CASE acc = "saveR"
  <2>1. UNCHANGED <<approved, unapproved>> /\ verdict[p] # "reject"
    BY <1>1, <1>4 DEF Publish, Target, Said
  <2>2. QED
    BY <1>1, <2>1 DEF OnFile
<1>5. CASE acc = "saveU"
  <2>1. UNCHANGED <<approved, rejected>> /\ verdict[p] # "revoke"
    BY <1>1, <1>5 DEF Publish, Target, Said
  <2>2. QED
    BY <1>1, <2>1 DEF OnFile
<1>6. QED
  BY <1>3, <1>4, <1>5 DEF Saves

LEMMA RenameFirm ==
    ASSUME TypeOK, FirmInv, NEW x \in Actors, Busy(x), Rename(x)
    PROVE  FirmInv'
<1> DEFINE j == job[x]
           f == Target[Access(x)]
<1>1. job' \in [Actors -> Jobs] /\ OthersWork(x)
  BY RenamesAs
<1>2. PICK n \in Jobs : job'[x] = n /\ Advanced(n, j) /\ n.tmp = "no"
  BY RenamesAs
<1>3. j \in Jobs /\ j.at \in Nat /\ j.at >= 1 /\ j.tmp \in {"own", "shared"} /\ Access(x) \in Saves
  BY AccessIsPlace DEF Rename, TypeOK, Jobs, FirmInv, Roles, Copying
<1>4. n.op = j.op /\ n.at = j.at + 1 /\ n.at >= 1 /\ n.alone = j.alone /\ n.paths = j.paths
      /\ n.hit = j.hit
  BY <1>2, <1>3 DEF Advanced
<1>5. UNCHANGED <<files, verdict>> /\ firm' \subseteq firm
  BY DEF Rename, Kept
<1>6. ASSUME NEW p \in firm' PROVE OnFile(p)'
  <2>1. CASE Publish(f, j) /\ UNCHANGED firm
    BY <1>3, <1>5, <1>6, <2>1, PublishedOnFile
  <2>2. CASE \E y \in Sharers(x) : Publish(f, job[y]) /\ UNCHANGED firm
    <3>1. PICK y \in Sharers(x) : Publish(f, job[y]) /\ UNCHANGED firm
      BY <2>2
    <3>2. y \in Actors /\ job[y].tmp # "no" /\ Target[Access(y)] = f
      BY <3>1 DEF Sharers
    <3>3. QED
      BY <1>5, <1>6, <3>1, <3>2, PublishedOnFile
  <2>3. CASE Publish(f, Idle) /\ firm' = firm \ Said(f)
    BY <1>3, <1>5, <1>6, <2>3, TornOnFile
  <2>4. QED
    BY <2>1, <2>2, <2>3 DEF Rename
<1>7. ASSUME NEW p \in firm' PROVE Carried(n, p)
  BY <1>2, <1>3, <1>5, <1>7, SavedCarries
<1>8. ASSUME x = "portal" PROVE Unraced(n)'
  <2>1. SUFFICES ASSUME n.op # "none", n.alone PROVE Unraced(n)'
    BY DEF Unraced
  <2>2. /\ job["mount"].op = "none" /\ job["cli"].op = "none" /\ Written(j)
        /\ j.tmp = "own"
    BY <1>3, <1>4, <1>8, <2>1 DEF FirmInv, Unraced
  <2>3. job'["mount"].op = "none" /\ job'["cli"].op = "none"
    BY <1>1, <1>8, <2>2 DEF OthersWork, SameWork, Actors
  <2>4. Publish(f, j)
    BY <2>2 DEF Rename
  <2>5. j.op \in {"approve", "reject", "revoke"}
    BY <1>4, <1>8, <2>1 DEF FirmInv, Roles
  <2>6. CASE j.op = "approve"
    <3>1. ASSUME Access(x) = "saveA" PROVE Written(n)'
      <4>1. j.at = 4 /\ approved' = j.a
        BY <1>3, <2>4, <2>6, <3>1, SavePlaces DEF Publish, Target
      <4>2. QED
        BY <1>2, <1>4, <1>5, <2>2, <2>6, <4>1 DEF Written
    <3>2. ASSUME Access(x) \in {"saveR", "saveU"} PROVE Written(n)'
      <4>1. j.at \in {5, 6} /\ approved' = approved
        BY <1>3, <2>4, <2>6, <3>2, SavePlaces DEF Publish, Target
      <4>2. QED
        BY <1>2, <1>4, <1>5, <2>2, <2>6, <4>1 DEF Written
    <3>3. Access(x) # "drop"
      BY <1>3, <2>6, SavePlaces
    <3>4. Written(n)'
      BY <1>3, <3>1, <3>2, <3>3 DEF Saves
    <3>5. QED
      BY <1>2, <2>3, <3>4 DEF Unraced
  <2>7. CASE j.op = "reject"
    <3>1. Access(x) = "saveR" /\ j.at = 2
      BY <1>3, <2>7, SavePlaces DEF Saves
    <3>2. rejected' = j.r
      BY <2>4, <3>1 DEF Publish, Target
    <3>3. Written(n)'
      BY <1>2, <1>4, <2>2, <2>7, <3>1, <3>2 DEF Written
    <3>4. QED
      BY <1>2, <2>3, <3>3 DEF Unraced
  <2>8. CASE j.op = "revoke"
    <3>1. ASSUME Access(x) = "saveA" PROVE Written(n)'
      <4>1. j.at = 3 /\ approved' = j.a
        BY <1>3, <2>4, <2>8, <3>1, SavePlaces DEF Publish, Target
      <4>2. QED
        BY <1>2, <1>4, <2>2, <2>8, <4>1 DEF Written
    <3>2. ASSUME Access(x) = "saveU" PROVE Written(n)'
      <4>1. j.at = 4 /\ approved' = approved /\ unapproved' = j.u
        BY <1>3, <2>4, <2>8, <3>2, SavePlaces DEF Publish, Target
      <4>2. QED
        BY <1>2, <1>3, <1>4, <2>2, <2>8, <4>1 DEF Written
    <3>3. Access(x) \notin {"drop", "saveR"}
      BY <1>3, <2>8, SavePlaces
    <3>4. Written(n)'
      BY <1>3, <3>1, <3>2, <3>3 DEF Saves
    <3>5. QED
      BY <1>2, <2>3, <3>4 DEF Unraced
  <2>9. QED
    BY <2>5, <2>6, <2>7, <2>8
<1>9. Copying(n)
  BY <1>2 DEF Copying
<1>10. QED
  BY <1>1, <1>2, <1>4, <1>5, <1>6, <1>7, <1>8, <1>9, StepFirm

\* An operation that raises is over, a mount's at its prune: it has nothing more to
\* write from what it read.
LEMMA RaisesFirm ==
    ASSUME TypeOK, FirmInv, NEW x \in Actors, job[x].tmp # "no", Raises(x),
           UNCHANGED <<files, verdict, firm>>, \A p \in firm : OnFile(p)'
    PROVE  FirmInv'
<1> DEFINE j == job[x]
<1>1. Busy(x) /\ Access(x) \in Saves
  BY AccessIsPlace DEF FirmInv, Copying, Busy
<1>2. job' \in [Actors -> Jobs] /\ OthersWork(x)
  BY RaisesAs
<1>3. CASE job'[x] = Idle
  BY <1>1, <1>2, <1>3, StepFirm
<1>4. CASE job'[x] # Idle
  <2>1. j.op = "mount" /\ j.at <= 9
    BY <1>4, RaisesAs
  <2>2. PICK n \in Jobs : /\ job'[x] = n /\ n.op = "mount" /\ n.at = 10 /\ n.tmp = "no"
                          /\ n.paths = j.paths /\ n.alone = j.alone
                          /\ n.r = j.r /\ n.u = j.u /\ n.hit = j.hit
    BY <1>4, RaisesAs
  <2>3. ~Unpicked(j) /\ KnowsR(j) /\ KnowsU(j) /\ ~KnowsA(n) /\ x # "portal"
    <3>1. ~Unpicked(j) /\ j.at \in Nat /\ x # "portal"
      BY <1>1, <2>1, SavePlaces DEF FirmInv, Roles, TypeOK, Jobs
    <3>2. QED
      BY <2>1, <2>2, <3>1 DEF Unpicked, KnowsA, KnowsR, KnowsU
  <2>4. ASSUME NEW p \in firm PROVE Carried(n, p)
    <3>1. Carried(j, p)
      BY <1>1, <2>4 DEF FirmInv
    <3>2. QED
      BY <2>1, <2>2, <2>3, <3>1 DEF Carried
  <2>5. Copying(n)
    BY <2>2 DEF Copying
  <2>6. n.op = j.op /\ n.at >= 1 /\ n.op \notin {"approve", "reject", "revoke"}
    BY <2>1, <2>2
  <2>7. QED
    BY <1>1, <1>2, <2>2, <2>3, <2>4, <2>5, <2>6, StepFirm
<1>5. QED
  BY <1>3, <1>4

LEMMA RenameFailsFirm ==
    ASSUME TypeOK, FirmInv, NEW x \in Actors, RenameFails(x)
    PROVE  FirmInv'
<1>1. job[x].tmp # "no" /\ Raises(x) /\ UNCHANGED <<files, verdict, firm>>
  BY DEF RenameFails, Kept
<1>2. ASSUME NEW p \in firm PROVE OnFile(p)'
  <2>1. CASE Publish(Target[Access(x)], job[x])
    BY <1>1, <1>2, <2>1, PublishedOnFile
  <2>2. CASE UNCHANGED <<approved, rejected, unapproved>>
    BY <1>1, <1>2, <2>2 DEF FirmInv, OnFile
  <2>3. QED
    BY <2>1, <2>2 DEF RenameFails
<1>3. QED
  BY <1>1, <1>2, RaisesFirm

LEMMA SaveFailsFirm ==
    ASSUME TypeOK, FirmInv, NEW x \in Actors, SaveFails(x)
    PROVE  FirmInv'
<1>1. /\ job[x].tmp # "no" /\ Raises(x)
      /\ UNCHANGED <<approved, rejected, unapproved, files, verdict, firm>>
  BY DEF SaveFails, Kept
<1>2. \A p \in firm : OnFile(p)'
  BY <1>1 DEF FirmInv, OnFile
<1>3. QED
  BY <1>1, <1>2, RaisesFirm

\* A new operation of another actor: it has read nothing, and it ends the solitude
\* of a review.
LEMMA BeginFirm ==
    ASSUME TypeOK, FirmInv, NEW y \in {"mount", "cli"}, NEW op, NEW P \in SUBSET Paths, Begin(y, op, P),
           y = "mount" => op = "mount",
           y = "cli" => op \in {"approve", "bootstrap", "prune", "rollback"},
           P # {} => op \in {"bootstrap", "mount"},
           UNCHANGED verdict, firm' \subseteq firm,
           \A p \in firm' : /\ verdict[p] = "approve" => op # "rollback"
                            /\ p \in files => p \in files' \/ verdict[p] # "approve"
    PROVE  FirmInv'
<1>1. job \in [Actors -> Jobs] /\ y \in Actors /\ Actors = {"portal", "mount", "cli"}
  BY DEF TypeOK, Actors
<1>2. UNCHANGED <<approved, rejected, unapproved>>
  BY DEF Begin
<1>3. PICK n : job'[y] = n /\ n.op = op /\ n.paths = P /\ n.at = 1 /\ n.hit = {} /\ n.tmp = "no"
  <2> DEFINE k == [Idle EXCEPT !.op = op, !.paths = P, !.alone = \A z \in Actors : ~Busy(z)]
  <2>1. job'[y] = k
    BY <1>1 DEF Begin
  <2>2. k.op = op /\ k.paths = P /\ k.at = 1 /\ k.hit = {} /\ k.tmp = "no"
    BY DEF Idle
  <2>3. QED
    BY <2>1, <2>2
<1>4. ASSUME NEW z \in Actors \ {y}
      PROVE  /\ job'[z].op = job[z].op /\ job'[z].paths = job[z].paths /\ job'[z].at = job[z].at
             /\ job'[z].a = job[z].a /\ job'[z].r = job[z].r /\ job'[z].u = job[z].u
             /\ job'[z].hit = job[z].hit /\ job'[z].tmp = job[z].tmp
             /\ job'[z].alone => ~Busy(z)
  <2>1. job'[z] = [job[z] EXCEPT !.alone = @ /\ ~Busy(z)]
    BY <1>1, <1>4 DEF Begin
  <2>2. job[z] \in Jobs
    BY <1>1
  <2>3. QED
    BY <2>1, <2>2 DEF Jobs
<1>5. Roles'
  BY <1>1, <1>2, <1>3, <1>4 DEF FirmInv, Roles
<1>6. ASSUME NEW p \in firm' PROVE OnFile(p)'
  BY <1>2, <1>6 DEF FirmInv, OnFile
<1>7. ASSUME NEW p \in firm' PROVE Busy("portal")' => p \notin job'["portal"].paths
  BY <1>1, <1>4, <1>7 DEF FirmInv, Busy
<1>8. ASSUME NEW p \in firm', NEW z \in Actors, Busy(z)' PROVE Carried(job[z], p)'
  <2>1. CASE z = y
    <3>1. ~KnowsA(n) /\ ~KnowsR(n) /\ ~KnowsU(n)
      BY <1>3 DEF KnowsA, KnowsR, KnowsU
    <3>2. p \in n.paths => Unpicked(n)
      BY <1>3 DEF Unpicked
    <3>3. Carried(n, p)'
      BY <1>3, <1>8, <3>1, <3>2 DEF Carried, KnowsA, KnowsR, KnowsU, Unpicked
    <3>4. QED
      BY <1>3, <2>1, <3>3
  <2>2. CASE z # y
    <3>1. Busy(z) /\ Carried(job[z], p)
      BY <1>4, <1>8, <2>2 DEF FirmInv, Busy
    <3>2. QED
      BY <1>4, <2>2, <3>1 DEF Carried, KnowsA, KnowsR, KnowsU, Unpicked
  <2>3. QED
    BY <2>1, <2>2
<1>9. Unraced(job["portal"])'
  BY <1>1, <1>4 DEF Unraced, Busy
<1>10. ASSUME NEW z \in Actors PROVE Copying(job[z])'
  <2>1. CASE z = y
    BY <1>3, <2>1 DEF Copying
  <2>2. CASE z # y
    <3>1. Copying(job[z])
      BY DEF FirmInv
    <3>2. QED
      BY <1>4, <2>2, <3>1 DEF Copying, Place
  <2>3. QED
    BY <2>1, <2>2
<1>11. QED
  BY <1>5, <1>6, <1>7, <1>8, <1>9, <1>10 DEF FirmInv

\* A review takes its paths out of what counts before it changes anything.
LEMMA ReviewFirm ==
    ASSUME TypeOK, FirmInv, NEW P \in SUBSET Paths, NEW op \in {"approve", "reject", "revoke"},
           Review(op, P)
    PROVE  FirmInv'
<1>1. job \in [Actors -> Jobs] /\ Actors = {"portal", "mount", "cli"}
  BY DEF TypeOK, Actors
<1>2. /\ UNCHANGED <<approved, rejected, unapproved, files>>
      /\ firm' = firm \ P
      /\ verdict' = [p \in Paths |-> IF p \in P THEN "none" ELSE verdict[p]]
  BY <1>1 DEF Review, Begin
<1>3. PICK n : /\ job'["portal"] = n /\ n.op = op /\ n.paths = P /\ n.at = 1 /\ n.hit = {} /\ n.tmp = "no"
               /\ n.alone <=> \A z \in Actors : ~Busy(z)
  <2> DEFINE k == [Idle EXCEPT !.op = op, !.paths = P, !.alone = \A z \in Actors : ~Busy(z)]
  <2>1. job'["portal"] = k
    BY <1>1 DEF Review, Begin
  <2>2. k.op = op /\ k.paths = P /\ k.at = 1 /\ k.hit = {} /\ k.tmp = "no" /\ (k.alone <=> \A z \in Actors : ~Busy(z))
    BY DEF Idle
  <2>3. QED
    BY <2>1, <2>2
<1>4. ASSUME NEW z \in {"mount", "cli"}
      PROVE  /\ job'[z].op = job[z].op /\ job'[z].paths = job[z].paths /\ job'[z].at = job[z].at
             /\ job'[z].a = job[z].a /\ job'[z].r = job[z].r /\ job'[z].u = job[z].u
             /\ job'[z].hit = job[z].hit /\ job'[z].tmp = job[z].tmp
  <2>1. job'[z] = [job[z] EXCEPT !.alone = @ /\ ~Busy(z)]
    BY <1>1, <1>4 DEF Review, Begin
  <2>2. job[z] \in Jobs
    BY <1>1
  <2>3. QED
    BY <2>1, <2>2 DEF Jobs
<1>5. Roles'
  BY <1>1, <1>2, <1>3, <1>4 DEF FirmInv, Roles
<1>6. ASSUME NEW p \in firm' PROVE p \in firm /\ p \notin P /\ verdict'[p] = verdict[p] /\ OnFile(p)'
  <2>1. p \in firm /\ p \notin P /\ p \in Paths
    BY <1>2, <1>6 DEF TypeOK
  <2>2. verdict'[p] = verdict[p]
    BY <1>2, <2>1
  <2>3. OnFile(p)'
    BY <1>2, <2>1, <2>2 DEF FirmInv, OnFile
  <2>4. QED
    BY <2>1, <2>2, <2>3
<1>7. ASSUME NEW p \in firm', NEW z \in Actors, Busy(z)' PROVE Carried(job[z], p)'
  <2>1. CASE z = "portal"
    <3>1. ~KnowsA(n) /\ ~KnowsR(n) /\ ~KnowsU(n) /\ n.op # "rollback" /\ n.hit = {} /\ p \notin n.paths
      BY <1>3, <1>6 DEF KnowsA, KnowsR, KnowsU
    <3>2. Carried(n, p)'
      BY <3>1 DEF Carried, KnowsA, KnowsR, KnowsU
    <3>3. QED
      BY <1>3, <2>1, <3>2
  <2>2. CASE z # "portal"
    <3>1. Busy(z) /\ Carried(job[z], p)
      BY <1>1, <1>4, <1>6, <1>7, <2>2 DEF FirmInv, Busy
    <3>2. QED
      BY <1>1, <1>4, <1>6, <2>2, <3>1 DEF Carried, KnowsA, KnowsR, KnowsU, Unpicked
  <2>3. QED
    BY <2>1, <2>2
<1>8. Unraced(job["portal"])'
  <2>1. Unraced(n)'
    BY <1>1, <1>3, <1>4 DEF Unraced, Written, Busy
  <2>2. QED
    BY <1>3, <2>1
<1>9. ASSUME NEW p \in firm' PROVE Busy("portal")' => p \notin job'["portal"].paths
  BY <1>2, <1>3, <1>6, <1>9
<1>10. ASSUME NEW z \in Actors PROVE Copying(job[z])'
  <2>1. CASE z = "portal"
    BY <1>3, <2>1 DEF Copying
  <2>2. CASE z # "portal"
    <3>1. Copying(job[z])
      BY DEF FirmInv
    <3>2. QED
      BY <1>1, <1>4, <2>2, <3>1 DEF Copying, Place
  <2>3. QED
    BY <2>1, <2>2
<1>11. QED
  BY <1>5, <1>6, <1>7, <1>8, <1>9, <1>10 DEF FirmInv

LEMMA BeginningFirm ==
    ASSUME TypeOK, FirmInv,
           \/ \E P \in SUBSET Paths \ {{}}, op \in {"approve", "reject", "revoke"} : Review(op, P)
           \/ \E T \in {{}, Terms} : Mount(T)
           \/ Bootstrap \/ Prune \/ Rollback
    PROVE  FirmInv'
<1>1. ASSUME NEW T \in {{}, Terms}, Mount(T) PROVE FirmInv'
  <2>1. T \in SUBSET Paths /\ firm \subseteq Paths /\ files \subseteq Paths
    BY DEF Paths, TypeOK
  <2>2. /\ Begin("mount", "mount", T) /\ UNCHANGED verdict
        /\ files' = (files \ Terms) \cup T
        /\ firm' = firm \ {p \in Terms \ T : verdict[p] = "approve"}
    BY <1>1 DEF Mount
  <2>3. \A p \in firm' : p \in files => p \in files' \/ verdict[p] # "approve"
    BY <2>2
  <2>4. QED
    BY <2>1, <2>2, <2>3, BeginFirm
<1>2. CASE Bootstrap
  <2>1. UNCHANGED <<files, verdict, firm>>
        /\ (Begin("cli", "bootstrap", Terms) \/ Begin("cli", "approve", {}))
    BY <1>2 DEF Bootstrap, history
  <2>2. Terms \in SUBSET Paths /\ {} \in SUBSET Paths
    BY DEF Paths
  <2>3. QED
    BY <2>1, <2>2, BeginFirm
<1>3. CASE Prune
  BY <1>3, BeginFirm DEF Prune, history
<1>4. CASE Rollback
  <2>1. UNCHANGED <<files, verdict>> /\ Begin("cli", "rollback", {})
        /\ firm' = {p \in firm : verdict[p] # "approve"}
    BY <1>4 DEF Rollback
  <2>2. QED
    BY <2>1, BeginFirm
<1>5. QED
  BY <1>1, <1>2, <1>3, <1>4, ReviewFirm

\* A review that returns alone has left the files as it tells the operator.
LEMMA ReturnFirm ==
    ASSUME TypeOK, FirmInv, NEW x \in Actors, Return(x)
    PROVE  FirmInv'
<1> DEFINE j == job[x]
<1>1. job \in [Actors -> Jobs] /\ Actors = {"portal", "mount", "cli"}
      /\ Idle.op = "none" /\ Idle.paths = {} /\ Idle.at = 1 /\ Idle.tmp = "no"
  BY DEF TypeOK, Actors, Idle
<1>2. /\ j \in Jobs /\ j.at \in Nat /\ j.at >= 1 /\ Access(x) = "over" /\ Busy(x)
      /\ job' = [job EXCEPT ![x] = Idle]
      /\ UNCHANGED <<approved, rejected, unapproved, files>>
  BY DEF TypeOK, Jobs, FirmInv, Roles, Return, disk
<1>3. job'[x] = Idle /\ \A z \in Actors \ {x} : job'[z] = job[z]
  BY <1>1, <1>2
<1>4. Roles'
  BY <1>1, <1>3 DEF FirmInv, Roles
<1>5. ASSUME NEW p \in firm, p \notin Told(x)
      PROVE  OnFile(p)' /\ \A z \in Actors : Busy(z)' => Carried(job[z], p)'
  <2>1. verdict'[p] = verdict[p]
    BY <1>5 DEF Return, TypeOK
  <2>2. OnFile(p)'
    BY <1>2, <2>1 DEF FirmInv, OnFile
  <2>3. ASSUME NEW z \in Actors, Busy(z)' PROVE Carried(job[z], p)'
    <3>1. z # x /\ job'[z] = job[z] /\ Busy(z)
      BY <1>1, <1>3, <2>3 DEF Busy
    <3>2. Carried(job[z], p)
      BY <3>1 DEF FirmInv
    <3>3. QED
      BY <2>1, <3>1, <3>2 DEF Carried, KnowsA, KnowsR, KnowsU, Unpicked
  <2>4. QED
    BY <2>2, <2>3
<1>6. \A p \in firm : p \notin Told(x)
  BY <1>2 DEF FirmInv, Told
<1>7. ASSUME NEW p \in Told(x), j.alone
      PROVE  OnFile(p)' /\ \A z \in Actors : ~Busy(z)'
  <2>1. x = "portal" /\ p \in j.paths /\ p \in Paths
        /\ (j.op = "approve" => p \in j.hit) /\ (j.op = "revoke" => j.hit # {})
    BY <1>2 DEF Told, Jobs
  <2>2. verdict'[p] = j.op
    BY <2>1 DEF Return
  <2>3. Unraced(j) /\ j.op \in {"approve", "reject", "revoke"}
    BY <1>2, <2>1 DEF FirmInv, Roles, Busy
  <2>4. /\ j.op = "approve" => j.at > 4
        /\ j.op = "reject" => j.at > 2
        /\ j.op = "revoke" => j.at > 3 /\ j.at > 4
    BY <1>2, <2>3, PositionsOfReviews DEF FirmInv
  <2>5. OnFile(p)'
    BY <1>2, <1>7, <2>1, <2>2, <2>3, <2>4 DEF Unraced, Written, OnFile
  <2>6. \A z \in Actors : job'[z].op = "none"
    BY <1>1, <1>3, <1>7, <2>1, <2>3 DEF Unraced
  <2>7. QED
    BY <2>5, <2>6 DEF Busy
<1>8. firm' \subseteq (IF j.alone THEN firm \cup Told(x) ELSE firm)
  BY DEF Return
<1>9. ASSUME NEW p \in firm'
      PROVE  OnFile(p)' /\ \A z \in Actors : Busy(z)' => Carried(job[z], p)'
  BY <1>5, <1>6, <1>7, <1>8, <1>9
<1>10. ASSUME NEW p \in firm', Busy("portal")' PROVE p \notin job'["portal"].paths
  <2>1. x # "portal"
    BY <1>1, <1>3, <1>10 DEF Busy
  <2>2. Told(x) = {}
    BY <2>1 DEF Told
  <2>3. QED
    BY <1>1, <1>3, <1>8, <1>10, <2>1, <2>2 DEF FirmInv, Busy
<1>11. Unraced(job["portal"])'
  <2>1. CASE x = "portal"
    BY <1>1, <1>3, <2>1 DEF Unraced
  <2>2. CASE x # "portal"
    <3>1. job["portal"].op = "none" \/ ~job["portal"].alone
      BY <1>1, <1>2, <2>2 DEF FirmInv, Unraced, Busy
    <3>2. QED
      BY <1>1, <1>3, <2>2, <3>1 DEF Unraced
  <2>3. QED
    BY <2>1, <2>2
<1>12. ASSUME NEW z \in Actors PROVE Copying(job[z])'
  <2>1. Copying(job[z])
    BY DEF FirmInv
  <2>2. QED
    BY <1>1, <1>3, <2>1 DEF Copying, Place
<1>13. QED
  BY <1>4, <1>9, <1>10, <1>11, <1>12 DEF FirmInv

LEMMA CrashFirm ==
    ASSUME TypeOK, FirmInv, NEW X, Crash(X)
    PROVE  FirmInv'
<1>1. job \in [Actors -> Jobs] /\ Actors = {"portal", "mount", "cli"}
      /\ Idle.op = "none" /\ Idle.paths = {} /\ Idle.at = 1 /\ Idle.tmp = "no"
  BY DEF TypeOK, Actors, Idle
<1>2. /\ \A z \in Actors : job'[z] = job[z] \/ job'[z] = Idle
      /\ UNCHANGED <<approved, rejected, unapproved, files, verdict, firm>>
  BY DEF Crash, disk, history
<1>3. Roles'
  BY <1>1, <1>2 DEF FirmInv, Roles
<1>4. ASSUME NEW z \in Actors, Busy(z)' PROVE job'[z] = job[z] /\ Busy(z)
  BY <1>1, <1>2, <1>4 DEF Busy
<1>5. ASSUME NEW p \in firm, NEW z \in Actors, Busy(z)' PROVE Carried(job[z], p)'
  <2>1. Carried(job[z], p)
    BY <1>4, <1>5 DEF FirmInv
  <2>2. QED
    BY <1>2, <1>4, <1>5, <2>1 DEF Carried, KnowsA, KnowsR, KnowsU, Unpicked
<1>6. Unraced(job["portal"])'
  <2>1. Unraced(job["portal"])
    BY DEF FirmInv
  <2>2. CASE job'["portal"] = Idle
    BY <1>1, <2>2 DEF Unraced
  <2>3. CASE job'["portal"] = job["portal"]
    BY <1>1, <1>2, <2>1, <2>3 DEF Unraced, Written
  <2>4. QED
    BY <1>1, <1>2, <2>2, <2>3
<1>7. \A p \in firm : OnFile(p)'
  BY <1>2 DEF FirmInv, OnFile
<1>8. \A p \in firm : Busy("portal")' => p \notin job'["portal"].paths
  BY <1>1, <1>4 DEF FirmInv
<1>9. ASSUME NEW z \in Actors PROVE Copying(job[z])'
  <2>1. Copying(job[z])
    BY DEF FirmInv
  <2>2. QED
    BY <1>1, <1>2, <2>1 DEF Copying, Place
<1>10. QED
  BY <1>2, <1>3, <1>5, <1>6, <1>7, <1>8, <1>9 DEF FirmInv

LEMMA FirmInvInductive == TypeOK /\ FirmInv /\ [Next]_vars => FirmInv'
<1> SUFFICES ASSUME TypeOK, FirmInv, [Next]_vars PROVE FirmInv'
  OBVIOUS
<1>1. ASSUME NEW x \in Actors, Busy(x), Step(x) PROVE FirmInv'
  BY <1>1, ReadApprovedFirm, ReadRejectedFirm, ReadUnapprovedFirm, PickFirm, PickAutoFirm,
     SaveApprovedFirm, SaveRejectedFirm, SaveUnapprovedFirm, DropDanglingFirm,
     RenameFirm, RenameFailsFirm, SaveFailsFirm, ReturnFirm DEF Step
<1>2. CASE UNCHANGED vars
  <2>1. UNCHANGED <<approved, rejected, unapproved, files, job, verdict, firm>>
    BY <1>2 DEF vars, disk, history
  <2>2. QED
    BY <2>1 DEF FirmInv, Roles, OnFile, Carried, KnowsA, KnowsR, KnowsU, Unpicked, Unraced, Written,
                Copying, Place, Busy
<1>3. QED
  BY <1>1, <1>2, BeginningFirm, CrashFirm DEF Next

LEMMA FirmInvInvariant == Spec => []FirmInv
<1>1. Init => FirmInv
  BY DEF Init, FirmInv, Roles, Unraced, Copying, Idle, Actors
<1>2. QED
  BY <1>1, FirmInvInductive, TypeCorrect, PTL DEF Spec

\* A revocation that nothing overlapped holds until the operator speaks of the path
\* again, whatever races, raises or dies after it: a mount, a bootstrap or a rollback
\* that begins later has read that the path is revoked before it picks or writes. A
\* failed reading or a torn copy of unapproved.json takes the path out of firm, and
\* with it out of the claim; trouble with the other two files does not.
THEOREM RevocationStays == Spec => []RevocationHolds
<1>1. FirmInv => RevocationHolds
  BY DEF FirmInv, OnFile, RevocationHolds
<1>2. QED
  BY <1>1, FirmInvInvariant, PTL

\* A dismissal stays in rejected.json: the only writers that take paths out of it
\* take out what they admitted, and a dismissed path is never among those. Only a
\* failed reading or a torn copy of rejected.json itself ends the claim.
THEOREM DismissalStays == Spec => []DismissalHolds
<1>1. FirmInv => DismissalHolds
  BY DEF FirmInv, OnFile, DismissalHolds
<1>2. QED
  BY <1>1, FirmInvInvariant, PTL

\* An approval stays while the file does: who writes approved.json back has read it
\* after the approval, and prunes only what has no file. Only a failed reading or a
\* torn copy of approved.json itself ends the claim.
THEOREM ApprovalStays == Spec => []ApprovalHolds
<1>1. FirmInv => ApprovalHolds
  BY DEF FirmInv, OnFile, ApprovalHolds
<1>2. QED
  BY <1>1, FirmInvInvariant, PTL
=============================================================================
