------------------------- MODULE InferenceSlotProofs -------------------------
(***************************************************************************)
(* Proofs about InferenceSlot, for any finite set of callers, any of them    *)
(* streams, and any capacity the portal accepts; and then about PhoneChat,   *)
(* which runs its phones through that slot, for any of the callers that are   *)
(* no streams, any caps, and any number of restarts and failed writes. The    *)
(* slot's invariant is an invariant of PhoneChat too: all its steps but the   *)
(* restart are steps of the slot, or leave the slot alone.                    *)
(***************************************************************************)
EXTENDS PhoneChat, FiniteSetTheorems, FunctionTheorems, SequenceTheorems, TLAPS

\* Every place the value of pc can name, and the kinds a step moves a caller to.
Stops == {"in", "left", "late", "gone"}

Holders == At("granted") \cup At("in")
Queued == At("waiting") \cup At("granted")
Forgotten == {c \in At("gone") : thread[c] = "none"}

Distinct(q) == \A i, j \in 1..Len(q) : q[i] = q[j] => i = j
In(q, d) == \E i \in 1..Len(q) : q[i] = d

\* The semaphore's queue is the callers that wait, each once.
QueueInv ==
    /\ queue \in Seq(Callers)
    /\ Distinct(queue)
    /\ \A d \in Callers : In(queue, d) <=> pc[d] = "waiting"

\* A caller has a thread from its acquisition on, and never before.
CallerInv ==
    /\ pc \in [Callers -> Places]
    /\ thread \in [Callers -> {"none", "running", "done"}]
    /\ \A d \in Callers : pc[d] \in {"idle", "waiting", "granted"} => thread[d] = "none"
    /\ \A d \in Callers : pc[d] = "in" => thread[d] # "none"

ValuesInv == free \in Nat /\ pending \in Int /\ inflight \in Int

IInv ==
    /\ QueueInv /\ CallerInv /\ ValuesInv
    /\ SlotsConserved /\ NoLostWakeUp /\ InflightIsHonest /\ PendingAccounted

-----------------------------------------------------------------------------
(* The semaphore *)

LEMMA PlacesFinite ==
    ASSUME NEW S, S \subseteq Callers
    PROVE  IsFiniteSet(S) /\ Cardinality(S) \in Nat
  BY CallersAssumption, FS_Subset, FS_CardinalityType DEF CallersAssumption

\* Taking one caller out of the queue leaves the others, in their order.
LEMMA WithoutFact ==
    ASSUME QueueInv, CallerInv, NEW c \in Callers
    PROVE  /\ Without(c) \in Seq(Callers)
           /\ Distinct(Without(c))
           /\ \A d \in Callers : In(Without(c), d) <=> d # c /\ pc[d] = "waiting"
<1>1. CASE pc[c] # "waiting"
  BY <1>1 DEF QueueInv, Without
<1>2. CASE pc[c] = "waiting"
  <2> DEFINE k == CHOOSE i \in 1..Len(queue) : queue[i] = c
             n == Len(queue)
             q == [i \in 1..(n - 1) |-> queue[IF i < k THEN i ELSE i + 1]]
  <2>1. k \in 1..n /\ queue[k] = c
    BY <1>2 DEF QueueInv, In
  <2>2. n \in Nat /\ n >= 1 /\ queue \in [1..n -> Callers]
    BY <2>1 DEF QueueInv
  <2>3. Without(c) = q
    BY <1>2 DEF Without
  <2> HIDE DEF k, n
  <2>4. q \in Seq(Callers) /\ Len(q) = n - 1
    <3>1. n - 1 \in Nat
      BY <2>2
    <3>2. \A i \in 1..(n - 1) : (IF i < k THEN i ELSE i + 1) \in 1..n
      BY <2>1, <2>2
    <3>3. q \in [1..(n - 1) -> Callers]
      BY <2>2, <3>2
    <3>4. QED
      BY <3>1, <3>3
  <2>5. \A i \in 1..(n - 1) : q[i] = queue[IF i < k THEN i ELSE i + 1]
    OBVIOUS
  <2> HIDE DEF q
  <2>6. Distinct(q)
    <3> SUFFICES ASSUME NEW i \in 1..(n - 1), NEW j \in 1..(n - 1), q[i] = q[j]
                 PROVE  i = j
      BY <2>4 DEF Distinct
    <3>1. \A x, y \in 1..n : queue[x] = queue[y] => x = y
      BY DEF QueueInv, Distinct, n
    <3>2. (IF i < k THEN i ELSE i + 1) = (IF j < k THEN j ELSE j + 1)
      BY <2>1, <2>2, <2>5, <3>1
    <3>3. QED
      BY <2>1, <2>2, <3>2
  <2>7. ASSUME NEW d \in Callers
        PROVE  In(q, d) <=> d # c /\ pc[d] = "waiting"
    <3>1. In(queue, d) <=> pc[d] = "waiting"
      BY DEF QueueInv
    <3>2. ASSUME In(q, d) PROVE d # c /\ In(queue, d)
      <4>1. PICK i \in 1..(n - 1) : q[i] = d
        BY <3>2, <2>4 DEF In
      <4> DEFINE m == IF i < k THEN i ELSE i + 1
      <4>2. m \in 1..n /\ m # k /\ queue[m] = d
        BY <4>1, <2>1, <2>2, <2>5
      <4>3. d # c
        BY <4>2, <2>1 DEF QueueInv, Distinct, n
      <4>4. QED
        BY <4>2, <4>3 DEF In, n
    <3>3. ASSUME d # c, In(queue, d) PROVE In(q, d)
      <4>1. PICK j \in 1..n : queue[j] = d
        BY <3>3 DEF In, n
      <4>2. j # k
        BY <4>1, <3>3, <2>1
      <4>3. CASE j < k
        <5>1. j \in 1..(n - 1) /\ q[j] = d
          BY <4>1, <4>3, <2>1, <2>2, <2>5
        <5>2. QED
          BY <5>1, <2>4 DEF In
      <4>4. CASE j > k
        <5>1. j - 1 \in 1..(n - 1) /\ ~(j - 1 < k) /\ (j - 1) + 1 = j
          BY <4>1, <4>4, <2>1, <2>2
        <5>2. q[j - 1] = d
          BY <4>1, <5>1, <2>5
        <5>3. QED
          BY <5>1, <5>2, <2>4 DEF In
      <4>5. QED
        BY <4>1, <4>2, <4>3, <4>4, <2>1
    <3>4. QED
      BY <3>1, <3>2, <3>3
  <2>8. QED
    BY <2>3, <2>4, <2>6, <2>7
<1>3. QED
  BY <1>1, <1>2

\* Waking hands the free slots to the first waiters, and moves c on.
LEMMA WakeFact ==
    ASSUME CallerInv, NEW f \in Nat, NEW q \in Seq(Callers), Distinct(q),
           NEW c \in Callers, NEW place \in Stops,
           \A d \in Callers : In(q, d) <=> d # c /\ pc[d] = "waiting",
           Wake(f, q, c, place)
    PROVE  /\ QueueInv'
           /\ free' \in Nat /\ (free' > 0 => queue' = <<>>)
           /\ pc' \in [Callers -> Places] /\ pc'[c] = place
           /\ \A d \in Callers \ {c} :
                 pc'[d] = pc[d] \/ (pc[d] = "waiting" /\ pc'[d] = "granted")
           /\ free' + Cardinality((Holders \ {c})') = f + Cardinality(Holders \ {c})
<1> DEFINE l == Len(q)
           n == IF f < l THEN f ELSE l
           woken == {q[i] : i \in 1..n}
<1>1. l \in Nat /\ n \in 0..l /\ n <= f /\ (n < f => n = l)
  OBVIOUS
<1>2. q \in [1..l -> Callers] /\ woken \subseteq Callers
  BY <1>1
<1>3. /\ free' = f - n
      /\ queue' = SubSeq(q, n + 1, l)
      /\ pc' = [d \in Callers |-> IF d = c THEN place ELSE IF d \in woken THEN "granted" ELSE pc[d]]
  BY DEF Wake
<1>4. \A d \in Callers : d \in woken <=> \E i \in 1..n : q[i] = d
  OBVIOUS
<1> HIDE DEF n, woken
<1>5. \A d \in woken : d # c /\ pc[d] = "waiting"
  BY <1>1, <1>2, <1>4 DEF In, l
<1>6. \A d \in Callers : pc'[d] = IF d = c THEN place ELSE IF d \in woken THEN "granted" ELSE pc[d]
  BY <1>3
<1>7. pc' \in [Callers -> Places] /\ pc'[c] = place
  BY <1>3, <1>6 DEF CallerInv, Places, Stops
<1>8. free' \in Nat /\ (free' > 0 => queue' = <<>>)
  <2>1. f - n \in Nat
    BY <1>1
  <2>2. ASSUME f - n > 0 PROVE SubSeq(q, n + 1, l) = <<>>
    BY <1>1, <2>2
  <2>3. QED
    BY <1>3, <2>1, <2>2
<1>9. QueueInv'
  <2> DEFINE rest == SubSeq(q, n + 1, l)
  <2>1. n + 1 \in Int /\ l \in Int /\ \A i \in (n + 1)..l : q[i] \in Callers
    <3> HIDE DEF l
    <3>1. n + 1 \in Int /\ l \in Int /\ \A i \in (n + 1)..l : i \in 1..l
      BY <1>1
    <3>2. QED
      BY <3>1, <1>2
  <2>2. /\ rest \in Seq(Callers)
        /\ Len(rest) = IF n + 1 <= l THEN l - (n + 1) + 1 ELSE 0
        /\ \A i \in 1..(l - (n + 1) + 1) : rest[i] = q[(n + 1) + i - 1]
    BY <2>1, SubSeqProperties
  <2>3. queue' = rest
    BY <1>3
  <2> HIDE DEF rest, l
  <2>4. queue' \in Seq(Callers) /\ Len(queue') = l - n
    BY <1>1, <2>2, <2>3
  <2>5. \A i \in 1..(l - n) : queue'[i] = q[i + n] /\ i + n \in 1..l
    <3> SUFFICES ASSUME NEW i \in 1..(l - n)
                 PROVE  queue'[i] = q[i + n] /\ i + n \in 1..l
      OBVIOUS
    <3>1. i \in 1..(l - (n + 1) + 1) /\ (n + 1) + i - 1 = i + n /\ i + n \in 1..l
      BY <1>1
    <3>2. QED
      BY <3>1, <2>2, <2>3
  <2>6. Distinct(queue')
    <3> SUFFICES ASSUME NEW i \in 1..(l - n), NEW j \in 1..(l - n), queue'[i] = queue'[j]
                 PROVE  i = j
      BY <2>4 DEF Distinct
    <3>1. i + n = j + n
      BY <2>5 DEF Distinct, l
    <3>2. QED
      BY <3>1, <1>1
  <2>7. ASSUME NEW d \in Callers
        PROVE  In(queue', d) <=> pc'[d] = "waiting"
    <3>1. In(queue', d) <=> d \notin woken /\ In(q, d)
      <4>1. ASSUME In(queue', d) PROVE d \notin woken /\ In(q, d)
        <5>1. PICK i \in 1..(l - n) : queue'[i] = d
          BY <4>1, <2>4 DEF In
        <5>2. i + n \in 1..l /\ q[i + n] = d
          BY <5>1, <2>5
        <5>3. \A j \in 1..n : q[j] # d
          <6> SUFFICES ASSUME NEW j \in 1..n, q[j] = d PROVE FALSE
            OBVIOUS
          <6>1. j \in 1..l /\ j # i + n
            BY <1>1, <5>1
          <6>2. QED
            BY <5>2, <6>1 DEF Distinct, l
        <5>4. QED
          BY <5>2, <5>3, <1>4 DEF In, l
      <4>2. ASSUME d \notin woken, In(q, d) PROVE In(queue', d)
        <5>1. PICK j \in 1..l : q[j] = d
          BY <4>2 DEF In, l
        <5>2. ~(j \in 1..n)
          BY <5>1, <4>2, <1>4
        <5>3. j - n \in 1..(l - n) /\ (j - n) + n = j
          BY <1>1, <5>1, <5>2
        <5>4. queue'[j - n] = d
          BY <2>5, <5>1, <5>3
        <5>5. QED
          BY <2>4, <5>3, <5>4 DEF In
      <4>3. QED
        BY <4>1, <4>2
    <3>2. QED
      BY <3>1, <1>6 DEF Stops
  <2>8. QED
    BY <2>4, <2>6, <2>7 DEF QueueInv
<1>10. \A d \in Callers \ {c} : pc'[d] = pc[d] \/ (pc[d] = "waiting" /\ pc'[d] = "granted")
  BY <1>5, <1>6
<1>11. free' + Cardinality((Holders \ {c})') = f + Cardinality(Holders \ {c})
  <2>1. (Holders \ {c})' = (Holders \ {c}) \cup woken
    BY <1>2, <1>5, <1>6 DEF Holders, At
  <2>2. (Holders \ {c}) \cap woken = {}
    BY <1>5 DEF Holders, At
  <2>3. Holders \ {c} \subseteq Callers
    BY DEF Holders, At
  <2>4. Cardinality(woken) = n
    <3> DEFINE b == [i \in 1..n |-> q[i]]
    <3>1. \A i \in 1..n : i \in 1..l
      BY <1>1
    <3>2. \A i, j \in 1..n : b[i] = b[j] => i = j
      BY <3>1 DEF Distinct, l
    <3>3. b \in [1..n -> woken] /\ (\A d \in woken : \E i \in 1..n : b[i] = d)
      BY <1>2, <1>4, <3>1
    <3>4. b \in Bijection(1..n, woken)
      BY <3>2, <3>3, Fun_IsBij
    <3>5. ExistsBijection(1..n, woken) /\ n \in Nat
      BY <3>4, <1>1, Fun_ExistsBij
    <3>6. QED
      BY <3>5, FS_CountingElements
  <2>5. Cardinality((Holders \ {c}) \cup woken) = Cardinality(Holders \ {c}) + n
    <3>1. /\ IsFiniteSet(Holders \ {c}) /\ IsFiniteSet(woken)
          /\ Cardinality(Holders \ {c}) \in Nat
      BY <1>2, <2>3, PlacesFinite
    <3>2. Cardinality((Holders \ {c}) \cap woken) = 0
      BY <2>2, FS_EmptySet
    <3>3. Cardinality((Holders \ {c}) \cup woken)
            = Cardinality(Holders \ {c}) + Cardinality(woken) - Cardinality((Holders \ {c}) \cap woken)
      BY <3>1, FS_Union
    <3>4. \A x, y \in Nat : x + y - 0 = x + y
      OBVIOUS
    <3>5. QED
      BY <3>1, <3>2, <3>3, <3>4, <2>4, <1>1
  <2>6. QED
    <3>1. Cardinality(Holders \ {c}) \in Nat /\ n \in Nat
      BY <2>3, <1>1, PlacesFinite
    <3>2. \A x, y \in Nat : (f - x) + (y + x) = f + y
      OBVIOUS
    <3>3. Cardinality((Holders \ {c})') = Cardinality(Holders \ {c}) + n
      BY <2>1, <2>5
    <3>4. QED
      BY <3>1, <3>2, <3>3, <1>3
<1>12. QED
  BY <1>7, <1>8, <1>9, <1>10, <1>11

\* One caller more or less in a set. n is 1 when it makes a difference.
LEMMA LeaveFact ==
    ASSUME NEW S, S \subseteq Callers, NEW c \in Callers,
           NEW n \in {0, 1}, n = 1 <=> c \in S
    PROVE  Cardinality(S \ {c}) = Cardinality(S) - n
<1>1. Cardinality(S) \in Nat
         /\ Cardinality(S \ {c}) = IF c \in S THEN Cardinality(S) - 1 ELSE Cardinality(S)
  BY PlacesFinite, FS_RemoveElement
<1>2. QED
  BY <1>1

LEMMA JoinFact ==
    ASSUME NEW S, S \subseteq Callers, NEW c \in Callers, c \notin S, NEW T,
           NEW n \in {0, 1}, n = 1 => T = S \cup {c}, n = 0 => T = S
    PROVE  Cardinality(T) = Cardinality(S) + n
<1>1. Cardinality(S) \in Nat
         /\ Cardinality(S \cup {c}) = IF c \in S THEN Cardinality(S) ELSE Cardinality(S) + 1
  BY PlacesFinite, FS_AddElement
<1>2. QED
  BY <1>1

\* A step that wakes others and stops c somewhere keeps the invariant when it
\* gives back, and counts, what c had: s is 1 when it gets to hold a slot, h when
\* it held one or was given one, i when it was in, m when it was queued, g when its
\* client goes away before it had a thread.
LEMMA WakeStep ==
    ASSUME IInv, NEW c \in Callers, NEW f \in Nat, NEW q \in Seq(Callers), Distinct(q),
           \A d \in Callers : In(q, d) <=> d # c /\ pc[d] = "waiting",
           NEW place \in Stops, Wake(f, q, c, place),
           pc[c] \in {"waiting", "granted", "in"},
           thread' \in [Callers -> {"none", "running", "done"}],
           \A d \in Callers \ {c} : thread'[d] = thread[d],
           place = "in" => thread'[c] # "none",
           NEW s \in {0, 1}, s = 1 <=> place = "in",
           NEW h \in {0, 1}, h = 1 <=> pc[c] # "waiting",
           NEW i \in {0, 1}, i = 1 <=> pc[c] = "in",
           NEW m \in {0, 1}, m = 1 <=> pc[c] # "in",
           NEW g \in {0, 1}, g = 1 <=> place = "gone" /\ thread'[c] = "none",
           f + s = free + h, inflight' = inflight - i + s, pending' = pending - m + g
    PROVE  IInv'
<1>0. /\ CallerInv /\ ValuesInv
      /\ SlotsConserved /\ InflightIsHonest /\ PendingAccounted
  BY DEF IInv
<1>1. /\ QueueInv'
      /\ free' \in Nat /\ (free' > 0 => queue' = <<>>)
      /\ pc' \in [Callers -> Places] /\ pc'[c] = place
      /\ \A d \in Callers \ {c} :
            pc'[d] = pc[d] \/ (pc[d] = "waiting" /\ pc'[d] = "granted")
      /\ free' + Cardinality((Holders \ {c})') = f + Cardinality(Holders \ {c})
  BY <1>0, WakeFact
<1>2. Holders \subseteq Callers /\ At("in") \subseteq Callers /\ Queued \subseteq Callers
        /\ Forgotten \subseteq Callers /\ (Holders \ {c})' \subseteq Callers
  BY DEF Holders, Queued, Forgotten, At
<1>3. CallerInv'
  BY <1>0, <1>1 DEF CallerInv, Stops
<1>4. SlotsConserved'
  <2>1. (s = 1 => Holders' = (Holders \ {c})' \cup {c}) /\ (s = 0 => Holders' = (Holders \ {c})')
    BY <1>1 DEF Holders, At, Stops
  <2>2. c \notin (Holders \ {c})' /\ Holders' \subseteq Callers /\ Holders \ {c} \subseteq Callers
    BY <1>2 DEF Holders, At
  <2>3. Cardinality(Holders') = Cardinality((Holders \ {c})') + s
    <3> DEFINE S == (Holders \ {c})'
               T == Holders'
    <3>1. S \subseteq Callers /\ c \notin S /\ (s = 1 => T = S \cup {c}) /\ (s = 0 => T = S)
      BY <1>2, <2>1, <2>2
    <3> HIDE DEF S, T
    <3>2. Cardinality(T) = Cardinality(S) + s
      BY <3>1, JoinFact
    <3>3. QED
      BY <3>2 DEF S, T
  <2>4. Cardinality(Holders \ {c}) = Cardinality(Holders) - h
    <3>1. h = 1 <=> c \in Holders
      BY DEF Holders, At
    <3>2. QED
      BY <1>2, <3>1, LeaveFact
  <2>5. free + Cardinality(Holders) = Capacity
    BY <1>0 DEF SlotsConserved, Holders
  <2>6. /\ Cardinality(Holders) \in Nat /\ Cardinality((Holders \ {c})') \in Nat
        /\ Cardinality(Holders') \in Nat /\ Cardinality(Holders \ {c}) \in Nat
        /\ free \in Nat /\ free' \in Nat
    BY <1>0, <1>1, <1>2, <2>2, PlacesFinite DEF ValuesInv
  <2>7. free' + Cardinality(Holders') = Capacity
    <3> DEFINE k == Cardinality(Holders)
               l == Cardinality(Holders \ {c})
               x == Cardinality(Holders')
               y == Cardinality((Holders \ {c})')
    <3>1. free' + y = f + l /\ l = k - h /\ x = y + s /\ free + k = Capacity /\ f + s = free + h
      BY <1>1, <2>3, <2>4, <2>5
    <3>2. k \in Nat /\ l \in Nat /\ x \in Nat /\ y \in Nat /\ free \in Nat /\ free' \in Nat
      BY <2>6
    <3> HIDE DEF k, l, x, y
    <3>3. free' + x = free + k
      <4>1. l + h = k
        BY <3>1, <3>2
      <4>2. free' + x = (free' + y) + s
        BY <3>1, <3>2
      <4>3. free' + x = (f + l) + s
        BY <4>2, <3>1
      <4>4. (f + l) + s = (f + s) + l
        BY <3>2
      <4>5. (f + s) + l = (free + h) + l
        BY <3>1
      <4>6. (free + h) + l = free + (l + h)
        BY <3>2
      <4>7. QED
        BY <4>1, <4>3, <4>4, <4>5, <4>6
    <3>4. QED
      BY <3>1, <3>3 DEF x
  <2>8. QED
    BY <2>7 DEF SlotsConserved, Holders
<1>5. NoLostWakeUp'
  BY <1>1 DEF NoLostWakeUp
<1>6. InflightIsHonest'
  <2>1. (s = 1 => At("in")' = (At("in") \ {c}) \cup {c}) /\ (s = 0 => At("in")' = At("in") \ {c})
    BY <1>1 DEF At, Stops
  <2>2. At("in") \ {c} \subseteq Callers /\ c \notin At("in") \ {c}
    BY <1>2
  <2>3. Cardinality(At("in")') = Cardinality(At("in") \ {c}) + s
    <3> DEFINE S == At("in") \ {c}
               T == At("in")'
    <3>1. S \subseteq Callers /\ c \notin S /\ (s = 1 => T = S \cup {c}) /\ (s = 0 => T = S)
      BY <2>1, <2>2
    <3> HIDE DEF S, T
    <3>2. Cardinality(T) = Cardinality(S) + s
      BY <3>1, JoinFact
    <3>3. QED
      BY <3>2 DEF S, T
  <2>4. Cardinality(At("in") \ {c}) = Cardinality(At("in")) - i
    <3>1. i = 1 <=> c \in At("in")
      BY DEF At
    <3>2. QED
      BY <1>2, <3>1, LeaveFact
  <2>5. QED
    BY <1>0, <2>3, <2>4 DEF InflightIsHonest
<1>7. PendingAccounted'
  <2>1. Queued' = Queued \ {c}
    BY <1>1 DEF Queued, At, Stops
  <2>2. (g = 1 => Forgotten' = Forgotten \cup {c}) /\ (g = 0 => Forgotten' = Forgotten)
    BY <1>0, <1>1 DEF Forgotten, At, Stops, CallerInv
  <2>3. c \notin Forgotten
    BY DEF Forgotten, At
  <2>4. Cardinality(Queued') = Cardinality(Queued) - m
    <3>1. m = 1 <=> c \in Queued
      BY DEF Queued, At
    <3>2. QED
      BY <1>2, <2>1, <3>1, LeaveFact
  <2>5. Cardinality(Forgotten') = Cardinality(Forgotten) + g
    BY <1>2, <2>2, <2>3, JoinFact
  <2>6. pending = Cardinality(Queued) + Cardinality(Forgotten)
    BY <1>0 DEF PendingAccounted, Queued, Forgotten
  <2>7. Cardinality(Queued) \in Nat /\ Cardinality(Forgotten) \in Nat
    BY <1>2, PlacesFinite
  <2>8. pending' = Cardinality(Queued') + Cardinality(Forgotten')
    BY <2>4, <2>5, <2>6, <2>7
  <2>9. QED
    BY <2>8 DEF PendingAccounted, Queued, Forgotten
<1>8. ValuesInv'
  BY <1>0, <1>1 DEF ValuesInv
<1>9. QED
  BY <1>1, <1>3, <1>4, <1>5, <1>6, <1>7, <1>8 DEF IInv

-----------------------------------------------------------------------------
(* The steps that wake nobody *)

\* A caller that finds the semaphore open: s is 1 when it gets to hold a slot.
LEMMA EnterStep ==
    ASSUME IInv, NEW c \in Callers, NEW place \in {"in", "left"}, EnterAtOnce(c, place),
           NEW s \in {0, 1}, s = 1 <=> place = "in"
    PROVE  IInv'
<1>0. /\ QueueInv /\ CallerInv /\ ValuesInv
      /\ SlotsConserved /\ InflightIsHonest /\ PendingAccounted
  BY DEF IInv
<1>1. /\ pc[c] = "idle" /\ free > 0 /\ queue = <<>>
      /\ queue' = queue /\ pending' = pending
      /\ free' = free - s /\ inflight' = inflight + s
  BY <1>0 DEF EnterAtOnce, Begins, Locked, ValuesInv
<1>2. /\ pc' \in [Callers -> Places] /\ pc'[c] = place
      /\ \A d \in Callers \ {c} : pc'[d] = pc[d] /\ thread'[d] = thread[d]
      /\ thread' \in [Callers -> {"none", "running", "done"}]
      /\ place = "in" => thread'[c] # "none"
  BY <1>0 DEF EnterAtOnce, Begins, CallerInv, Places
<1>3. QueueInv' /\ CallerInv' /\ ValuesInv' /\ NoLostWakeUp'
  <2>1. QueueInv'
    BY <1>0, <1>1, <1>2 DEF QueueInv, Distinct, In
  <2>2. CallerInv'
    BY <1>0, <1>1, <1>2 DEF CallerInv
  <2>3. ValuesInv' /\ NoLostWakeUp'
    BY <1>0, <1>1 DEF ValuesInv, NoLostWakeUp
  <2>4. QED
    BY <2>1, <2>2, <2>3
<1>4. /\ Holders \subseteq Callers /\ c \notin Holders
      /\ At("in") \subseteq Callers /\ c \notin At("in")
      /\ Holders' \subseteq Callers
  BY <1>1 DEF Holders, At
<1>5. SlotsConserved'
  <2>1. (s = 1 => Holders' = Holders \cup {c}) /\ (s = 0 => Holders' = Holders)
    BY <1>1, <1>2 DEF Holders, At
  <2>2. Cardinality(Holders') = Cardinality(Holders) + s
    <3> DEFINE S == Holders
               T == Holders'
    <3>1. S \subseteq Callers /\ c \notin S /\ (s = 1 => T = S \cup {c}) /\ (s = 0 => T = S)
      BY <1>4, <2>1
    <3> HIDE DEF S, T
    <3>2. Cardinality(T) = Cardinality(S) + s
      BY <3>1, JoinFact
    <3>3. QED
      BY <3>2 DEF S, T
  <2>3. Cardinality(Holders) \in Nat /\ free \in Nat
    BY <1>0, <1>4, PlacesFinite DEF ValuesInv
  <2>4. free' + Cardinality(Holders') = free + Cardinality(Holders)
    BY <1>1, <2>2, <2>3
  <2>5. QED
    BY <1>0, <2>4 DEF SlotsConserved, Holders
<1>6. InflightIsHonest'
  <2> DEFINE S == At("in")
             T == At("in")'
  <2>1. S \subseteq Callers /\ c \notin S /\ (s = 1 => T = S \cup {c}) /\ (s = 0 => T = S)
    BY <1>1, <1>2 DEF At
  <2>2. inflight = Cardinality(S)
    BY <1>0 DEF InflightIsHonest
  <2> HIDE DEF S, T
  <2>3. Cardinality(T) = Cardinality(S) + s
    BY <2>1, JoinFact
  <2>4. inflight' = Cardinality(T)
    BY <1>1, <2>2, <2>3
  <2>5. QED
    BY <2>4 DEF InflightIsHonest, T
<1>7. PendingAccounted'
  <2>1. Queued' = Queued /\ Forgotten' = Forgotten
    BY <1>1, <1>2 DEF Queued, Forgotten, At
  <2>2. QED
    BY <1>0, <1>1, <2>1 DEF PendingAccounted, Queued, Forgotten
<1>8. QED
  BY <1>3, <1>5, <1>6, <1>7 DEF IInv

\* A caller that finds it locked joins the end of the queue.
LEMMA WaitStep ==
    ASSUME IInv, NEW c \in Callers, Wait(c)
    PROVE  IInv'
<1>0. /\ QueueInv /\ CallerInv /\ ValuesInv
      /\ SlotsConserved /\ NoLostWakeUp /\ InflightIsHonest /\ PendingAccounted
  BY DEF IInv
<1>1. /\ pc[c] = "idle" /\ Locked
      /\ queue' = Append(queue, c) /\ pending' = pending + 1
      /\ free' = free /\ inflight' = inflight /\ thread' = thread
  BY DEF Wait
<1>2. /\ pc' \in [Callers -> Places] /\ pc'[c] = "waiting"
      /\ \A d \in Callers \ {c} : pc'[d] = pc[d]
  BY <1>0 DEF Wait, CallerInv, Places
<1>3. QueueInv'
  <2> DEFINE n == Len(queue)
  <2>1. n \in Nat /\ \A i \in 1..n : queue[i] # c
    BY <1>0, <1>1 DEF QueueInv, In
  <2>2. /\ queue' \in Seq(Callers) /\ Len(queue') = n + 1
        /\ \A i \in 1..n : queue'[i] = queue[i]
        /\ queue'[n + 1] = c
    BY <1>0, <1>1, AppendProperties DEF QueueInv
  <2>3. \A i, j \in 1..n : queue[i] = queue[j] => i = j
    BY <1>0 DEF QueueInv, Distinct
  <2>4. \A d \in Callers : (\E i \in 1..n : queue[i] = d) <=> pc[d] = "waiting"
    BY <1>0 DEF QueueInv, In
  <2> HIDE DEF n
  <2>5. \A i \in 1..(n + 1) : i \in 1..n \/ i = n + 1
    BY <2>1
  <2>6. Distinct(queue')
    BY <2>1, <2>2, <2>3, <2>5 DEF Distinct
  <2>7. ASSUME NEW d \in Callers
        PROVE  In(queue', d) <=> pc'[d] = "waiting"
    <3>1. In(queue', d) <=> d = c \/ \E i \in 1..n : queue[i] = d
      <4>1. \A i \in 1..n : i \in 1..(n + 1)
        BY <2>1
      <4>2. n + 1 \in 1..(n + 1)
        BY <2>1
      <4>3. QED
        BY <2>2, <2>5, <4>1, <4>2 DEF In
    <3>2. QED
      BY <1>2, <2>4, <3>1
  <2>8. QED
    BY <2>2, <2>6, <2>7 DEF QueueInv
<1>4. CallerInv' /\ ValuesInv'
  BY <1>0, <1>1, <1>2 DEF CallerInv, ValuesInv
<1>5. At("in")' = At("in") /\ At("granted")' = At("granted") /\ Forgotten' = Forgotten
  BY <1>1, <1>2 DEF At, Forgotten
<1>6. SlotsConserved' /\ InflightIsHonest'
  BY <1>0, <1>1, <1>5 DEF SlotsConserved, InflightIsHonest
<1>7. NoLostWakeUp'
  BY <1>0, <1>1, <1>5 DEF NoLostWakeUp, Locked, ValuesInv
<1>8. PendingAccounted'
  <2>1. Queued \subseteq Callers /\ c \notin Queued /\ Queued' = Queued \cup {c}
    BY <1>1, <1>2 DEF Queued, At
  <2>2. Cardinality(Queued') = Cardinality(Queued) + 1 /\ Cardinality(Queued) \in Nat
    BY <2>1, PlacesFinite, FS_AddElement
  <2>3. Cardinality(Forgotten) \in Nat
    BY PlacesFinite DEF Forgotten, At
  <2>4. pending = Cardinality(Queued) + Cardinality(Forgotten)
    BY <1>0 DEF PendingAccounted, Queued, Forgotten
  <2>5. pending' = Cardinality(Queued') + Cardinality(Forgotten')
    BY <1>1, <1>5, <2>2, <2>3, <2>4
  <2>6. QED
    BY <2>5 DEF PendingAccounted, Queued, Forgotten
<1>9. QED
  BY <1>3, <1>4, <1>6, <1>7, <1>8 DEF IInv

\* A call that ends changes nothing the semaphore counts.
LEMMA ThreadStep ==
    ASSUME IInv, NEW c \in Callers, ThreadEnds(c)
    PROVE  IInv'
<1>0. /\ QueueInv /\ CallerInv /\ ValuesInv
      /\ SlotsConserved /\ NoLostWakeUp /\ InflightIsHonest /\ PendingAccounted
  BY DEF IInv
<1>1. /\ UNCHANGED <<free, queue, pc, pending, inflight>>
      /\ thread' \in [Callers -> {"none", "running", "done"}]
      /\ \A d \in Callers : thread'[d] = "none" <=> thread[d] = "none"
  BY <1>0 DEF ThreadEnds, semaphore, CallerInv
<1>2. QueueInv' /\ CallerInv' /\ ValuesInv'
  BY <1>0, <1>1 DEF QueueInv, CallerInv, ValuesInv
<1>3. Forgotten' = Forgotten /\ \A place \in Places : At(place)' = At(place)
  BY <1>1 DEF Forgotten, At
<1>4. SlotsConserved' /\ NoLostWakeUp' /\ InflightIsHonest' /\ PendingAccounted'
  BY <1>0, <1>1, <1>3
     DEF SlotsConserved, NoLostWakeUp, InflightIsHonest, PendingAccounted, Forgotten, Places
<1>5. QED
  BY <1>2, <1>4 DEF IInv

-----------------------------------------------------------------------------
(* The steps that wake others *)

\* The queue itself, for a caller that is not in it.
LEMMA QueueFact ==
    ASSUME QueueInv, NEW c \in Callers, pc[c] # "waiting"
    PROVE  /\ queue \in Seq(Callers) /\ Distinct(queue)
           /\ \A d \in Callers : In(queue, d) <=> d # c /\ pc[d] = "waiting"
  BY DEF QueueInv

LEMMA ResumeStep ==
    ASSUME IInv, NEW c \in Callers, NEW place \in {"in", "left"}, Resume(c, place),
           NEW s \in {0, 1}, s = 1 <=> place = "in"
    PROVE  IInv'
<1>0. QueueInv /\ CallerInv /\ ValuesInv
  BY DEF IInv
<1> DEFINE f == free + 1 - s
<1>1. /\ pc[c] = "granted" /\ pending' = pending - 1 /\ inflight' = inflight - 0 + s
      /\ f \in Nat /\ f + s = free + 1 /\ Wake(f, queue, c, place)
  <2>1. /\ pc[c] = "granted" /\ pending' = pending - 1 /\ Begins(c, place)
        /\ Wake(IF place = "in" THEN free ELSE free + 1, queue, c, place)
    BY DEF Resume
  <2>2. f = (IF place = "in" THEN free ELSE free + 1) /\ f \in Nat /\ f + s = free + 1
    BY <1>0 DEF ValuesInv
  <2>3. inflight' = inflight - 0 + s
    BY <1>0, <2>1 DEF Begins, ValuesInv
  <2> HIDE DEF f
  <2>4. QED
    BY <2>1, <2>2, <2>3
<1>2. /\ thread' \in [Callers -> {"none", "running", "done"}]
      /\ \A d \in Callers \ {c} : thread'[d] = thread[d]
      /\ place = "in" => thread'[c] # "none"
  BY <1>0 DEF Resume, Begins, CallerInv
<1>3. /\ queue \in Seq(Callers) /\ Distinct(queue)
      /\ \A d \in Callers : In(queue, d) <=> d # c /\ pc[d] = "waiting"
  BY <1>0, <1>1, QueueFact
<1>4. pending' = pending - 1 + 0
  BY <1>0, <1>1 DEF ValuesInv
<1>5. place \in Stops /\ place # "gone"
  BY DEF Stops
<1> HIDE DEF f
<1>6. QED
  BY <1>1, <1>2, <1>3, <1>4, <1>5, WakeStep

\* A waiter that goes away, woken or not: at is "late" when it timed out, and
\* then it is no longer counted in pending, and "gone" when it was cancelled.
LEMMA GiveUpStep ==
    ASSUME IInv, NEW c \in Callers, pc[c] \in {"waiting", "granted"},
           NEW at \in {"late", "gone"}, Wake(Back(c), Without(c), c, at),
           NEW g \in {0, 1}, g = 1 <=> at = "gone",
           pending' = pending - 1 + g, UNCHANGED <<thread, inflight>>
    PROVE  IInv'
<1>0. QueueInv /\ CallerInv /\ ValuesInv
  BY DEF IInv
<1> DEFINE h == IF pc[c] = "granted" THEN 1 ELSE 0
<1>1. h \in {0, 1} /\ (h = 1 <=> pc[c] # "waiting") /\ Back(c) = free + h /\ Back(c) \in Nat
  BY <1>0 DEF Back, ValuesInv
<1>2. /\ Without(c) \in Seq(Callers) /\ Distinct(Without(c))
      /\ \A d \in Callers : In(Without(c), d) <=> d # c /\ pc[d] = "waiting"
  BY <1>0, WithoutFact
<1>3. /\ thread' \in [Callers -> {"none", "running", "done"}]
      /\ \A d \in Callers \ {c} : thread'[d] = thread[d]
      /\ thread'[c] = "none" /\ pc[c] # "in"
  BY <1>0 DEF CallerInv
<1> DEFINE f == Back(c)
           q == Without(c)
           no == 0
           yes == 1
<1>4. /\ no \in {0, 1} /\ yes \in {0, 1} /\ f \in Nat /\ f + no = free + h
      /\ inflight' = inflight - no + no /\ pending' = pending - yes + g
  BY <1>0, <1>1 DEF ValuesInv
<1>5. /\ at \in Stops /\ at # "in" /\ pc[c] \in {"waiting", "granted", "in"}
      /\ no = 1 <=> at = "in"
      /\ no = 1 <=> pc[c] = "in"
      /\ yes = 1 <=> pc[c] # "in"
      /\ g = 1 <=> at = "gone" /\ thread'[c] = "none"
  BY <1>3 DEF Stops
<1>6. /\ q \in Seq(Callers) /\ Distinct(q) /\ Wake(f, q, c, at)
      /\ \A d \in Callers : In(q, d) <=> d # c /\ pc[d] = "waiting"
  BY <1>2
<1> HIDE DEF f, q, h, no, yes
<1>7. QED
  BY <1>1, <1>3, <1>4, <1>5, <1>6, WakeStep

\* A caller that held a slot releases it, whether or not its call has ended.
LEMMA ReleaseStep ==
    ASSUME IInv, NEW c \in Callers, pc[c] = "in", NEW at \in {"left", "gone"},
           Wake(free + 1, queue, c, at),
           inflight' = inflight - 1, UNCHANGED <<thread, pending>>
    PROVE  IInv'
<1>0. QueueInv /\ CallerInv /\ ValuesInv
  BY DEF IInv
<1>1. /\ queue \in Seq(Callers) /\ Distinct(queue)
      /\ \A d \in Callers : In(queue, d) <=> d # c /\ pc[d] = "waiting"
  BY <1>0, QueueFact
<1>2. /\ thread' \in [Callers -> {"none", "running", "done"}]
      /\ \A d \in Callers \ {c} : thread'[d] = thread[d]
      /\ thread'[c] # "none"
  BY <1>0 DEF CallerInv
<1> DEFINE f == free + 1
           no == 0
           yes == 1
<1>3. /\ no \in {0, 1} /\ yes \in {0, 1}
      /\ f \in Nat /\ f + no = free + yes /\ Wake(f, queue, c, at)
      /\ inflight' = inflight - yes + no /\ pending' = pending - no + no
  BY <1>0 DEF ValuesInv
<1>4. /\ at \in Stops /\ at # "in" /\ pc[c] \in {"waiting", "granted", "in"}
      /\ no = 1 <=> at = "in"
      /\ yes = 1 <=> pc[c] # "waiting"
      /\ yes = 1 <=> pc[c] = "in"
      /\ no = 1 <=> pc[c] # "in"
      /\ no = 1 <=> at = "gone" /\ thread'[c] = "none"
  BY <1>2 DEF Stops
<1> HIDE DEF f, no, yes
<1>5. QED
  BY <1>1, <1>2, <1>3, <1>4, WakeStep

-----------------------------------------------------------------------------
(* The invariant *)

LEMMA InitIInv == SlotInit => IInv
<1> SUFFICES ASSUME SlotInit PROVE IInv
  OBVIOUS
<1>1. /\ \A place \in Places \ {"idle"} : At(place) = {}
      /\ Forgotten = {}
  BY DEF SlotInit, At, Forgotten, Places
<1>2. Cardinality({}) = 0
  BY FS_EmptySet
<1>3. QueueInv /\ CallerInv /\ ValuesInv /\ NoLostWakeUp
  BY CapacityAssumption
     DEF CapacityAssumption, SlotInit, QueueInv, Distinct, In, CallerInv, ValuesInv, NoLostWakeUp,
         Places
<1>4. SlotsConserved /\ InflightIsHonest
  <2>1. At("granted") \cup At("in") = {} /\ At("in") = {}
    BY <1>1 DEF Places
  <2>2. Capacity + 0 = Capacity
    BY CapacityAssumption DEF CapacityAssumption
  <2>3. QED
    BY <1>2, <2>1, <2>2 DEF SlotsConserved, InflightIsHonest, SlotInit
<1>5. PendingAccounted
  <2>1. Queued = {}
    BY <1>1 DEF Queued, Places
  <2>2. pending = Cardinality(Queued) + Cardinality(Forgotten)
    BY <1>1, <1>2, <2>1 DEF SlotInit
  <2>3. QED
    BY <2>2 DEF PendingAccounted, Queued, Forgotten
<1>6. QED
  BY <1>3, <1>4, <1>5 DEF IInv

LEMMA NextIInv == IInv /\ [SlotNext]_slotVars => IInv'
<1> SUFFICES ASSUME IInv, [SlotNext]_slotVars PROVE IInv'
  OBVIOUS
<1>1. CASE SlotNext
  <2>1. PICK c \in Callers :
            \/ EnterAtOnce(c, "in") \/ Resume(c, "in")
            \/ c \notin Streams /\ (EnterAtOnce(c, "left") \/ Resume(c, "left"))
            \/ Wait(c) \/ TimesOut(c)
            \/ ThreadEnds(c) \/ Leave(c)
            \/ CancelledWaiting(c) \/ CancelledInside(c)
    BY <1>1 DEF SlotNext
  <2>2. CASE EnterAtOnce(c, "in")
    BY <2>2, EnterStep
  <2>3. CASE EnterAtOnce(c, "left")
    BY <2>3, EnterStep
  <2>4. CASE Resume(c, "in")
    BY <2>4, ResumeStep
  <2>5. CASE Resume(c, "left")
    BY <2>5, ResumeStep
  <2>6. CASE Wait(c)
    BY <2>6, WaitStep
  <2>7. CASE TimesOut(c)
    <3>1. pending' = pending - 1 + 0
      BY <2>7 DEF TimesOut, IInv, ValuesInv
    <3>2. QED
      BY <2>7, <3>1, GiveUpStep DEF TimesOut
  <2>8. CASE ThreadEnds(c)
    BY <2>8, ThreadStep
  <2>9. CASE Leave(c)
    BY <2>9, ReleaseStep DEF Leave
  <2>10. CASE CancelledWaiting(c)
    <3>1. pending' = pending - 1 + 1
      BY <2>10 DEF CancelledWaiting, IInv, ValuesInv
    <3>2. QED
      BY <2>10, <3>1, GiveUpStep DEF CancelledWaiting
  <2>11. CASE CancelledInside(c)
    BY <2>11, ReleaseStep DEF CancelledInside
  <2>12. QED
    BY <2>1, <2>2, <2>3, <2>4, <2>5, <2>6, <2>7, <2>8, <2>9, <2>10, <2>11
<1>2. CASE UNCHANGED slotVars
  BY <1>2 DEF IInv, QueueInv, CallerInv, ValuesInv, SlotsConserved, NoLostWakeUp, InflightIsHonest,
              PendingAccounted, slotVars, semaphore, At, In, Distinct
<1>3. QED
  BY <1>1, <1>2

LEMMA Inductive == SlotSpec => []IInv
  BY InitIInv, NextIInv, PTL DEF SlotSpec

-----------------------------------------------------------------------------
LEMMA SlotTyped == IInv => SlotTypeOK
<1> SUFFICES ASSUME IInv PROVE SlotTypeOK
  OBVIOUS
<1>0. /\ QueueInv /\ CallerInv /\ ValuesInv
      /\ SlotsConserved /\ InflightIsHonest /\ PendingAccounted
  BY DEF IInv
<1>1. /\ Holders \subseteq Callers /\ At("in") \subseteq Holders
      /\ Queued \cup Forgotten \subseteq Callers
      /\ Queued \subseteq Callers /\ Forgotten \subseteq Callers
      /\ Queued \cap Forgotten = {}
  BY DEF Holders, Queued, Forgotten, At
<1>2. /\ IsFiniteSet(Holders) /\ Cardinality(Holders) \in Nat
      /\ IsFiniteSet(Queued) /\ Cardinality(Queued) \in Nat
      /\ IsFiniteSet(Forgotten) /\ Cardinality(Forgotten) \in Nat
      /\ IsFiniteSet(Callers) /\ Cardinality(Callers) \in Nat
  BY <1>1, PlacesFinite
<1>3. free \in 0..Capacity /\ Cardinality(Holders) <= Capacity
  BY <1>0, <1>2, CapacityAssumption DEF SlotsConserved, Holders, ValuesInv, CapacityAssumption
<1>4. inflight \in 0..Capacity
  <2>1. Cardinality(At("in")) \in Nat /\ Cardinality(At("in")) <= Cardinality(Holders)
    BY <1>1, <1>2, FS_Subset, FS_CardinalityType
  <2>2. QED
    BY <1>0, <1>2, <1>3, <2>1, CapacityAssumption DEF InflightIsHonest, CapacityAssumption
<1>5. pending \in 0..Cardinality(Callers)
  <2>1. Cardinality(Queued \cup Forgotten)
          = Cardinality(Queued) + Cardinality(Forgotten) - Cardinality(Queued \cap Forgotten)
    BY <1>2, FS_Union
  <2>2. Cardinality(Queued \cap Forgotten) = 0
    BY <1>1, FS_EmptySet
  <2>3. Cardinality(Queued \cup Forgotten) <= Cardinality(Callers)
    BY <1>1, <1>2, FS_Subset
  <2>4. pending = Cardinality(Queued) + Cardinality(Forgotten)
    BY <1>0 DEF PendingAccounted, Queued, Forgotten
  <2>5. QED
    BY <1>2, <2>1, <2>2, <2>3, <2>4
<1>6. QED
  BY <1>0, <1>3, <1>4, <1>5 DEF SlotTypeOK, QueueInv, CallerInv

\* Every variable keeps its type; the gauges stay between nothing and what there
\* is to count.
THEOREM SlotTypeCorrect == SlotSpec => []SlotTypeOK
  BY SlotTyped, Inductive, PTL

\* No slot is ever lost or given twice, over any order of arrivals, wake-ups,
\* time-outs and cancellations.
THEOREM SlotsAreConserved == SlotSpec => []SlotsConserved
<1>1. IInv => SlotsConserved
  BY DEF IInv
<1> QED BY <1>1, Inductive, PTL

\* No free slot is forgotten while somebody queues for one.
THEOREM WakeUpsAreKept == SlotSpec => []NoLostWakeUp
<1>1. IInv => NoLostWakeUp
  BY DEF IInv
<1> QED BY <1>1, Inductive, PTL

\* The in-flight gauge is the number of callers that hold the slot.
THEOREM InflightIsCounted == SlotSpec => []InflightIsHonest
<1>1. IInv => InflightIsHonest
  BY DEF IInv
<1> QED BY <1>1, Inductive, PTL

\* The pending gauge is too high by exactly the streams whose clients left the
\* queue.
THEOREM PendingIsAccounted == SlotSpec => []PendingAccounted
<1>1. IInv => PendingAccounted
  BY DEF IInv
<1> QED BY <1>1, Inductive, PTL
-----------------------------------------------------------------------------
(* PhoneChat: the slot under the phones *)

\* What the budget may still be charged: calls in flight and answers not counted.
Owing == {c \in Phones : thread[c] = "running" \/ answer[c] > 0}

\* The calls that ended, with an answer or without.
Ended == {c \in Phones : thread[c] = "done"}

\* The tokens of the answers that are not counted yet, each one a pair.
Uncounted == {p \in Phones \X (1..MaxAnswer) : p[2] <= answer[p[1]]}
Owed == Cardinality(Uncounted)

TokenRoom == IF CapTokens > 0 THEN CapTokens - 1 ELSE 0

PhoneTypes ==
    /\ asked \in [Phones -> {"new", "admitted", "refused"}]
    /\ gate \in [Phones -> {"none", "passed", "held"}]
    /\ answer \in [Phones -> 0..MaxAnswer]
    /\ mem \in [turns : Nat, tokens : Nat] /\ disk \in [turns : Nat, tokens : Nat]
    /\ lost \in Nat /\ reported \in Nat /\ forgotten \in Nat
    /\ held \in BOOLEAN
    /\ crashes \in 0..MaxCrashes /\ faults \in 0..MaxFaults

\* An answer comes from a call that ended, and what is owed is owed by a phone
\* that has the slot.
PhoneInv ==
    /\ \A c \in Phones : answer[c] > 0 => thread[c] = "done"
    /\ \A c \in Owing : pc[c] = "in"

\* Every call is a turn, counted or forgotten, and every token an answer cost is
\* counted, not counted yet, or forgotten; what is counted and what is owed stay
\* within the cap and the answers of a full slot, on disk as in memory.
BudgetInv ==
    /\ mem.turns <= CapTurns /\ disk.turns <= CapTurns
    /\ disk.turns <= mem.turns + lost
    /\ Cardinality(Called) = mem.turns + lost
    /\ reported = mem.tokens + Owed + forgotten
    /\ reported <= MaxAnswer * Cardinality(Ended)
    /\ disk.tokens <= mem.tokens + forgotten
    /\ disk.tokens <= TokenRoom + MaxAnswer * Capacity
    /\ mem.tokens + MaxAnswer * Cardinality(Owing) <= TokenRoom + MaxAnswer * Capacity
    /\ (faults = 0 => (disk = mem /\ lost = 0))
    /\ (faults = 0 => forgotten <= crashes * (MaxAnswer * Capacity))

DayInv == IInv /\ PhoneTypes /\ PhoneInv /\ BudgetInv

LEMMA PhonesFact == Phones \subseteq Callers /\ \A c \in Phones : c \notin Streams
  BY PhonesAssumption DEF PhonesAssumption

\* A restart empties the slot.
LEMMA RestartSlot ==
    ASSUME IInv, Restart
    PROVE  IInv'
<1>0. QueueInv /\ CallerInv /\ ValuesInv
  BY DEF IInv
<1>1. /\ free' = Capacity /\ queue' = <<>> /\ pending' = 0 /\ inflight' = 0
      /\ pc' = [c \in Callers |-> IF pc[c] = "idle" THEN "idle" ELSE "left"]
      /\ thread' = [c \in Callers |-> IF thread[c] = "none" THEN "none" ELSE "done"]
  BY DEF Restart
<1>2. \A d \in Callers : pc'[d] \in {"idle", "left"} /\ (pc'[d] = "idle" => thread'[d] = "none")
  BY <1>0, <1>1 DEF CallerInv
<1>3. \A place \in Places \ {"idle", "left"} : At(place)' = {}
  BY <1>2 DEF At, Places
<1>4. QueueInv' /\ CallerInv' /\ ValuesInv' /\ NoLostWakeUp'
  <2>1. CallerInv'
    BY <1>1, <1>2 DEF CallerInv, Places
  <2>2. QueueInv'
    BY <1>1, <1>2 DEF QueueInv, Distinct, In
  <2>3. ValuesInv' /\ NoLostWakeUp'
    BY <1>1, CapacityAssumption DEF CapacityAssumption, ValuesInv, NoLostWakeUp
  <2>4. QED
    BY <2>1, <2>2, <2>3
<1>5. Cardinality({}) = 0 /\ Capacity + 0 = Capacity
  BY FS_EmptySet, CapacityAssumption DEF CapacityAssumption
<1>6. Holders' = {} /\ Queued' = {} /\ Forgotten' = {} /\ At("in")' = {}
  BY <1>3 DEF Holders, Queued, Forgotten, At, Places
<1>7. SlotsConserved' /\ InflightIsHonest' /\ PendingAccounted'
  <2>1. SlotsConserved'
    BY <1>1, <1>5, <1>6 DEF SlotsConserved, Holders
  <2>2. InflightIsHonest'
    BY <1>1, <1>5, <1>6 DEF InflightIsHonest
  <2>3. Cardinality(Queued') = 0 /\ Cardinality(Forgotten') = 0 /\ pending' = 0 + 0
    BY <1>1, <1>5, <1>6
  <2>4. PendingAccounted'
    BY <2>3 DEF PendingAccounted, Queued, Forgotten
  <2>5. QED
    BY <2>1, <2>2, <2>4
<1>8. QED
  BY <1>4, <1>7 DEF IInv

\* Whatever the phones do to the slot is a step of the slot.
LEMMA PhoneSlot ==
    ASSUME IInv, [Next]_vars
    PROVE  IInv'
<1>1. CASE Restart
  BY <1>1, RestartSlot
<1>2. CASE UNCHANGED slotVars
  BY <1>2, NextIInv
<1>3. ASSUME NEW c \in Phones, PhoneTakesSlot(c) \/ PhoneWaits(c) \/ PhoneTimesOut(c) \/ PhoneLeaves(c)
      PROVE  IInv'
  <2>1. SlotNext
    BY <1>3, PhonesFact DEF SlotNext, PhoneTakesSlot, PhoneWaits, PhoneTimesOut, PhoneLeaves
  <2>2. QED
    BY <2>1, NextIInv
<1>4. ASSUME NEW c \in Phones, NEW n \in 0..MaxAnswer, Answers(c, n)
      PROVE  IInv'
  <2>1. SlotNext
    BY <1>4, PhonesFact DEF SlotNext, Answers
  <2>2. QED
    BY <2>1, NextIInv
<1>5. ASSUME NEW c \in Callers, ChatStep(c)
      PROVE  IInv'
  <2>1. SlotNext
    BY <1>5 DEF SlotNext, ChatStep
  <2>2. QED
    BY <2>1, NextIInv
<1>6. ASSUME NEW c \in Phones, Admit(c) \/ Refuse(c) \/ Gate(c) \/ AddTokens(c)
      PROVE  UNCHANGED slotVars
  BY <1>6 DEF Admit, Refuse, Gate, AddTokens
<1>7. Hold => UNCHANGED slotVars
  BY DEF Hold
<1>8. UNCHANGED vars => UNCHANGED slotVars
  BY DEF vars
<1>9. QED
  BY <1>1, <1>2, <1>3, <1>4, <1>5, <1>6, <1>7, <1>8 DEF Next

-----------------------------------------------------------------------------
(* PhoneChat: counting *)

LEMMA PhoneSets ==
    ASSUME NEW S, S \subseteq Phones
    PROVE  IsFiniteSet(S) /\ Cardinality(S) \in Nat /\ Cardinality(S) <= Cardinality(Phones)
<1>1. IsFiniteSet(Phones) /\ S \subseteq Callers
  BY PhonesFact, PlacesFinite
<1>2. QED
  BY <1>1, PlacesFinite, FS_Subset

LEMMA PhoneSubset ==
    ASSUME NEW S, NEW T, S \subseteq T, T \subseteq Phones
    PROVE  Cardinality(S) <= Cardinality(T)
  BY PhoneSets, FS_Subset

LEMMA PhoneJoins ==
    ASSUME NEW S, S \subseteq Phones, NEW c \in Phones, c \notin S
    PROVE  Cardinality(S \cup {c}) = Cardinality(S) + 1
  BY PhoneSets, FS_AddElement

LEMMA TimesMonotone ==
    ASSUME NEW m \in Nat, NEW a \in Nat, NEW b \in Nat, a <= b
    PROVE  m * a \in Nat /\ m * a <= m * b
<1>1. b - a \in Nat /\ b = a + (b - a)
  OBVIOUS
<1>2. \A k \in Nat : m * k \in Nat /\ m * (a + k) = m * a + m * k
  OBVIOUS
<1>3. QED
  BY <1>1, <1>2

LEMMA TimesNext ==
    ASSUME NEW m \in Nat, NEW a \in Nat
    PROVE  m * (a + 1) = m * a + m /\ m * a \in Nat
  OBVIOUS

LEMMA CapsFact ==
    /\ CapTurns \in Nat /\ CapTokens \in Nat /\ MaxAnswer \in Nat /\ MaxAnswer > 0
    /\ MaxCrashes \in Nat /\ MaxFaults \in Nat /\ Capacity \in Nat
    /\ TokenRoom \in Nat
  BY CapsAssumption, BoundsAssumption, CapacityAssumption
     DEF CapsAssumption, BoundsAssumption, CapacityAssumption, TokenRoom

OwingFits == Cardinality(Owing) \in Nat /\ Cardinality(Owing) <= Capacity

\* No more answers are owed than there are slots.
LEMMA OwingFitsTheSlot == IInv /\ PhoneInv => OwingFits
<1> SUFFICES ASSUME IInv, PhoneInv PROVE OwingFits
  OBVIOUS
<1>1. Owing \subseteq Phones /\ Owing \subseteq Holders /\ Holders \subseteq Callers
  BY PhonesFact DEF PhoneInv, Owing, Holders, At
<1>2. Cardinality(Owing) \in Nat /\ Cardinality(Holders) \in Nat /\ IsFiniteSet(Holders)
  BY <1>1, PhoneSets, PlacesFinite
<1>3. Cardinality(Owing) <= Cardinality(Holders)
  BY <1>1, <1>2, FS_Subset
<1>4. free + Cardinality(Holders) = Capacity /\ free \in Nat
  BY DEF IInv, SlotsConserved, Holders, ValuesInv
<1>5. QED
  BY <1>2, <1>3, <1>4, CapsFact DEF OwingFits

\* The tokens one answer leaves to be counted.
LEMMA OneAnswer ==
    ASSUME NEW c, NEW n \in 0..MaxAnswer
    PROVE  IsFiniteSet({c} \X (1..n)) /\ Cardinality({c} \X (1..n)) = n
<1>1. IsFiniteSet({c}) /\ Cardinality({c}) = 1
  BY FS_Singleton
<1>2. IsFiniteSet(1..n) /\ Cardinality(1..n) = n
  <2>1. n \in Nat
    BY CapsFact
  <2>2. IsFiniteSet(1..n) /\ Cardinality(1..n) = IF 1 > n THEN 0 ELSE n - 1 + 1
    BY <2>1, FS_Interval
  <2>3. QED
    BY <2>1, <2>2
<1>3. IsFiniteSet({c} \X (1..n)) /\ Cardinality({c} \X (1..n)) = Cardinality({c}) * Cardinality(1..n)
  BY <1>1, <1>2, FS_Product
<1>4. n \in Nat
  BY CapsFact
<1>5. QED
  BY <1>1, <1>2, <1>3, <1>4

\* No more tokens are to be counted than the answers that are owed can cost.
LEMMA OwedFits ==
    ASSUME PhoneTypes
    PROVE  IsFiniteSet(Uncounted) /\ Owed \in Nat /\ Owed <= MaxAnswer * Cardinality(Owing)
<1>1. Uncounted \subseteq Owing \X (1..MaxAnswer)
  <2> SUFFICES ASSUME NEW p \in Uncounted PROVE p \in Owing \X (1..MaxAnswer)
    OBVIOUS
  <2>1. PICK c \in Phones, k \in 1..MaxAnswer : p = <<c, k>>
    BY DEF Uncounted
  <2>2. k <= answer[c]
    BY <2>1 DEF Uncounted
  <2>3. answer[c] > 0
    BY <2>1, <2>2, CapsFact DEF PhoneTypes
  <2>4. QED
    BY <2>1, <2>3 DEF Owing
<1>2. IsFiniteSet(Owing) /\ Cardinality(Owing) \in Nat
  BY PhoneSets DEF Owing
<1>3. IsFiniteSet(1..MaxAnswer) /\ Cardinality(1..MaxAnswer) = MaxAnswer
  BY CapsFact, FS_Interval
<1>4. /\ IsFiniteSet(Owing \X (1..MaxAnswer))
      /\ Cardinality(Owing \X (1..MaxAnswer)) = Cardinality(Owing) * Cardinality(1..MaxAnswer)
  BY <1>2, <1>3, FS_Product
<1>5. /\ IsFiniteSet(Uncounted) /\ Owed <= Cardinality(Owing \X (1..MaxAnswer))
  BY <1>1, <1>4, FS_Subset DEF Owed
<1>6. Owed \in Nat
  BY <1>5, FS_CardinalityType DEF Owed
<1>7. Cardinality(Owing) * MaxAnswer = MaxAnswer * Cardinality(Owing)
  BY <1>2, CapsFact
<1>8. QED
  BY <1>3, <1>4, <1>5, <1>6, <1>7

\* An answer that comes is owed whole.
LEMMA OwedGrows ==
    ASSUME PhoneTypes, NEW c \in Phones, NEW n \in 0..MaxAnswer, answer[c] = 0,
           answer' = [answer EXCEPT ![c] = n]
    PROVE  Owed' = Owed + n
<1>1. Uncounted' = Uncounted \cup ({c} \X (1..n))
  <2>1. \A d \in Phones, k \in 1..MaxAnswer :
           k <= answer'[d] <=> (k <= answer[d] \/ (d = c /\ k \in 1..n))
    BY CapsFact DEF PhoneTypes
  <2>2. \A k \in 1..n : k \in 1..MaxAnswer
    BY CapsFact
  <2>3. Uncounted' \subseteq Uncounted \cup ({c} \X (1..n))
    BY <2>1 DEF Uncounted
  <2>4. Uncounted \cup ({c} \X (1..n)) \subseteq Uncounted'
    BY <2>1, <2>2 DEF Uncounted
  <2>5. QED
    BY <2>3, <2>4
<1>2. Uncounted \cap ({c} \X (1..n)) = {}
  <2> SUFFICES ASSUME NEW p \in Uncounted, p \in {c} \X (1..n) PROVE FALSE
    OBVIOUS
  <2>1. p[1] = c /\ p[2] \in 1..n /\ p[2] <= answer[p[1]]
    BY DEF Uncounted
  <2>2. QED
    BY <2>1, CapsFact
<1>3. IsFiniteSet(Uncounted) /\ Owed \in Nat
  BY OwedFits
<1>4. IsFiniteSet({c} \X (1..n)) /\ Cardinality({c} \X (1..n)) = n
  BY OneAnswer
<1>5. Cardinality(Uncounted \cup ({c} \X (1..n)))
        = Cardinality(Uncounted) + Cardinality({c} \X (1..n)) - Cardinality(Uncounted \cap ({c} \X (1..n)))
  BY <1>3, <1>4, FS_Union
<1>6. Cardinality({}) = 0
  BY FS_EmptySet
<1>7. Owed' = Cardinality(Uncounted \cup ({c} \X (1..n))) /\ Owed = Cardinality(Uncounted)
  BY <1>1 DEF Owed
<1>8. Owed' = Owed + n - 0
  BY <1>2, <1>4, <1>5, <1>6, <1>7
<1>9. QED
  BY <1>3, <1>8, CapsFact

\* An answer that is counted, or forgotten, is not owed any more.
LEMMA OwedShrinks ==
    ASSUME PhoneTypes, NEW c \in Phones, NEW a \in 0..MaxAnswer, answer[c] = a,
           answer' = [answer EXCEPT ![c] = 0]
    PROVE  Owed = Owed' + a /\ Owed' \in Nat
<1>1. Uncounted = Uncounted' \cup ({c} \X (1..a))
  <2>1. \A d \in Phones, k \in 1..MaxAnswer :
           k <= answer[d] <=> (k <= answer'[d] \/ (d = c /\ k \in 1..a))
    BY CapsFact DEF PhoneTypes
  <2>2. \A k \in 1..a : k \in 1..MaxAnswer
    BY CapsFact
  <2>3. Uncounted \subseteq Uncounted' \cup ({c} \X (1..a))
    BY <2>1 DEF Uncounted
  <2>4. Uncounted' \cup ({c} \X (1..a)) \subseteq Uncounted
    BY <2>1, <2>2 DEF Uncounted
  <2>5. QED
    BY <2>3, <2>4
<1>2. Uncounted' \cap ({c} \X (1..a)) = {}
  <2> SUFFICES ASSUME NEW p \in Uncounted', p \in {c} \X (1..a) PROVE FALSE
    OBVIOUS
  <2>1. p[1] = c /\ p[2] \in 1..a /\ p[2] <= answer'[p[1]]
    BY DEF Uncounted
  <2>2. answer'[c] = 0
    BY DEF PhoneTypes
  <2>3. QED
    BY <2>1, <2>2, CapsFact
<1>3. IsFiniteSet(Uncounted) /\ Uncounted' \subseteq Uncounted
  BY <1>1, OwedFits
<1>4. IsFiniteSet(Uncounted') /\ Owed' \in Nat
  BY <1>3, FS_Subset, FS_CardinalityType DEF Owed
<1>5. IsFiniteSet({c} \X (1..a)) /\ Cardinality({c} \X (1..a)) = a
  BY OneAnswer
<1>6. Cardinality(Uncounted' \cup ({c} \X (1..a)))
        = Cardinality(Uncounted') + Cardinality({c} \X (1..a)) - Cardinality(Uncounted' \cap ({c} \X (1..a)))
  BY <1>4, <1>5, FS_Union
<1>7. Cardinality({}) = 0
  BY FS_EmptySet
<1>8. Owed = Cardinality(Uncounted' \cup ({c} \X (1..a))) /\ Owed' = Cardinality(Uncounted')
  BY <1>1 DEF Owed
<1>9. Owed = Owed' + a - 0
  BY <1>2, <1>5, <1>6, <1>7, <1>8
<1>10. QED
  BY <1>4, <1>9, CapsFact

-----------------------------------------------------------------------------
(* PhoneChat: one lemma for each way the budget or what is owed can change *)

\* A step that touches neither a call nor the budget, and puts no phone that owes
\* an answer out of the slot.
LEMMA QuietStep ==
    ASSUME PhoneInv, BudgetInv,
           \A d \in Phones : thread'[d] = thread[d],
           \A d \in Owing : pc[d] = "in" => pc'[d] = "in",
           UNCHANGED <<answer, mem, disk, lost, reported, forgotten, crashes, faults>>
    PROVE  PhoneInv' /\ BudgetInv'
<1>1. Owing' = Owing /\ Ended' = Ended /\ Called' = Called /\ Owed' = Owed
  BY DEF Owing, Ended, Called, Owed, Uncounted
<1>2. PhoneInv'
  BY <1>1 DEF PhoneInv
<1>3. BudgetInv'
  BY <1>1 DEF BudgetInv, TokenRoom
<1>4. QED
  BY <1>2, <1>3

\* A caller that holds a slot keeps it when another one wakes the queue.
LEMMA WokenStays ==
    ASSUME IInv, NEW c \in Callers, NEW d \in Callers \ {c}, pc[d] = "in",
           \/ Resume(c, "in") \/ Resume(c, "left") \/ TimesOut(c) \/ Leave(c)
           \/ CancelledWaiting(c) \/ CancelledInside(c)
    PROVE  pc'[d] = "in"
<1>0. QueueInv /\ CallerInv /\ ValuesInv
  BY DEF IInv
<1>1. CASE Resume(c, "in") \/ Resume(c, "left") \/ Leave(c) \/ CancelledInside(c)
  <2>1. PICK f \in Nat, place \in Stops : Wake(f, queue, c, place)
    BY <1>0, <1>1 DEF Resume, Leave, CancelledInside, ValuesInv, Stops
  <2>2. pc[c] # "waiting"
    BY <1>1 DEF Resume, Leave, CancelledInside
  <2>3. QED
    BY <1>0, <2>1, <2>2, QueueFact, WakeFact
<1>2. CASE TimesOut(c) \/ CancelledWaiting(c)
  <2>1. PICK place \in Stops : Wake(Back(c), Without(c), c, place)
    BY <1>2 DEF TimesOut, CancelledWaiting, Stops
  <2>2. Back(c) \in Nat
    BY <1>0 DEF Back, ValuesInv
  <2>3. QED
    BY <1>0, <2>1, <2>2, WithoutFact, WakeFact
<1>3. QED
  BY <1>1, <1>2

\* Nobody but the phones' own steps moves a phone or its call.
LEMMA OthersLeavePhones ==
    ASSUME IInv, NEW c \in Callers, ChatStep(c), NEW d \in Phones
    PROVE  thread'[d] = thread[d] /\ (pc[d] = "in" => pc'[d] = "in")
<1>0. QueueInv /\ CallerInv /\ d \in Callers /\ d # c
  BY PhonesFact DEF IInv, ChatStep
<1>1. thread'[d] = thread[d]
  BY <1>0 DEF ChatStep, EnterAtOnce, Resume, Begins, Wait, TimesOut, ThreadEnds, Leave,
              CancelledWaiting, CancelledInside, CallerInv
<1>2. ASSUME pc[d] = "in" PROVE pc'[d] = "in"
  <2>1. CASE EnterAtOnce(c, "in") \/ Wait(c) \/ ThreadEnds(c)
    BY <1>0, <1>2, <2>1 DEF EnterAtOnce, Wait, ThreadEnds, CallerInv
  <2>2. CASE Resume(c, "in") \/ TimesOut(c) \/ Leave(c) \/ CancelledWaiting(c) \/ CancelledInside(c)
    BY <1>0, <1>2, <2>2, WokenStays
       DEF Resume, TimesOut, Leave, CancelledWaiting, CancelledInside, ValuesInv
  <2>3. QED
    BY <2>1, <2>2 DEF ChatStep
<1>3. QED
  BY <1>1, <1>2

\* claim_turn: the turn is counted before the call begins.
LEMMA ClaimStep ==
    ASSUME DayInv, IInv', NEW c \in Phones, EnterAtOnce(c, "in") \/ Resume(c, "in"), ClaimTurn(c)
    PROVE  PhoneTypes' /\ PhoneInv' /\ BudgetInv'
<1>0. IInv /\ PhoneTypes /\ PhoneInv /\ BudgetInv /\ CallerInv /\ QueueInv /\ c \in Callers
  BY PhonesFact DEF DayInv, IInv
<1>1. /\ pc[c] \in {"idle", "granted"} /\ thread[c] = "none" /\ pc'[c] = "in"
      /\ thread' = [thread EXCEPT ![c] = "running"]
      /\ \A d \in Callers \ {c} : pc[d] = "in" => pc'[d] = "in"
  <2>1. CASE EnterAtOnce(c, "in")
    BY <1>0, <2>1 DEF EnterAtOnce, Begins, CallerInv
  <2>2. CASE Resume(c, "in")
    <3>1. /\ pc[c] = "granted" /\ thread' = [thread EXCEPT ![c] = "running"]
          /\ Wake(free, queue, c, "in")
      BY <2>2 DEF Resume, Begins
    <3>2. pc'[c] = "in"
      BY <1>0, <3>1 DEF Wake
    <3>3. thread[c] = "none"
      BY <1>0, <3>1 DEF CallerInv
    <3>4. \A d \in Callers \ {c} : pc[d] = "in" => pc'[d] = "in"
      BY <1>0, <2>2, WokenStays
    <3>5. QED
      BY <3>1, <3>2, <3>3, <3>4
  <2>3. QED
    BY <2>1, <2>2
<1>2. /\ mem.turns < CapTurns /\ (CapTokens > 0 /\ mem.tokens <= CapTokens - 1)
      /\ mem'.turns = mem.turns + 1 /\ mem'.tokens = mem.tokens
      /\ mem' \in [turns : Nat, tokens : Nat]
      /\ UNCHANGED <<asked, gate, answer, lost, reported, forgotten, held, crashes>>
  BY <1>0, CapsFact DEF ClaimTurn, Exhausted, PhoneTypes, phoneVars
<1>3. \/ disk' = mem' /\ faults' = faults
      \/ faults < MaxFaults /\ faults' = faults + 1 /\ disk' = disk
  BY DEF ClaimTurn, Persist
<1>4. PhoneTypes'
  BY <1>0, <1>2, <1>3, CapsFact DEF PhoneTypes
<1>5. answer[c] = 0
  BY <1>0, <1>1 DEF PhoneInv, PhoneTypes
<1>6. /\ Called' = Called \cup {c} /\ c \notin Called
      /\ Owing' = Owing \cup {c}
      /\ Ended' = Ended /\ Owed' = Owed
  BY <1>0, <1>1, <1>2, <1>5 DEF Called, Owing, Ended, Owed, Uncounted, CallerInv
<1>7. PhoneInv'
  <2>1. \A d \in Phones : answer'[d] > 0 => thread'[d] = "done"
    BY <1>0, <1>1, <1>2, <1>5, PhonesFact DEF PhoneInv, CallerInv
  <2>2. \A d \in Owing' : pc'[d] = "in"
    BY <1>0, <1>1, <1>6, PhonesFact DEF PhoneInv, Owing
  <2>3. QED
    BY <2>1, <2>2 DEF PhoneInv
<1>8. BudgetInv'
  <2>1. /\ mem.turns \in Nat /\ mem.tokens \in Nat /\ disk.turns \in Nat /\ disk.tokens \in Nat
        /\ lost \in Nat /\ faults \in Nat /\ forgotten \in Nat
        /\ MaxAnswer * Capacity \in Nat
    BY <1>0, CapsFact DEF PhoneTypes
  <2>2. mem'.turns <= CapTurns /\ disk'.turns <= CapTurns /\ disk'.turns <= mem'.turns + lost'
    BY <1>0, <1>2, <1>3, <2>1, CapsFact DEF BudgetInv
  <2>3. Cardinality(Called') = mem'.turns + lost'
    <3>1. Called \subseteq Phones
      BY DEF Called
    <3>2. Cardinality(Called') = Cardinality(Called) + 1
      BY <1>6, <3>1, PhoneJoins
    <3>3. QED
      BY <1>0, <1>2, <2>1, <3>2 DEF BudgetInv
  <2>4. /\ faults' = 0 => disk' = mem' /\ lost' = 0
        /\ faults' = 0 => forgotten' <= crashes' * (MaxAnswer * Capacity)
    BY <1>0, <1>2, <1>3, <2>1 DEF BudgetInv
  <2>5. reported' = mem'.tokens + Owed' + forgotten' /\ reported' <= MaxAnswer * Cardinality(Ended')
    BY <1>0, <1>2, <1>6 DEF BudgetInv
  <2>6. mem'.tokens + MaxAnswer * Cardinality(Owing') <= TokenRoom + MaxAnswer * Capacity
    <3>1. Cardinality(Owing') \in Nat /\ Cardinality(Owing') <= Capacity
      <4>1. OwingFits'
        BY <1>7, OwingFitsTheSlot, PTL
      <4>2. QED
        BY <4>1 DEF OwingFits
    <3>2. /\ MaxAnswer * Cardinality(Owing') <= MaxAnswer * Capacity
          /\ MaxAnswer * Cardinality(Owing') \in Nat /\ MaxAnswer * Capacity \in Nat
      BY <3>1, CapsFact, TimesMonotone
    <3>3. mem'.tokens <= TokenRoom /\ mem'.tokens \in Nat
      BY <1>2, <2>1, CapsFact DEF TokenRoom
    <3>4. QED
      BY <3>2, <3>3, CapsFact
  <2>7. disk'.tokens <= mem'.tokens + forgotten' /\ disk'.tokens <= TokenRoom + MaxAnswer * Capacity
    <3>1. mem'.tokens <= TokenRoom
      BY <1>2, <2>1, CapsFact DEF TokenRoom
    <3>2. QED
      BY <1>0, <1>2, <1>3, <2>1, <3>1, CapsFact DEF BudgetInv
  <2>8. QED
    BY <2>2, <2>3, <2>4, <2>5, <2>6, <2>7 DEF BudgetInv, TokenRoom
<1>9. QED
  BY <1>4, <1>7, <1>8

\* The call ends: it owes the tokens of its response, or nothing.
LEMMA AnswersStep ==
    ASSUME DayInv, NEW c \in Phones, NEW n \in 0..MaxAnswer, Answers(c, n)
    PROVE  PhoneTypes' /\ PhoneInv' /\ BudgetInv'
<1>0. IInv /\ PhoneTypes /\ PhoneInv /\ BudgetInv /\ CallerInv /\ c \in Callers
  BY PhonesFact DEF DayInv, IInv
<1>1. /\ thread[c] = "running" /\ thread' = [thread EXCEPT ![c] = "done"] /\ pc' = pc
      /\ answer' = [answer EXCEPT ![c] = n]
      /\ reported' = reported + n
      /\ UNCHANGED <<asked, gate, mem, disk, lost, forgotten, held, crashes, faults>>
  BY DEF Answers, ThreadEnds
<1>2. PhoneTypes'
  BY <1>0, <1>1, CapsFact DEF PhoneTypes
<1>3. answer[c] = 0
  BY <1>0, <1>1 DEF PhoneInv, PhoneTypes
<1>4. /\ Called' = Called /\ Owing' \subseteq Owing /\ Owing \subseteq Phones
      /\ Ended' = Ended \cup {c} /\ c \notin Ended /\ Ended \subseteq Phones
  BY <1>0, <1>1, <1>3, PhonesFact DEF Called, Owing, Ended, CallerInv, PhoneTypes
<1>5. PhoneInv'
  <2>1. \A d \in Phones : answer'[d] > 0 => thread'[d] = "done"
    BY <1>0, <1>1, PhonesFact DEF PhoneInv, CallerInv, PhoneTypes
  <2>2. QED
    BY <1>0, <1>1, <1>4, <2>1 DEF PhoneInv
<1>6. BudgetInv'
  <2>1. mem.tokens \in Nat /\ reported \in Nat /\ forgotten \in Nat /\ Owed \in Nat /\ n \in Nat
    BY <1>0, CapsFact, OwedFits DEF PhoneTypes
  <2>2. Owed' = Owed + n
    BY <1>0, <1>1, <1>3, OwedGrows
  <2>3. reported' = mem'.tokens + Owed' + forgotten'
    BY <1>0, <1>1, <2>1, <2>2 DEF BudgetInv
  <2>4. reported' <= MaxAnswer * Cardinality(Ended')
    <3>1. PICK e \in Nat : e = Cardinality(Ended) /\ Cardinality(Ended') = e + 1
      BY <1>4, PhoneSets, PhoneJoins
    <3>2. MaxAnswer * (e + 1) = MaxAnswer * e + MaxAnswer /\ MaxAnswer * e \in Nat
      BY <3>1, CapsFact, TimesNext
    <3>3. reported <= MaxAnswer * e
      BY <1>0, <3>1 DEF BudgetInv
    <3>4. reported' <= MaxAnswer * (e + 1)
      BY <1>1, <2>1, <3>2, <3>3, CapsFact
    <3>5. QED
      BY <3>1, <3>4
  <2>5. mem'.tokens + MaxAnswer * Cardinality(Owing') <= TokenRoom + MaxAnswer * Capacity
    <3>1. PICK o \in Nat, p \in Nat :
            o = Cardinality(Owing) /\ p = Cardinality(Owing') /\ p <= o
      BY <1>4, PhoneSets, PhoneSubset
    <3>2. mem.tokens + MaxAnswer * o <= TokenRoom + MaxAnswer * Capacity
      BY <1>0, <3>1 DEF BudgetInv
    <3>3. /\ MaxAnswer * p <= MaxAnswer * o /\ MaxAnswer * p \in Nat /\ MaxAnswer * o \in Nat
          /\ MaxAnswer * Capacity \in Nat
      BY <3>1, CapsFact, TimesMonotone
    <3>4. mem'.tokens + MaxAnswer * p <= TokenRoom + MaxAnswer * Capacity
      BY <1>1, <2>1, <3>2, <3>3, CapsFact
    <3>5. QED
      BY <3>1, <3>4
  <2>6. QED
    BY <1>0, <1>1, <1>4, <2>3, <2>4, <2>5 DEF BudgetInv, TokenRoom
<1>7. QED
  BY <1>2, <1>5, <1>6

\* add_tokens: what the answer cost is spent, and no longer owed.
LEMMA AddTokensStep ==
    ASSUME DayInv, NEW c \in Phones, AddTokens(c)
    PROVE  PhoneTypes' /\ PhoneInv' /\ BudgetInv'
<1>0. IInv /\ PhoneTypes /\ PhoneInv /\ BudgetInv /\ CallerInv /\ c \in Callers
  BY PhonesFact DEF DayInv, IInv
<1>1. PICK a \in 1..MaxAnswer : a = answer[c]
  BY <1>0 DEF AddTokens, PhoneTypes
<1>2. /\ mem'.turns = mem.turns /\ mem'.tokens = mem.tokens + a
      /\ mem' \in [turns : Nat, tokens : Nat]
      /\ answer' = [answer EXCEPT ![c] = 0]
      /\ pc' = pc /\ thread' = thread
      /\ UNCHANGED <<asked, gate, lost, reported, forgotten, held, crashes>>
  BY <1>0, <1>1 DEF AddTokens, slotVars, PhoneTypes
<1>3. \/ disk' = mem' /\ faults' = faults
      \/ faults < MaxFaults /\ faults' = faults + 1 /\ disk' = disk
  BY DEF AddTokens, Persist
<1>4. PhoneTypes'
  BY <1>0, <1>2, <1>3, CapsFact DEF PhoneTypes
<1>5. thread[c] = "done"
  BY <1>0, <1>1 DEF PhoneInv
<1>6. /\ Called' = Called
      /\ Owing = Owing' \cup {c} /\ c \notin Owing'
      /\ Ended' = Ended
  BY <1>0, <1>1, <1>2, <1>5 DEF Called, Owing, Ended, PhoneTypes
<1>7. PhoneInv'
  BY <1>0, <1>2, <1>6 DEF PhoneInv, PhoneTypes
<1>8. BudgetInv'
  <2> DEFINE o == Cardinality(Owing')
  <2>1. /\ mem.turns \in Nat /\ mem.tokens \in Nat /\ disk.turns \in Nat /\ disk.tokens \in Nat
        /\ lost \in Nat /\ faults \in Nat /\ forgotten \in Nat /\ reported \in Nat
        /\ MaxAnswer * Capacity \in Nat
    BY <1>0, CapsFact DEF PhoneTypes
  <2>2. mem'.turns <= CapTurns /\ disk'.turns <= CapTurns /\ disk'.turns <= mem'.turns + lost'
    BY <1>0, <1>2, <1>3, <2>1 DEF BudgetInv
  <2>3. Cardinality(Called') = mem'.turns + lost'
    BY <1>0, <1>2, <1>6 DEF BudgetInv
  <2>4. /\ faults' = 0 => disk' = mem' /\ lost' = 0
        /\ faults' = 0 => forgotten' <= crashes' * (MaxAnswer * Capacity)
    BY <1>0, <1>2, <1>3, <2>1 DEF BudgetInv
  <2>5. Owed = Owed' + a /\ Owed' \in Nat
    <3>1. a \in 0..MaxAnswer
      BY <1>1, CapsFact
    <3>2. QED
      BY <1>0, <1>1, <1>2, <3>1, OwedShrinks
  <2>6. reported' = mem'.tokens + Owed' + forgotten'
    BY <1>0, <1>1, <1>2, <2>1, <2>5 DEF BudgetInv
  <2>7. reported' <= MaxAnswer * Cardinality(Ended')
    BY <1>0, <1>2, <1>6 DEF BudgetInv
  <2>8. o \in Nat /\ Cardinality(Owing) = o + 1
    <3>1. Owing' \subseteq Phones
      BY DEF Owing
    <3>2. QED
      BY <1>6, <3>1, PhoneSets, PhoneJoins
  <2>9. mem.tokens + MaxAnswer * (o + 1) <= TokenRoom + MaxAnswer * Capacity
    BY <1>0, <2>8 DEF BudgetInv
  <2> HIDE DEF o
  <2>10. MaxAnswer * (o + 1) = MaxAnswer * o + MaxAnswer /\ MaxAnswer * o \in Nat
    BY <2>8, CapsFact, TimesNext
  <2>11. mem'.tokens + MaxAnswer * o <= TokenRoom + MaxAnswer * Capacity
    BY <1>1, <1>2, <2>1, <2>9, <2>10, CapsFact
  <2>12. mem'.tokens <= TokenRoom + MaxAnswer * Capacity
    BY <1>1, <1>2, <2>1, <2>10, <2>11, CapsFact
  <2>13. disk'.tokens <= TokenRoom + MaxAnswer * Capacity
    BY <1>0, <1>3, <2>12 DEF BudgetInv
  <2>14. disk'.tokens <= mem'.tokens + forgotten'
    <3>1. CASE disk' = mem'
      BY <1>1, <1>2, <2>1, <3>1
    <3>2. CASE disk' = disk
      BY <1>0, <1>1, <1>2, <2>1, <3>2 DEF BudgetInv
    <3>3. QED
      BY <1>3, <3>1, <3>2
  <2>15. QED
    BY <2>2, <2>3, <2>4, <2>6, <2>7, <2>11, <2>13, <2>14 DEF BudgetInv, TokenRoom, o
<1>9. QED
  BY <1>4, <1>7, <1>8

\* A restart: the calls in flight are gone with their answers, and what the budget
\* read back does not have is forgotten.
LEMMA RestartStep ==
    ASSUME DayInv, Restart
    PROVE  PhoneTypes' /\ PhoneInv' /\ BudgetInv'
<1>0. IInv /\ PhoneTypes /\ PhoneInv /\ BudgetInv /\ CallerInv
  BY DEF DayInv, IInv
<1>1. /\ thread' = [c \in Callers |-> IF thread[c] = "none" THEN "none" ELSE "done"]
      /\ asked' = [c \in Phones |-> IF asked[c] = "admitted" /\ pc[c] = "idle" THEN "refused" ELSE asked[c]]
      /\ answer' = [c \in Phones |-> 0] /\ gate' = gate
      /\ disk' = disk /\ lost' = lost + mem.turns - mem'.turns
      /\ forgotten' = reported - mem'.tokens
      /\ crashes < MaxCrashes /\ crashes' = crashes + 1
      /\ UNCHANGED <<held, reported>>
  BY DEF Restart
<1>2. /\ mem.turns \in Nat /\ mem.tokens \in Nat /\ disk.turns \in Nat /\ disk.tokens \in Nat
      /\ lost \in Nat /\ faults \in Nat /\ crashes \in Nat
      /\ reported \in Nat /\ forgotten \in Nat /\ Owed \in Nat
      /\ MaxAnswer * Capacity \in Nat
  BY <1>0, CapsFact, OwedFits DEF PhoneTypes
<1>3. \/ mem' = disk /\ faults' = faults
      \/ faults < MaxFaults /\ faults' = faults + 1 /\ mem' = Nothing
  BY DEF Restart, Load
<1>4. /\ mem' \in [turns : Nat, tokens : Nat] /\ mem'.turns \in Nat /\ mem'.tokens \in Nat
      /\ \/ mem'.turns = disk.turns /\ mem'.tokens = disk.tokens
         \/ mem'.turns = 0 /\ mem'.tokens = 0
  BY <1>0, <1>3 DEF Nothing, PhoneTypes
<1>5. /\ mem.turns <= CapTurns /\ disk.turns <= CapTurns /\ disk.turns <= mem.turns + lost
      /\ reported = mem.tokens + Owed + forgotten
      /\ disk.tokens <= mem.tokens + forgotten
      /\ disk.tokens <= TokenRoom + MaxAnswer * Capacity
  BY <1>0 DEF BudgetInv
<1>6. lost' \in Nat /\ forgotten' \in Nat
  BY <1>1, <1>2, <1>4, <1>5
<1>7. PhoneTypes'
  <2>1. crashes' \in 0..MaxCrashes /\ faults' \in 0..MaxFaults
    BY <1>0, <1>1, <1>2, <1>3, CapsFact DEF PhoneTypes
  <2>2. asked' \in [Phones -> {"new", "admitted", "refused"}]
    BY <1>0, <1>1 DEF PhoneTypes
  <2>3. answer' \in [Phones -> 0..MaxAnswer]
    BY <1>1, CapsFact
  <2>4. QED
    BY <1>0, <1>1, <1>4, <1>6, <2>1, <2>2, <2>3 DEF PhoneTypes
<1>8. Called' = Called /\ Owing' = {} /\ Ended \subseteq Ended' /\ Ended' \subseteq Phones
  BY <1>0, <1>1, PhonesFact DEF Called, Owing, Ended
<1>9. Owed' = 0
  <2>1. \A p \in Phones \X (1..MaxAnswer) : ~(p[2] <= answer'[p[1]])
    BY <1>1, CapsFact
  <2>2. Uncounted' = {}
    BY <2>1 DEF Uncounted
  <2>3. QED
    BY <2>2, FS_EmptySet DEF Owed
<1>10. PhoneInv'
  BY <1>1, <1>8 DEF PhoneInv
<1>11. BudgetInv'
  <2>1. mem'.turns <= CapTurns /\ disk'.turns <= CapTurns /\ disk'.turns <= mem'.turns + lost'
    BY <1>1, <1>2, <1>4, <1>5, CapsFact
  <2>2. Cardinality(Called') = mem'.turns + lost'
    BY <1>0, <1>1, <1>2, <1>4, <1>8 DEF BudgetInv
  <2>3. reported' = mem'.tokens + Owed' + forgotten'
    BY <1>1, <1>2, <1>4, <1>9
  <2>4. reported' <= MaxAnswer * Cardinality(Ended')
    <3>1. PICK e \in Nat, f \in Nat :
            e = Cardinality(Ended) /\ f = Cardinality(Ended') /\ e <= f
      BY <1>8, PhoneSets, PhoneSubset
    <3>2. MaxAnswer * e <= MaxAnswer * f /\ MaxAnswer * e \in Nat /\ MaxAnswer * f \in Nat
      BY <3>1, CapsFact, TimesMonotone
    <3>3. reported <= MaxAnswer * e
      BY <1>0, <3>1 DEF BudgetInv
    <3>4. QED
      BY <1>1, <1>2, <3>1, <3>2, <3>3
  <2>5. disk'.tokens <= mem'.tokens + forgotten' /\ disk'.tokens <= TokenRoom + MaxAnswer * Capacity
    BY <1>1, <1>2, <1>4, <1>5
  <2>6. mem'.tokens + MaxAnswer * Cardinality(Owing') <= TokenRoom + MaxAnswer * Capacity
    <3>1. Cardinality(Owing') = 0 /\ MaxAnswer * 0 = 0
      BY <1>8, FS_EmptySet, CapsFact
    <3>2. mem'.tokens <= TokenRoom + MaxAnswer * Capacity
      BY <1>2, <1>4, <1>5, CapsFact
    <3>3. QED
      BY <1>4, <3>1, <3>2
  <2>7. ASSUME faults' = 0
        PROVE  /\ disk' = mem' /\ lost' = 0
               /\ forgotten' <= crashes' * (MaxAnswer * Capacity)
    <3>1. faults = 0 /\ mem' = disk
      BY <1>2, <1>3, <2>7
    <3>2. disk = mem /\ lost = 0 /\ forgotten <= crashes * (MaxAnswer * Capacity)
      BY <1>0, <3>1 DEF BudgetInv
    <3>3. disk' = mem' /\ lost' = 0
      BY <1>1, <1>2, <3>1, <3>2
    <3>4. Owed <= MaxAnswer * Capacity
      <4>1. PICK o \in Nat : o = Cardinality(Owing) /\ o <= Capacity
        BY <1>0, OwingFitsTheSlot DEF OwingFits
      <4>2. MaxAnswer * o <= MaxAnswer * Capacity /\ MaxAnswer * o \in Nat
        BY <4>1, CapsFact, TimesMonotone
      <4>3. Owed <= MaxAnswer * o
        BY <1>0, <4>1, OwedFits
      <4>4. QED
        BY <1>2, <4>2, <4>3
    <3>5. PICK full \in Nat : full = MaxAnswer * Capacity
      BY <1>2
    <3>6. crashes' * full = crashes * full + full /\ crashes * full \in Nat
      BY <1>1, <1>2, <3>5
    <3>7. forgotten' = Owed + forgotten
      BY <1>1, <1>2, <1>5, <3>1, <3>2
    <3>8. forgotten' <= crashes' * full
      BY <1>2, <3>2, <3>4, <3>5, <3>6, <3>7
    <3>9. QED
      BY <3>3, <3>5, <3>8
  <2>8. QED
    BY <2>1, <2>2, <2>3, <2>4, <2>5, <2>6, <2>7 DEF BudgetInv, TokenRoom
<1>12. QED
  BY <1>7, <1>10, <1>11

-----------------------------------------------------------------------------
(* PhoneChat: the invariant *)

LEMMA InitDay == Init => DayInv
<1> SUFFICES ASSUME Init PROVE DayInv
  OBVIOUS
<1>1. IInv
  BY InitIInv DEF Init
<1>2. /\ thread = [c \in Callers |-> "none"] /\ answer = [c \in Phones |-> 0]
      /\ mem = Nothing /\ disk = Nothing /\ lost = 0 /\ faults = 0
      /\ reported = 0 /\ forgotten = 0 /\ crashes = 0
  BY DEF Init, SlotInit
<1>3. PhoneTypes
  <2>1. Nothing \in [turns : Nat, tokens : Nat]
    BY DEF Nothing
  <2>2. 0 \in 0..MaxAnswer /\ 0 \in 0..MaxCrashes /\ 0 \in 0..MaxFaults
    BY CapsFact
  <2>3. [c \in Phones |-> 0] \in [Phones -> 0..MaxAnswer]
    BY <2>2
  <2>4. QED
    BY <2>1, <2>2, <2>3 DEF Init, PhoneTypes
<1>4. Owing = {} /\ Ended = {} /\ Called = {} /\ Cardinality({}) = 0
  BY <1>2, PhonesFact, FS_EmptySet DEF Owing, Ended, Called
<1>5. PhoneInv
  BY <1>2, <1>4 DEF PhoneInv
<1>6. BudgetInv
  <2>1. /\ MaxAnswer * 0 = 0 /\ MaxAnswer * Capacity \in Nat
    BY CapsFact
  <2>2. 0 * (MaxAnswer * Capacity) = 0
    BY <2>1
  <2>3. Owed = 0
    <3>1. \A p \in Phones \X (1..MaxAnswer) : ~(p[2] <= answer[p[1]])
      BY <1>2, CapsFact
    <3>2. Uncounted = {}
      BY <3>1 DEF Uncounted
    <3>3. QED
      BY <3>2, FS_EmptySet DEF Owed
  <2>4. QED
    BY <1>2, <1>4, <2>1, <2>2, <2>3, CapsFact DEF BudgetInv, Nothing
<1>7. QED
  BY <1>1, <1>3, <1>5, <1>6 DEF DayInv

LEMMA NextDay == DayInv /\ [Next]_vars => DayInv'
<1> SUFFICES ASSUME DayInv, [Next]_vars PROVE DayInv'
  OBVIOUS
<1>0. IInv /\ PhoneTypes /\ PhoneInv /\ BudgetInv /\ CallerInv
  BY DEF DayInv, IInv
<1>1. IInv'
  BY <1>0, PhoneSlot
<1>2. ASSUME NEW c \in Phones,
             \/ Admit(c) \/ Refuse(c) \/ Gate(c) \/ PhoneWaits(c) \/ PhoneTimesOut(c)
             \/ PhoneLeaves(c)
             \/ EnterAtOnce(c, "left") /\ ClaimRefused(c)
             \/ Resume(c, "left") /\ ClaimRefused(c)
      PROVE  PhoneTypes' /\ PhoneInv' /\ BudgetInv'
  <2>1. PhoneTypes' /\ UNCHANGED <<answer, mem, disk, lost, reported, forgotten, crashes, faults>>
    BY <1>0, <1>2
       DEF Admit, Refuse, Gate, PhoneWaits, PhoneTimesOut, PhoneLeaves, ClaimRefused, PhoneTypes,
           phoneVars, budget
  <2>2. \A d \in Phones : thread'[d] = thread[d]
    BY <1>0, <1>2, PhonesFact
       DEF Admit, Refuse, Gate, PhoneWaits, PhoneTimesOut, PhoneLeaves, EnterAtOnce, Resume, Begins,
           Wait, TimesOut, Leave, slotVars, CallerInv
  <2>3. ASSUME NEW d \in Owing, pc[d] = "in" PROVE pc'[d] = "in"
    <3>1. d \in Callers /\ c \in Callers
      BY PhonesFact DEF Owing
    <3>2. CASE Admit(c) \/ Refuse(c) \/ Gate(c)
      BY <2>3, <3>2 DEF Admit, Refuse, Gate, slotVars
    <3>3. CASE PhoneWaits(c) \/ EnterAtOnce(c, "left")
      BY <1>0, <2>3, <3>1, <3>3 DEF PhoneWaits, Wait, EnterAtOnce, CallerInv
    <3>4. CASE PhoneTimesOut(c) \/ Resume(c, "left")
      <4>1. pc[c] # "in" /\ (TimesOut(c) \/ Resume(c, "left"))
        BY <3>4 DEF PhoneTimesOut, TimesOut, Resume
      <4>2. QED
        BY <1>0, <2>3, <3>1, <4>1, WokenStays
    <3>5. CASE PhoneLeaves(c)
      <4>1. Leave(c) /\ c \notin Owing
        BY <1>0, <3>5, CapsFact DEF PhoneLeaves, Leave, Owing, PhoneTypes
      <4>2. QED
        BY <1>0, <2>3, <3>1, <4>1, WokenStays
    <3>6. QED
      BY <1>2, <3>2, <3>3, <3>4, <3>5
  <2>4. QED
    BY <1>0, <2>1, <2>2, <2>3, QuietStep
<1>3. ASSUME NEW c \in Phones, EnterAtOnce(c, "in") \/ Resume(c, "in"), ClaimTurn(c)
      PROVE  PhoneTypes' /\ PhoneInv' /\ BudgetInv'
  BY <1>1, <1>3, ClaimStep
<1>4. ASSUME NEW c \in Callers, ChatStep(c)
      PROVE  PhoneTypes' /\ PhoneInv' /\ BudgetInv'
  <2>1. PhoneTypes' /\ UNCHANGED <<answer, mem, disk, lost, reported, forgotten, crashes, faults>>
    BY <1>0, <1>4 DEF ChatStep, PhoneTypes, phoneVars, budget
  <2>2. \A d \in Phones : thread'[d] = thread[d] /\ (pc[d] = "in" => pc'[d] = "in")
    BY <1>0, <1>4, OthersLeavePhones
  <2>3. Owing \subseteq Phones
    BY DEF Owing
  <2>4. QED
    BY <1>0, <2>1, <2>2, <2>3, QuietStep
<1>5. ASSUME Hold \/ UNCHANGED vars
      PROVE  PhoneTypes' /\ PhoneInv' /\ BudgetInv'
  <2>1. PhoneTypes' /\ UNCHANGED <<answer, mem, disk, lost, reported, forgotten, crashes, faults, pc, thread>>
    BY <1>0, <1>5 DEF Hold, vars, slotVars, PhoneTypes, phoneVars, budget
  <2>2. \A d \in Phones : thread'[d] = thread[d]
    BY <2>1
  <2>3. \A d \in Owing : pc[d] = "in" => pc'[d] = "in"
    BY <2>1
  <2>4. PhoneInv' /\ BudgetInv'
    BY <1>0, <2>1, <2>2, <2>3, QuietStep
  <2>5. QED
    BY <2>1, <2>4
<1>6. ASSUME NEW c \in Phones
      PROVE  /\ PhoneTakesSlot(c) => PhoneTypes' /\ PhoneInv' /\ BudgetInv'
             /\ (\E n \in 0..MaxAnswer : Answers(c, n)) => PhoneTypes' /\ PhoneInv' /\ BudgetInv'
             /\ AddTokens(c) => PhoneTypes' /\ PhoneInv' /\ BudgetInv'
  <2>1. PhoneTakesSlot(c) => PhoneTypes' /\ PhoneInv' /\ BudgetInv'
    BY <1>2, <1>3 DEF PhoneTakesSlot
  <2>2. ASSUME NEW n \in 0..MaxAnswer, Answers(c, n)
        PROVE  PhoneTypes' /\ PhoneInv' /\ BudgetInv'
    BY <2>2, AnswersStep
  <2>3. AddTokens(c) => PhoneTypes' /\ PhoneInv' /\ BudgetInv'
    BY AddTokensStep
  <2>4. QED
    BY <2>1, <2>2, <2>3
<1>7. PhoneTypes' /\ PhoneInv' /\ BudgetInv'
  BY <1>2, <1>4, <1>5, <1>6, RestartStep DEF Next
<1>8. QED
  BY <1>1, <1>7 DEF DayInv

LEMMA DayInductive == Spec => []DayInv
  BY InitDay, NextDay, PTL DEF Spec

-----------------------------------------------------------------------------
\* Over any number of phones and restarts, the budget in memory and on disk stays
\* a budget of one day, and the slot under the phones keeps its types.
THEOREM PhoneTypeCorrect == Spec => []TypeOK
<1>1. DayInv => TypeOK
  <2> SUFFICES ASSUME DayInv PROVE TypeOK
    OBVIOUS
  <2>1. IInv /\ PhoneTypes /\ BudgetInv /\ SlotTypeOK
    BY SlotTyped DEF DayInv
  <2>2. /\ Cardinality(Called) <= Cardinality(Phones)
        /\ Cardinality(Ended) <= Cardinality(Phones)
        /\ Cardinality(Called) \in Nat /\ Cardinality(Ended) \in Nat /\ Cardinality(Phones) \in Nat
    BY PhoneSets DEF Called, Ended
  <2>3. lost \in 0..Cardinality(Phones)
    BY <2>1, <2>2 DEF BudgetInv, PhoneTypes
  <2>4. reported \in 0..Spendable /\ Spendable \in Nat
    <3>1. /\ MaxAnswer * Cardinality(Ended) <= MaxAnswer * Cardinality(Phones)
          /\ MaxAnswer * Cardinality(Ended) \in Nat /\ MaxAnswer * Cardinality(Phones) \in Nat
      BY <2>2, CapsFact, TimesMonotone
    <3>2. Spendable = MaxAnswer * Cardinality(Phones)
      BY <2>2, CapsFact DEF Spendable
    <3>3. reported \in Nat /\ reported <= MaxAnswer * Cardinality(Ended)
      BY <2>1 DEF BudgetInv, PhoneTypes
    <3>4. QED
      BY <3>1, <3>2, <3>3
  <2>5. /\ mem.tokens \in 0..Spendable /\ disk.tokens \in 0..Spendable
        /\ forgotten \in 0..Spendable
    <3>1. /\ mem.tokens \in Nat /\ disk.tokens \in Nat /\ forgotten \in Nat /\ Owed \in Nat
      BY <2>1, OwedFits DEF PhoneTypes
    <3>2. reported = mem.tokens + Owed + forgotten /\ disk.tokens <= mem.tokens + forgotten
      BY <2>1 DEF BudgetInv
    <3>3. QED
      BY <2>4, <3>1, <3>2
  <2>6. mem \in Usage(CapTurns, Spendable) /\ disk \in Usage(CapTurns, Spendable)
    BY <2>1, <2>4, <2>5, CapsFact DEF BudgetInv, PhoneTypes, Usage
  <2>7. QED
    BY <2>1, <2>3, <2>4, <2>5, <2>6 DEF TypeOK, PhoneTypes
<1> QED BY <1>1, DayInductive, PTL

\* However many questions passed the first check together, no more than the day's
\* turns reach a model, but for those a restart forgot after a write of budget.json
\* that failed, or because it could not read the file.
THEOREM TurnsStayWithinTheDay == Spec => []TurnsWithinTheDay
<1>1. DayInv => TurnsWithinTheDay
  BY CapsFact DEF DayInv, BudgetInv, PhoneTypes, TurnsWithinTheDay
<1> QED BY <1>1, DayInductive, PTL

\* What the answers of a day cost, whichever process gave them, passes the cap by
\* no more than one answer for each slot and what the budget forgot: a full slot
\* of answers for each crash, and more only when budget.json could not be written
\* or read.
THEOREM TokensStayWithinTheDay == Spec => []TokensWithinTheDay
<1>1. DayInv => TokensWithinTheDay
  <2> SUFFICES ASSUME DayInv PROVE TokensWithinTheDay
    OBVIOUS
  <2>1. PICK o \in Nat : o = Cardinality(Owing)
    BY OwingFitsTheSlot DEF DayInv, OwingFits
  <2>2. MaxAnswer * o \in Nat /\ MaxAnswer * Capacity = Capacity * MaxAnswer
        /\ MaxAnswer * Capacity \in Nat
    BY <2>1, CapsFact
  <2>3. mem.tokens + MaxAnswer * o <= TokenRoom + MaxAnswer * Capacity /\ mem.tokens \in Nat
    BY <2>1 DEF DayInv, BudgetInv, PhoneTypes
  <2>4. /\ reported = mem.tokens + Owed + forgotten /\ Owed <= MaxAnswer * o
        /\ reported \in Nat /\ forgotten \in Nat /\ Owed \in Nat
    BY <2>1, OwedFits DEF DayInv, BudgetInv, PhoneTypes
  <2>5. reported <= TokenRoom + Capacity * MaxAnswer + forgotten
    BY <2>2, <2>3, <2>4, CapsFact
  <2>6. faults = 0 => forgotten <= crashes * (Capacity * MaxAnswer)
    BY <2>2 DEF DayInv, BudgetInv
  <2>7. QED
    BY <2>5, <2>6 DEF TokensWithinTheDay, TokenRoom
<1> QED BY <1>1, DayInductive, PTL
=============================================================================
