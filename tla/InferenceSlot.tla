---------------------------- MODULE InferenceSlot ----------------------------
(***************************************************************************)
(* The inference slot of src/arail/portal/scheduler.py: one asyncio semaphore *)
(* that every model call of the portal process goes through, the counters the *)
(* metrics read, and the worker threads the calls run in.                     *)
(*                                                                         *)
(* A caller is one request. Streams are the requests whose handler is a       *)
(* streaming response: it is cancelled when the client goes away. The others  *)
(* (a plain handler, the Buddy edge's background task) are never cancelled.   *)
(* A step is what the event loop runs between two awaits, or a thread's end.  *)
(***************************************************************************)
EXTENDS Naturals, Sequences, FiniteSets

CONSTANTS Callers, Streams,
          Capacity   \* ARAIL_INFERENCE_CONCURRENCY

ASSUME CallersAssumption == IsFiniteSet(Callers) /\ Streams \subseteq Callers
ASSUME CapacityAssumption == Capacity \in 1..4

VARIABLES free,     \* the semaphore's value
          queue,    \* its waiters, first come first
          pc,       \* where each caller is
          thread,   \* the worker thread of its model call
          pending,  \* _PENDING
          inflight  \* _INFLIGHT

semaphore == <<free, queue>>
slotVars == <<semaphore, pc, thread, pending, inflight>>

\* idle: not come yet; waiting: in wait_for; granted: woken, not yet resumed;
\* in: holds the slot; left, late, gone: over, timed out, cancelled
Places == {"idle", "waiting", "granted", "in", "left", "late", "gone"}
At(place) == {c \in Callers : pc[c] = place}

SlotTypeOK ==
    /\ free \in 0..Capacity
    /\ queue \in Seq(Callers)
    /\ pc \in [Callers -> Places]
    /\ thread \in [Callers -> {"none", "running", "done"}]
    /\ pending \in 0..Cardinality(Callers)
    /\ inflight \in 0..Capacity

SlotInit ==
    /\ free = Capacity /\ queue = <<>>
    /\ pc = [c \in Callers |-> "idle"]
    /\ thread = [c \in Callers |-> "none"]
    /\ pending = 0 /\ inflight = 0

-----------------------------------------------------------------------------
(* asyncio.Semaphore *)

Locked == free = 0 \/ queue # <<>> \/ At("granted") # {}

\* Mutant: a step that makes room wakes nobody.
WakeNobody(f, q, c, place) ==
    /\ free' = f /\ queue' = q
    /\ pc' = [pc EXCEPT ![c] = place]

\* With value f and waiters q: as many of the first are woken as there are slots;
\* c, which runs this step, goes to place.
Wake(f, q, c, place) ==
    LET n == IF f < Len(q) THEN f ELSE Len(q)
        woken == {q[i] : i \in 1..n}
    IN  /\ free' = f - n
        /\ queue' = SubSeq(q, n + 1, Len(q))
        /\ pc' = [d \in Callers |-> IF d = c THEN place
                                    ELSE IF d \in woken THEN "granted" ELSE pc[d]]

\* The waiters when c is not one any more (it was once, at most), and the slot
\* it gives back.
Without(c) ==
    LET k == CHOOSE i \in 1..Len(queue) : queue[i] = c
    IN  IF pc[c] = "waiting"
        THEN [i \in 1..(Len(queue) - 1) |-> queue[IF i < k THEN i ELSE i + 1]]
        ELSE queue

\* Mutant: a woken waiter that goes away takes the slot with it.
BackNothing(c) == free
Back(c) == IF pc[c] = "granted" THEN free + 1 ELSE free

-----------------------------------------------------------------------------
(* inference_slot *)

\* The body runs up to its first await: place is "in", with the model call in a
\* thread, or "left" when the body is over before the call.
Begins(c, place) ==
    /\ thread' = [thread EXCEPT ![c] = IF place = "in" THEN "running" ELSE "none"]
    /\ inflight' = IF place = "in" THEN inflight + 1 ELSE inflight

EnterAtOnce(c, place) ==
    /\ pc[c] = "idle" /\ ~Locked
    /\ Begins(c, place)
    /\ free' = IF place = "in" THEN free - 1 ELSE free
    /\ pc' = [pc EXCEPT ![c] = place]
    /\ UNCHANGED <<queue, pending>>

Wait(c) ==
    /\ pc[c] = "idle" /\ Locked
    /\ queue' = Append(queue, c)
    /\ pending' = pending + 1
    /\ pc' = [pc EXCEPT ![c] = "waiting"]
    /\ UNCHANGED <<free, thread, inflight>>

Resume(c, place) ==
    /\ pc[c] = "granted"
    /\ Begins(c, place)
    /\ pending' = pending - 1
    /\ Wake(IF place = "in" THEN free ELSE free + 1, queue, c, place)

\* InferenceSlotTimeout
TimesOut(c) ==
    /\ pc[c] \in {"waiting", "granted"}
    /\ Wake(Back(c), Without(c), c, "late")
    /\ pending' = pending - 1
    /\ UNCHANGED <<thread, inflight>>

\* The backend returns or raises; the caller may be gone.
ThreadEnds(c) ==
    /\ thread[c] = "running"
    /\ thread' = [thread EXCEPT ![c] = "done"]
    /\ UNCHANGED <<semaphore, pc, pending, inflight>>

\* Mutant: the slot is released on the way out of a body that went well only.
LeaveUnreleased(c) ==
    /\ pc[c] = "in" /\ thread[c] = "done"
    /\ \/ Wake(free + 1, queue, c, "left")
       \/ pc' = [pc EXCEPT ![c] = "left"] /\ UNCHANGED semaphore
    /\ inflight' = inflight - 1
    /\ UNCHANGED <<thread, pending>>

Leave(c) ==
    /\ pc[c] = "in" /\ thread[c] = "done"
    /\ Wake(free + 1, queue, c, "left")
    /\ inflight' = inflight - 1
    /\ UNCHANGED <<thread, pending>>

\* A stream's client goes away while the handler waits: CancelledError is not the
\* TimeoutError that inference_slot catches, and _PENDING stays.
CancelledWaiting(c) ==
    /\ c \in Streams /\ pc[c] \in {"waiting", "granted"}
    /\ Wake(Back(c), Without(c), c, "gone")
    /\ UNCHANGED <<thread, pending, inflight>>

\* Mutant: the finally of the slot counts what was never counted in pending.
CancelledInsideCountsPending(c) ==
    /\ c \in Streams /\ pc[c] = "in"
    /\ Wake(free + 1, queue, c, "gone")
    /\ inflight' = inflight - 1
    /\ pending' = IF pending > 0 THEN pending - 1 ELSE 0
    /\ UNCHANGED thread

\* ... while it holds the slot: the finally releases, the thread goes on.
CancelledInside(c) ==
    /\ c \in Streams /\ pc[c] = "in"
    /\ Wake(free + 1, queue, c, "gone")
    /\ inflight' = inflight - 1
    /\ UNCHANGED <<thread, pending>>

-----------------------------------------------------------------------------
SlotNext ==
    \E c \in Callers :
        \/ EnterAtOnce(c, "in") \/ Resume(c, "in")
        \/ c \notin Streams /\ (EnterAtOnce(c, "left") \/ Resume(c, "left"))
        \/ Wait(c) \/ TimesOut(c)
        \/ ThreadEnds(c) \/ Leave(c)
        \/ CancelledWaiting(c) \/ CancelledInside(c)

SlotSpec == SlotInit /\ [][SlotNext]_slotVars

\* The event loop runs what is ready, and every backend call comes to an end.
SlotFairness ==
    \A c \in Callers :
        /\ WF_slotVars(Resume(c, "in"))
        /\ WF_slotVars(ThreadEnds(c))
        /\ WF_slotVars(Leave(c))

FairSlotSpec == SlotSpec /\ SlotFairness

-----------------------------------------------------------------------------
(* Properties *)

\* A slot is free, or one caller's: none is lost when a caller times out, is
\* cancelled while it is being woken, or raises, and none is given twice.
SlotsConserved == free + Cardinality(At("granted") \cup At("in")) = Capacity

\* No lost wake-up: while a slot is free and somebody queues for one, a woken
\* caller is about to run and will wake the next.
NoLostWakeUp == free > 0 /\ queue # <<>> => At("granted") # {}

\* The in-flight gauge tells the callers that hold the slot.
InflightIsHonest == inflight = Cardinality(At("in"))

\* The pending gauge, "Waiting for a slot" (docs/PUBLISH.md:324), tells the
\* callers that wait and every stream whose client ever left the queue: it is
\* too high by exactly those.
PendingAccounted ==
    pending = Cardinality(At("waiting") \cup At("granted"))
                + Cardinality({c \in At("gone") : thread[c] = "none"})

\* A caller that waits gets the slot or stops waiting, when every backend call
\* ends, without relying on any timeout.
WaitersAreServed == \A c \in Callers : pc[c] = "waiting" ~> pc[c] # "waiting"

\* "limits concurrent local-model calls" (docs/PUBLISH.md:197): no more model
\* calls run at once than the semaphore has slots.
CallsWithinCapacity == Cardinality({c \in Callers : thread[c] = "running"}) <= Capacity
=============================================================================
