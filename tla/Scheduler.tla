------------------------------ MODULE Scheduler ------------------------------
(***************************************************************************)
(* The admission of commands (internal/exec/scheduler.go, heavylane.go):   *)
(* a request passes the memory budget, the heavy lane and the slots, runs  *)
(* its segments and gives everything back, in an order of its own.  Tokens *)
(* are channels, the budget is polled under its own lock and the counters  *)
(* of Stats are updated under another one, so each is a step of its own.   *)
(*                                                                         *)
(* Durations, output and the command cache are left out: a segment is      *)
(* either skipped (not runnable, or replayed from the cache) or executed.  *)
(***************************************************************************)
EXTENDS Integers, FiniteSets

CONSTANTS Requests,
          Slots, HeavySlots,
          MemBudget,       \* 0: no accounting
          Estimates,       \* historical peak sizes a command may have; 0: unknown
          MaxSegments

ASSUME SchedulerAssumption ==
    /\ IsFiniteSet(Requests)
    /\ Slots \in Nat \ {0} /\ HeavySlots \in Nat \ {0}
    /\ MemBudget \in Nat /\ Estimates \subseteq Nat
    /\ MaxSegments \in Nat \ {0}

VARIABLES
    pc,        \* where the call of Run is
    left,      \* segments still to come
    canceled,  \* the caller's context is done
    heavy,     \* commandClass: the lane ...
    est,       \* ... and the estimate, once the request is classified
    waited,    \* the token at hand was queued for
    admitted,  \* Run holds a release function
    slots, lane, memory,   \* tokens in the channels, memInUse
    stats      \* schedulerCounters

request == <<left, canceled, heavy, est, waited, admitted>>
tokens  == <<slots, lane, memory>>
schedulerVars == <<pc, request, tokens, stats>>

Steps == {"new", "prepare", "segment", "memory",
          "lane", "laneWait", "laneHeld", "slot", "slotWait", "slotHeld", "run",
          "release", "returnSlot", "returnLane", "laneDone", "unreserve", "reject",
          "done", "unprepared"}

Counters == {"requests", "completed", "queued", "active", "heavyQueued", "heavyActive"}

TypeOK ==
    /\ pc \in [Requests -> Steps]
    /\ left \in [Requests -> 0 .. MaxSegments]
    /\ canceled \in [Requests -> BOOLEAN]
    /\ heavy \in [Requests -> BOOLEAN]
    /\ est \in [Requests -> Estimates \cup {0}]
    /\ waited \in [Requests -> BOOLEAN] /\ admitted \in [Requests -> BOOLEAN]
    /\ slots \in 0 .. Slots /\ lane \in 0 .. HeavySlots /\ memory \in Nat
    /\ stats \in [Counters -> Nat]

SchedulerInit ==
    /\ pc = [r \in Requests |-> "new"]
    /\ left \in [Requests -> 1 .. MaxSegments]
    /\ canceled = [r \in Requests |-> FALSE]
    /\ heavy = [r \in Requests |-> FALSE] /\ est = [r \in Requests |-> 0]
    /\ waited = [r \in Requests |-> FALSE] /\ admitted = [r \in Requests |-> FALSE]
    /\ slots = Slots /\ lane = HeavySlots /\ memory = 0
    /\ stats = [c \in Counters |-> 0]

Go(r, from, to) == pc[r] = from /\ pc' = [pc EXCEPT ![r] = to]

Count(c, n) == [stats EXCEPT ![c] = @ + n]

\* A counter that goes up and the queue counter of a request that had to wait.
CountStarted(c, queue, r) ==
    [stats EXCEPT ![c] = @ + 1, ![queue] = IF waited[r] THEN @ - 1 ELSE @]

-----------------------------------------------------------------------------
Receive(r) ==
    /\ Go(r, "new", "prepare")
    /\ stats' = Count("requests", 1)
    /\ UNCHANGED <<request, tokens>>

\* A request that is canceled already is rejected; the others' workspace is
\* materialized before they ask for anything.
RejectCanceled(r) ==
    /\ canceled[r] /\ Go(r, "prepare", "done")
    /\ stats' = Count("completed", 1)
    /\ UNCHANGED <<request, tokens>>

Materialized(r) ==
    /\ ~canceled[r] /\ Go(r, "prepare", "segment")
    /\ UNCHANGED <<request, tokens, stats>>

\* Materialize or runtimeDir returned an error: Run returns it and counts nothing.
Unprepared(r) ==
    /\ ~canceled[r] /\ Go(r, "prepare", "unprepared")
    /\ UNCHANGED <<request, tokens, stats>>

-----------------------------------------------------------------------------
(* The loop over the segments *)

\* Not runnable after the last exit code, or replayed from the cache; a
\* negative exit code ends the loop.
SkipSegment(r) ==
    /\ pc[r] = "segment" /\ left[r] > 0
    /\ \E n \in {0, left[r] - 1} : left' = [left EXCEPT ![r] = n]
    /\ UNCHANGED <<pc, canceled, heavy, est, waited, admitted, tokens, stats>>

\* The first segment that is executed is classified and admitted for all.
Classify(r) ==
    /\ left[r] > 0 /\ ~canceled[r] /\ ~admitted[r]
    /\ Go(r, "segment", "memory")
    /\ \E h \in BOOLEAN, e \in Estimates :
         heavy' = [heavy EXCEPT ![r] = h] /\ est' = [est EXCEPT ![r] = e]
    /\ UNCHANGED <<left, canceled, waited, admitted, tokens, stats>>

NextSegment(r) ==
    /\ left[r] > 0 /\ ~canceled[r] /\ admitted[r]
    /\ Go(r, "segment", "run")
    /\ UNCHANGED <<request, tokens, stats>>

\* Mutant of Interrupted: an admitted request is rejected on top.
InterruptedTwice(r) ==
    /\ left[r] > 0 /\ canceled[r]
    /\ stats' = Count("completed", 1)
    /\ Go(r, "segment", IF admitted[r] THEN "release" ELSE "done")
    /\ UNCHANGED <<request, tokens>>

Interrupted(r) ==
    /\ left[r] > 0 /\ canceled[r]
    /\ stats' = IF admitted[r] THEN stats ELSE Count("completed", 1)
    /\ Go(r, "segment", IF admitted[r] THEN "release" ELSE "done")
    /\ UNCHANGED <<request, tokens>>

ServedFromCache(r) ==
    /\ left[r] = 0 /\ ~admitted[r]
    /\ Go(r, "segment", "done")
    /\ stats' = Count("completed", 1)
    /\ UNCHANGED <<request, tokens>>

\* Mutant of Finished: what was served from the cache is released like a command.
FinishedAlways(r) ==
    /\ left[r] = 0
    /\ Go(r, "segment", "release")
    /\ UNCHANGED <<request, tokens, stats>>

Finished(r) ==
    /\ left[r] = 0 /\ admitted[r]
    /\ Go(r, "segment", "release")
    /\ UNCHANGED <<request, tokens, stats>>

-----------------------------------------------------------------------------
(* admit *)

Accounted(r) == MemBudget > 0 /\ est[r] > 0

AfterMemory(r) == IF heavy[r] THEN "lane" ELSE "slot"

\* Mutants of ReserveMemory: the request itself is not part of the sum; a sum
\* that just fits is refused.
ReserveWhileAnyLeft(r) ==
    /\ Go(r, "memory", AfterMemory(r))
    /\ Accounted(r) => memory < MemBudget
    /\ memory' = IF Accounted(r) THEN memory + est[r] ELSE memory
    /\ UNCHANGED <<request, slots, lane, stats>>

ReserveBelowBudget(r) ==
    /\ Go(r, "memory", AfterMemory(r))
    /\ Accounted(r) => memory + est[r] < MemBudget
    /\ memory' = IF Accounted(r) THEN memory + est[r] ELSE memory
    /\ UNCHANGED <<request, slots, lane, stats>>

ReserveMemory(r) ==
    /\ Go(r, "memory", AfterMemory(r))
    /\ Accounted(r) => memory + est[r] <= MemBudget
    /\ memory' = IF Accounted(r) THEN memory + est[r] ELSE memory
    /\ UNCHANGED <<request, slots, lane, stats>>

RejectMemory(r) ==
    /\ Accounted(r) /\ canceled[r] /\ Go(r, "memory", "reject")
    /\ UNCHANGED <<request, tokens, stats>>

TryLane(r) ==
    /\ lane > 0 /\ Go(r, "lane", "laneHeld")
    /\ lane' = lane - 1
    /\ UNCHANGED <<request, slots, memory, stats>>

QueueForLane(r) ==
    /\ lane = 0 /\ Go(r, "lane", "laneWait")
    /\ waited' = [waited EXCEPT ![r] = TRUE]
    /\ stats' = Count("heavyQueued", 1)
    /\ UNCHANGED <<left, canceled, heavy, est, admitted, tokens>>

TakeLane(r) ==
    /\ lane > 0 /\ Go(r, "laneWait", "laneHeld")
    /\ lane' = lane - 1
    /\ UNCHANGED <<request, slots, memory, stats>>

AbandonLane(r) ==
    /\ canceled[r] /\ Go(r, "laneWait", "unreserve")
    /\ waited' = [waited EXCEPT ![r] = FALSE]
    /\ stats' = Count("heavyQueued", -1)
    /\ UNCHANGED <<left, canceled, heavy, est, admitted, tokens>>

LaneStarted(r) ==
    /\ Go(r, "laneHeld", "slot")
    /\ stats' = CountStarted("heavyActive", "heavyQueued", r)
    /\ waited' = [waited EXCEPT ![r] = FALSE]
    /\ UNCHANGED <<left, canceled, heavy, est, admitted, tokens>>

TrySlot(r) ==
    /\ slots > 0 /\ Go(r, "slot", "slotHeld")
    /\ slots' = slots - 1
    /\ UNCHANGED <<request, lane, memory, stats>>

QueueForSlot(r) ==
    /\ slots = 0 /\ Go(r, "slot", "slotWait")
    /\ waited' = [waited EXCEPT ![r] = TRUE]
    /\ stats' = Count("queued", 1)
    /\ UNCHANGED <<left, canceled, heavy, est, admitted, tokens>>

TakeSlot(r) ==
    /\ slots > 0 /\ Go(r, "slotWait", "slotHeld")
    /\ slots' = slots - 1
    /\ UNCHANGED <<request, lane, memory, stats>>

\* Mutant of AbandonSlot: the lane is forgotten.
AbandonSlotOnly(r) ==
    /\ canceled[r] /\ Go(r, "slotWait", "unreserve")
    /\ UNCHANGED <<request, tokens, stats>>

\* A request that gives up waiting for a slot returns its lane first.
AbandonSlot(r) ==
    /\ canceled[r] /\ Go(r, "slotWait", IF heavy[r] THEN "returnLane" ELSE "unreserve")
    /\ UNCHANGED <<request, tokens, stats>>

SlotStarted(r) ==
    /\ Go(r, "slotHeld", "run")
    /\ stats' = CountStarted("active", "queued", r)
    /\ waited' = [waited EXCEPT ![r] = FALSE]
    /\ admitted' = [admitted EXCEPT ![r] = TRUE]
    /\ UNCHANGED <<left, canceled, heavy, est, tokens>>

-----------------------------------------------------------------------------
(* Execution and release *)

Execute(r) ==
    /\ Go(r, "run", "segment")
    /\ \E n \in {0, left[r] - 1} : left' = [left EXCEPT ![r] = n]
    /\ UNCHANGED <<canceled, heavy, est, waited, admitted, tokens, stats>>

\* The command fails to run, times out or is canceled.
ExecuteFails(r) ==
    /\ Go(r, "run", "release")
    /\ UNCHANGED <<request, tokens, stats>>

Completed(r) ==
    /\ Go(r, "release", "returnSlot")
    /\ stats' = [stats EXCEPT !["active"] = @ - 1, !["completed"] = @ + 1]
    /\ UNCHANGED <<request, tokens>>

ReturnSlot(r) ==
    /\ Go(r, "returnSlot", IF heavy[r] THEN "returnLane" ELSE "unreserve")
    /\ slots' = slots + 1
    /\ UNCHANGED <<request, lane, memory, stats>>

ReturnLane(r) ==
    /\ Go(r, "returnLane", "laneDone")
    /\ lane' = lane + 1
    /\ UNCHANGED <<request, slots, memory, stats>>

LaneDone(r) ==
    /\ Go(r, "laneDone", "unreserve")
    /\ stats' = Count("heavyActive", -1)
    /\ UNCHANGED <<request, tokens>>

ReleaseMemory(r) ==
    /\ Go(r, "unreserve", IF admitted[r] THEN "done" ELSE "reject")
    /\ memory' = IF Accounted(r) THEN memory - est[r] ELSE memory
    /\ UNCHANGED <<request, slots, lane, stats>>

Reject(r) ==
    /\ Go(r, "reject", "done")
    /\ stats' = CountStarted("completed", "queued", r)
    /\ UNCHANGED <<request, tokens>>

Cancel(r) ==
    /\ ~canceled[r] /\ pc[r] \notin {"done", "unprepared"}
    /\ canceled' = [canceled EXCEPT ![r] = TRUE]
    /\ UNCHANGED <<pc, left, heavy, est, waited, admitted, tokens, stats>>

Step(r) ==
    \/ Receive(r) \/ RejectCanceled(r) \/ Materialized(r) \/ Unprepared(r)
    \/ SkipSegment(r) \/ Classify(r) \/ NextSegment(r) \/ Interrupted(r)
    \/ ServedFromCache(r) \/ Finished(r)
    \/ ReserveMemory(r) \/ RejectMemory(r)
    \/ TryLane(r) \/ QueueForLane(r) \/ TakeLane(r) \/ AbandonLane(r) \/ LaneStarted(r)
    \/ TrySlot(r) \/ QueueForSlot(r) \/ TakeSlot(r) \/ AbandonSlot(r) \/ SlotStarted(r)
    \/ Execute(r) \/ ExecuteFails(r)
    \/ Completed(r) \/ ReturnSlot(r) \/ ReturnLane(r) \/ LaneDone(r)
    \/ ReleaseMemory(r) \/ Reject(r)

SchedulerNext == \E r \in Requests : Step(r) \/ Cancel(r)

SchedulerSpec == SchedulerInit /\ [][SchedulerNext]_schedulerVars

-----------------------------------------------------------------------------
(* Properties *)

Running == {r \in Requests : pc[r] = "run"}
Ended   == {r \in Requests : pc[r] \in {"done", "unprepared"}}

\* The units of memory the requests in S are estimated to take, one by one.
Units(S) == UNION {{r} \X (1 .. est[r]) : r \in S}

\* What runs at any time respects all three limits, whatever was canceled,
\* failed or given up on the way.
WithinLimits ==
    /\ Cardinality(Running) <= Slots
    /\ Cardinality({r \in Running : heavy[r]}) <= HeavySlots
    /\ MemBudget > 0 => Cardinality(Units(Running)) <= MemBudget

\* Stats never shows more commands at work than there are slots, and every
\* request it shows is completed, under way or failed in preparation.
StatsHonest ==
    /\ stats["active"] <= Slots
    /\ stats["requests"] = stats["completed"]
          + Cardinality({r \in Requests : pc[r] = "unprepared"})
          + Cardinality({r \in Requests :
                pc[r] \notin {"new", "done", "unprepared", "returnSlot"}
                /\ ~(admitted[r] /\ pc[r] \in {"returnLane", "laneDone", "unreserve"})})

\* When nothing is under way everything has been given back and every gauge is
\* zero: no path through a failure or a cancellation leaks.
NothingLeaks ==
    {r \in Requests : pc[r] # "new"} = Ended =>
        /\ slots = Slots /\ lane = HeavySlots /\ memory = 0
        /\ \A c \in {"queued", "active", "heavyQueued", "heavyActive"} : stats[c] = 0

\* A command whose estimate exceeds the whole budget waits until it is canceled.
NeverFits(r) == pc[r] = "memory" /\ est[r] > MemBudget /\ MemBudget > 0

\* A request waits for memory, the lane or a slot; what is canceled need not.
Waits(r) == \/ pc[r] = "memory" /\ Accounted(r) /\ memory + est[r] > MemBudget
            \/ pc[r] = "laneWait" /\ lane = 0
            \/ pc[r] = "slotWait" /\ slots = 0

GoesOn(r) == r \notin Ended /\ (Waits(r) => canceled[r])

\* Nobody waits for ever: the limits are taken in one order, so unless every
\* request has ended or never fits, one can go on without being canceled.  A
\* request never goes back, so each of them comes to its end.
SomeoneGoesOn ==
    \/ \A r \in Requests : r \in Ended \/ NeverFits(r)
    \/ \E r \in Requests : GoesOn(r)

\* And whoever waits for nothing does have a step.
NobodyStuck == SomeoneGoesOn /\ \A r \in Requests : GoesOn(r) => ENABLED Step(r)

\* scheduler.go:117 calls Stats a consistent snapshot of slots, queues and
\* completions: it would show no more heavy commands than the lane admits.
HeavyStatsWithinCapacity == stats["heavyActive"] <= HeavySlots
=============================================================================
