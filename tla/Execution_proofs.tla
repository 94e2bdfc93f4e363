--------------------------- MODULE Execution_proofs ---------------------------
(***************************************************************************)
(* What runs commands, and what they run on.                               *)
(*                                                                         *)
(* Scheduler: the limits and the counters, for all requests, limits and    *)
(* estimates.                                                              *)
(*                                                                         *)
(* Workspaces, over Overlay: layers and directories agree and copies are   *)
(* exact, for any paths, contents, environments, callers and floors.  The  *)
(* first half is about layers: what a chain of them stands for is one tree *)
(* (Shown) as long as whatever a layer writes lies in directories (Tidy),  *)
(* and then reading, listing, rendering and absorbing all agree with it.   *)
(* The second half shows that every operation keeps this for the           *)
(* environments no known defect has touched, whoever else is under way.    *)
(***************************************************************************)
EXTENDS Scheduler, Workspaces, FiniteSetTheorems, NaturalsInduction,
        WellFoundedInduction, TLAPS

-----------------------------------------------------------------------------
(* Counting: what one request changes in the size of a set of requests. *)

One(b) == IF b THEN 1 ELSE 0

\* Two sets that agree on everything but r differ in size by r's membership.
LEMMA CountChange ==
    ASSUME NEW A, NEW B, NEW r, IsFiniteSet(A),
           \A q : q # r => (q \in A <=> q \in B)
    PROVE  Cardinality(B) = Cardinality(A) - One(r \in A) + One(r \in B)
<1> DEFINE C == A \ {r}
<1>1. C = B \ {r}
  OBVIOUS
<1>2. IsFiniteSet(C) /\ Cardinality(C) = Cardinality(A) - One(r \in A)
  BY FS_RemoveElement, FS_CardinalityType DEF One
<1>3. CASE r \in B
  <2>1. B = C \cup {r} /\ r \notin C
    BY <1>1, <1>3
  <2>2. Cardinality(C \cup {r}) = Cardinality(C) + 1
    BY <1>2, <2>1, FS_AddElement
  <2> QED  BY <1>2, <1>3, <2>1, <2>2 DEF One
<1>4. CASE r \notin B
  <2>1. B = C
    BY <1>1, <1>4
  <2>2. Cardinality(C) \in Nat
    BY <1>2, FS_CardinalityType
  <2> QED  BY <1>2, <1>4, <2>1, <2>2, FS_CardinalityType DEF One
<1> QED  BY <1>3, <1>4

\* Units of the requests in S when their estimates are e.
UnitsOf(e, S) == UNION {{r} \X (1 .. e[r]) : r \in S}

LEMMA OneRequest ==
    ASSUME NEW r, NEW n \in Nat
    PROVE  IsFiniteSet({r} \X (1 .. n)) /\ Cardinality({r} \X (1 .. n)) = n
<1>1. IsFiniteSet(1 .. n) /\ Cardinality(1 .. n) = n
  BY FS_Interval
<1>2. IsFiniteSet({r}) /\ Cardinality({r}) = 1
  BY FS_Singleton
<1> QED
  BY <1>1, <1>2, FS_Product

LEMMA UnitsWithout ==
    ASSUME NEW A \in SUBSET Requests, NEW r \in Requests, NEW e \in [Requests -> Nat],
           IsFiniteSet(UnitsOf(e, A \ {r}))
    PROVE  /\ IsFiniteSet(UnitsOf(e, A))
           /\ Cardinality(UnitsOf(e, A)) =
                Cardinality(UnitsOf(e, A \ {r})) + (IF r \in A THEN e[r] ELSE 0)
<1> DEFINE U == UnitsOf(e, A \ {r})
           V == {r} \X (1 .. e[r])
<1>1. CASE r \in A
  <2>1. UnitsOf(e, A) = U \cup V
    BY <1>1 DEF UnitsOf
  <2>2. U \cap V = {}
    BY DEF UnitsOf
  <2>3. IsFiniteSet(V) /\ Cardinality(V) = e[r]
    BY OneRequest
  <2>4. Cardinality(U) \in Nat /\ Cardinality(U \cap V) = 0
    BY <2>2, FS_CardinalityType, FS_EmptySet
  <2> HIDE DEF U, V
  <2>5. IsFiniteSet(U \cup V)
        /\ Cardinality(U \cup V) = Cardinality(U) + Cardinality(V) - Cardinality(U \cap V)
    BY <2>3, FS_Union DEF U
  <2> QED
    BY <1>1, <2>1, <2>3, <2>4, <2>5 DEF U
<1>2. CASE r \notin A
  <2>1. A \ {r} = A
    BY <1>2
  <2>2. IsFiniteSet(UnitsOf(e, A)) /\ Cardinality(UnitsOf(e, A)) \in Nat
    BY <2>1, FS_CardinalityType
  <2> QED
    BY <1>2, <2>1, <2>2
<1> QED  BY <1>1, <1>2

\* The same for the units of memory the requests take.
LEMMA UnitsChange ==
    ASSUME NEW A \in SUBSET Requests, NEW B \in SUBSET Requests, NEW r \in Requests,
           NEW e \in [Requests -> Nat], NEW f \in [Requests -> Nat],
           IsFiniteSet(UnitsOf(e, A)),
           \A q \in Requests : q # r => (q \in A <=> q \in B) /\ e[q] = f[q]
    PROVE  /\ IsFiniteSet(UnitsOf(f, B))
           /\ Cardinality(UnitsOf(f, B)) = Cardinality(UnitsOf(e, A))
                - (IF r \in A THEN e[r] ELSE 0) + (IF r \in B THEN f[r] ELSE 0)
<1>1. UnitsOf(e, A \ {r}) = UnitsOf(f, B \ {r})
  <2>1. A \ {r} = B \ {r}
    OBVIOUS
  <2>2. \A q \in A \ {r} : e[q] = f[q]
    OBVIOUS
  <2> QED
    BY <2>1, <2>2 DEF UnitsOf
<1>2. IsFiniteSet(UnitsOf(e, A \ {r}))
  <2>1. UnitsOf(e, A \ {r}) \in SUBSET UnitsOf(e, A)
    BY DEF UnitsOf
  <2> QED
    BY <2>1, FS_Subset
<1>3. Cardinality(UnitsOf(e, A \ {r})) \in Nat
  BY <1>2, FS_CardinalityType
<1>4. Cardinality(UnitsOf(e, A)) =
        Cardinality(UnitsOf(e, A \ {r})) + (IF r \in A THEN e[r] ELSE 0)
  BY <1>2, UnitsWithout
<1>5. /\ IsFiniteSet(UnitsOf(f, B))
      /\ Cardinality(UnitsOf(f, B)) =
           Cardinality(UnitsOf(f, B \ {r})) + (IF r \in B THEN f[r] ELSE 0)
  BY <1>1, <1>2, UnitsWithout
<1> QED
  BY <1>1, <1>3, <1>4, <1>5

-----------------------------------------------------------------------------
(* The inductive invariant *)

\* Types, but for the counters, which could go below zero for all we know yet.
TypedSoFar ==
    /\ pc \in [Requests -> Steps]
    /\ left \in [Requests -> 0 .. MaxSegments]
    /\ canceled \in [Requests -> BOOLEAN]
    /\ heavy \in [Requests -> BOOLEAN]
    /\ est \in [Requests -> Estimates \cup {0}]
    /\ waited \in [Requests -> BOOLEAN] /\ admitted \in [Requests -> BOOLEAN]
    /\ slots \in Nat /\ lane \in Nat /\ memory \in Int
    /\ stats \in [Counters -> Int]

\* What a request is known to be by the step it has reached.
Path(r) ==
    /\ pc[r] \in {"memory", "lane", "laneWait", "laneHeld", "slot", "slotWait", "slotHeld",
                  "run"} => left[r] > 0
    /\ pc[r] \in {"lane", "laneWait", "laneHeld", "returnLane", "laneDone"} => heavy[r]
    /\ pc[r] \in {"run", "release", "returnSlot"} => admitted[r]
    /\ admitted[r] => /\ ~waited[r]
                      /\ pc[r] \in {"segment", "run", "release", "returnSlot", "returnLane",
                                    "laneDone", "unreserve", "done"}
    /\ pc[r] \in {"laneWait", "slotWait"} => waited[r]
    /\ waited[r] => pc[r] \in {"laneWait", "laneHeld", "slotWait", "slotHeld", "returnLane",
                               "laneDone", "unreserve", "reject", "done"}
    /\ pc[r] = "slot" => ~waited[r]
    /\ ~admitted[r] => pc[r] # "laneDone" \/ waited[r]
    /\ pc[r] = "returnLane" => admitted[r] \/ waited[r]

Between(r) == pc[r] = "segment" /\ admitted[r]  \* an admitted request, between segments

HasSlot(r) == Between(r) \/ pc[r] \in {"slotHeld", "run", "release", "returnSlot"}
IsActive(r) == Between(r) \/ pc[r] \in {"run", "release"}
IsQueued(r) == waited[r] /\ pc[r] \in {"slotWait", "slotHeld", "returnLane", "laneDone",
                                       "unreserve", "reject"}
HasLane(r) == heavy[r] /\ (Between(r) \/ pc[r] \in {"laneHeld", "slot", "slotWait", "slotHeld",
                                                    "run", "release", "returnSlot", "returnLane"})
IsHeavyActive(r) == heavy[r] /\ (Between(r) \/ pc[r] \in {"slot", "slotWait", "slotHeld", "run",
                                         "release", "returnSlot", "returnLane", "laneDone"})
IsHeavyQueued(r) == waited[r] /\ pc[r] \in {"laneWait", "laneHeld"}
HasMemory(r) == Between(r) \/ pc[r] \in {"lane", "laneWait", "laneHeld", "slot", "slotWait",
                    "slotHeld", "run", "release", "returnSlot", "returnLane", "laneDone", "unreserve"}
IsReceived(r) == pc[r] # "new"
IsCompleted(r) == \/ pc[r] \in {"done", "returnSlot"}
                  \/ admitted[r] /\ pc[r] \in {"returnLane", "laneDone", "unreserve"}

SlotHolders   == {r \in Requests : HasSlot(r)}
LaneHolders   == {r \in Requests : HasLane(r)}
Actives       == {r \in Requests : IsActive(r)}
HeavyActives  == {r \in Requests : IsHeavyActive(r)}
Queued        == {r \in Requests : IsQueued(r)}
HeavyQueued   == {r \in Requests : IsHeavyQueued(r)}
MemoryHolders == {r \in Requests : HasMemory(r)}
Received      == {r \in Requests : IsReceived(r)}
CompletedOnes == {r \in Requests : IsCompleted(r)}

\* Every token and every counter is the number of the requests it stands for.
Accounts ==
    /\ slots = Slots - Cardinality(SlotHolders)
    /\ lane = HeavySlots - Cardinality(LaneHolders)
    /\ stats["active"] = Cardinality(Actives)
    /\ stats["queued"] = Cardinality(Queued)
    /\ stats["heavyActive"] = Cardinality(HeavyActives)
    /\ stats["heavyQueued"] = Cardinality(HeavyQueued)
    /\ stats["requests"] = Cardinality(Received)
    /\ stats["completed"] = Cardinality(CompletedOnes)

Budgeted ==
    /\ IsFiniteSet(UnitsOf(est, MemoryHolders))
    /\ memory = IF MemBudget > 0 THEN Cardinality(UnitsOf(est, MemoryHolders)) ELSE 0
    /\ MemBudget > 0 => memory <= MemBudget

SchedulerInv == TypedSoFar /\ (\A r \in Requests : Path(r)) /\ Accounts /\ Budgeted

-----------------------------------------------------------------------------
(* One request's step *)

\* A step of one request leaves the others where they are.
Alone(r) ==
    \A q \in Requests : q # r =>
        /\ pc'[q] = pc[q] /\ left'[q] = left[q] /\ heavy'[q] = heavy[q] /\ est'[q] = est[q]
        /\ waited'[q] = waited[q] /\ admitted'[q] = admitted[q]

LEMMA StepAlone ==
    ASSUME TypedSoFar, NEW r \in Requests, Step(r) \/ Cancel(r)
    PROVE  Alone(r)
<1> USE DEF TypedSoFar, Alone
<1>1. CASE Receive(r)
  BY <1>1 DEF Receive, Go, Count, request, tokens
<1>2. CASE RejectCanceled(r)
  BY <1>2 DEF RejectCanceled, Go, Count, request, tokens
<1>3. CASE Materialized(r)
  BY <1>3 DEF Materialized, Go, request, tokens
<1>4. CASE Unprepared(r)
  BY <1>4 DEF Unprepared, Go, request, tokens
<1>5. CASE SkipSegment(r)
  BY <1>5 DEF SkipSegment, tokens
<1>6. CASE Classify(r)
  BY <1>6 DEF Classify, Go, tokens
<1>7. CASE NextSegment(r)
  BY <1>7 DEF NextSegment, Go, request, tokens
<1>8. CASE Interrupted(r)
  BY <1>8 DEF Interrupted, Go, Count, request, tokens
<1>9. CASE ServedFromCache(r)
  BY <1>9 DEF ServedFromCache, Go, Count, request, tokens
<1>10. CASE Finished(r)
  BY <1>10 DEF Finished, Go, request, tokens
<1>11. CASE ReserveMemory(r)
  BY <1>11 DEF ReserveMemory, Go, Accounted, AfterMemory, request
<1>12. CASE RejectMemory(r)
  BY <1>12 DEF RejectMemory, Go, Accounted, request, tokens
<1>13. CASE TryLane(r)
  BY <1>13 DEF TryLane, Go, request
<1>14. CASE QueueForLane(r)
  BY <1>14 DEF QueueForLane, Go, Count, tokens
<1>15. CASE TakeLane(r)
  BY <1>15 DEF TakeLane, Go, request
<1>16. CASE AbandonLane(r)
  BY <1>16 DEF AbandonLane, Go, Count, tokens
<1>17. CASE LaneStarted(r)
  BY <1>17 DEF LaneStarted, Go, CountStarted, tokens
<1>18. CASE TrySlot(r)
  BY <1>18 DEF TrySlot, Go, request
<1>19. CASE QueueForSlot(r)
  BY <1>19 DEF QueueForSlot, Go, Count, tokens
<1>20. CASE TakeSlot(r)
  BY <1>20 DEF TakeSlot, Go, request
<1>21. CASE AbandonSlot(r)
  BY <1>21 DEF AbandonSlot, Go, request, tokens
<1>22. CASE SlotStarted(r)
  BY <1>22 DEF SlotStarted, Go, CountStarted, tokens
<1>23. CASE Execute(r)
  BY <1>23 DEF Execute, Go, tokens
<1>24. CASE ExecuteFails(r)
  BY <1>24 DEF ExecuteFails, Go, request, tokens
<1>25. CASE Completed(r)
  BY <1>25 DEF Completed, Go, request, tokens
<1>26. CASE ReturnSlot(r)
  BY <1>26 DEF ReturnSlot, Go, request
<1>27. CASE ReturnLane(r)
  BY <1>27 DEF ReturnLane, Go, request
<1>28. CASE LaneDone(r)
  BY <1>28 DEF LaneDone, Go, Count, request, tokens
<1>29. CASE ReleaseMemory(r)
  BY <1>29 DEF ReleaseMemory, Go, Accounted, request
<1>30. CASE Reject(r)
  BY <1>30 DEF Reject, Go, CountStarted, request, tokens
<1>31. CASE Cancel(r)
  BY <1>31 DEF Cancel, tokens
<1> QED
  BY <1>1, <1>2, <1>3, <1>4, <1>5, <1>6, <1>7, <1>8, <1>9, <1>10, <1>11, <1>12, <1>13,
     <1>14, <1>15, <1>16, <1>17, <1>18, <1>19, <1>20, <1>21, <1>22, <1>23, <1>24, <1>25,
     <1>26, <1>27, <1>28, <1>29, <1>30, <1>31 DEF Step

LEMMA StepTyped ==
    ASSUME TypedSoFar, NEW r \in Requests, Path(r), Step(r) \/ Cancel(r)
    PROVE  TypedSoFar'
<1> USE SchedulerAssumption DEF TypedSoFar, Path, Steps, Counters
<1>1. CASE Receive(r)
  BY <1>1 DEF Receive, Go, Count, request, tokens
<1>2. CASE RejectCanceled(r)
  BY <1>2 DEF RejectCanceled, Go, Count, request, tokens
<1>3. CASE Materialized(r)
  BY <1>3 DEF Materialized, Go, request, tokens
<1>4. CASE Unprepared(r)
  BY <1>4 DEF Unprepared, Go, request, tokens
<1>5. CASE SkipSegment(r)
  BY <1>5 DEF SkipSegment, tokens
<1>6. CASE Classify(r)
  BY <1>6 DEF Classify, Go, tokens
<1>7. CASE NextSegment(r)
  BY <1>7 DEF NextSegment, Go, request, tokens
<1>8. CASE Interrupted(r)
  BY <1>8 DEF Interrupted, Go, Count, request, tokens
<1>9. CASE ServedFromCache(r)
  BY <1>9 DEF ServedFromCache, Go, Count, request, tokens
<1>10. CASE Finished(r)
  BY <1>10 DEF Finished, Go, request, tokens
<1>11. CASE ReserveMemory(r)
  BY <1>11 DEF ReserveMemory, Go, Accounted, AfterMemory, request
<1>12. CASE RejectMemory(r)
  BY <1>12 DEF RejectMemory, Go, Accounted, request, tokens
<1>13. CASE TryLane(r)
  BY <1>13 DEF TryLane, Go, request
<1>14. CASE QueueForLane(r)
  BY <1>14 DEF QueueForLane, Go, Count, tokens
<1>15. CASE TakeLane(r)
  BY <1>15 DEF TakeLane, Go, request
<1>16. CASE AbandonLane(r)
  BY <1>16 DEF AbandonLane, Go, Count, tokens
<1>17. CASE LaneStarted(r)
  BY <1>17 DEF LaneStarted, Go, CountStarted, tokens
<1>18. CASE TrySlot(r)
  BY <1>18 DEF TrySlot, Go, request
<1>19. CASE QueueForSlot(r)
  BY <1>19 DEF QueueForSlot, Go, Count, tokens
<1>20. CASE TakeSlot(r)
  BY <1>20 DEF TakeSlot, Go, request
<1>21. CASE AbandonSlot(r)
  BY <1>21 DEF AbandonSlot, Go, request, tokens
<1>22. CASE SlotStarted(r)
  BY <1>22 DEF SlotStarted, Go, CountStarted, tokens
<1>23. CASE Execute(r)
  BY <1>23 DEF Execute, Go, tokens
<1>24. CASE ExecuteFails(r)
  BY <1>24 DEF ExecuteFails, Go, request, tokens
<1>25. CASE Completed(r)
  BY <1>25 DEF Completed, Go, request, tokens
<1>26. CASE ReturnSlot(r)
  BY <1>26 DEF ReturnSlot, Go, request
<1>27. CASE ReturnLane(r)
  BY <1>27 DEF ReturnLane, Go, request
<1>28. CASE LaneDone(r)
  BY <1>28 DEF LaneDone, Go, Count, request, tokens
<1>29. CASE ReleaseMemory(r)
  BY <1>29 DEF ReleaseMemory, Go, Accounted, request
<1>30. CASE Reject(r)
  BY <1>30 DEF Reject, Go, CountStarted, request, tokens
<1>31. CASE Cancel(r)
  BY <1>31 DEF Cancel, tokens
<1> QED
  BY <1>1, <1>2, <1>3, <1>4, <1>5, <1>6, <1>7, <1>8, <1>9, <1>10, <1>11, <1>12, <1>13,
     <1>14, <1>15, <1>16, <1>17, <1>18, <1>19, <1>20, <1>21, <1>22, <1>23, <1>24, <1>25,
     <1>26, <1>27, <1>28, <1>29, <1>30, <1>31 DEF Step

LEMMA StepPath ==
    ASSUME TypedSoFar, NEW r \in Requests, Path(r), Step(r) \/ Cancel(r)
    PROVE  Path(r)'
<1> USE SchedulerAssumption DEF TypedSoFar, Path
<1>1. CASE Receive(r)
  BY <1>1 DEF Receive, Go, Count, request, tokens
<1>2. CASE RejectCanceled(r)
  BY <1>2 DEF RejectCanceled, Go, Count, request, tokens
<1>3. CASE Materialized(r)
  BY <1>3 DEF Materialized, Go, request, tokens
<1>4. CASE Unprepared(r)
  BY <1>4 DEF Unprepared, Go, request, tokens
<1>5. CASE SkipSegment(r)
  BY <1>5 DEF SkipSegment, tokens
<1>6. CASE Classify(r)
  BY <1>6 DEF Classify, Go, tokens
<1>7. CASE NextSegment(r)
  BY <1>7 DEF NextSegment, Go, request, tokens
<1>8. CASE Interrupted(r)
  BY <1>8 DEF Interrupted, Go, Count, request, tokens
<1>9. CASE ServedFromCache(r)
  BY <1>9 DEF ServedFromCache, Go, Count, request, tokens
<1>10. CASE Finished(r)
  BY <1>10 DEF Finished, Go, request, tokens
<1>11. CASE ReserveMemory(r)
  BY <1>11 DEF ReserveMemory, Go, Accounted, AfterMemory, request
<1>12. CASE RejectMemory(r)
  BY <1>12 DEF RejectMemory, Go, Accounted, request, tokens
<1>13. CASE TryLane(r)
  BY <1>13 DEF TryLane, Go, request
<1>14. CASE QueueForLane(r)
  BY <1>14 DEF QueueForLane, Go, Count, tokens
<1>15. CASE TakeLane(r)
  BY <1>15 DEF TakeLane, Go, request
<1>16. CASE AbandonLane(r)
  BY <1>16 DEF AbandonLane, Go, Count, tokens
<1>17. CASE LaneStarted(r)
  BY <1>17 DEF LaneStarted, Go, CountStarted, tokens
<1>18. CASE TrySlot(r)
  BY <1>18 DEF TrySlot, Go, request
<1>19. CASE QueueForSlot(r)
  BY <1>19 DEF QueueForSlot, Go, Count, tokens
<1>20. CASE TakeSlot(r)
  BY <1>20 DEF TakeSlot, Go, request
<1>21. CASE AbandonSlot(r)
  BY <1>21 DEF AbandonSlot, Go, request, tokens
<1>22. CASE SlotStarted(r)
  BY <1>22 DEF SlotStarted, Go, CountStarted, tokens
<1>23. CASE Execute(r)
  BY <1>23 DEF Execute, Go, tokens
<1>24. CASE ExecuteFails(r)
  BY <1>24 DEF ExecuteFails, Go, request, tokens
<1>25. CASE Completed(r)
  BY <1>25 DEF Completed, Go, request, tokens
<1>26. CASE ReturnSlot(r)
  BY <1>26 DEF ReturnSlot, Go, request
<1>27. CASE ReturnLane(r)
  BY <1>27 DEF ReturnLane, Go, request
<1>28. CASE LaneDone(r)
  BY <1>28 DEF LaneDone, Go, Count, request, tokens
<1>29. CASE ReleaseMemory(r)
  BY <1>29 DEF ReleaseMemory, Go, Accounted, request
<1>30. CASE Reject(r)
  BY <1>30 DEF Reject, Go, CountStarted, request, tokens
<1>31. CASE Cancel(r)
  BY <1>31 DEF Cancel, tokens
<1> QED
  BY <1>1, <1>2, <1>3, <1>4, <1>5, <1>6, <1>7, <1>8, <1>9, <1>10, <1>11, <1>12, <1>13,
     <1>14, <1>15, <1>16, <1>17, <1>18, <1>19, <1>20, <1>21, <1>22, <1>23, <1>24, <1>25,
     <1>26, <1>27, <1>28, <1>29, <1>30, <1>31 DEF Step

\* The size of each set of requests changes by what becomes of r.
Recounted(r) ==
    /\ Cardinality(SlotHolders)' = Cardinality(SlotHolders) - One(HasSlot(r)) + One(HasSlot(r)')
    /\ Cardinality(LaneHolders)' = Cardinality(LaneHolders) - One(HasLane(r)) + One(HasLane(r)')
    /\ Cardinality(Actives)' = Cardinality(Actives) - One(IsActive(r)) + One(IsActive(r)')
    /\ Cardinality(Queued)' = Cardinality(Queued) - One(IsQueued(r)) + One(IsQueued(r)')
    /\ Cardinality(HeavyActives)' =
         Cardinality(HeavyActives) - One(IsHeavyActive(r)) + One(IsHeavyActive(r)')
    /\ Cardinality(HeavyQueued)' =
         Cardinality(HeavyQueued) - One(IsHeavyQueued(r)) + One(IsHeavyQueued(r)')
    /\ Cardinality(Received)' = Cardinality(Received) - One(IsReceived(r)) + One(IsReceived(r)')
    /\ Cardinality(CompletedOnes)' =
         Cardinality(CompletedOnes) - One(IsCompleted(r)) + One(IsCompleted(r)')

\* Any set of requests, and so each of these, is finite.
LEMMA RequestsFinite ==
    ASSUME NEW S \in SUBSET Requests
    PROVE  IsFiniteSet(S) /\ Cardinality(S) \in Nat
BY SchedulerAssumption, FS_Subset, FS_CardinalityType DEF SchedulerAssumption

LEMMA StepRecounted ==
    ASSUME TypedSoFar, NEW r \in Requests, Alone(r)
    PROVE  Recounted(r)
<1>1. Cardinality(SlotHolders)' = Cardinality(SlotHolders) - One(HasSlot(r)) + One(HasSlot(r)')
  <2>1. \A q : q # r => (q \in SlotHolders <=> q \in SlotHolders')
    BY DEF Alone, SlotHolders, HasSlot, Between
  <2>2. IsFiniteSet(SlotHolders)
    BY RequestsFinite DEF SlotHolders
  <2>3. Cardinality(SlotHolders') = Cardinality(SlotHolders) - One(r \in SlotHolders) + One(r \in SlotHolders')
    BY <2>1, <2>2, CountChange
  <2>4. (r \in SlotHolders <=> HasSlot(r)) /\ (r \in SlotHolders' <=> HasSlot(r)')
    BY DEF SlotHolders
  <2> QED
    BY <2>3, <2>4 DEF One
<1>2. Cardinality(LaneHolders)' = Cardinality(LaneHolders) - One(HasLane(r)) + One(HasLane(r)')
  <2>1. \A q : q # r => (q \in LaneHolders <=> q \in LaneHolders')
    BY DEF Alone, LaneHolders, HasLane, Between
  <2>2. IsFiniteSet(LaneHolders)
    BY RequestsFinite DEF LaneHolders
  <2>3. Cardinality(LaneHolders') = Cardinality(LaneHolders) - One(r \in LaneHolders) + One(r \in LaneHolders')
    BY <2>1, <2>2, CountChange
  <2>4. (r \in LaneHolders <=> HasLane(r)) /\ (r \in LaneHolders' <=> HasLane(r)')
    BY DEF LaneHolders
  <2> QED
    BY <2>3, <2>4 DEF One
<1>3. Cardinality(Actives)' = Cardinality(Actives) - One(IsActive(r)) + One(IsActive(r)')
  <2>1. \A q : q # r => (q \in Actives <=> q \in Actives')
    BY DEF Alone, Actives, IsActive, Between
  <2>2. IsFiniteSet(Actives)
    BY RequestsFinite DEF Actives
  <2>3. Cardinality(Actives') = Cardinality(Actives) - One(r \in Actives) + One(r \in Actives')
    BY <2>1, <2>2, CountChange
  <2>4. (r \in Actives <=> IsActive(r)) /\ (r \in Actives' <=> IsActive(r)')
    BY DEF Actives
  <2> QED
    BY <2>3, <2>4 DEF One
<1>4. Cardinality(Queued)' = Cardinality(Queued) - One(IsQueued(r)) + One(IsQueued(r)')
  <2>1. \A q : q # r => (q \in Queued <=> q \in Queued')
    BY DEF Alone, Queued, IsQueued
  <2>2. IsFiniteSet(Queued)
    BY RequestsFinite DEF Queued
  <2>3. Cardinality(Queued') = Cardinality(Queued) - One(r \in Queued) + One(r \in Queued')
    BY <2>1, <2>2, CountChange
  <2>4. (r \in Queued <=> IsQueued(r)) /\ (r \in Queued' <=> IsQueued(r)')
    BY DEF Queued
  <2> QED
    BY <2>3, <2>4 DEF One
<1>5. Cardinality(HeavyActives)' = Cardinality(HeavyActives) - One(IsHeavyActive(r)) + One(IsHeavyActive(r)')
  <2>1. \A q : q # r => (q \in HeavyActives <=> q \in HeavyActives')
    BY DEF Alone, HeavyActives, IsHeavyActive, Between
  <2>2. IsFiniteSet(HeavyActives)
    BY RequestsFinite DEF HeavyActives
  <2>3. Cardinality(HeavyActives') = Cardinality(HeavyActives) - One(r \in HeavyActives) + One(r \in HeavyActives')
    BY <2>1, <2>2, CountChange
  <2>4. (r \in HeavyActives <=> IsHeavyActive(r)) /\ (r \in HeavyActives' <=> IsHeavyActive(r)')
    BY DEF HeavyActives
  <2> QED
    BY <2>3, <2>4 DEF One
<1>6. Cardinality(HeavyQueued)' = Cardinality(HeavyQueued) - One(IsHeavyQueued(r)) + One(IsHeavyQueued(r)')
  <2>1. \A q : q # r => (q \in HeavyQueued <=> q \in HeavyQueued')
    BY DEF Alone, HeavyQueued, IsHeavyQueued
  <2>2. IsFiniteSet(HeavyQueued)
    BY RequestsFinite DEF HeavyQueued
  <2>3. Cardinality(HeavyQueued') = Cardinality(HeavyQueued) - One(r \in HeavyQueued) + One(r \in HeavyQueued')
    BY <2>1, <2>2, CountChange
  <2>4. (r \in HeavyQueued <=> IsHeavyQueued(r)) /\ (r \in HeavyQueued' <=> IsHeavyQueued(r)')
    BY DEF HeavyQueued
  <2> QED
    BY <2>3, <2>4 DEF One
<1>7. Cardinality(Received)' = Cardinality(Received) - One(IsReceived(r)) + One(IsReceived(r)')
  <2>1. \A q : q # r => (q \in Received <=> q \in Received')
    BY DEF Alone, Received, IsReceived
  <2>2. IsFiniteSet(Received)
    BY RequestsFinite DEF Received
  <2>3. Cardinality(Received') = Cardinality(Received) - One(r \in Received) + One(r \in Received')
    BY <2>1, <2>2, CountChange
  <2>4. (r \in Received <=> IsReceived(r)) /\ (r \in Received' <=> IsReceived(r)')
    BY DEF Received
  <2> QED
    BY <2>3, <2>4 DEF One
<1>8. Cardinality(CompletedOnes)' = Cardinality(CompletedOnes) - One(IsCompleted(r)) + One(IsCompleted(r)')
  <2>1. \A q : q # r => (q \in CompletedOnes <=> q \in CompletedOnes')
    BY DEF Alone, CompletedOnes, IsCompleted
  <2>2. IsFiniteSet(CompletedOnes)
    BY RequestsFinite DEF CompletedOnes
  <2>3. Cardinality(CompletedOnes') = Cardinality(CompletedOnes) - One(r \in CompletedOnes) + One(r \in CompletedOnes')
    BY <2>1, <2>2, CountChange
  <2>4. (r \in CompletedOnes <=> IsCompleted(r)) /\ (r \in CompletedOnes' <=> IsCompleted(r)')
    BY DEF CompletedOnes
  <2> QED
    BY <2>3, <2>4 DEF One
<1> QED
  BY <1>1, <1>2, <1>3, <1>4, <1>5, <1>6, <1>7, <1>8 DEF Recounted

\* A request that queues for a slot only joins the queue.
LEMMA QueueForSlotAccounts ==
    ASSUME TypedSoFar, NEW r \in Requests, Path(r), Accounts, Recounted(r), QueueForSlot(r)
    PROVE  Accounts'
<1>1. /\ pc[r] = "slot" /\ pc'[r] = "slotWait" /\ ~waited[r] /\ waited'[r]
      /\ heavy'[r] = heavy[r] /\ admitted'[r] = admitted[r]
  BY DEF QueueForSlot, Go, TypedSoFar, Path
<1>2. /\ HasSlot(r)' = HasSlot(r) /\ HasLane(r)' = HasLane(r) /\ IsActive(r)' = IsActive(r)
      /\ IsHeavyActive(r)' = IsHeavyActive(r) /\ IsHeavyQueued(r)' = IsHeavyQueued(r)
      /\ IsReceived(r)' = IsReceived(r) /\ IsCompleted(r)' = IsCompleted(r)
  BY <1>1 DEF HasSlot, HasLane, IsActive, IsHeavyActive, IsHeavyQueued, IsReceived, IsCompleted,
     Between
<1>3. ~IsQueued(r) /\ IsQueued(r)'
  BY <1>1 DEF IsQueued
<1>4. /\ stats'["queued"] = stats["queued"] + 1 /\ slots' = slots /\ lane' = lane
      /\ \A c \in Counters \ {"queued"} : stats'[c] = stats[c]
  BY DEF QueueForSlot, Count, tokens, TypedSoFar, Counters
<1>5. /\ Cardinality(SlotHolders) \in Nat /\ Cardinality(LaneHolders) \in Nat
      /\ Cardinality(Actives) \in Nat /\ Cardinality(HeavyActives) \in Nat
      /\ Cardinality(Queued) \in Nat /\ Cardinality(HeavyQueued) \in Nat
      /\ Cardinality(Received) \in Nat /\ Cardinality(CompletedOnes) \in Nat
  BY RequestsFinite DEF SlotHolders, LaneHolders, Actives, HeavyActives, Queued, HeavyQueued,
     Received, CompletedOnes
<1>6. /\ Cardinality(SlotHolders)' = Cardinality(SlotHolders)
      /\ Cardinality(LaneHolders)' = Cardinality(LaneHolders)
      /\ Cardinality(Actives)' = Cardinality(Actives)
      /\ Cardinality(HeavyActives)' = Cardinality(HeavyActives)
      /\ Cardinality(HeavyQueued)' = Cardinality(HeavyQueued)
      /\ Cardinality(Received)' = Cardinality(Received)
      /\ Cardinality(CompletedOnes)' = Cardinality(CompletedOnes)
      /\ Cardinality(Queued)' = Cardinality(Queued) + 1
  BY <1>2, <1>3, <1>5 DEF Recounted, One
<1> QED
  BY <1>4, <1>6 DEF Accounts, Counters

\* Every step pays for the tokens and counts what it does.
LEMMA StepAccounts ==
    ASSUME TypedSoFar, NEW r \in Requests, Path(r), Accounts, Recounted(r), Step(r) \/ Cancel(r)
    PROVE  Accounts'
<1> USE SchedulerAssumption DEF TypedSoFar, Path, Accounts, Recounted, One, Counters, Between, HasSlot,
        IsActive, IsQueued, HasLane, IsHeavyActive, IsHeavyQueued, IsReceived, IsCompleted
<1>a. /\ Cardinality(SlotHolders) \in Nat /\ Cardinality(LaneHolders) \in Nat
      /\ Cardinality(Actives) \in Nat /\ Cardinality(HeavyActives) \in Nat
      /\ Cardinality(Queued) \in Nat /\ Cardinality(HeavyQueued) \in Nat
      /\ Cardinality(Received) \in Nat /\ Cardinality(CompletedOnes) \in Nat
  BY RequestsFinite DEF SlotHolders, LaneHolders, Actives, HeavyActives, Queued, HeavyQueued,
     Received, CompletedOnes
<1>1. CASE Receive(r)
  BY <1>1, <1>a DEF Receive, Go, Count, request, tokens
<1>2. CASE RejectCanceled(r)
  BY <1>2, <1>a DEF RejectCanceled, Go, Count, request, tokens
<1>3. CASE Materialized(r)
  BY <1>3, <1>a DEF Materialized, Go, request, tokens
<1>4. CASE Unprepared(r)
  BY <1>4, <1>a DEF Unprepared, Go, request, tokens
<1>5. CASE SkipSegment(r)
  BY <1>5, <1>a DEF SkipSegment, tokens
<1>6. CASE Classify(r)
  BY <1>6, <1>a DEF Classify, Go, tokens
<1>7. CASE NextSegment(r)
  BY <1>7, <1>a DEF NextSegment, Go, request, tokens
<1>8. CASE Interrupted(r)
  BY <1>8, <1>a DEF Interrupted, Go, Count, request, tokens
<1>9. CASE ServedFromCache(r)
  BY <1>9, <1>a DEF ServedFromCache, Go, Count, request, tokens
<1>10. CASE Finished(r)
  BY <1>10, <1>a DEF Finished, Go, request, tokens
<1>11. CASE ReserveMemory(r)
  BY <1>11, <1>a DEF ReserveMemory, Go, Accounted, AfterMemory, request
<1>12. CASE RejectMemory(r)
  BY <1>12, <1>a DEF RejectMemory, Go, Accounted, request, tokens
<1>13. CASE TryLane(r)
  BY <1>13, <1>a DEF TryLane, Go, request
<1>14. CASE QueueForLane(r)
  BY <1>14, <1>a DEF QueueForLane, Go, Count, tokens
<1>15. CASE TakeLane(r)
  BY <1>15, <1>a DEF TakeLane, Go, request
<1>16. CASE AbandonLane(r)
  BY <1>16, <1>a DEF AbandonLane, Go, Count, tokens
<1>17. CASE LaneStarted(r)
  BY <1>17, <1>a DEF LaneStarted, Go, CountStarted, tokens
<1>18. CASE TrySlot(r)
  BY <1>18, <1>a DEF TrySlot, Go, request
<1>19. CASE QueueForSlot(r)
  BY <1>19, <1>a, QueueForSlotAccounts
<1>20. CASE TakeSlot(r)
  BY <1>20, <1>a DEF TakeSlot, Go, request
<1>21. CASE AbandonSlot(r)
  BY <1>21, <1>a DEF AbandonSlot, Go, request, tokens
<1>22. CASE SlotStarted(r)
  BY <1>22, <1>a DEF SlotStarted, Go, CountStarted, tokens
<1>23. CASE Execute(r)
  BY <1>23, <1>a DEF Execute, Go, tokens
<1>24. CASE ExecuteFails(r)
  BY <1>24, <1>a DEF ExecuteFails, Go, request, tokens
<1>25. CASE Completed(r)
  BY <1>25, <1>a DEF Completed, Go, request, tokens
<1>26. CASE ReturnSlot(r)
  BY <1>26, <1>a DEF ReturnSlot, Go, request
<1>27. CASE ReturnLane(r)
  BY <1>27, <1>a DEF ReturnLane, Go, request
<1>28. CASE LaneDone(r)
  BY <1>28, <1>a DEF LaneDone, Go, Count, request, tokens
<1>29. CASE ReleaseMemory(r)
  BY <1>29, <1>a DEF ReleaseMemory, Go, Accounted, request
<1>30. CASE Reject(r)
  BY <1>30, <1>a DEF Reject, Go, CountStarted, request, tokens
<1>31. CASE Cancel(r)
  BY <1>31, <1>a DEF Cancel, tokens
<1> QED
  BY <1>1, <1>2, <1>3, <1>4, <1>5, <1>6, <1>7, <1>8, <1>9, <1>10, <1>11, <1>12, <1>13,
     <1>14, <1>15, <1>16, <1>17, <1>18, <1>19, <1>20, <1>21, <1>22, <1>23, <1>24, <1>25,
     <1>26, <1>27, <1>28, <1>29, <1>30, <1>31 DEF Step

\* What is reserved is what the admitted requests and those in admission were estimated to take.
LEMMA StepBudgeted ==
    ASSUME TypedSoFar, TypedSoFar', NEW r \in Requests, Path(r), Budgeted, Alone(r), Step(r) \/ Cancel(r)
    PROVE  Budgeted'
<1> DEFINE taken == Cardinality(UnitsOf(est, MemoryHolders))
<1>a. est \in [Requests -> Nat] /\ est' \in [Requests -> Nat]
  <2>1. Estimates \cup {0} \subseteq Nat
    BY SchedulerAssumption DEF SchedulerAssumption
  <2>2. est \in [Requests -> Estimates \cup {0}] /\ est' \in [Requests -> Estimates \cup {0}]
    BY DEF TypedSoFar
  <2> QED
    BY <2>1, <2>2
<1>b. \A q \in Requests : q # r => (q \in MemoryHolders <=> q \in MemoryHolders') /\ est[q] = est'[q]
  BY DEF Alone, MemoryHolders, HasMemory, Between
<1>c. /\ IsFiniteSet(UnitsOf(est', MemoryHolders'))
      /\ Cardinality(UnitsOf(est', MemoryHolders')) = Cardinality(UnitsOf(est, MemoryHolders))
           - (IF r \in MemoryHolders THEN est[r] ELSE 0)
           + (IF r \in MemoryHolders' THEN est'[r] ELSE 0)
  <2>1. MemoryHolders \in SUBSET Requests /\ MemoryHolders' \in SUBSET Requests
    BY DEF MemoryHolders
  <2>2. IsFiniteSet(UnitsOf(est, MemoryHolders))
    BY DEF Budgeted
  <2> HIDE DEF taken
  <2>3. ASSUME NEW A \in SUBSET Requests, NEW B \in SUBSET Requests,
               NEW e \in [Requests -> Nat], NEW f \in [Requests -> Nat],
               A = MemoryHolders, B = MemoryHolders', e = est, f = est'
        PROVE  /\ IsFiniteSet(UnitsOf(f, B))
               /\ Cardinality(UnitsOf(f, B)) = Cardinality(UnitsOf(e, A))
                    - (IF r \in A THEN e[r] ELSE 0) + (IF r \in B THEN f[r] ELSE 0)
    <3>1. IsFiniteSet(UnitsOf(e, A))
      BY <2>2, <2>3
    <3>2. \A q \in Requests : q # r => (q \in A <=> q \in B) /\ e[q] = f[q]
      BY <1>b, <2>3
    <3> QED
      BY <3>1, <3>2, UnitsChange
  <2> QED
    BY <1>a, <2>1, <2>3
<1>d. (r \in MemoryHolders <=> HasMemory(r)) /\ (r \in MemoryHolders' <=> HasMemory(r)')
  BY DEF MemoryHolders
<1>e. taken' = taken - (IF HasMemory(r) THEN est[r] ELSE 0) + (IF HasMemory(r)' THEN est'[r] ELSE 0)
  BY <1>c, <1>d
<1>f. taken \in Nat /\ MemBudget \in Nat
  BY SchedulerAssumption, FS_CardinalityType DEF SchedulerAssumption, Budgeted
<1>g. (MemBudget > 0 => memory = taken) /\ (MemBudget = 0 => memory = 0)
      /\ (MemBudget > 0 => memory <= MemBudget) /\ memory \in Int
  BY <1>f DEF Budgeted, TypedSoFar
<1> HIDE DEF taken
<1>h. ASSUME MemBudget > 0 => memory' = taken' /\ taken' <= MemBudget,
             MemBudget = 0 => memory' = 0
      PROVE  Budgeted'
  BY <1>c, <1>f, <1>h DEF Budgeted, taken
<1> SUFFICES /\ MemBudget > 0 => memory' = taken' /\ taken' <= MemBudget
             /\ MemBudget = 0 => memory' = 0
  BY <1>h
<1>i. ASSUME memory' = memory, est'[r] = est[r] \/ ~HasMemory(r), HasMemory(r)' = HasMemory(r)
      PROVE  /\ MemBudget > 0 => memory' = taken' /\ taken' <= MemBudget
             /\ MemBudget = 0 => memory' = 0
  BY <1>a, <1>e, <1>f, <1>g, <1>i
<1> USE DEF TypedSoFar, Path
<1>1. CASE Receive(r)
  BY <1>1, <1>i DEF Receive, Go, Count, request, tokens, HasMemory, Between
<1>2. CASE RejectCanceled(r)
  BY <1>2, <1>i DEF RejectCanceled, Go, Count, request, tokens, HasMemory, Between
<1>3. CASE Materialized(r)
  BY <1>3, <1>i DEF Materialized, Go, request, tokens, HasMemory, Between
<1>4. CASE Unprepared(r)
  BY <1>4, <1>i DEF Unprepared, Go, request, tokens, HasMemory, Between
<1>5. CASE SkipSegment(r)
  BY <1>5, <1>i DEF SkipSegment, tokens, HasMemory, Between
<1>6. CASE Classify(r)
  BY <1>6, <1>i DEF Classify, Go, tokens, HasMemory, Between
<1>7. CASE NextSegment(r)
  BY <1>7, <1>i DEF NextSegment, Go, request, tokens, HasMemory, Between
<1>8. CASE Interrupted(r)
  BY <1>8, <1>i DEF Interrupted, Go, Count, request, tokens, HasMemory, Between
<1>9. CASE ServedFromCache(r)
  BY <1>9, <1>i DEF ServedFromCache, Go, Count, request, tokens, HasMemory, Between
<1>10. CASE Finished(r)
  BY <1>10, <1>i DEF Finished, Go, request, tokens, HasMemory, Between
<1>11. CASE ReserveMemory(r)
  <2>1. ~HasMemory(r) /\ HasMemory(r)' /\ est'[r] = est[r]
    BY <1>11 DEF ReserveMemory, Go, AfterMemory, request, HasMemory, Between
  <2>2. /\ MemBudget > 0 /\ est[r] > 0 => memory + est[r] <= MemBudget
        /\ memory' = IF MemBudget > 0 /\ est[r] > 0 THEN memory + est[r] ELSE memory
    BY <1>11 DEF ReserveMemory, Accounted
  <2> QED
    BY <1>a, <1>e, <1>f, <1>g, <2>1, <2>2
<1>12. CASE RejectMemory(r)
  BY <1>12, <1>i DEF RejectMemory, Go, Accounted, request, tokens, HasMemory, Between
<1>13. CASE TryLane(r)
  BY <1>13, <1>i DEF TryLane, Go, request, HasMemory, Between
<1>14. CASE QueueForLane(r)
  BY <1>14, <1>i DEF QueueForLane, Go, Count, tokens, HasMemory, Between
<1>15. CASE TakeLane(r)
  BY <1>15, <1>i DEF TakeLane, Go, request, HasMemory, Between
<1>16. CASE AbandonLane(r)
  BY <1>16, <1>i DEF AbandonLane, Go, Count, tokens, HasMemory, Between
<1>17. CASE LaneStarted(r)
  BY <1>17, <1>i DEF LaneStarted, Go, CountStarted, tokens, HasMemory, Between
<1>18. CASE TrySlot(r)
  BY <1>18, <1>i DEF TrySlot, Go, request, HasMemory, Between
<1>19. CASE QueueForSlot(r)
  BY <1>19, <1>i DEF QueueForSlot, Go, Count, tokens, HasMemory, Between
<1>20. CASE TakeSlot(r)
  BY <1>20, <1>i DEF TakeSlot, Go, request, HasMemory, Between
<1>21. CASE AbandonSlot(r)
  BY <1>21, <1>i DEF AbandonSlot, Go, request, tokens, HasMemory, Between
<1>22. CASE SlotStarted(r)
  BY <1>22, <1>i DEF SlotStarted, Go, CountStarted, tokens, HasMemory, Between
<1>23. CASE Execute(r)
  BY <1>23, <1>i DEF Execute, Go, tokens, HasMemory, Between
<1>24. CASE ExecuteFails(r)
  BY <1>24, <1>i DEF ExecuteFails, Go, request, tokens, HasMemory, Between
<1>25. CASE Completed(r)
  BY <1>25, <1>i DEF Completed, Go, request, tokens, HasMemory, Between
<1>26. CASE ReturnSlot(r)
  BY <1>26, <1>i DEF ReturnSlot, Go, request, HasMemory, Between
<1>27. CASE ReturnLane(r)
  BY <1>27, <1>i DEF ReturnLane, Go, request, HasMemory, Between
<1>28. CASE LaneDone(r)
  BY <1>28, <1>i DEF LaneDone, Go, Count, request, tokens, HasMemory, Between
<1>29. CASE ReleaseMemory(r)
  <2>1. HasMemory(r) /\ ~HasMemory(r)' /\ est'[r] = est[r]
    BY <1>29 DEF ReleaseMemory, Go, request, HasMemory, Between
  <2>2. memory' = IF MemBudget > 0 /\ est[r] > 0 THEN memory - est[r] ELSE memory
    BY <1>29 DEF ReleaseMemory, Accounted
  <2> QED
    BY <1>a, <1>e, <1>f, <1>g, <2>1, <2>2
<1>30. CASE Reject(r)
  BY <1>30, <1>i DEF Reject, Go, CountStarted, request, tokens, HasMemory, Between
<1>31. CASE Cancel(r)
  BY <1>31, <1>i DEF Cancel, tokens, HasMemory, Between
<1> QED
  BY <1>1, <1>2, <1>3, <1>4, <1>5, <1>6, <1>7, <1>8, <1>9, <1>10, <1>11, <1>12, <1>13,
     <1>14, <1>15, <1>16, <1>17, <1>18, <1>19, <1>20, <1>21, <1>22, <1>23, <1>24, <1>25,
     <1>26, <1>27, <1>28, <1>29, <1>30, <1>31 DEF Step

-----------------------------------------------------------------------------
LEMMA InitInv == SchedulerInit => SchedulerInv
<1> SUFFICES ASSUME SchedulerInit PROVE SchedulerInv
  OBVIOUS
<1>1. TypedSoFar /\ \A r \in Requests : Path(r)
  BY SchedulerAssumption DEF SchedulerAssumption, SchedulerInit, TypedSoFar, Path, Steps, Counters
<1>2. /\ SlotHolders = {} /\ LaneHolders = {} /\ Actives = {} /\ HeavyActives = {}
      /\ Queued = {} /\ HeavyQueued = {} /\ MemoryHolders = {}
      /\ Received = {} /\ CompletedOnes = {}
  BY DEF SchedulerInit, SlotHolders, LaneHolders, Actives, HeavyActives, Queued, HeavyQueued, MemoryHolders,
         Received, CompletedOnes, HasSlot, HasLane, IsActive, IsHeavyActive, IsQueued,
         IsHeavyQueued, HasMemory, IsReceived, IsCompleted, Between
<1>3. UnitsOf(est, MemoryHolders) = {}
  BY <1>2 DEF UnitsOf
<1>4. Accounts
  BY <1>2, FS_EmptySet, SchedulerAssumption DEF SchedulerAssumption, Accounts, SchedulerInit, Counters
<1>5. Budgeted
  BY <1>3, FS_EmptySet, SchedulerAssumption DEF SchedulerAssumption, Budgeted, SchedulerInit
<1> QED
  BY <1>1, <1>4, <1>5 DEF SchedulerInv

LEMMA NextInv == SchedulerInv /\ [SchedulerNext]_schedulerVars => SchedulerInv'
<1> SUFFICES ASSUME SchedulerInv, [SchedulerNext]_schedulerVars PROVE SchedulerInv'
  OBVIOUS
<1>1. ASSUME NEW r \in Requests, Step(r) \/ Cancel(r) PROVE SchedulerInv'
  <2>1. TypedSoFar /\ Path(r) /\ Accounts /\ Budgeted
    BY DEF SchedulerInv
  <2>2. Alone(r)
    BY <1>1, <2>1, StepAlone
  <2>3. TypedSoFar'
    BY <1>1, <2>1, StepTyped
  <2>4. ASSUME NEW q \in Requests PROVE Path(q)'
    <3>1. CASE q = r
      BY <1>1, <2>1, <3>1, StepPath
    <3>2. CASE q # r
      <4>1. Path(q)
        BY DEF SchedulerInv
      <4> QED
        BY <2>2, <3>2, <4>1 DEF Alone, Path
    <3> QED  BY <3>1, <3>2
  <2>5. Accounts'
    <3>1. Recounted(r)
      BY <2>1, <2>2, StepRecounted
    <3> QED
      BY <1>1, <2>1, <3>1, StepAccounts
  <2>6. Budgeted'
    BY <1>1, <2>1, <2>2, <2>3, StepBudgeted
  <2> QED
    BY <2>3, <2>4, <2>5, <2>6 DEF SchedulerInv
<1>2. CASE UNCHANGED schedulerVars
  BY <1>2 DEF schedulerVars, request, tokens, SchedulerInv, TypedSoFar, Path, Accounts, Budgeted, SlotHolders,
     LaneHolders, Actives, HeavyActives, Queued, HeavyQueued, MemoryHolders, Received,
     CompletedOnes, HasSlot, HasLane, IsActive, IsHeavyActive, IsQueued, IsHeavyQueued,
     HasMemory, IsReceived, IsCompleted, Between
<1> QED
  BY <1>1, <1>2 DEF SchedulerNext

LEMMA SchedulerInvariant == SchedulerSpec => []SchedulerInv
<1>1. SchedulerInit => SchedulerInv
  BY InitInv
<1>2. SchedulerInv /\ [SchedulerNext]_schedulerVars => SchedulerInv'
  BY NextInv
<1> QED
  BY <1>1, <1>2, PTL DEF SchedulerSpec

LEMMA Counted ==
    /\ Cardinality(SlotHolders) \in Nat /\ Cardinality(LaneHolders) \in Nat
    /\ Cardinality(Actives) \in Nat /\ Cardinality(HeavyActives) \in Nat
    /\ Cardinality(Queued) \in Nat /\ Cardinality(HeavyQueued) \in Nat
    /\ Cardinality(Received) \in Nat /\ Cardinality(CompletedOnes) \in Nat
BY RequestsFinite DEF SlotHolders, LaneHolders, Actives, HeavyActives, Queued, HeavyQueued,
   Received, CompletedOnes

\* The types, and with them that no token is returned twice and no counter
\* goes below zero.
THEOREM TypeCorrect == SchedulerSpec => []TypeOK
<1>1. SchedulerInv => TypeOK
  <2> SUFFICES ASSUME SchedulerInv PROVE TypeOK
    OBVIOUS
  <2>1. slots \in 0 .. Slots /\ lane \in 0 .. HeavySlots
    BY Counted, SchedulerAssumption DEF SchedulerAssumption, SchedulerInv, TypedSoFar, Accounts
  <2>2. memory \in Nat
    BY FS_CardinalityType DEF SchedulerInv, Budgeted
  <2>3. stats \in [Counters -> Nat]
    BY Counted DEF SchedulerInv, TypedSoFar, Accounts, Counters
  <2> QED
    BY <2>1, <2>2, <2>3 DEF SchedulerInv, TypedSoFar, TypeOK
<1> QED
  BY <1>1, SchedulerInvariant, PTL

\* What runs respects the slots, the heavy lane and the memory budget.
THEOREM LimitsRespected == SchedulerSpec => []WithinLimits
<1>1. SchedulerInv => WithinLimits
  <2> SUFFICES ASSUME SchedulerInv PROVE WithinLimits
    OBVIOUS
  <2>1. Cardinality(Running) <= Slots
    <3>1. Running \in SUBSET SlotHolders /\ IsFiniteSet(SlotHolders)
      BY RequestsFinite DEF Running, SlotHolders, HasSlot
    <3>2. Cardinality(Running) <= Cardinality(SlotHolders) /\ Cardinality(Running) \in Nat
      BY <3>1, FS_Subset, FS_CardinalityType
    <3> QED
      BY <3>2, Counted, SchedulerAssumption DEF SchedulerAssumption, SchedulerInv, TypedSoFar, Accounts
  <2>2. Cardinality({r \in Running : heavy[r]}) <= HeavySlots
    <3> DEFINE H == {r \in Running : heavy[r]}
    <3>1. H \in SUBSET LaneHolders /\ IsFiniteSet(LaneHolders)
      BY RequestsFinite DEF Running, LaneHolders, HasLane
    <3>2. Cardinality(H) <= Cardinality(LaneHolders) /\ Cardinality(H) \in Nat
      BY <3>1, FS_Subset, FS_CardinalityType
    <3> HIDE DEF H
    <3>3. Cardinality(H) <= HeavySlots
      BY <3>2, Counted, SchedulerAssumption DEF SchedulerAssumption, SchedulerInv, TypedSoFar, Accounts
    <3> QED
      BY <3>3 DEF H
  <2>3. ASSUME MemBudget > 0 PROVE Cardinality(Units(Running)) <= MemBudget
    <3> DEFINE all == UnitsOf(est, MemoryHolders)
    <3>1. Units(Running) \in SUBSET all
      BY DEF Units, UnitsOf, Running, MemoryHolders, HasMemory
    <3>2. IsFiniteSet(all) /\ Cardinality(all) <= MemBudget
      BY <2>3 DEF SchedulerInv, Budgeted
    <3>3. /\ Cardinality(Units(Running)) <= Cardinality(all)
          /\ Cardinality(Units(Running)) \in Nat /\ Cardinality(all) \in Nat
      BY <3>1, <3>2, FS_Subset, FS_CardinalityType
    <3> HIDE DEF all
    <3> QED
      BY <3>2, <3>3, SchedulerAssumption DEF SchedulerAssumption
  <2> QED
    BY <2>1, <2>2, <2>3 DEF WithinLimits
<1> QED
  BY <1>1, SchedulerInvariant, PTL

\* Every request the statistics show is completed, under way or failed early.
THEOREM StatsAreHonest == SchedulerSpec => []StatsHonest
<1>1. SchedulerInv => StatsHonest
  <2> SUFFICES ASSUME SchedulerInv PROVE StatsHonest
    OBVIOUS
  <2> DEFINE unprepared == {r \in Requests : pc[r] = "unprepared"}
             underWay == {r \in Requests :
                pc[r] \notin {"new", "done", "unprepared", "returnSlot"}
                /\ ~(admitted[r] /\ pc[r] \in {"returnLane", "laneDone", "unreserve"})}
  <2>1. stats["active"] <= Slots
    <3>1. Actives \in SUBSET SlotHolders /\ IsFiniteSet(SlotHolders)
      BY RequestsFinite DEF Actives, SlotHolders, HasSlot, IsActive
    <3>2. Cardinality(Actives) <= Cardinality(SlotHolders)
      BY <3>1, FS_Subset
    <3> QED
      BY <3>2, Counted, SchedulerAssumption DEF SchedulerAssumption, SchedulerInv, TypedSoFar, Accounts
  <2>2. /\ Received = (CompletedOnes \cup unprepared) \cup underWay
        /\ CompletedOnes \cap unprepared = {} /\ (CompletedOnes \cup unprepared) \cap underWay = {}
    BY DEF Received, CompletedOnes, IsReceived, IsCompleted, SchedulerInv, TypedSoFar
  <2>3. IsFiniteSet(CompletedOnes) /\ IsFiniteSet(unprepared) /\ IsFiniteSet(underWay)
        /\ Cardinality(unprepared) \in Nat /\ Cardinality(underWay) \in Nat
    BY RequestsFinite DEF CompletedOnes
  <2> HIDE DEF unprepared, underWay
  <2>4. IsFiniteSet(CompletedOnes \cup unprepared)
        /\ Cardinality(CompletedOnes \cup unprepared) =
             Cardinality(CompletedOnes) + Cardinality(unprepared)
    <3>1. Cardinality(CompletedOnes \cap unprepared) = 0
      BY <2>2, FS_EmptySet
    <3>2. IsFiniteSet(CompletedOnes \cup unprepared)
          /\ Cardinality(CompletedOnes \cup unprepared) = Cardinality(CompletedOnes)
               + Cardinality(unprepared) - Cardinality(CompletedOnes \cap unprepared)
      BY <2>3, FS_Union
    <3> QED
      BY <2>3, <3>1, <3>2, Counted
  <2>5. Cardinality(Received) =
          Cardinality(CompletedOnes) + Cardinality(unprepared) + Cardinality(underWay)
    <3> DEFINE over == CompletedOnes \cup unprepared
    <3>1. Cardinality(over \cap underWay) = 0
      BY <2>2, FS_EmptySet
    <3>2. Cardinality(over \cup underWay) =
            Cardinality(over) + Cardinality(underWay) - Cardinality(over \cap underWay)
      BY <2>3, <2>4, FS_Union
    <3>3. Received = over \cup underWay
      BY <2>2
    <3>4. Cardinality(over) = Cardinality(CompletedOnes) + Cardinality(unprepared)
      BY <2>4
    <3> HIDE DEF over
    <3> QED
      BY <2>3, <3>1, <3>2, <3>3, <3>4, Counted
  <2>6. stats["requests"] = stats["completed"] + Cardinality(unprepared) + Cardinality(underWay)
    BY <2>5 DEF SchedulerInv, Accounts
  <2> QED
    BY <2>1, <2>6 DEF StatsHonest, unprepared, underWay
<1> QED
  BY <1>1, SchedulerInvariant, PTL

\* No path through a failure or a cancellation leaks a token, a byte or a count.
THEOREM NothingIsLeaked == SchedulerSpec => []NothingLeaks
<1>1. SchedulerInv => NothingLeaks
  <2> SUFFICES ASSUME SchedulerInv, {r \in Requests : pc[r] # "new"} = Ended
               PROVE  /\ slots = Slots /\ lane = HeavySlots /\ memory = 0
                      /\ \A c \in {"queued", "active", "heavyQueued", "heavyActive"} : stats[c] = 0
    BY DEF NothingLeaks
  <2>1. \A r \in Requests : pc[r] \in {"new", "done", "unprepared"}
    BY DEF Ended
  <2>2. /\ SlotHolders = {} /\ LaneHolders = {} /\ Actives = {} /\ HeavyActives = {}
        /\ Queued = {} /\ HeavyQueued = {} /\ MemoryHolders = {}
    BY <2>1 DEF SlotHolders, LaneHolders, Actives, HeavyActives, Queued, HeavyQueued,
         MemoryHolders, HasSlot, HasLane, IsActive, IsHeavyActive, IsQueued, IsHeavyQueued,
         HasMemory, Between
  <2>3. UnitsOf(est, MemoryHolders) = {}
    BY <2>2 DEF UnitsOf
  <2>4. memory = 0
    BY <2>3, FS_EmptySet DEF SchedulerInv, Budgeted
  <2> QED
    BY <2>2, <2>4, FS_EmptySet, SchedulerAssumption
       DEF SchedulerAssumption, SchedulerInv, Accounts
<1> QED
  BY <1>1, SchedulerInvariant, PTL

\* Whoever holds a slot, or the lane while slots are free, or memory while both
\* are free, waits for nothing; so somebody always goes on (scheduler.go:455-540,
\* heavylane.go:38-55).
THEOREM SomebodyGoesOn == SchedulerSpec => []SomeoneGoesOn
<1>1. SchedulerInv => SomeoneGoesOn
  <2>1. SUFFICES ASSUME SchedulerInv, \A r \in Requests : ~GoesOn(r),
                        NEW q \in Requests, q \notin Ended, ~NeverFits(q)
                 PROVE  FALSE
    BY DEF SomeoneGoesOn
  <2>2. TypedSoFar /\ Accounts /\ Budgeted
    BY <2>1 DEF SchedulerInv
  <2>3. \A r \in Requests : r \in Ended \/ Waits(r)
    BY <2>1 DEF GoesOn
  <2>4. slots > 0
    <3>1. SlotHolders = {}
      BY <2>3 DEF SlotHolders, HasSlot, Between, Ended, Waits
    <3>2. Cardinality(SlotHolders) = 0
      BY <3>1, FS_EmptySet
    <3> QED  BY <2>2, <3>2, SchedulerAssumption DEF Accounts, SchedulerAssumption
  <2>5. lane > 0
    <3>1. LaneHolders = {}
      BY <2>3, <2>4 DEF LaneHolders, HasLane, Between, Ended, Waits
    <3>2. Cardinality(LaneHolders) = 0
      BY <3>1, FS_EmptySet
    <3> QED  BY <2>2, <3>2, SchedulerAssumption DEF Accounts, SchedulerAssumption
  <2>6. \A r \in Requests : r \in Ended \/ (pc[r] = "memory" /\ Accounted(r) /\ memory + est[r] > MemBudget)
    BY <2>3, <2>4, <2>5 DEF Waits
  <2>7. memory = 0
    <3>1. MemoryHolders = {}
      BY <2>6 DEF MemoryHolders, HasMemory, Between, Ended
    <3>2. UnitsOf(est, MemoryHolders) = {}
      BY <3>1 DEF UnitsOf
    <3> QED  BY <2>2, <3>2, FS_EmptySet DEF Budgeted
  <2>8. est[q] \in Nat
    <3>1. est \in [Requests -> Estimates \cup {0}]
      BY <2>2 DEF TypedSoFar
    <3>2. est[q] \in Estimates \cup {0}
      BY <3>1, <2>1
    <3>3. Estimates \subseteq Nat
      BY SchedulerAssumption DEF SchedulerAssumption
    <3>4. est[q] \in Estimates \/ est[q] = 0
      BY <3>2
    <3>5. 0 \in Nat
      OBVIOUS
    <3>6. est[q] \in Estimates => est[q] \in Nat
      BY <3>3
    <3> QED  BY <3>4, <3>5, <3>6
  <2>9. pc[q] = "memory" /\ MemBudget > 0 /\ est[q] > MemBudget
    BY <2>1, <2>6, <2>7, <2>8 DEF Accounted
  <2> QED  BY <2>1, <2>9 DEF NeverFits
<1> QED
  BY <1>1, SchedulerInvariant, PTL

-----------------------------------------------------------------------------
(* Paths *)

LEMMA LeastNumber ==
    ASSUME NEW T \in SUBSET Nat, T # {}
    PROVE  \E x \in T : \A y \in T : x <= y
<1> DEFINE less == OpToRel(<, Nat)
<1>1. PICK x \in T : \A y \in T : ~(<<y, x>> \in less)
  BY NatLessThanWellFounded, WFMin
<1>2. ASSUME NEW y \in T, y < x PROVE FALSE
  <2>1. <<y, x>> \in less
    BY <1>2 DEF OpToRel
  <2> QED  BY <2>1, <1>1
<1> HIDE DEF less
<1>3. \A y \in T : x <= y
  BY <1>2
<1> QED  BY <1>3

LEMMA PathIs ==
    ASSUME NEW p \in Paths
    PROVE  /\ p \in Seq(STRING) /\ Len(p) \in Nat
           /\ Ancestors(p) = {SubSeq(p, 1, i) : i \in 1 .. Len(p) - 1}
           /\ Ancestors(p) \subseteq Paths
<1>1. /\ p \in Seq(STRING) /\ \A i \in 1 .. Len(p) - 1 : SubSeq(p, 1, i) \in Paths
  BY PathAssumption
<1>2. Ancestors(p) = {SubSeq(p, 1, i) : i \in 1 .. Len(p) - 1}
  BY DEF Ancestors, above
<1>3. Len(p) \in Nat
  BY <1>1
<1> QED  BY <1>1, <1>2, <1>3

LEMMA PrefixIs ==
    ASSUME NEW p \in Seq(STRING), NEW i \in 1 .. Len(p)
    PROVE  /\ SubSeq(p, 1, i) \in Seq(STRING) /\ Len(SubSeq(p, 1, i)) = i
           /\ \A j \in 1 .. i : SubSeq(SubSeq(p, 1, i), 1, j) = SubSeq(p, 1, j)
<1>1. SubSeq(p, 1, i) \in Seq(STRING) /\ Len(SubSeq(p, 1, i)) = i
  OBVIOUS
<1>2. ASSUME NEW j \in 1 .. i PROVE SubSeq(SubSeq(p, 1, i), 1, j) = SubSeq(p, 1, j)
  OBVIOUS
<1> QED  BY <1>1, <1>2

\* Being above is an order, and what is above one path is a chain.
LEMMA AboveOrder ==
    ASSUME NEW p \in Paths
    PROVE  /\ p \notin Ancestors(p)
           /\ \A a \in Ancestors(p) : /\ a \in Paths /\ Len(a) \in Nat /\ Len(a) < Len(p)
                                      /\ Ancestors(a) \subseteq Ancestors(p)
                                      /\ p \notin Ancestors(a)
           /\ \A a, b \in Ancestors(p) : a = b \/ a \in Ancestors(b) \/ b \in Ancestors(a)
<1>1. p \in Seq(STRING) /\ Len(p) \in Nat
  BY PathIs
<1>2. ASSUME NEW a \in Ancestors(p)
      PROVE  /\ a \in Paths /\ Len(a) \in Nat /\ Len(a) < Len(p) /\ Ancestors(a) \subseteq Ancestors(p)
             /\ a \in Seq(STRING) /\ Len(a) \in 1 .. Len(p) - 1 /\ a = SubSeq(p, 1, Len(a))
             /\ \A j \in 1 .. Len(a) - 1 : SubSeq(p, 1, j) \in Ancestors(a)
  <2>1. PICK i \in 1 .. Len(p) - 1 : a = SubSeq(p, 1, i)
    BY PathIs
  <2>2. i \in 1 .. Len(p)
    BY <1>1
  <2>3. Len(a) = i /\ a \in Seq(STRING) /\ \A j \in 1 .. i : SubSeq(a, 1, j) = SubSeq(p, 1, j)
    BY <2>1, <2>2, <1>1, PrefixIs
  <2>4. a \in Paths
    BY PathIs
  <2>5. Ancestors(a) = {SubSeq(a, 1, j) : j \in 1 .. Len(a) - 1}
    BY <2>4, PathIs
  <2>6. \A j \in 1 .. Len(a) - 1 : SubSeq(a, 1, j) = SubSeq(p, 1, j) /\ j \in 1 .. Len(p) - 1
    BY <2>3, <1>1
  <2>7. \A j \in 1 .. Len(p) - 1 : SubSeq(p, 1, j) \in Ancestors(p)
    BY PathIs
  <2>8. Ancestors(a) \subseteq Ancestors(p)
    BY <2>5, <2>6, <2>7
  <2>9. Len(a) \in Nat /\ Len(a) < Len(p) /\ Len(a) \in 1 .. Len(p) - 1
    BY <1>1, <2>3
  <2>10. a = SubSeq(p, 1, Len(a))
    BY <2>1, <2>3
  <2>11. \A j \in 1 .. Len(a) - 1 : SubSeq(p, 1, j) \in Ancestors(a)
    BY <2>5, <2>6
  <2> QED  BY <2>3, <2>4, <2>8, <2>9, <2>10, <2>11
<1>3. p \notin Ancestors(p)
  BY <1>1, <1>2
<1>4. \A a \in Ancestors(p) : p \notin Ancestors(a)
  BY <1>2, <1>3
<1>5. ASSUME NEW a \in Ancestors(p), NEW b \in Ancestors(p)
      PROVE  a = b \/ a \in Ancestors(b) \/ b \in Ancestors(a)
  <2>1. CASE Len(a) = Len(b)
    BY <2>1, <1>2
  <2>2. CASE Len(a) < Len(b)
    <3>1. Len(a) \in 1 .. Len(b) - 1 /\ a = SubSeq(p, 1, Len(a))
      BY <2>2, <1>2
    <3> QED  BY <3>1, <1>2
  <2>3. CASE Len(b) < Len(a)
    <3>1. Len(b) \in 1 .. Len(a) - 1 /\ b = SubSeq(p, 1, Len(b))
      BY <2>3, <1>2
    <3> QED  BY <3>1, <1>2
  <2> QED  BY <2>1, <2>2, <2>3, <1>2
<1> QED  BY <1>2, <1>3, <1>4, <1>5

LEMMA BelowIs ==
    ASSUME NEW p \in Paths
    PROVE  /\ Below(p) = {q \in Paths : p \in Ancestors(q)}
           /\ Children(p) \subseteq Below(p)
BY DEF Below, below, Ancestors, Children

\* The highest path above p at which something holds.
LEMMA Highest ==
    ASSUME NEW p \in Paths, NEW S \in SUBSET Paths, Ancestors(p) \cap S # {}
    PROVE  \E a \in Ancestors(p) \cap S : Ancestors(a) \cap S = {}
<1> DEFINE T == {Len(a) : a \in Ancestors(p) \cap S}
<1>1. T \in SUBSET Nat /\ T # {}
  <2>1. \A a \in Ancestors(p) : Len(a) \in Nat
    BY AboveOrder
  <2> QED  BY <2>1
<1>2. PICK n \in T : \A m \in T : n <= m
  <2> HIDE DEF T
  <2> QED  BY <1>1, LeastNumber
<1>3. PICK a \in Ancestors(p) \cap S : Len(a) = n
  BY <1>2
<1>4. ASSUME NEW b \in Ancestors(a) \cap S PROVE FALSE
  <2>1. a \in Paths /\ b \in Ancestors(p)
    BY AboveOrder
  <2>2. Len(b) < Len(a) /\ Len(b) \in T /\ Len(a) \in Nat /\ Len(b) \in Nat
    BY <2>1, AboveOrder
  <2> QED  BY <2>2, <1>2, <1>3
<1> QED  BY <1>3, <1>4

-----------------------------------------------------------------------------
(* Looking a path up, layer by layer *)

Layers == [Paths -> Contents \union {"dir", "absent", "tomb"}]
Chains == Seq(Layers)

LEMMA OverIs ==
    ASSUME NEW h \in Layers, NEW t \in Chains
    PROVE  /\ <<h>> \o t \in Chains /\ <<h>> \o t # <<>>
           /\ Len(t) \in Nat /\ Len(<<h>> \o t) = Len(t) + 1
           /\ DOMAIN (<<h>> \o t) = 1 .. Len(t) + 1 /\ DOMAIN t = 1 .. Len(t)
           /\ (<<h>> \o t)[1] = h
           /\ \A i \in 1 .. Len(t) : (<<h>> \o t)[i + 1] = t[i]
           /\ Head(<<h>> \o t) = h
           /\ Tail(<<h>> \o t) = t
<1>1. <<h>> \in Seq(Layers) /\ t \in Seq(Layers) /\ Len(<<h>>) = 1 /\ <<h>>[1] = h
  BY DEF Chains
<1>2. /\ <<h>> \o t \in Seq(Layers) /\ Len(t) \in Nat
      /\ Len(<<h>> \o t) = Len(t) + 1
      /\ DOMAIN t = 1 .. Len(t)
  BY <1>1
<1>3. DOMAIN (<<h>> \o t) = 1 .. Len(t) + 1
  BY <1>2
<1>4. (<<h>> \o t)[1] = h /\ \A i \in 1 .. Len(t) : (<<h>> \o t)[i + 1] = t[i]
  BY <1>1
<1>5. <<h>> \o t # <<>>
  BY <1>2
<1>6. Head(<<h>> \o t) = h
  BY <1>2, <1>4, <1>5
<1>7. Tail(<<h>> \o t) = t
  <2>1. Tail(<<h>> \o t) \in Seq(Layers) /\ Len(Tail(<<h>> \o t)) = Len(t)
    BY <1>2, <1>5
  <2>2. \A i \in 1 .. Len(t) : Tail(<<h>> \o t)[i] = t[i]
    BY <1>2, <1>4, <1>5
  <2> QED  BY <2>1, <2>2, <1>1
<1> QED  BY <1>2, <1>3, <1>4, <1>5, <1>6, <1>7 DEF Chains

LEMMA OverOf ==
    ASSUME NEW c \in Chains, c # <<>>
    PROVE  /\ Head(c) \in Layers /\ Tail(c) \in Chains /\ c = <<Head(c)>> \o Tail(c)
<1>1. c \in Seq(Layers) /\ Head(c) = c[1] /\ c[1] \in Layers /\ Len(c) \in Nat /\ Len(c) >= 1
  BY DEF Chains
<1>2. Tail(c) \in Seq(Layers) /\ Len(Tail(c)) = Len(c) - 1
      /\ \A i \in 1 .. Len(c) - 1 : Tail(c)[i] = c[i + 1]
  BY <1>1
<1>3. LET d == <<Head(c)>> \o Tail(c)
      IN /\ d \in Seq(Layers) /\ Len(d) = Len(c) /\ d[1] = c[1]
         /\ \A i \in 1 .. Len(c) - 1 : d[i + 1] = c[i + 1]
  <2>1. Head(c) \in Layers /\ Tail(c) \in Chains
    BY <1>1, <1>2 DEF Chains
  <2> QED  BY <1>1, <1>2, <2>1, OverIs DEF Chains
<1>4. c = <<Head(c)>> \o Tail(c)
  <2> DEFINE d == <<Head(c)>> \o Tail(c)
  <2>1. d \in Seq(Layers) /\ Len(d) = Len(c) /\ d[1] = c[1]
        /\ \A i \in 1 .. Len(c) - 1 : d[i + 1] = c[i + 1]
    BY <1>3
  <2> HIDE DEF d
  <2>2. ASSUME NEW i \in 1 .. Len(c) PROVE d[i] = c[i]
    <3>1. CASE i = 1
      BY <3>1, <2>1
    <3>2. CASE i # 1
      <4>1. i - 1 \in 1 .. Len(c) - 1 /\ (i - 1) + 1 = i
        BY <3>2, <1>1
      <4> QED  BY <4>1, <2>1
    <3> QED  BY <3>1, <3>2
  <2>3. d = c
    BY <2>1, <2>2, <1>1
  <2> QED  BY <2>3 DEF d
<1> QED  BY <1>1, <1>2, <1>4 DEF Chains

LEMMA LayerEntry ==
    ASSUME NEW h \in Layers, NEW p \in Paths
    PROVE  /\ IsFile(h[p]) \/ h[p] \in {"dir", "absent", "tomb"}
           /\ IsFile(h[p]) => h[p] \notin {"dir", "absent", "tomb"}
           /\ Masks(h[p]) <=> (IsFile(h[p]) \/ h[p] = "tomb")
           /\ p \in Writes(h) <=> (IsFile(h[p]) \/ h[p] = "dir")
           /\ p \in Tombs(h) <=> h[p] = "tomb"
<1>1. h[p] \in Contents \union {"dir", "absent", "tomb"}
  BY DEF Layers
<1> QED  BY <1>1, ContentsAssumption DEF IsFile, Masks, Writes, Tombs

\* The layer says what is at p, if only that a path above it is no directory.
Says(layer, p) == layer[p] # "absent" \/ Masked(layer, p)

\* The answer is the first layer's that has one.
LEMMA FoundIs ==
    ASSUME NEW c \in Chains, NEW p \in Paths
    PROVE  \/ Found(c, p) = "absent" /\ \A i \in DOMAIN c : ~Says(c[i], p)
           \/ \E i \in DOMAIN c : /\ Says(c[i], p)
                                  /\ \A j \in DOMAIN c : j < i => ~Says(c[j], p)
                                  /\ Found(c, p) = IF c[i][p] = "absent" THEN "tomb" ELSE c[i][p]
<1> DEFINE hits == {i \in DOMAIN c : c[i][p] # "absent" \/ Masked(c[i], p)}
           first == CHOOSE i \in hits : \A j \in hits : i <= j
<1>1. DOMAIN c \subseteq Nat
  BY DEF Chains
<1>2. Found(c, p) = IF hits = {} THEN "absent"
                    ELSE IF c[first][p] = "absent" THEN "tomb" ELSE c[first][p]
  BY DEF Found
<1>3. CASE hits = {}
  BY <1>2, <1>3 DEF Says
<1>4. CASE hits # {}
  <2>1. hits \in SUBSET Nat
    BY <1>1
  <2> HIDE DEF hits
  <2>2. \E x \in hits : \A y \in hits : x <= y
    BY <2>1, <1>4, LeastNumber
  <2>3. first \in hits /\ \A j \in hits : first <= j
    BY <2>2
  <2> HIDE DEF first
  <2>4. first \in DOMAIN c /\ Says(c[first], p)
    BY <2>3 DEF hits, Says
  <2>5. \A j \in DOMAIN c : j < first => ~Says(c[j], p)
    <3>1. SUFFICES ASSUME NEW j \in DOMAIN c, j < first, Says(c[j], p) PROVE FALSE
      OBVIOUS
    <3>2. j \in hits
      BY <3>1 DEF hits, Says
    <3>3. first <= j /\ j \in Nat /\ first \in Nat
      BY <3>2, <2>3, <2>1
    <3> QED  BY <3>1, <3>3
  <2> QED  BY <2>4, <2>5, <1>2, <1>4
<1> QED  BY <1>3, <1>4

LEMMA FoundOver ==
    ASSUME NEW h \in Layers, NEW t \in Chains, NEW p \in Paths
    PROVE  Found(<<h>> \o t, p) = IF h[p] # "absent" THEN h[p]
                                  ELSE IF Masked(h, p) THEN "tomb" ELSE Found(t, p)
<1> DEFINE c == <<h>> \o t
<1>1. /\ c \in Chains /\ DOMAIN c = 1 .. Len(t) + 1 /\ DOMAIN t = 1 .. Len(t) /\ Len(t) \in Nat
      /\ c[1] = h /\ \A i \in 1 .. Len(t) : c[i + 1] = t[i]
  BY OverIs
<1> HIDE DEF c
<1>2. 1 \in DOMAIN c
  BY <1>1
<1>3. CASE Says(h, p)
  <2>1. PICK i \in DOMAIN c : /\ Says(c[i], p)
                              /\ \A j \in DOMAIN c : j < i => ~Says(c[j], p)
                              /\ Found(c, p) = IF c[i][p] = "absent" THEN "tomb" ELSE c[i][p]
    BY <1>1, <1>2, <1>3, FoundIs
  <2>2. i = 1
    BY <2>1, <1>1, <1>2, <1>3
  <2> QED  BY <2>1, <2>2, <1>1, <1>3 DEF Says, c
<1>4. CASE ~Says(h, p)
  <2>1. Found(c, p) = Found(t, p)
    <3>1. CASE \A i \in DOMAIN t : ~Says(t[i], p)
      <4>1. \A i \in DOMAIN c : ~Says(c[i], p)
        <5>1. SUFFICES ASSUME NEW i \in DOMAIN c PROVE ~Says(c[i], p)
          OBVIOUS
        <5>2. CASE i = 1
          BY <5>2, <1>4, <1>1
        <5>3. CASE i # 1
          <6>1. i - 1 \in 1 .. Len(t) /\ (i - 1) + 1 = i
            BY <5>3, <1>1
          <6> QED  BY <6>1, <1>1, <3>1
        <5> QED  BY <5>2, <5>3
      <4>2. Found(c, p) = "absent"
        BY <4>1, <1>1, FoundIs
      <4>3. Found(t, p) = "absent"
        BY <3>1, FoundIs
      <4> QED  BY <4>2, <4>3
    <3>2. CASE ~ \A i \in DOMAIN t : ~Says(t[i], p)
      <4>1. PICK i \in DOMAIN t : /\ Says(t[i], p)
                                  /\ \A j \in DOMAIN t : j < i => ~Says(t[j], p)
                                  /\ Found(t, p) = IF t[i][p] = "absent" THEN "tomb" ELSE t[i][p]
        BY <3>2, FoundIs
      <4>2. i + 1 \in DOMAIN c /\ c[i + 1] = t[i]
        BY <1>1
      <4>3. PICK k \in DOMAIN c : /\ Says(c[k], p)
                                  /\ \A j \in DOMAIN c : j < k => ~Says(c[j], p)
                                  /\ Found(c, p) = IF c[k][p] = "absent" THEN "tomb" ELSE c[k][p]
        BY <4>1, <4>2, <1>1, FoundIs
      <4>4. k # 1 /\ k <= i + 1
        BY <4>1, <4>2, <4>3, <1>1, <1>4
      <4>5. k - 1 \in 1 .. Len(t) /\ (k - 1) + 1 = k /\ c[k] = t[k - 1]
        <5>1. k - 1 \in 1 .. Len(t) /\ (k - 1) + 1 = k
          BY <4>4, <1>1
        <5> QED  BY <5>1, <1>1
      <4>6. ~(k - 1 < i)
        BY <4>1, <4>3, <4>5, <1>1
      <4>7. k - 1 = i
        BY <4>4, <4>5, <4>6, <1>1
      <4> QED  BY <4>1, <4>3, <4>5, <4>7
    <3> QED  BY <3>1, <3>2
  <2> QED  BY <2>1, <1>4 DEF Says, c
<1> QED  BY <1>3, <1>4

LEMMA FoundType ==
    ASSUME NEW c \in Chains, NEW p \in Paths
    PROVE  IsFile(Found(c, p)) \/ Found(c, p) \in {"dir", "tomb", "absent"}
<1>1. \A i \in DOMAIN c : c[i] \in Layers
  BY DEF Chains
<1>2. \A i \in DOMAIN c : IsFile(c[i][p]) \/ c[i][p] \in {"dir", "absent", "tomb"}
  BY <1>1, LayerEntry
<1> QED  BY <1>2, FoundIs

\* A mask reaches everything below.
LEMMA MaskedBelow ==
    ASSUME NEW layer, NEW p \in Paths, NEW a \in Ancestors(p)
    PROVE  /\ Masked(layer, a) => Masked(layer, p)
           /\ Masks(layer[a]) => Masked(layer, p)
BY AboveOrder DEF Masked

-----------------------------------------------------------------------------
(* What the layers stand for *)

\* The tree a chain stands for when what it writes lies in directories.
Shown(c, F) == [p \in Paths |-> IF Content(c, F, p) = "tomb" THEN "absent" ELSE Content(c, F, p)]
Tidy(c, F)  == \A i \in DOMAIN c : Parented(SubSeq(c, i, Len(c)), F)

LEMMA TreeIs ==
    ASSUME NEW T \in Trees, NEW p \in Paths
    PROVE  /\ IsFile(T[p]) \/ T[p] \in {"dir", "absent"}
           /\ IsFile(T[p]) => T[p] \notin {"dir", "absent", "tomb"}
           /\ T[p] # "absent" => \A a \in Ancestors(p) : T[a] = "dir"
           /\ T \in [Paths -> Contents \union {"dir", "absent"}]
           /\ T \in Layers
<1>1. T \in [Paths -> Contents \union {"dir", "absent"}]
  BY DEF Trees
<1>2. T \in Layers
  BY <1>1 DEF Layers
<1>3. IsFile(T[p]) \/ T[p] \in {"dir", "absent"}
  BY <1>1 DEF IsFile
<1>4. T[p] # "absent" => \A a \in Ancestors(p) : T[a] = "dir"
  BY DEF Trees
<1> QED  BY <1>1, <1>2, <1>3, <1>4, LayerEntry

LEMMA ContentOver ==
    ASSUME NEW h \in Layers, NEW t \in Chains, NEW F \in Trees, NEW p \in Paths
    PROVE  Content(<<h>> \o t, F, p) = IF h[p] # "absent" THEN h[p]
                                       ELSE IF Masked(h, p) THEN "tomb" ELSE Content(t, F, p)
BY FoundOver DEF Content

LEMMA ContentType ==
    ASSUME NEW c \in Chains, NEW F \in Trees, NEW p \in Paths
    PROVE  IsFile(Content(c, F, p)) \/ Content(c, F, p) \in {"dir", "tomb", "absent"}
BY FoundType, TreeIs DEF Content

LEMMA NoLayer ==
    ASSUME NEW F \in Trees
    PROVE  /\ <<>> \in Chains
           /\ \A p \in Paths : Found(<<>>, p) = "absent" /\ Content(<<>>, F, p) = F[p]
           /\ Shown(<<>>, F) = F /\ Tidy(<<>>, F)
<1>1. <<>> \in Chains
  BY DEF Chains
<1>2. \A p \in Paths : Found(<<>>, p) = "absent"
  BY DEF Found
<1>3. \A p \in Paths : Content(<<>>, F, p) = F[p]
  BY <1>2 DEF Content
<1>4. \A p \in Paths : F[p] # "tomb"
  BY TreeIs, ContentsAssumption DEF IsFile
<1>5. F = [p \in Paths |-> F[p]]
  BY DEF Trees
<1>6. Shown(<<>>, F) = F
  BY <1>3, <1>4, <1>5 DEF Shown
<1>7. Tidy(<<>>, F)
  BY DEF Tidy
<1> QED  BY <1>1, <1>2, <1>3, <1>6, <1>7

LEMMA ShownOver ==
    ASSUME NEW h \in Layers, NEW t \in Chains, NEW F \in Trees, NEW p \in Paths
    PROVE  Shown(<<h>> \o t, F)[p] = IF IsFile(h[p]) \/ h[p] = "dir" THEN h[p]
                                     ELSE IF h[p] = "tomb" \/ Masked(h, p) THEN "absent"
                                     ELSE Shown(t, F)[p]
BY ContentOver, LayerEntry DEF Shown

\* A path is a directory for the parents' check exactly when it shows as one.
LEMMA ShownDir ==
    ASSUME NEW c \in Chains, NEW F \in Trees, NEW p \in Paths
    PROVE  /\ Shown(c, F)[p] = "dir" <=> Content(c, F, p) = "dir"
           /\ IsFile(Shown(c, F)[p]) => Content(c, F, p) = Shown(c, F)[p]
           /\ IsFile(Content(c, F, p)) => Content(c, F, p) = Shown(c, F)[p]
           /\ IsFile(Shown(c, F)[p]) \/ Shown(c, F)[p] \in {"dir", "absent"}
BY ContentType, ContentsAssumption DEF Shown, IsFile

-----------------------------------------------------------------------------
(* Suffixes of a chain *)

LEMMA SuffixIs ==
    ASSUME NEW c \in Chains, NEW i \in DOMAIN c
    PROVE  /\ SubSeq(c, i, Len(c)) \in Chains
           /\ DOMAIN SubSeq(c, i, Len(c)) = 1 .. Len(c) - i + 1
           /\ \A j \in 1 .. Len(c) - i + 1 : SubSeq(c, i, Len(c))[j] = c[i + j - 1]
           /\ Head(SubSeq(c, i, Len(c))) = c[i]
           /\ c[i] \in Layers /\ i \in 1 .. Len(c) /\ Len(c) \in Nat
<1>1. c \in Seq(Layers) /\ Len(c) \in Nat /\ i \in 1 .. Len(c)
  BY DEF Chains
<1>2. SubSeq(c, i, Len(c)) \in Seq(Layers)
  BY <1>1
<1>3. Len(SubSeq(c, i, Len(c))) = Len(c) - i + 1
  BY <1>1
<1>4. DOMAIN SubSeq(c, i, Len(c)) = 1 .. Len(c) - i + 1
  BY <1>2, <1>3
<1>5. \A j \in 1 .. Len(c) - i + 1 : SubSeq(c, i, Len(c))[j] = c[i + j - 1]
  BY <1>1
<1>6. Head(SubSeq(c, i, Len(c))) = c[i]
  <2>1. SubSeq(c, i, Len(c)) # <<>> /\ 1 \in 1 .. Len(c) - i + 1 /\ i + 1 - 1 = i
    BY <1>1, <1>3
  <2>2. Head(SubSeq(c, i, Len(c))) = SubSeq(c, i, Len(c))[1]
    BY <2>1, <1>2
  <2> QED  BY <2>1, <2>2, <1>5
<1> QED  BY <1>1, <1>2, <1>4, <1>5, <1>6 DEF Chains

LEMMA SuffixNext ==
    ASSUME NEW c \in Chains, NEW i \in DOMAIN c
    PROVE  /\ SubSeq(c, i + 1, Len(c)) \in Chains
           /\ SubSeq(c, i, Len(c)) = <<c[i]>> \o SubSeq(c, i + 1, Len(c))
           /\ i = Len(c) => SubSeq(c, i + 1, Len(c)) = <<>>
<1>1. c \in Seq(Layers) /\ Len(c) \in Nat /\ i \in 1 .. Len(c) /\ c[i] \in Layers
  BY DEF Chains
<1>2. CASE i = Len(c)
  <2>1. SubSeq(c, i + 1, Len(c)) = <<>>
    BY <1>1, <1>2
  <2>2. /\ SubSeq(c, i, Len(c)) \in Seq(Layers) /\ Len(SubSeq(c, i, Len(c))) = 1
        /\ SubSeq(c, i, Len(c))[1] = c[i]
    BY <1>1, <1>2
  <2>3. <<c[i]>> \o <<>> = <<c[i]>>
    BY <1>1
  <2>4. SubSeq(c, i, Len(c)) = <<c[i]>>
    <3> DEFINE s == SubSeq(c, i, Len(c))
               d == <<c[i]>>
    <3>1. d \in Seq(Layers) /\ Len(d) = 1 /\ d[1] = c[i]
      BY <1>1
    <3>2. s \in Seq(Layers) /\ Len(s) = 1 /\ s[1] = c[i]
      BY <2>2
    <3> HIDE DEF s, d
    <3>3. \A j \in 1 .. 1 : s[j] = d[j]
      BY <3>1, <3>2
    <3>4. s = d
      BY <3>1, <3>2, <3>3
    <3> QED  BY <3>4 DEF s, d
  <2>5. <<>> \in Chains
    BY DEF Chains
  <2> QED  BY <2>1, <2>3, <2>4, <2>5
<1>3. CASE i # Len(c)
  <2>1. i + 1 \in DOMAIN c
    BY <1>1, <1>3
  <2> DEFINE s == SubSeq(c, i, Len(c))
             r == SubSeq(c, i + 1, Len(c))
             d == <<c[i]>> \o r
  <2>2. /\ s \in Chains /\ DOMAIN s = 1 .. Len(c) - i + 1
        /\ \A j \in 1 .. Len(c) - i + 1 : s[j] = c[i + j - 1]
    BY SuffixIs
  <2>3. /\ r \in Chains /\ DOMAIN r = 1 .. Len(c) - i
        /\ \A j \in 1 .. Len(c) - i : r[j] = c[i + j]
    <3>1. /\ r \in Chains /\ DOMAIN r = 1 .. Len(c) - (i + 1) + 1
          /\ \A j \in 1 .. Len(c) - (i + 1) + 1 : r[j] = c[(i + 1) + j - 1]
      BY <2>1, SuffixIs
    <3>2. Len(c) - (i + 1) + 1 = Len(c) - i /\ \A j \in Nat : (i + 1) + j - 1 = i + j
      BY <1>1
    <3> HIDE DEF r
    <3>3. DOMAIN r = 1 .. Len(c) - i
      BY <3>1, <3>2
    <3>4. ASSUME NEW j \in 1 .. Len(c) - i PROVE r[j] = c[i + j]
      <4>1. j \in Nat
        BY <1>1
      <4>2. r[j] = c[(i + 1) + j - 1]
        BY <3>1, <3>2
      <4> QED  BY <4>1, <4>2, <3>2
    <3> QED  BY <3>1, <3>3, <3>4
  <2> HIDE DEF s, r
  <2>4. Len(r) = Len(c) - i /\ Len(s) = Len(c) - i + 1 /\ r \in Seq(Layers) /\ s \in Seq(Layers)
    BY <2>2, <2>3, <1>1 DEF Chains
  <2>5. /\ d \in Chains /\ Len(d) = Len(r) + 1 /\ d[1] = c[i]
        /\ \A j \in 1 .. Len(r) : d[j + 1] = r[j]
    BY <1>1, <2>3, OverIs
  <2> HIDE DEF d
  <2>6. ASSUME NEW j \in 1 .. Len(s) PROVE s[j] = d[j]
    <3>1. CASE j = 1
      BY <3>1, <2>2, <2>4, <2>5, <1>1
    <3>2. CASE j # 1
      <4>1. j - 1 \in 1 .. Len(r) /\ (j - 1) + 1 = j /\ i + j - 1 = i + (j - 1) /\ j \in 1 .. Len(c) - i + 1
        BY <3>2, <2>4, <1>1
      <4>2. d[j] = r[j - 1]
        BY <4>1, <2>5
      <4>3. s[j] = c[i + j - 1]
        BY <4>1, <2>2
      <4>4. r[j - 1] = c[i + (j - 1)]
        BY <4>1, <2>3, <2>4
      <4> QED  BY <4>1, <4>2, <4>3, <4>4
    <3> QED  BY <3>1, <3>2
  <2>7. s = d
    BY <2>4, <2>5, <2>6 DEF Chains
  <2> QED  BY <2>7, <2>3, <1>3 DEF s, d, r
<1> QED  BY <1>2, <1>3

LEMMA WholeIs ==
    ASSUME NEW c \in Chains
    PROVE  SubSeq(c, 1, Len(c)) = c
BY DEF Chains

LEMMA SuffixOver ==
    ASSUME NEW h \in Layers, NEW t \in Chains, NEW i \in DOMAIN t
    PROVE  SubSeq(<<h>> \o t, i + 1, Len(<<h>> \o t)) = SubSeq(t, i, Len(t))
<1> DEFINE c == <<h>> \o t
           a == SubSeq(c, i + 1, Len(c))
           b == SubSeq(t, i, Len(t))
<1>1. /\ c \in Chains /\ DOMAIN c = 1 .. Len(t) + 1 /\ DOMAIN t = 1 .. Len(t) /\ Len(t) \in Nat
      /\ Len(c) = Len(t) + 1 /\ \A j \in 1 .. Len(t) : c[j + 1] = t[j]
  BY OverIs
<1> HIDE DEF c
<1>2. i + 1 \in DOMAIN c /\ i \in 1 .. Len(t)
  BY <1>1
<1>3. /\ a \in Chains /\ DOMAIN a = 1 .. Len(c) - (i + 1) + 1
      /\ \A j \in 1 .. Len(c) - (i + 1) + 1 : a[j] = c[(i + 1) + j - 1]
  BY <1>1, <1>2, SuffixIs
<1>4. /\ b \in Chains /\ DOMAIN b = 1 .. Len(t) - i + 1
      /\ \A j \in 1 .. Len(t) - i + 1 : b[j] = t[i + j - 1]
  BY SuffixIs
<1> HIDE DEF a, b
<1>5. Len(c) - (i + 1) + 1 = Len(t) - i + 1
  BY <1>1, <1>2
<1>6. ASSUME NEW j \in 1 .. Len(t) - i + 1 PROVE a[j] = b[j]
  <2>1. i + j - 1 \in 1 .. Len(t) /\ (i + 1) + j - 1 = (i + j - 1) + 1
    BY <1>1, <1>2
  <2>2. a[j] = c[(i + j - 1) + 1]
    BY <1>3, <1>5, <2>1
  <2> QED  BY <2>1, <2>2, <1>1, <1>4
<1>7. /\ a \in Seq(Layers) /\ b \in Seq(Layers) /\ Len(a) = Len(t) - i + 1 /\ Len(b) = Len(t) - i + 1
  BY <1>1, <1>2, <1>3, <1>4, <1>5 DEF Chains
<1>8. a = b
  BY <1>6, <1>7
<1> QED  BY <1>8 DEF a, b, c

LEMMA TidyOver ==
    ASSUME NEW h \in Layers, NEW t \in Chains, NEW F \in Trees
    PROVE  Tidy(<<h>> \o t, F) <=> Parented(<<h>> \o t, F) /\ Tidy(t, F)
<1> DEFINE c == <<h>> \o t
<1>1. /\ c \in Chains /\ DOMAIN c = 1 .. Len(t) + 1 /\ DOMAIN t = 1 .. Len(t) /\ Len(t) \in Nat
  BY OverIs
<1>2. \A i \in DOMAIN t : SubSeq(c, i + 1, Len(c)) = SubSeq(t, i, Len(t))
  BY SuffixOver
<1> HIDE DEF c
<1>3. SubSeq(c, 1, Len(c)) = c
  BY <1>1, WholeIs
<1>4. ASSUME Tidy(c, F) PROVE Parented(c, F) /\ Tidy(t, F)
  <2>1. 1 \in DOMAIN c
    BY <1>1
  <2>2. ASSUME NEW i \in DOMAIN t PROVE Parented(SubSeq(t, i, Len(t)), F)
    <3>1. i + 1 \in DOMAIN c
      BY <1>1
    <3>2. Parented(SubSeq(c, i + 1, Len(c)), F)
      BY <3>1, <1>4 DEF Tidy
    <3> QED  BY <3>2, <1>2
  <2>3. Parented(SubSeq(c, 1, Len(c)), F)
    BY <2>1, <1>4 DEF Tidy
  <2> QED  BY <2>2, <2>3, <1>3 DEF Tidy
<1>5. ASSUME Parented(c, F), Tidy(t, F) PROVE Tidy(c, F)
  <2>1. ASSUME NEW i \in DOMAIN c PROVE Parented(SubSeq(c, i, Len(c)), F)
    <3>1. CASE i = 1
      BY <3>1, <1>3, <1>5
    <3>2. CASE i # 1
      <4>1. i - 1 \in DOMAIN t /\ (i - 1) + 1 = i
        BY <3>2, <1>1
      <4>2. Parented(SubSeq(t, i - 1, Len(t)), F)
        BY <4>1, <1>5 DEF Tidy
      <4> QED  BY <4>1, <4>2, <1>2
    <3> QED  BY <3>1, <3>2
  <2> QED  BY <2>1 DEF Tidy
<1> QED  BY <1>4, <1>5 DEF c

-----------------------------------------------------------------------------
(* Reading through the layers shows that tree *)

\* Only below a directory of the floor do the layers list children of a path
\* they say nothing about.
LEMMA ChildrenOfNothing ==
    ASSUME NEW c \in Chains, NEW F \in Trees, Tidy(c, F), NEW p \in Paths,
           Found(c, p) = "absent", HasChildren(c, p)
    PROVE  F[p] = "dir"
<1>1. PICK k \in Children(p) : Listed(c, p, k)
  BY DEF HasChildren
<1>2. PICK i \in DOMAIN c : \E q \in {k} \union Below(k) : c[i][q] \in Contents \union {"dir"}
  BY <1>1 DEF Listed
<1>3. PICK q \in {k} \union Below(k) : c[i][q] \in Contents \union {"dir"}
  BY <1>2
<1>4. q \in Paths /\ p \in Ancestors(q)
  <2>1. k \in Paths /\ p \in Ancestors(k)
    BY <1>1, BelowIs
  <2>2. q \in Paths /\ (q = k \/ k \in Ancestors(q))
    BY <2>1, <1>3, BelowIs
  <2> QED  BY <2>1, <2>2, AboveOrder
<1> DEFINE s == SubSeq(c, i, Len(c))
<1>5. /\ s \in Chains /\ DOMAIN s = 1 .. Len(c) - i + 1 /\ Head(s) = c[i] /\ c[i] \in Layers
      /\ \A j \in 1 .. Len(c) - i + 1 : s[j] = c[i + j - 1]
      /\ i \in 1 .. Len(c) /\ Len(c) \in Nat
  BY SuffixIs
<1>6. Parented(s, F)
  BY DEF Tidy
<1> HIDE DEF s
<1>7. Content(s, F, p) = "dir"
  BY <1>3, <1>4, <1>5, <1>6 DEF Parented, Writes
<1>8. \A j \in DOMAIN c : ~Says(c[j], p)
  <2>1. ~ \E j \in DOMAIN c : /\ Says(c[j], p)
                              /\ Found(c, p) = IF c[j][p] = "absent" THEN "tomb" ELSE c[j][p]
    <3>1. SUFFICES ASSUME NEW j \in DOMAIN c, Says(c[j], p),
                          Found(c, p) = IF c[j][p] = "absent" THEN "tomb" ELSE c[j][p]
                   PROVE  FALSE
      OBVIOUS
    <3> QED  BY <3>1
  <2> QED  BY <2>1, FoundIs
<1>9. \A j \in DOMAIN s : ~Says(s[j], p)
  <2>1. SUFFICES ASSUME NEW j \in DOMAIN s PROVE ~Says(s[j], p)
    OBVIOUS
  <2>2. i + j - 1 \in 1 .. Len(c) /\ s[j] = c[i + j - 1] /\ DOMAIN c = 1 .. Len(c)
    BY <1>5 DEF Chains
  <2> QED  BY <2>2, <1>8
<1>10. Found(s, p) = "absent"
  BY <1>5, <1>9, FoundIs
<1> QED  BY <1>7, <1>10 DEF Content

LEMMA VisibleIs ==
    ASSUME NEW c, NEW F, NEW p \in Paths
    PROVE  Visible(c, F)[p] = IF VisibleDirectory(c, F, p) THEN "dir" ELSE VisibleFile(c, F, p)
BY DEF Visible

\* The view agrees with the tree, whoever asks for it.
LEMMA VisibleShows ==
    ASSUME NEW c \in Chains, NEW F \in Trees, Tidy(c, F)
    PROVE  /\ Agrees(Visible(c, F), Shown(c, F))
           /\ \A p \in Paths : IsFile(Visible(c, F)[p]) => Visible(c, F)[p] = Shown(c, F)[p]
           /\ Agrees([p \in Paths |-> Read(c, F, p)], Shown(c, F))
<1> DEFINE V == Visible(c, F)
           R == [p \in Paths |-> Read(c, F, p)]
           S == Shown(c, F)
           Fits(v, w) == IF IsFile(v) \/ IsFile(w) THEN v = w ELSE w = "dir" => v = "dir"
<1>1. ASSUME NEW p \in Paths PROVE Fits(V[p], S[p]) /\ Fits(R[p], S[p])
  <2> DEFINE f == Found(c, p)
             kids == HasChildren(c, p)
  <2>1. V[p] = IF VisibleDirectory(c, F, p) THEN "dir" ELSE VisibleFile(c, F, p)
    BY VisibleIs
  <2>2. VisibleDirectory(c, F, p) <=> \/ f = "dir"
                                      \/ f \in {"tomb", "absent"} /\ kids
                                      \/ f = "absent" /\ F[p] = "dir"
    BY DEF VisibleDirectory
  <2>3. VisibleFile(c, F, p) = IF f # "absent" THEN (IF IsFile(f) THEN f ELSE "absent")
                               ELSE IF IsFile(F[p]) /\ ~kids THEN F[p] ELSE "absent"
    BY DEF VisibleFile
  <2>4. R[p] = IF f = "dir" \/ (f \in {"tomb", "absent"} /\ kids) THEN "dir"
               ELSE IF f = "tomb" THEN "absent" ELSE IF f = "absent" THEN F[p] ELSE f
    BY DEF Read
  <2>5. S[p] = IF f = "absent" THEN F[p] ELSE IF f = "tomb" THEN "absent" ELSE f
    <3>1. F[p] # "tomb"
      BY TreeIs, ContentsAssumption DEF IsFile
    <3> QED  BY <3>1 DEF Shown, Content
  <2>6. f = "absent" /\ kids => F[p] = "dir"
    BY ChildrenOfNothing
  <2>7. IsFile(f) \/ f \in {"dir", "tomb", "absent"}
    BY FoundType
  <2>8. IsFile(F[p]) \/ F[p] \in {"dir", "absent"}
    BY TreeIs
  <2>9. ~IsFile("dir") /\ ~IsFile("tomb") /\ ~IsFile("absent")
    BY ContentsAssumption DEF IsFile
  <2> HIDE DEF f, kids, V, R, S
  <2> QED  BY <2>1, <2>2, <2>3, <2>4, <2>5, <2>6, <2>7, <2>8, <2>9
<1>2. Agrees(V, S) /\ Agrees(R, S)
  <2> HIDE DEF V, R, S
  <2> QED  BY <1>1 DEF Agrees
<1>3. \A p \in Paths : IsFile(V[p]) => V[p] = S[p]
  <2> HIDE DEF V, R, S
  <2> QED  BY <1>1
<1> QED  BY <1>2, <1>3

\* What a tidy chain shows as a file is what its entries say.
LEMMA FilesShown ==
    ASSUME NEW c \in Chains, NEW F \in Trees, Tidy(c, F)
    PROVE  \A p \in Paths : IsFile(Visible(c, F)[p]) => Visible(c, F)[p] = Shown(c, F)[p]
BY VisibleShows

\* Listing leaves out nothing the tree has.
LEMMA ListShows ==
    ASSUME NEW c \in Chains, NEW F \in Trees, NEW p \in Paths, NEW k \in Children(p),
           Shown(c, F)[k] # "absent"
    PROVE  k \in List(c, F, p)
<1>1. k \in Paths /\ p \in Ancestors(k)
  BY BelowIs
<1>2. \A i \in DOMAIN c : c[i] \in Layers
  BY DEF Chains
<1>3. Found(c, k) # "tomb" /\ (Found(c, k) = "absent" => F[k] # "absent")
  BY <1>1 DEF Shown, Content
<1>4. CASE \A i \in DOMAIN c : ~Says(c[i], k)
  <2>1. Found(c, k) = "absent"
    BY <1>1, <1>4, FoundIs
  <2>2. \A i \in DOMAIN c : ~Masks(c[i][p]) /\ c[i][k] = "absent" /\ ~Masked(c[i], p)
    BY <1>1, <1>4, MaskedBelow DEF Says
  <2>3. Found(c, p) # "tomb"
    <3>1. \A i \in DOMAIN c : c[i][p] # "tomb"
      BY <2>2 DEF Masks
    <3>2. \A i \in DOMAIN c : Says(c[i], p) => c[i][p] # "absent"
      BY <2>2 DEF Says
    <3> QED  BY <3>1, <3>2, FoundIs
  <2>4. \A i \in DOMAIN c : ~Masks(c[i][p]) /\ c[i][k] # "tomb"
    BY <2>2
  <2> QED  BY <2>1, <2>3, <2>4, <1>3 DEF List
<1>5. CASE ~ \A i \in DOMAIN c : ~Says(c[i], k)
  <2>1. PICK i \in DOMAIN c : /\ Says(c[i], k)
                              /\ \A j \in DOMAIN c : j < i => ~Says(c[j], k)
                              /\ Found(c, k) = IF c[i][k] = "absent" THEN "tomb" ELSE c[i][k]
    BY <1>1, <1>5, FoundIs
  <2>2. c[i][k] # "absent" /\ c[i][k] # "tomb"
    BY <2>1, <1>3
  <2>3. c[i][k] \in Contents \union {"dir"}
    BY <2>2, <1>1, <1>2 DEF Layers
  <2>4. \A j \in 1 .. i - 1 : ~Masks(c[j][p]) /\ c[j][k] # "tomb"
    <3>1. SUFFICES ASSUME NEW j \in 1 .. i - 1 PROVE ~Masks(c[j][p]) /\ c[j][k] # "tomb"
      OBVIOUS
    <3>2. j \in DOMAIN c /\ j < i
      BY <2>1 DEF Chains
    <3>3. ~Says(c[j], k)
      BY <3>2, <2>1
    <3> QED  BY <3>3, <1>1, MaskedBelow DEF Says
  <2>5. Listed(c, p, k)
    BY <2>3, <2>4 DEF Listed
  <2> QED  BY <2>5 DEF List
<1> QED  BY <1>4, <1>5

LEMMA ReadsShow ==
    ASSUME NEW c \in Chains, NEW F \in Trees, Tidy(c, F)
    PROVE  /\ Agrees([p \in Paths |-> Read(c, F, p)], Shown(c, F))
           /\ \A p \in Paths : Shown(c, F)[p] = "dir" /\ ~ListFails(c, F, p) =>
                  {k \in Children(p) : Shown(c, F)[k] # "absent"} \subseteq List(c, F, p)
BY VisibleShows, ListShows

-----------------------------------------------------------------------------
(* Rendering makes that tree *)

\* One layer over a tree.
LEMMA OneLayer ==
    ASSUME NEW h \in Layers, NEW t \in Chains, NEW F \in Trees,
           Shown(t, F) \in Trees, Parented(<<h>> \o t, F)
    PROVE  /\ Shown(<<h>> \o t, F) \in Trees
           /\ WritesApplied(TombsApplied(Shown(t, F), h), h) = Shown(<<h>> \o t, F)
<1> DEFINE c == <<h>> \o t
           T == Shown(t, F)
           S == Shown(c, F)
           D == TombsApplied(T, h)
           W == WritesApplied(D, h)
<1>1. c \in Chains /\ Head(c) = h
  BY OverIs
<1>2. ASSUME NEW q \in Paths, IsFile(h[q]) \/ h[q] = "dir", NEW a \in Ancestors(q)
      PROVE  S[a] = "dir"
  <2>1. a \in Paths /\ q \in Writes(h)
    BY <1>2, AboveOrder, LayerEntry
  <2>2. Content(c, F, a) = "dir"
    BY <2>1, <1>1, <1>2 DEF Parented
  <2> QED  BY <2>1, <2>2, <1>1, ShownDir
<1>3. \A q \in Paths : S[q] = IF IsFile(h[q]) \/ h[q] = "dir" THEN h[q]
                              ELSE IF h[q] = "tomb" \/ Masked(h, q) THEN "absent" ELSE T[q]
  BY ShownOver
<1>4. \A q \in Paths : /\ IsFile(T[q]) \/ T[q] \in {"dir", "absent"}
                       /\ T[q] # "absent" => \A a \in Ancestors(q) : T[a] = "dir"
  BY TreeIs
<1>5. \A q \in Paths : /\ IsFile(h[q]) \/ h[q] \in {"dir", "absent", "tomb"}
                       /\ IsFile(h[q]) => h[q] \notin {"dir", "absent", "tomb"}
                       /\ Masks(h[q]) <=> (IsFile(h[q]) \/ h[q] = "tomb")
                       /\ q \in Writes(h) <=> (IsFile(h[q]) \/ h[q] = "dir")
                       /\ q \in Tombs(h) <=> h[q] = "tomb"
  BY LayerEntry
<1>6. \A q \in Paths : D[q] = IF \E p \in Tombs(h) : q = p \/ q \in Below(p) THEN "absent" ELSE T[q]
  BY DEF TombsApplied
<1>7. \A q \in Paths : W[q] = IF q \in Writes(h) THEN h[q]
        ELSE IF \E p \in Writes(h) : q \in Ancestors(p) THEN "dir"
        ELSE IF \E a \in Ancestors(q) : a \in Writes(h) /\ (IsFile(h[a]) \/ IsFile(D[a]))
             THEN "absent" ELSE D[q]
  BY DEF WritesApplied
<1>8. W = [q \in Paths |-> W[q]] /\ S = [q \in Paths |-> S[q]]
  BY DEF WritesApplied, Shown
<1>9. ~IsFile("dir") /\ ~IsFile("tomb") /\ ~IsFile("absent")
  BY ContentsAssumption DEF IsFile
<1>10. Tombs(h) \subseteq Paths /\ Writes(h) \subseteq Paths
  BY DEF Tombs, Writes
<1>11. \A q \in Paths : \A a \in Ancestors(q) : a \in Paths
  BY AboveOrder
<1>12. \A q \in Paths : Masked(h, q) <=> \E a \in Ancestors(q) : IsFile(h[a]) \/ h[a] = "tomb"
  BY <1>5, <1>11 DEF Masked
<1>13. \A q \in Paths : \A p \in Tombs(h) : q \in Below(p) <=> p \in Ancestors(q)
  BY <1>10, BelowIs
<1> HIDE DEF c, T, S, D, W
<1>14. \A q \in Paths : S[q] # "absent" => \A a \in Ancestors(q) : S[a] = "dir"
  <2>1. SUFFICES ASSUME NEW q \in Paths, S[q] # "absent", NEW a \in Ancestors(q) PROVE S[a] = "dir"
    OBVIOUS
  <2>2. CASE IsFile(h[q]) \/ h[q] = "dir"
    BY <2>2, <1>2
  <2>3. CASE ~(IsFile(h[q]) \/ h[q] = "dir")
    <3>1. ~Masked(h, q) /\ T[q] # "absent"
      BY <2>1, <2>3, <1>3
    <3>2. T[a] = "dir" /\ ~(IsFile(h[a]) \/ h[a] = "tomb") /\ a \in Paths
      BY <3>1, <1>4, <1>11, <1>12
    <3>3. ~Masked(h, a)
      BY <3>1, MaskedBelow
    <3> QED  BY <3>2, <3>3, <1>3
  <2> QED  BY <2>2, <2>3
<1>15. S \in Trees
  <2>1. \A q \in Paths : S[q] \in Contents \union {"dir", "absent"}
    BY <1>3, <1>4 DEF IsFile
  <2>2. S \in [Paths -> Contents \union {"dir", "absent"}]
    BY <2>1, <1>8
  <2> QED  BY <2>2, <1>14 DEF Trees
<1>16. ASSUME NEW q \in Paths PROVE W[q] = S[q]
  <2>1. CASE q \in Writes(h)
    BY <2>1, <1>3, <1>5, <1>7
  <2>2. CASE q \notin Writes(h) /\ \E p \in Writes(h) : q \in Ancestors(p)
    <3>1. PICK p \in Writes(h) : q \in Ancestors(p)
      BY <2>2
    <3>2. S[q] = "dir"
      BY <3>1, <1>2, <1>5, <1>10
    <3> QED  BY <3>2, <2>2, <1>7
  <2>3. CASE /\ q \notin Writes(h) /\ ~(\E p \in Writes(h) : q \in Ancestors(p))
             /\ \E a \in Ancestors(q) : a \in Writes(h) /\ (IsFile(h[a]) \/ IsFile(D[a]))
    <3>1. PICK a \in Ancestors(q) : a \in Writes(h) /\ (IsFile(h[a]) \/ IsFile(D[a]))
      BY <2>3
    <3>2. W[q] = "absent" /\ a \in Paths /\ h[q] # "dir" /\ ~IsFile(h[q])
      BY <2>3, <1>5, <1>7, <1>11
    <3>3. CASE IsFile(h[a])
      BY <3>2, <3>3, <1>3, <1>12
    <3>4. CASE IsFile(D[a])
      <4>1. IsFile(T[a])
        BY <3>2, <3>4, <1>6, <1>9
      <4>2. T[q] = "absent"
        BY <4>1, <1>4, <1>9
      <4> QED  BY <4>2, <3>2, <1>3
    <3> QED  BY <3>1, <3>3, <3>4
  <2>4. CASE /\ q \notin Writes(h) /\ ~(\E p \in Writes(h) : q \in Ancestors(p))
             /\ ~ \E a \in Ancestors(q) : a \in Writes(h) /\ (IsFile(h[a]) \/ IsFile(D[a]))
    <3>1. W[q] = D[q]
      BY <2>4, <1>7
    <3>2. (\E p \in Tombs(h) : q = p \/ q \in Below(p)) <=> (h[q] = "tomb" \/ Masked(h, q))
      <4>1. (\E p \in Tombs(h) : q = p \/ q \in Below(p))
               <=> (h[q] = "tomb" \/ \E p \in Ancestors(q) : h[p] = "tomb")
        BY <1>5, <1>10, <1>11, <1>13
      <4>2. \A a \in Ancestors(q) : ~IsFile(h[a])
        BY <2>4, <1>5, <1>11
      <4> QED  BY <4>1, <4>2, <1>12
    <3> QED  BY <3>1, <3>2, <2>4, <1>3, <1>5, <1>6
  <2> QED  BY <2>1, <2>2, <2>3, <2>4
<1>17. W = S
  BY <1>8, <1>16
<1> QED  BY <1>15, <1>17 DEF c, T, S, D, W

Layed(T, h) == WritesApplied(TombsApplied(T, h), h)

\* f goes from what the layers below layer i leave to what layer i leaves.
Stages(f, c, F) ==
    /\ f[Len(c)] = F
    /\ \A i \in 0 .. Len(c) - 1 : f[i] = Layed(f[i + 1], c[i + 1])

LEMMA OneDown ==
    ASSUME NEW n \in Nat, NEW m \in Nat, m >= 1, m <= n
    PROVE  n - m \in 0 .. n - 1 /\ n - (m - 1) = (n - m) + 1
OBVIOUS

LEMMA SomeStages ==
    ASSUME NEW c, Len(c) \in Nat, NEW F
    PROVE  \E f : f = [i \in 0 .. Len(c) |-> f[i]] /\ Stages(f, c, F)
<1> DEFINE Down(f, m) == /\ f = [i \in Len(c) - m .. Len(c) |-> f[i]] /\ f[Len(c)] = F
                         /\ \A i \in Len(c) - m .. Len(c) - 1 : f[i] = Layed(f[i + 1], c[i + 1])
           T == {m \in 0 .. Len(c) : ~\E f : Down(f, m)}
<1>1. ASSUME T # {} PROVE FALSE
  <2>1. PICK m \in T : \A k \in T : m <= k
    <3>1. T \in SUBSET Nat
      OBVIOUS
    <3> HIDE DEF T
    <3> QED  BY <1>1, <3>1, LeastNumber
  <2>2. m # 0
    <3> DEFINE z == [i \in Len(c) - 0 .. Len(c) |-> F]
    <3>1. Down(z, 0)
      OBVIOUS
    <3> HIDE DEF z, Down
    <3> QED  BY <3>1
  <2>3. m \in Nat /\ m >= 1 /\ m <= Len(c) /\ m - 1 \in 0 .. Len(c)
    <3>1. m \in 0 .. Len(c)
      OBVIOUS
    <3> QED  BY <3>1, <2>2
  <2>4. PICK f : Down(f, m - 1)
    <3>1. m - 1 \notin T
      <4> HIDE DEF T
      <4> QED  BY <2>1, <2>3
    <3> QED  BY <3>1, <2>3
  <2> DEFINE low == Len(c) - m
             new == Layed(f[low + 1], c[low + 1])
             g == [i \in low .. Len(c) |-> IF i = low THEN new ELSE f[i]]
  <2>5. /\ low \in 0 .. Len(c) - 1 /\ Len(c) - (m - 1) = low + 1
    <3> HIDE DEF T
    <3> QED  BY <2>3, OneDown
  <2>6. /\ \A i \in low .. Len(c) : g[i] = IF i = low THEN new ELSE f[i]
        /\ g = [i \in low .. Len(c) |-> g[i]]
    OBVIOUS
  <2>7. f[Len(c)] = F /\ \A i \in low + 1 .. Len(c) - 1 : f[i] = Layed(f[i + 1], c[i + 1])
    BY <2>4, <2>5
  <2> HIDE DEF g, low
  <2>8. g[Len(c)] = F
    BY <2>5, <2>6, <2>7
  <2>9. ASSUME NEW i \in low .. Len(c) - 1 PROVE g[i] = Layed(g[i + 1], c[i + 1])
    <3>1. i + 1 \in low .. Len(c) /\ i + 1 # low /\ i \in low .. Len(c)
      BY <2>5
    <3>2. g[i + 1] = f[i + 1]
      BY <3>1, <2>6
    <3>3. CASE i = low
      BY <3>1, <3>2, <3>3, <2>6
    <3>4. CASE i # low
      <4>1. i \in low + 1 .. Len(c) - 1
        BY <3>4, <2>5
      <4> HIDE DEF new
      <4>2. g[i] = f[i]
        BY <3>1, <3>4, <2>6
      <4> QED  BY <4>1, <4>2, <3>2, <2>7
    <3> QED  BY <3>3, <3>4
  <2>10. Down(g, m)
    <3> HIDE DEF new
    <3> QED  BY <2>6, <2>8, <2>9 DEF low
  <2> HIDE DEF Down
  <2> QED  BY <2>10, <2>1
<1>2. Len(c) \in 0 .. Len(c)
  OBVIOUS
<1>3. PICK f : Down(f, Len(c))
  <2> HIDE DEF Down
  <2> QED  BY <1>1, <1>2
<1>4. Len(c) - Len(c) = 0
  OBVIOUS
<1> QED  BY <1>3, <1>4 DEF Stages

LEMMA StageIs ==
    ASSUME NEW c, Len(c) \in Nat, NEW F
    PROVE  Stages(Stage(c, F), c, F)
<1> DEFINE n == Len(c)
           OneMore(g, i) == IF i = n THEN F
                         ELSE WritesApplied(TombsApplied(g[i + 1], c[i + 1]), c[i + 1])
           up == CHOOSE g : g = [i \in 0 .. n |-> OneMore(g, i)]
<1>1. Stage(c, F) = up
  BY DEF Stage
<1>2. PICK f : f = [i \in 0 .. n |-> f[i]] /\ Stages(f, c, F)
  BY SomeStages
<1>3. \A i \in 0 .. n : f[i] = OneMore(f, i)
  <2>1. SUFFICES ASSUME NEW i \in 0 .. n PROVE f[i] = OneMore(f, i)
    OBVIOUS
  <2>2. CASE i = n
    BY <2>2, <1>2 DEF Stages
  <2>3. CASE i # n
    <3>1. i \in 0 .. Len(c) - 1
      BY <2>3
    <3> QED  BY <3>1, <2>3, <1>2 DEF Stages, Layed
  <2> QED  BY <2>2, <2>3
<1>4. f = [i \in 0 .. n |-> OneMore(f, i)]
  <2> HIDE DEF OneMore
  <2>1. [i \in 0 .. n |-> OneMore(f, i)] = [i \in 0 .. n |-> f[i]]
    BY <1>3
  <2> QED  BY <2>1, <1>2
<1>5. up = [i \in 0 .. n |-> OneMore(up, i)]
  <2> HIDE DEF OneMore
  <2> QED  BY <1>4
<1> HIDE DEF up
<1>6. up[n] = F
  <2>1. n \in 0 .. n
    OBVIOUS
  <2>2. up[n] = OneMore(up, n)
    <3> HIDE DEF OneMore
    <3> QED  BY <2>1, <1>5
  <2> QED  BY <2>2
<1>7. ASSUME NEW i \in 0 .. n - 1 PROVE up[i] = Layed(up[i + 1], c[i + 1])
  <2>1. i \in 0 .. n /\ i # n
    OBVIOUS
  <2>2. up[i] = OneMore(up, i)
    <3> HIDE DEF OneMore
    <3> QED  BY <2>1, <1>5
  <2> QED  BY <2>1, <2>2 DEF Layed
<1> QED  BY <1>1, <1>6, <1>7 DEF Stages

\* Downwards along the stages, something true of the floor and kept by every
\* layer is true of the whole.
LEMMA RenderedShows ==
    ASSUME NEW c \in Chains, NEW F \in Trees, Tidy(c, F)
    PROVE  Rendered(c, F) = Shown(c, F) /\ Shown(c, F) \in Trees
<1> DEFINE f == Stage(c, F)
           n == Len(c)
           From(i) == SubSeq(c, i + 1, n)
           Good(i) == f[i] = Shown(From(i), F) /\ Shown(From(i), F) \in Trees
           T == {m \in 0 .. n : ~Good(n - m)}
<1>1. n \in Nat /\ DOMAIN c = 1 .. n
  BY DEF Chains
<1>2. f[n] = F /\ \A i \in 0 .. n - 1 : f[i] = Layed(f[i + 1], c[i + 1])
  BY <1>1, StageIs DEF Stages
<1>3. ASSUME T # {} PROVE FALSE
  <2>1. PICK m \in T : \A k \in T : m <= k
    <3>1. T \in SUBSET Nat
      BY <1>1
    <3> HIDE DEF T
    <3> QED  BY <1>3, <3>1, LeastNumber
  <2>2. m # 0
    <3>1. From(n) = <<>>
      <4>1. CASE n = 0
        BY <1>1, <4>1 DEF Chains
      <4>2. CASE n # 0
        <5>1. n \in DOMAIN c
          BY <1>1, <4>2
        <5> QED  BY <5>1, SuffixNext
      <4> QED  BY <4>1, <4>2
    <3> HIDE DEF f, From
    <3>2. Good(n)
      BY <3>1, <1>2, NoLayer
    <3>3. n - 0 = n
      BY <1>1
    <3> HIDE DEF Good
    <3> QED  BY <2>1, <3>2, <3>3
  <2> DEFINE i == n - m
  <2>3. i \in 0 .. n - 1 /\ i + 1 \in DOMAIN c /\ n - (m - 1) = i + 1 /\ m - 1 \in 0 .. n /\ m - 1 \notin T
    BY <1>1, <2>1, <2>2
  <2>4. Good(i + 1)
    <3> HIDE DEF i, Good
    <3> QED  BY <2>3
  <2>5. c[i + 1] \in Layers
    BY <2>3 DEF Chains
  <2>6. /\ From(i + 1) \in Chains
        /\ From(i) = <<c[i + 1]>> \o From(i + 1)
    BY <2>3, SuffixNext
  <2>7. Parented(From(i), F)
    BY <2>3 DEF Tidy
  <2>8. f[i] = Layed(f[i + 1], c[i + 1])
    BY <2>3, <1>2
  <2>9. ~Good(i)
    BY <2>1
  <2> HIDE DEF i, f, From
  <2>10. Good(i)
    BY <2>4, <2>5, <2>6, <2>7, <2>8, OneLayer DEF Layed
  <2> QED  BY <2>9, <2>10
<1>4. Good(0)
  <2>1. n \in 0 .. n /\ n - n = 0
    BY <1>1
  <2> HIDE DEF Good
  <2> QED  BY <2>1, <1>3
<1>5. From(0) = c
  <2>1. 0 + 1 = 1
    OBVIOUS
  <2> QED  BY <2>1, WholeIs
<1> QED  BY <1>4, <1>5 DEF Rendered

\* A layer whose writes find their parents leaves a tree.
LEMMA LayedTree ==
    ASSUME NEW T \in Trees, NEW h \in Layers, ~WriteFails(TombsApplied(T, h), h)
    PROVE  Layed(T, h) \in Trees
<1> DEFINE D == TombsApplied(T, h)
           W == Layed(T, h)
<1>1. \A q \in Paths : D[q] = IF \E p \in Tombs(h) : q = p \/ q \in Below(p) THEN "absent" ELSE T[q]
  BY DEF TombsApplied
<1>2. \A q \in Paths : W[q] = IF q \in Writes(h) THEN h[q]
        ELSE IF \E p \in Writes(h) : q \in Ancestors(p) THEN "dir"
        ELSE IF \E a \in Ancestors(q) : a \in Writes(h) /\ (IsFile(h[a]) \/ IsFile(D[a]))
             THEN "absent" ELSE D[q]
  BY DEF WritesApplied, Layed
<1>3. W = [q \in Paths |-> W[q]]
  BY DEF WritesApplied, Layed
<1>4. \A q \in Paths : /\ IsFile(T[q]) \/ T[q] \in {"dir", "absent"}
                       /\ T[q] # "absent" => \A a \in Ancestors(q) : T[a] = "dir"
  BY TreeIs
<1>5. \A q \in Paths : q \in Writes(h) <=> (IsFile(h[q]) \/ h[q] = "dir")
  BY LayerEntry
<1>6. Tombs(h) \subseteq Paths /\ Writes(h) \subseteq Paths
  BY DEF Tombs, Writes
<1>7. \A q \in Paths : \A a \in Ancestors(q) : a \in Paths /\ Ancestors(a) \subseteq Ancestors(q)
  BY AboveOrder
<1>8. \A p \in Writes(h) : \A a \in Ancestors(p) : ~IsFile(h[a])
  BY DEF WriteFails
<1>9. ~IsFile("dir") /\ ~IsFile("absent")
  BY ContentsAssumption DEF IsFile
<1>10. \A q \in Paths : \A p \in Tombs(h) : q \in Below(p) <=> p \in Ancestors(q)
  BY <1>6, BelowIs
<1> HIDE DEF D, W
<1>11. ASSUME NEW p \in Writes(h), NEW a \in Ancestors(p) PROVE W[a] = "dir"
  <2>1. a \in Paths
    BY <1>6, <1>7
  <2>2. CASE a \in Writes(h)
    BY <2>1, <2>2, <1>2, <1>5, <1>8
  <2>3. CASE a \notin Writes(h)
    BY <2>1, <2>3, <1>2
  <2> QED  BY <2>2, <2>3
<1>12. ASSUME NEW q \in Paths, W[q] # "absent", NEW a \in Ancestors(q) PROVE W[a] = "dir"
  <2>1. CASE q \in Writes(h)
    BY <2>1, <1>11
  <2>2. CASE q \notin Writes(h) /\ \E p \in Writes(h) : q \in Ancestors(p)
    <3>1. PICK p \in Writes(h) : q \in Ancestors(p)
      BY <2>2
    <3>2. a \in Ancestors(p)
      BY <3>1, <1>6, <1>7
    <3> QED  BY <3>2, <1>11
  <2>3. CASE q \notin Writes(h) /\ ~ \E p \in Writes(h) : q \in Ancestors(p)
    <3>1. /\ ~ \E b \in Ancestors(q) : b \in Writes(h) /\ (IsFile(h[b]) \/ IsFile(D[b]))
          /\ W[q] = D[q]
      BY <2>3, <1>2, <1>12
    <3>2. D[q] = T[q] /\ ~ \E p \in Tombs(h) : q = p \/ q \in Below(p)
      BY <3>1, <1>1, <1>12
    <3>3. T[a] = "dir" /\ a \in Paths /\ Ancestors(a) \subseteq Ancestors(q)
      BY <3>1, <3>2, <1>4, <1>7, <1>12
    <3>4. D[a] = "dir"
      <4>1. ~ \E p \in Tombs(h) : a = p \/ a \in Below(p)
        BY <3>2, <3>3, <1>10
      <4> QED  BY <4>1, <3>3, <1>1
    <3>5. CASE a \in Writes(h)
      BY <3>1, <3>3, <3>5, <1>2, <1>5
    <3>6. CASE a \notin Writes(h)
      <4>1. ~ \E b \in Ancestors(a) : b \in Writes(h) /\ (IsFile(h[b]) \/ IsFile(D[b]))
        BY <3>1, <3>3
      <4> QED  BY <4>1, <3>3, <3>4, <3>6, <1>2
    <3> QED  BY <3>5, <3>6
  <2> QED  BY <2>1, <2>2, <2>3
<1>13. \A q \in Paths : W[q] \in Contents \union {"dir", "absent"}
  <2>1. \A q \in Paths : D[q] \in Contents \union {"dir", "absent"}
    BY <1>1, <1>4 DEF IsFile
  <2> QED  BY <2>1, <1>2, <1>5 DEF IsFile
<1>14. W \in [Paths -> Contents \union {"dir", "absent"}]
  BY <1>3, <1>13
<1>15. W \in Trees
  BY <1>12, <1>14 DEF Trees
<1> QED  BY <1>15 DEF W

LEMMA RenderedTree ==
    ASSUME NEW c \in Chains, NEW F \in Trees, Renders(c, F)
    PROVE  Rendered(c, F) \in Trees
<1> DEFINE f == Stage(c, F)
           n == Len(c)
           T == {m \in 0 .. n : f[n - m] \notin Trees}
<1>1. n \in Nat /\ DOMAIN c = 1 .. n
  BY DEF Chains
<1>2. f[n] = F /\ \A i \in 0 .. n - 1 : f[i] = Layed(f[i + 1], c[i + 1])
  BY <1>1, StageIs DEF Stages
<1>3. \A i \in DOMAIN c : ~WriteFails(TombsApplied(f[i], c[i]), c[i])
  BY DEF Renders
<1> HIDE DEF f
<1>4. ASSUME T # {} PROVE FALSE
  <2>1. PICK m \in T : \A k \in T : m <= k
    <3>1. T \in SUBSET Nat
      BY <1>1
    <3> HIDE DEF T
    <3> QED  BY <1>4, <3>1, LeastNumber
  <2>2. m # 0
    <3>1. n - 0 = n
      BY <1>1
    <3> QED  BY <3>1, <2>1, <1>2
  <2> DEFINE i == n - m
  <2>3. i \in 0 .. n - 1 /\ i + 1 \in DOMAIN c /\ n - (m - 1) = i + 1 /\ m - 1 \in 0 .. n /\ m - 1 \notin T
    BY <1>1, <2>1, <2>2
  <2>4. f[i + 1] \in Trees
    <3> HIDE DEF i
    <3> QED  BY <2>3
  <2>5. f[i] \notin Trees
    BY <2>1
  <2> HIDE DEF i
  <2>6. c[i + 1] \in Layers
    BY <2>3 DEF Chains
  <2> QED  BY <2>3, <2>4, <2>5, <2>6, <1>2, <1>3, LayedTree
<1>5. f[0] \in Trees
  <2>1. n \in 0 .. n /\ n - n = 0
    BY <1>1
  <2> HIDE DEF n
  <2> QED  BY <2>1, <1>4
<1> QED  BY <1>5 DEF Rendered, f

-----------------------------------------------------------------------------
(* Absorbing a directory *)

Views == [Paths -> Contents \union {"dir", "absent"}]

LEMMA ViewIs ==
    ASSUME NEW c \in Chains, NEW F \in Trees
    PROVE  Visible(c, F) \in Views
<1>1. \A p \in Paths : VisibleFile(c, F, p) \in Contents \union {"absent"}
  BY DEF VisibleFile, IsFile
<1> QED  BY <1>1 DEF Visible, Views

\* What masks lower files is a directory now, and they would show again.
Resurfacing(c, F, dirs) ==
    \E p \in dirs : /\ Masks(Head(c)[p])
                    /\ \E q \in Below(p) : Content(Tail(c), F, q) # "absent"

LEMMA MergedIs ==
    ASSUME NEW c, NEW F, NEW before, NEW seen, NEW p \in Paths
    PROVE  Merged(c, F, before, seen)[p] =
                IF p \in NewFiles(before, seen) THEN seen[p]
                ELSE IF Ancestors(p) \cap (NewFiles(before, seen) \union
                            (LostDirectories(before, seen) \union LostFiles(before, seen))) # {}
                     THEN "absent"
                ELSE IF p \in LostDirectories(before, seen) \union LostFiles(before, seen) THEN "tomb"
                ELSE IF p \in NewDirectories(c, F, seen) THEN "dir" ELSE Head(c)[p]
BY DEF Merged

LEMMA MergedType ==
    ASSUME NEW h \in Layers, NEW t \in Chains, NEW F \in Trees, NEW before, NEW S \in Trees
    PROVE  Merged(<<h>> \o t, F, before, S) \in Layers
<1> DEFINE c == <<h>> \o t
           M == Merged(c, F, before, S)
<1>1. Head(c) = h
  BY OverIs
<1> HIDE DEF c
<1>2. ASSUME NEW p \in Paths PROVE M[p] \in Contents \union {"dir", "absent", "tomb"}
  <2>1. S[p] \in Contents \union {"dir", "absent"} /\ h[p] \in Contents \union {"dir", "absent", "tomb"}
    BY TreeIs DEF Layers
  <2> HIDE DEF M
  <2> QED  BY <2>1, <1>1, MergedIs DEF M
<1>3. M = [p \in Paths |-> M[p]]
  BY DEF Merged
<1> HIDE DEF M
<1>4. M \in Layers
  BY <1>2, <1>3 DEF Layers
<1> QED  BY <1>4 DEF M, c

\* What is written, and what is removed, and what is below either.
LEMMA Changes ==
    ASSUME NEW B \in Views, NEW S \in Trees, NEW p \in Paths
    PROVE  LET fresh   == NewFiles(B, S)
               removed == LostDirectories(B, S) \union LostFiles(B, S)
           IN /\ p \in fresh <=> IsFile(S[p]) /\ S[p] # B[p]
              /\ p \in removed => S[p] # "dir" /\ (p \notin fresh => S[p] = "absent")
              /\ fresh \in SUBSET Paths /\ removed \in SUBSET Paths
              /\ S[p] = "absent" /\ B[p] # "absent" /\ p \notin removed
                    => Ancestors(p) \cap removed # {}
<1> DEFINE fresh   == NewFiles(B, S)
           lost    == {q \in Paths : B[q] = "dir" /\ S[q] # "dir"}
           dirs    == LostDirectories(B, S)
           gone    == LostFiles(B, S)
<1>1. p \in fresh <=> IsFile(S[p]) /\ S[p] # B[p]
  BY DEF NewFiles
<1>2. dirs = {q \in lost : Ancestors(q) \cap lost = {}}
  BY DEF LostDirectories
<1>3. gone = {q \in Paths : /\ IsFile(B[q]) /\ S[q] = "absent" /\ Ancestors(q) \cap dirs = {}}
  BY DEF LostFiles
<1>4. IsFile(S[p]) \/ S[p] \in {"dir", "absent"}
  BY TreeIs
<1>5. IsFile(B[p]) \/ B[p] \in {"dir", "absent"}
  BY DEF Views, IsFile
<1>6. ~IsFile("dir") /\ ~IsFile("absent")
  BY ContentsAssumption DEF IsFile
<1>7. fresh \in SUBSET Paths /\ gone \in SUBSET Paths /\ lost \in SUBSET Paths /\ dirs \in SUBSET Paths
  BY <1>2 DEF NewFiles, LostFiles
<1> HIDE DEF fresh, gone, dirs
<1>8. p \in dirs => S[p] # "dir" /\ (p \notin fresh => S[p] = "absent")
  BY <1>1, <1>2, <1>4, <1>6
<1>9. p \in gone => S[p] = "absent"
  BY <1>3
<1>10. ASSUME S[p] = "absent", B[p] # "absent", p \notin dirs \union gone
       PROVE  Ancestors(p) \cap (dirs \union gone) # {}
  <2>1. CASE IsFile(B[p])
    BY <2>1, <1>3, <1>10
  <2>2. CASE B[p] = "dir"
    <3>1. p \in lost /\ Ancestors(p) \cap lost # {}
      BY <2>2, <1>2, <1>10
    <3> HIDE DEF lost
    <3>2. PICK a \in Ancestors(p) \cap lost : Ancestors(a) \cap lost = {}
      BY <3>1, <1>7, Highest
    <3>3. a \in dirs
      BY <3>2, <1>2
    <3> QED  BY <3>2, <3>3
  <2> QED  BY <2>1, <2>2, <1>5, <1>10
<1> QED  BY <1>1, <1>6, <1>7, <1>8, <1>9, <1>10 DEF fresh, gone, dirs

\* Whatever the layer held, after absorbing it the layers stand for the
\* directory as it was seen.
LEMMA MergedShows ==
    ASSUME NEW h \in Layers, NEW t \in Chains, NEW F \in Trees, NEW S \in Trees,
           ~Resurfacing(<<h>> \o t, F, NewDirectories(<<h>> \o t, F, S))
    PROVE  LET M == Merged(<<h>> \o t, F, Visible(<<h>> \o t, F), S)
           IN /\ Shown(<<M>> \o t, F) = S
              /\ Parented(<<M>> \o t, F)
<1> DEFINE c == <<h>> \o t
           B == Visible(c, F)
           M == Merged(c, F, B, S)
           new == <<M>> \o t
           fresh   == NewFiles(B, S)
           removed == LostDirectories(B, S) \union LostFiles(B, S)
           dirs == NewDirectories(c, F, S)
           edited == fresh \union removed
<1>1. c \in Chains /\ Head(c) = h /\ Tail(c) = t
  BY OverIs
<1>2. M \in Layers
  BY MergedType
<1>3. B \in Views
  BY <1>1, ViewIs
<1>4. \A p \in Paths : M[p] = IF p \in fresh THEN S[p]
                              ELSE IF Ancestors(p) \cap edited # {} THEN "absent"
                              ELSE IF p \in removed THEN "tomb"
                              ELSE IF p \in dirs THEN "dir" ELSE h[p]
  <2> HIDE DEF c, B
  <2>1. ASSUME NEW p \in Paths
        PROVE  M[p] = IF p \in fresh THEN S[p]
                      ELSE IF Ancestors(p) \cap edited # {} THEN "absent"
                      ELSE IF p \in removed THEN "tomb"
                      ELSE IF p \in dirs THEN "dir" ELSE h[p]
    BY <1>1, MergedIs
  <2> HIDE DEF M, fresh, removed, edited, dirs
  <2> QED  BY <2>1
<1>5. \A p \in Paths : /\ p \in fresh <=> IsFile(S[p]) /\ S[p] # B[p]
                       /\ p \in removed => S[p] # "dir" /\ (p \notin fresh => S[p] = "absent")
                       /\ S[p] = "absent" /\ B[p] # "absent" /\ p \notin removed
                              => Ancestors(p) \cap removed # {}
                       /\ edited \in SUBSET Paths
  BY <1>3, Changes
<1>6. \A p \in Paths : p \in dirs <=> S[p] = "dir" /\ Content(c, F, p) # "dir"
  BY DEF NewDirectories
<1>7. \A p \in dirs : Masks(h[p]) => \A q \in Below(p) : Content(t, F, q) = "absent"
  BY <1>1 DEF Resurfacing
<1>8. \A p \in Paths : /\ IsFile(S[p]) \/ S[p] \in {"dir", "absent"}
                       /\ S[p] # "absent" => \A a \in Ancestors(p) : S[a] = "dir"
  BY TreeIs
<1>9. ~IsFile("dir") /\ ~IsFile("tomb") /\ ~IsFile("absent")
  BY ContentsAssumption DEF IsFile
<1>10. new \in Chains /\ Head(new) = M
  BY <1>2, OverIs
<1>11. \A p \in Paths : Shown(new, F)[p] = IF IsFile(M[p]) \/ M[p] = "dir" THEN M[p]
                              ELSE IF M[p] = "tomb" \/ Masked(M, p) THEN "absent"
                              ELSE Shown(t, F)[p]
  BY <1>2, ShownOver
<1>12. \A p \in Paths : Content(c, F, p) = IF h[p] # "absent" THEN h[p]
                              ELSE IF Masked(h, p) THEN "tomb" ELSE Content(t, F, p)
  BY ContentOver
<1>13. \A p \in Paths : Found(c, p) = IF h[p] # "absent" THEN h[p]
                              ELSE IF Masked(h, p) THEN "tomb" ELSE Found(t, p)
  BY FoundOver
<1>14. \A p \in Paths : Content(c, F, p) = IF Found(c, p) = "absent" THEN F[p] ELSE Found(c, p)
  BY DEF Content
<1>15. \A p \in Paths : Shown(t, F)[p] = IF Content(t, F, p) = "tomb" THEN "absent" ELSE Content(t, F, p)
  BY DEF Shown
<1>16. \A p \in Paths : \A a \in Ancestors(p) :
           /\ a \in Paths /\ Ancestors(a) \subseteq Ancestors(p)
           /\ p \in Below(a)
  BY AboveOrder, BelowIs
<1>17. \A p \in Paths : /\ IsFile(M[p]) \/ M[p] \in {"dir", "absent", "tomb"}
                        /\ Masks(M[p]) <=> IsFile(M[p]) \/ M[p] = "tomb"
                        /\ Masks(h[p]) <=> IsFile(h[p]) \/ h[p] = "tomb"
  BY <1>2, LayerEntry
<1>18. \A p \in Paths :
           /\ Masked(M, p) <=> \E a \in Ancestors(p) : IsFile(M[a]) \/ M[a] = "tomb"
           /\ Masked(h, p) <=> \E a \in Ancestors(p) : IsFile(h[a]) \/ h[a] = "tomb"
  BY <1>16, <1>17 DEF Masked
<1>19. \A p \in Paths :
           /\ B[p] = IF VisibleDirectory(c, F, p) THEN "dir" ELSE VisibleFile(c, F, p)
           /\ VisibleDirectory(c, F, p) <=>
                 \/ Found(c, p) = "dir"
                 \/ Found(c, p) \in {"tomb", "absent"} /\ HasChildren(c, p)
                 \/ Found(c, p) = "absent" /\ F[p] = "dir"
           /\ VisibleFile(c, F, p) =
                 IF Found(c, p) # "absent" THEN (IF IsFile(Found(c, p)) THEN Found(c, p) ELSE "absent")
                 ELSE IF IsFile(F[p]) /\ ~HasChildren(c, p) THEN F[p] ELSE "absent"
  BY VisibleIs DEF VisibleDirectory, VisibleFile
<1>20. \A p \in Paths : /\ IsFile(Found(c, p)) \/ Found(c, p) \in {"dir", "tomb", "absent"}
                        /\ IsFile(F[p]) \/ F[p] \in {"dir", "absent"}
  BY <1>1, FoundType, TreeIs
<1>21. \A p \in Paths : IsFile(h[p]) \/ h[p] \in {"dir", "absent", "tomb"}
  BY LayerEntry
<1> HIDE DEF c, B, M, new, fresh, removed, dirs
\* Above a path that is there the layer masks nothing.
<1>22. ASSUME NEW p \in Paths, S[p] # "absent", ~Masked(h, p) PROVE ~Masked(M, p)
  <2>1. SUFFICES ASSUME NEW a \in Ancestors(p) PROVE ~(IsFile(M[a]) \/ M[a] = "tomb")
    BY <1>18
  <2>2. a \in Paths /\ S[a] = "dir" /\ ~(IsFile(h[a]) \/ h[a] = "tomb")
    BY <2>1, <1>8, <1>16, <1>18, <1>22
  <2>3. a \notin fresh /\ a \notin removed
    BY <2>2, <1>5, <1>9
  <2> QED  BY <2>2, <2>3, <1>4, <1>9
<1>23. ASSUME NEW p \in Paths PROVE Shown(new, F)[p] = S[p]
  <2>1. CASE p \in fresh
    BY <2>1, <1>4, <1>5, <1>11
  <2>2. CASE p \notin fresh /\ Ancestors(p) \cap edited # {}
    <3>1. M[p] = "absent"
      BY <2>2, <1>4
    <3>2. PICK a \in Ancestors(p) \cap edited : Ancestors(a) \cap edited = {}
      <4>1. edited \in SUBSET Paths
        BY <1>5
      <4> HIDE DEF edited
      <4> QED  BY <4>1, <2>2, Highest
    <3>3. a \in Paths /\ S[a] # "dir"
      BY <3>2, <1>5, <1>9, <1>16
    <3>4. S[p] = "absent"
      BY <3>2, <3>3, <1>8
    <3>5. IsFile(M[a]) \/ M[a] = "tomb"
      BY <3>2, <3>3, <1>4, <1>5
    <3>6. Masked(M, p)
      BY <3>2, <3>5, <1>18
    <3> QED  BY <3>1, <3>4, <3>6, <1>9, <1>11
  <2>3. CASE p \notin fresh /\ Ancestors(p) \cap edited = {} /\ p \in removed
    BY <2>3, <1>4, <1>5, <1>9, <1>11
  <2>4. CASE p \notin edited /\ Ancestors(p) \cap edited = {} /\ p \in dirs
    BY <2>4, <1>4, <1>6, <1>11
  <2>5. CASE p \notin edited /\ Ancestors(p) \cap edited = {} /\ p \notin dirs
    <3>1. M[p] = h[p]
      BY <2>5, <1>4
    <3>2. CASE IsFile(S[p])
      <4>1. B[p] = S[p]
        BY <3>2, <2>5, <1>5
      <4>2. Content(c, F, p) = S[p]
        BY <4>1, <3>2, <1>9, <1>14, <1>19
      <4>3. CASE h[p] # "absent"
        BY <4>2, <4>3, <3>1, <3>2, <1>11, <1>12
      <4>4. CASE h[p] = "absent"
        <5>1. ~Masked(h, p) /\ Content(t, F, p) = S[p]
          BY <4>2, <4>4, <3>2, <1>9, <1>12
        <5>2. ~Masked(M, p)
          BY <5>1, <3>2, <1>9, <1>22
        <5> QED  BY <5>1, <5>2, <4>4, <3>1, <3>2, <1>9, <1>11, <1>15
      <4> QED  BY <4>3, <4>4
    <3>3. CASE S[p] = "dir"
      <4>1. Content(c, F, p) = "dir"
        BY <3>3, <2>5, <1>6
      <4>2. CASE h[p] # "absent"
        BY <4>1, <4>2, <3>1, <3>3, <1>11, <1>12
      <4>3. CASE h[p] = "absent"
        <5>1. ~Masked(h, p) /\ Content(t, F, p) = "dir"
          BY <4>1, <4>3, <1>12
        <5>2. ~Masked(M, p)
          BY <5>1, <3>3, <1>22
        <5> QED  BY <5>1, <5>2, <4>3, <3>1, <3>3, <1>9, <1>11, <1>15
      <4> QED  BY <4>2, <4>3
    <3>4. CASE S[p] = "absent"
      <4>1. B[p] = "absent"
        BY <3>4, <2>5, <1>5
      <4>2. Content(c, F, p) \in {"tomb", "absent"}
        <5>1. ~VisibleDirectory(c, F, p) /\ VisibleFile(c, F, p) = "absent"
          BY <4>1, <1>19
        <5>2. CASE Found(c, p) # "absent"
          BY <5>1, <5>2, <1>9, <1>14, <1>19, <1>20
        <5>3. CASE Found(c, p) = "absent"
          <6>1. F[p] # "dir" /\ ~HasChildren(c, p)
            BY <5>1, <5>3, <1>19
          <6>2. ~IsFile(F[p])
            BY <5>1, <5>3, <6>1, <1>9, <1>19
          <6> QED  BY <6>1, <6>2, <5>3, <1>14, <1>20
        <5> QED  BY <5>2, <5>3
      <4>3. h[p] = "tomb" \/ h[p] = "absent"
        BY <4>2, <1>12
      <4>4. CASE h[p] = "tomb" \/ Masked(M, p)
        BY <4>3, <4>4, <3>1, <3>4, <1>9, <1>11
      <4>5. CASE h[p] = "absent" /\ ~Masked(M, p)
        <5>1. Shown(new, F)[p] = Shown(t, F)[p]
          BY <4>5, <3>1, <1>9, <1>11
        <5>2. CASE ~Masked(h, p)
          BY <5>1, <5>2, <4>2, <4>5, <3>4, <1>12, <1>15
        <5>3. CASE Masked(h, p)
          <6>1. PICK a \in Ancestors(p) : IsFile(h[a]) \/ h[a] = "tomb"
            BY <5>3, <1>18
          <6>2. a \in Paths /\ ~(IsFile(M[a]) \/ M[a] = "tomb")
            BY <6>1, <4>5, <1>16, <1>18
          <6>3. a \notin edited /\ Ancestors(a) \cap edited = {}
            BY <6>1, <2>5, <1>16
          <6>4. a \in dirs
            BY <6>1, <6>2, <6>3, <1>4
          <6>5. Content(t, F, p) = "absent"
            BY <6>1, <6>2, <6>4, <1>7, <1>16, <1>17
          <6> QED  BY <6>5, <5>1, <3>4, <1>15
        <5> QED  BY <5>2, <5>3
      <4> QED  BY <4>3, <4>4, <4>5
    <3> QED  BY <3>2, <3>3, <3>4, <1>8
  <2> QED  BY <2>1, <2>2, <2>3, <2>4, <2>5
<1>24. Shown(new, F) = S
  <2>1. Shown(new, F) = [p \in Paths |-> Shown(new, F)[p]]
    BY DEF Shown
  <2>2. S = [p \in Paths |-> S[p]]
    BY DEF Trees
  <2> QED  BY <2>1, <2>2, <1>23
<1>25. Parented(new, F)
  <2>1. SUFFICES ASSUME NEW p \in Writes(M), NEW a \in Ancestors(p) PROVE Content(new, F, a) = "dir"
    BY <1>10 DEF Parented
  <2>2. p \in Paths /\ (IsFile(M[p]) \/ M[p] = "dir")
    BY <2>1, <1>2, LayerEntry DEF Writes
  <2>3. S[p] # "absent"
    BY <2>2, <1>9, <1>11, <1>23
  <2>4. S[a] = "dir" /\ a \in Paths
    BY <2>2, <2>3, <1>8, <1>16
  <2> QED  BY <2>4, <1>10, <1>24, ShownDir
<1> QED  BY <1>24, <1>25 DEF new, M, B, c

\* A second caller that saw the same absorbs it again: nothing changes.
LEMMA MergedAgain ==
    ASSUME NEW h \in Layers, NEW t \in Chains, NEW F \in Trees, NEW S \in Trees, NEW B,
           Shown(<<h>> \o t, F) = S
    PROVE  /\ NewDirectories(<<h>> \o t, F, S) = {}
           /\ \A k \in Layers, s \in Chains : h = Merged(<<k>> \o s, F, B, S) =>
                  Merged(<<h>> \o t, F, B, S) = h
<1> DEFINE c == <<h>> \o t
           fresh   == NewFiles(B, S)
           removed == LostDirectories(B, S) \union LostFiles(B, S)
           edited == fresh \union removed
<1>1. c \in Chains /\ Head(c) = h
  BY OverIs
<1>2. Shown(c, F) = S
  OBVIOUS
<1> HIDE DEF c
<1>3. NewDirectories(c, F, S) = {}
  BY <1>1, <1>2, ShownDir DEF NewDirectories
<1>4. ASSUME NEW k \in Layers, NEW s \in Chains, h = Merged(<<k>> \o s, F, B, S)
      PROVE  Merged(c, F, B, S) = h
  <2> DEFINE b == <<k>> \o s
             M == Merged(c, F, B, S)
  <2> HIDE DEF b, M
  <2>1. \A p \in Paths : h[p] = IF p \in fresh THEN S[p]
                                ELSE IF Ancestors(p) \cap edited # {} THEN "absent"
                                ELSE IF p \in removed THEN "tomb"
                                ELSE IF p \in NewDirectories(b, F, S) THEN "dir" ELSE Head(b)[p]
    <3>1. ASSUME NEW p \in Paths
          PROVE  h[p] = IF p \in fresh THEN S[p]
                        ELSE IF Ancestors(p) \cap edited # {} THEN "absent"
                        ELSE IF p \in removed THEN "tomb"
                        ELSE IF p \in NewDirectories(b, F, S) THEN "dir" ELSE Head(b)[p]
      <4>1. h = Merged(b, F, B, S)
        BY <1>4 DEF b
      <4> QED  BY <4>1, MergedIs
    <3> HIDE DEF fresh, removed, edited
    <3> QED  BY <3>1
  <2>2. \A p \in Paths : M[p] = IF p \in fresh THEN S[p]
                                ELSE IF Ancestors(p) \cap edited # {} THEN "absent"
                                ELSE IF p \in removed THEN "tomb" ELSE h[p]
    BY <1>1, <1>3, MergedIs DEF M
  <2>3. \A p \in Paths : M[p] = h[p]
    <3> HIDE DEF fresh, removed, edited
    <3> QED  BY <2>1, <2>2
  <2>4. M = [p \in Paths |-> M[p]] /\ h = [p \in Paths |-> h[p]]
    BY DEF M, Merged, Layers
  <2>5. M = h
    BY <2>3, <2>4
  <2> QED  BY <2>5 DEF M
<1> QED  BY <1>3, <1>4 DEF c

\* Making directories shows no file that did not show before.
LEMMA SomeDirectories ==
    ASSUME NEW h \in Layers, NEW t \in Chains, NEW F \in Trees, NEW done \in SUBSET Paths,
           ~Resurfacing(<<h>> \o t, F, done)
    PROVE  LET k == [p \in Paths |-> IF p \in done THEN "dir" ELSE h[p]]
           IN /\ k \in Layers
              /\ \A p \in Paths : IsFile(Visible(<<k>> \o t, F)[p]) =>
                     Visible(<<h>> \o t, F)[p] = Visible(<<k>> \o t, F)[p]
<1> DEFINE k == [p \in Paths |-> IF p \in done THEN "dir" ELSE h[p]]
           c == <<h>> \o t
           d == <<k>> \o t
<1>1. k \in Layers
  BY DEF Layers
<1>2. /\ c \in Chains /\ Head(c) = h /\ Tail(c) = t /\ d \in Chains
      /\ DOMAIN c = 1 .. Len(t) + 1 /\ DOMAIN d = 1 .. Len(t) + 1 /\ Len(t) \in Nat
      /\ c[1] = h /\ d[1] = k /\ \A i \in 1 .. Len(t) : c[i + 1] = t[i] /\ d[i + 1] = t[i]
  BY <1>1, OverIs
<1>3. \A p \in Paths : k[p] = IF p \in done THEN "dir" ELSE h[p]
  OBVIOUS
<1>4. \A p \in done : Masks(h[p]) => \A q \in Below(p) : Content(t, F, q) = "absent"
  BY <1>2 DEF Resurfacing
<1>5. \A p \in Paths :
          /\ Found(c, p) = IF h[p] # "absent" THEN h[p] ELSE IF Masked(h, p) THEN "tomb" ELSE Found(t, p)
          /\ Found(d, p) = IF k[p] # "absent" THEN k[p] ELSE IF Masked(k, p) THEN "tomb" ELSE Found(t, p)
  BY <1>1, FoundOver
<1>6. \A p \in Paths : Content(t, F, p) = IF Found(t, p) = "absent" THEN F[p] ELSE Found(t, p)
  BY DEF Content
<1>7. ~IsFile("dir") /\ ~IsFile("tomb") /\ ~IsFile("absent") /\ ~Masks("dir")
  BY ContentsAssumption DEF IsFile, Masks
<1>8. \A p \in Paths : \A a \in Ancestors(p) : a \in Paths /\ p \in Below(a)
  BY AboveOrder, BelowIs
<1> HIDE DEF c, d, k
\* Only a directory just made can have masked a path that shows now.
<1>9. ASSUME NEW p \in Paths, Content(t, F, p) # "absent", ~Masked(k, p) PROVE ~Masked(h, p)
  <2>1. SUFFICES ASSUME NEW a \in Ancestors(p), Masks(h[a]) PROVE FALSE
    BY DEF Masked
  <2>2. ~Masks(k[a]) /\ a \in Paths /\ p \in Below(a)
    BY <1>9, <1>8 DEF Masked
  <2>3. a \in done
    BY <2>1, <2>2, <1>3
  <2> QED  BY <2>1, <2>2, <2>3, <1>4, <1>9
<1>10. ASSUME NEW p \in Paths, p \notin done, HasChildren(c, p) PROVE HasChildren(d, p)
  <2>1. PICK q \in Children(p) : Listed(c, p, q)
    BY <1>10 DEF HasChildren
  <2>2. PICK i \in DOMAIN c :
            /\ \E r \in {q} \union Below(q) : c[i][r] \in Contents \union {"dir"}
            /\ \A j \in 1 .. i - 1 : ~Masks(c[j][p]) /\ c[j][q] # "tomb"
    BY <2>1 DEF Listed
  <2>3. PICK r \in {q} \union Below(q) : c[i][r] \in Contents \union {"dir"}
    BY <2>2
  <2>4. q \in Paths /\ r \in Paths
    BY <2>1, <2>3, BelowIs
  <2>5. \A j \in 1 .. Len(t) + 1 : /\ c[j] = h /\ d[j] = k
                                   \/ c[j] = d[j]
    <3>1. SUFFICES ASSUME NEW j \in 1 .. Len(t) + 1, j # 1 PROVE c[j] = d[j]
      BY <1>2
    <3>2. j - 1 \in 1 .. Len(t) /\ (j - 1) + 1 = j
      BY <3>1, <1>2
    <3> QED  BY <3>2, <1>2
  <2>6. d[i][r] \in Contents \union {"dir"} /\ i \in DOMAIN d
    BY <2>3, <2>4, <2>5, <1>2, <1>3
  <2>7. \A j \in 1 .. i - 1 : ~Masks(d[j][p]) /\ d[j][q] # "tomb"
    <3>1. SUFFICES ASSUME NEW j \in 1 .. i - 1 PROVE ~Masks(d[j][p]) /\ d[j][q] # "tomb"
      OBVIOUS
    <3>2. j \in 1 .. Len(t) + 1 /\ ~Masks(c[j][p]) /\ c[j][q] # "tomb"
      BY <2>2, <1>2
    <3> QED  BY <3>2, <2>4, <2>5, <1>3, <1>10
  <2>8. Listed(d, p, q)
    BY <2>3, <2>6, <2>7 DEF Listed
  <2> QED  BY <2>1, <2>8 DEF HasChildren
<1>11. ASSUME NEW p \in Paths, IsFile(Visible(d, F)[p])
       PROVE  Visible(c, F)[p] = Visible(d, F)[p]
  <2>1. ~VisibleDirectory(d, F, p) /\ Visible(d, F)[p] = VisibleFile(d, F, p)
    BY <1>7, <1>11, VisibleIs
  <2>2. \/ IsFile(Found(d, p)) /\ Visible(d, F)[p] = Found(d, p)
        \/ /\ Found(d, p) = "absent" /\ IsFile(F[p]) /\ ~HasChildren(d, p)
           /\ Visible(d, F)[p] = F[p]
    BY <2>1, <1>7, <1>11 DEF VisibleFile
  <2>3. p \notin done /\ k[p] = h[p]
    <3>1. p \in done => Found(d, p) = "dir"
      BY <1>3, <1>5
    <3> QED  BY <3>1, <2>2, <1>3, <1>7
  <2>4. CASE h[p] # "absent"
    <3>1. Found(c, p) = Found(d, p) /\ IsFile(Found(c, p))
      BY <2>2, <2>3, <2>4, <1>5
    <3>2. ~VisibleDirectory(c, F, p) /\ VisibleFile(c, F, p) = Found(c, p)
      BY <3>1, <1>7 DEF VisibleDirectory, VisibleFile
    <3> QED  BY <3>1, <3>2, <2>2, <1>7, VisibleIs
  <2>5. CASE h[p] = "absent"
    <3>1. ~Masked(k, p) /\ Found(d, p) = Found(t, p)
      BY <2>2, <2>3, <2>5, <1>5, <1>7
    <3>2. Content(t, F, p) # "absent"
      BY <3>1, <2>2, <1>6, <1>7
    <3>3. Found(c, p) = Found(d, p)
      BY <3>1, <3>2, <2>5, <1>5, <1>9
    <3>4. CASE IsFile(Found(d, p))
      <4>1. ~VisibleDirectory(c, F, p) /\ VisibleFile(c, F, p) = Found(c, p)
        BY <3>3, <3>4, <1>7 DEF VisibleDirectory, VisibleFile
      <4> QED  BY <4>1, <3>3, <3>4, <2>2, <1>7, VisibleIs
    <3>5. CASE Found(d, p) = "absent"
      <4>1. IsFile(F[p]) /\ ~HasChildren(d, p) /\ Visible(d, F)[p] = F[p]
        BY <3>5, <2>2, <1>7
      <4>2. ~HasChildren(c, p)
        BY <4>1, <2>3, <1>10
      <4>3. ~VisibleDirectory(c, F, p) /\ VisibleFile(c, F, p) = F[p]
        BY <4>1, <4>2, <3>3, <3>5, <1>7 DEF VisibleDirectory, VisibleFile
      <4> QED  BY <4>1, <4>3, VisibleIs
    <3> QED  BY <3>4, <3>5, <2>2
  <2> QED  BY <2>4, <2>5
<1> QED  BY <1>1, <1>11 DEF c, d, k

-----------------------------------------------------------------------------
(* Layers that write nothing, and trees *)

LEMMA WritesNothing ==
    ASSUME NEW P \in SUBSET Paths
    PROVE  /\ Undecided(P) \in Layers /\ Writes(Undecided(P)) = {}
           /\ Undecided({}) = Empty
           /\ Empty \in Layers /\ Writes(Empty) = {} /\ \A p \in Paths : Empty[p] = "absent"
           /\ \A p \in Paths : ~Masked(Empty, p)
<1>1. "tomb" \notin Contents \union {"dir"} /\ "absent" \notin Contents \union {"dir"}
  BY ContentsAssumption
<1>2. \A p \in Paths : Empty[p] = "absent"
  BY DEF Empty
<1>3. \A p \in Paths : ~Masked(Empty, p)
  BY <1>1, <1>2, AboveOrder DEF Masked, Masks
<1>4. Undecided({}) = Empty
  BY DEF Undecided, Empty
<1>5. Undecided(P) \in Layers /\ Empty \in Layers
  BY DEF Undecided, Empty, Layers
<1>6. Writes(Undecided(P)) = {} /\ Writes(Empty) = {}
  BY <1>1 DEF Writes, Undecided, Empty
<1> QED  BY <1>2, <1>3, <1>4, <1>5, <1>6

LEMMA UnwrittenOver ==
    ASSUME NEW h \in Layers, Writes(h) = {}, NEW t \in Chains, NEW F \in Trees
    PROVE  Parented(<<h>> \o t, F)
<1>1. Head(<<h>> \o t) = h
  BY OverIs
<1> QED  BY <1>1 DEF Parented

LEMMA EmptyOver ==
    ASSUME NEW t \in Chains, NEW F \in Trees
    PROVE  /\ <<Empty>> \o t \in Chains
           /\ Shown(<<Empty>> \o t, F) = Shown(t, F)
           /\ Parented(<<Empty>> \o t, F)
<1>1. {} \in SUBSET Paths
  OBVIOUS
<1>2. /\ Empty \in Layers /\ Writes(Empty) = {}
      /\ \A p \in Paths : Empty[p] = "absent" /\ ~Masked(Empty, p)
  BY <1>1, WritesNothing
<1>3. \A p \in Paths : Shown(<<Empty>> \o t, F)[p] = Shown(t, F)[p]
  BY <1>2, ShownOver, ContentsAssumption DEF IsFile
<1>4. Shown(<<Empty>> \o t, F) = [p \in Paths |-> Shown(<<Empty>> \o t, F)[p]]
  BY DEF Shown
<1>5. Shown(t, F) = [p \in Paths |-> Shown(t, F)[p]]
  BY DEF Shown
<1> QED  BY <1>2, <1>3, <1>4, <1>5, OverIs, UnwrittenOver

\* A layer that is still empty shows the floor.
LEMMA EmptyAlone ==
    ASSUME NEW F \in Trees
    PROVE  /\ <<Empty>> = <<Empty>> \o <<>>
           /\ <<Empty>> \in Chains
           /\ Tidy(<<Empty>>, F) /\ Tidy(Tail(<<Empty>>), F)
           /\ Visible(<<Empty>>, F) = F
<1>1. <<>> \in Chains /\ Tidy(<<>>, F) /\ Shown(<<>>, F) = F /\ {} \in SUBSET Paths
  BY NoLayer
<1>2. <<Empty>> = <<Empty>> \o <<>>
  OBVIOUS
<1>3. /\ <<Empty>> \o <<>> \in Chains /\ Parented(<<Empty>> \o <<>>, F)
      /\ Shown(<<Empty>> \o <<>>, F) = F
      /\ Empty \in Layers /\ Tail(<<Empty>> \o <<>>) = <<>>
  BY <1>1, EmptyOver, WritesNothing, OverIs
<1>4. Tidy(<<Empty>> \o <<>>, F)
  BY <1>1, <1>3, TidyOver
<1>5. ASSUME NEW p \in Paths PROVE Visible(<<Empty>> \o <<>>, F)[p] = F[p]
  <2> DEFINE c == <<Empty>> \o <<>>
  <2>1. Found(c, p) = "absent"
    BY <1>1, <1>3, FoundOver, NoLayer, WritesNothing
  <2>2. ~HasChildren(c, p)
    <3>1. SUFFICES ASSUME NEW q \in Children(p), Listed(c, p, q) PROVE FALSE
      BY DEF HasChildren
    <3>2. PICK i \in DOMAIN c : \E r \in {q} \union Below(q) : c[i][r] \in Contents \union {"dir"}
      BY <3>1 DEF Listed
    <3>3. c[i] = Empty
      <4>1. c = <<Empty>>
        BY <1>2
      <4> HIDE DEF c
      <4>2. i = 1
        BY <4>1
      <4> QED  BY <4>1, <4>2
    <3>4. \A r \in {q} \union Below(q) : Empty[r] = "absent"
      BY <3>1, BelowIs, <1>1, WritesNothing
    <3> HIDE DEF c
    <3> QED  BY <3>2, <3>3, <3>4, ContentsAssumption
  <2>3. IsFile(F[p]) \/ F[p] \in {"dir", "absent"}
    BY TreeIs
  <2>4. ~IsFile("dir") /\ ~IsFile("absent")
    BY ContentsAssumption DEF IsFile
  <2> HIDE DEF c
  <2>5. Visible(c, F)[p] = F[p]
    BY <2>1, <2>2, <2>3, <2>4, VisibleIs DEF VisibleDirectory, VisibleFile
  <2> QED  BY <2>5 DEF c
<1>6. Visible(<<Empty>> \o <<>>, F) = F
  <2>1. Visible(<<Empty>> \o <<>>, F) = [p \in Paths |-> Visible(<<Empty>> \o <<>>, F)[p]]
    BY DEF Visible
  <2>2. F = [p \in Paths |-> F[p]]
    BY DEF Trees
  <2> QED  BY <2>1, <2>2, <1>5
<1>7. Tidy(<<Empty>>, F) /\ <<Empty>> \in Chains /\ Visible(<<Empty>>, F) = F
  BY <1>2, <1>3, <1>4, <1>6
<1>8. Tail(<<Empty>>) = <<>>
  BY <1>2, <1>3
<1> QED  BY <1>1, <1>2, <1>7, <1>8

LEMMA RemovedTree ==
    ASSUME NEW T \in Trees, NEW p \in Paths
    PROVE  Removed(T, p) \in Trees
<1> DEFINE R == Removed(T, p)
<1>1. \A q \in Paths : R[q] = IF q = p \/ p \in Ancestors(q) THEN "absent" ELSE T[q]
  BY BelowIs DEF Removed
<1>2. R \in [Paths -> Contents \union {"dir", "absent"}]
  <2>1. \A q \in Paths : T[q] \in Contents \union {"dir", "absent"}
    BY TreeIs
  <2> QED  BY <2>1 DEF Removed
<1>3. \A q \in Paths : T[q] # "absent" => \A a \in Ancestors(q) : T[a] = "dir"
  BY TreeIs
<1> HIDE DEF R
<1>4. ASSUME NEW q \in Paths, R[q] # "absent", NEW a \in Ancestors(q) PROVE R[a] = "dir"
  <2>1. q # p /\ p \notin Ancestors(q) /\ T[q] # "absent"
    BY <1>1, <1>4
  <2>2. a \in Paths /\ Ancestors(a) \subseteq Ancestors(q)
    BY <1>4, AboveOrder
  <2> QED  BY <2>1, <2>2, <1>1, <1>3, <1>4
<1>5. R \in Trees
  BY <1>2, <1>4 DEF Trees
<1> QED  BY <1>5 DEF R

LEMMA WrittenTree ==
    ASSUME NEW T \in Trees, NEW p \in Paths, NEW v \in Contents \union {"dir"}
    PROVE  Written(T, p, v) \in Trees
<1> DEFINE W == Written(T, p, v)
<1>1. \A q \in Paths : W[q] = IF q = p THEN v
                              ELSE IF q \in Ancestors(p) THEN "dir"
                              ELSE IF p \in Ancestors(q) /\ (IsFile(v) \/ IsFile(T[p])) THEN "absent"
                              ELSE T[q]
  BY BelowIs DEF Written
<1>2. W \in [Paths -> Contents \union {"dir", "absent"}]
  <2>1. \A q \in Paths : T[q] \in Contents \union {"dir", "absent"}
    BY TreeIs
  <2>2. \A q \in Paths : W[q] \in Contents \union {"dir", "absent"}
    <3> HIDE DEF W
    <3> QED  BY <2>1, <1>1
  <2>3. W = [q \in Paths |-> W[q]]
    BY DEF Written
  <2> QED  BY <2>2, <2>3
<1>3. \A q \in Paths : T[q] # "absent" => \A a \in Ancestors(q) : T[a] = "dir"
  BY TreeIs
<1>4. p \notin Ancestors(p) /\ \A a \in Ancestors(p) : a \in Paths /\ Ancestors(a) \subseteq Ancestors(p)
  BY AboveOrder
<1>5. IsFile(v) \/ v = "dir"
  BY DEF IsFile
<1> HIDE DEF W
<1>6. ASSUME NEW q \in Paths, W[q] # "absent", NEW a \in Ancestors(q) PROVE W[a] = "dir"
  <2>1. a \in Paths /\ Ancestors(a) \subseteq Ancestors(q) /\ a \notin Ancestors(a)
    BY <1>6, AboveOrder
  <2>2. CASE q = p
    BY <2>1, <2>2, <1>1, <1>4, <1>6
  <2>3. CASE q # p /\ q \in Ancestors(p)
    <3>1. a \in Ancestors(p) /\ a # p
      BY <2>3, <1>4, <1>6
    <3> QED  BY <3>1, <2>1, <1>1
  <2>4. CASE q # p /\ q \notin Ancestors(p)
    <3>1. ~(p \in Ancestors(q) /\ (IsFile(v) \/ IsFile(T[p]))) /\ T[q] # "absent"
      BY <2>4, <1>1, <1>6
    <3>2. T[a] = "dir"
      BY <3>1, <1>3, <1>6
    <3>3. a = p => v = "dir"
      BY <3>1, <1>5, <1>6
    <3>4. ~(p \in Ancestors(a) /\ (IsFile(v) \/ IsFile(T[p])))
      BY <3>1, <2>1
    <3> QED  BY <3>2, <3>3, <3>4, <2>1, <1>1
  <2> QED  BY <2>2, <2>3, <2>4
<1>7. W \in Trees
  BY <1>2, <1>6 DEF Trees
<1> QED  BY <1>7 DEF W

LEMMA AppliedLayer ==
    ASSUME NEW h \in Layers, NEW items \in Layers
    PROVE  /\ AppliedTo(h, items) \in Layers
           /\ items = Empty => AppliedTo(h, items) = h
<1> DEFINE A == AppliedTo(h, items)
           tombs  == {p \in Paths : items[p] = "tomb"}
           writes == {p \in Paths : items[p] \in Contents \union {"dir"}}
<1>1. A = [q \in Paths |->
           IF q \in writes THEN items[q]
           ELSE IF \E p \in writes : p \in Ancestors(q) /\ IsFile(items[p]) THEN "absent"
           ELSE IF q \in tombs THEN "tomb"
           ELSE IF \E p \in tombs : p \in Ancestors(q) THEN "absent" ELSE h[q]]
  BY DEF AppliedTo
<1>2. \A q \in Paths : h[q] \in Contents \union {"dir", "absent", "tomb"}
                       /\ items[q] \in Contents \union {"dir", "absent", "tomb"}
  BY DEF Layers
<1>3. A \in Layers
  <2> HIDE DEF A, tombs, writes
  <2>1. \A q \in Paths : A[q] \in Contents \union {"dir", "absent", "tomb"}
    BY <1>1, <1>2
  <2>2. A = [q \in Paths |-> A[q]]
    BY <1>1
  <2> QED  BY <2>1, <2>2 DEF Layers
<1>4. ASSUME items = Empty PROVE A = h
  <2>1. \A p \in Paths : items[p] = "absent"
    BY <1>4 DEF Empty
  <2>2. tombs = {} /\ writes = {}
    BY <2>1, ContentsAssumption
  <2>3. h = [q \in Paths |-> h[q]]
    BY DEF Layers
  <2> HIDE DEF tombs, writes, A
  <2>4. A = [q \in Paths |-> h[q]]
    BY <1>1, <2>2
  <2> QED  BY <2>3, <2>4
<1> QED  BY <1>3, <1>4

-----------------------------------------------------------------------------
(* The invariant *)

Kinds == {"none", "archive", "create", "prepare", "apply", "release"}
Pcs   == {"idle", "restore", "open", "clear", "scan", "walk", "merge", "commit", "copy"}

CallType == [pc : Pcs, kind : Kinds, srcs : Seq(Envs), at : Nat, dst : Envs \union {None},
             before : Views, same : SUBSET Paths, seen : Views]

TypeInv ==
    /\ floor \in Trees
    /\ chain \in [Envs -> Chains]
    /\ disk \in [Envs -> Trees \union {None}]
    /\ live \in [Envs -> BOOLEAN] /\ baseline \in [Envs -> BOOLEAN]
    /\ changed \in [Envs -> SUBSET Paths] /\ since \in [Envs -> SUBSET Paths]
    /\ took \in [Envs -> Trees \union {None}]
    /\ spoiled \in SUBSET Envs
    /\ input = [t \in Workplaces |-> input[t]]
    /\ call \in [Callers -> CallType]

FilesAgree(view, tree, P) == \A p \in P : IsFile(view[p]) /\ IsFile(tree[p]) => view[p] = tree[p]

\* One environment: F is the floor, ch its chain, dk its directory, lv whether it
\* is open, bl, cg and sc its fingerprint, tk what it owes and bad whether a
\* known defect has touched it.
FilesSound(F, ch, dk, lv, bl, cg, sc, tk, bad) ==
    /\ lv => dk # None /\ ch # <<>>
    /\ bl => lv
    /\ ch # <<>> /\ ~lv => dk = None
    /\ sc \subseteq cg
    /\ ~bad /\ ch # <<>> => Tidy(Tail(ch), F)
    /\ ~bad /\ ch # <<>> /\ (~lv \/ (bl /\ cg = {})) => Tidy(ch, F)
    /\ ~bad /\ bl /\ cg = {} => Shown(ch, F) = dk
    /\ ~bad /\ bl => FilesAgree(Visible(ch, F), dk, Paths \ cg)
    /\ tk # None /\ dk # None => dk = tk
    /\ tk # None /\ dk = None /\ ch # <<>> => Tidy(ch, F) /\ Shown(ch, F) = tk

EnvOK(e) ==
    /\ FilesSound(floor, chain[e], disk[e], live[e], baseline[e], changed[e], since[e],
                  took[e], e \in spoiled)
    /\ e \in Archives => changed[e] = {}

\* A source a caller is through with.
SourceReady(F, ch, bad) == ch # <<>> /\ (~bad => Tidy(ch, F))

\* A source that is being absorbed: the layers are as they were when it was
\* scanned, or another caller has absorbed the same archive meanwhile.
ScanSound(k, shared, F, ch, dk, lv, bl, cg, sc, bad) ==
    /\ lv
    /\ k.pc = "merge" => k.seen \in Trees
    /\ ~bad => /\ \/ k.before = Visible(ch, F) /\ (shared => ~bl)
                  \/ shared /\ bl /\ cg = {} /\ Merged(ch, F, k.before, dk) = Head(ch)
               /\ k.pc = "walk" => FilesAgree(k.before, dk, k.same \ sc)
               /\ k.pc = "merge" => \A p \in Paths \ sc : k.seen[p] = dk[p]

CallShape(k) ==
    /\ k.pc = "idle" => k.srcs = <<>> /\ k.dst = None
    /\ k.pc # "idle" =>
          /\ k.at \in 1 .. Len(k.srcs) /\ (k.pc = "commit" => k.at = Len(k.srcs))
          /\ k.kind # "none"
          /\ k.kind \in {"create", "archive"} =>
                Len(k.srcs) = 1 /\ k.dst \in Envs /\ k.dst # k.srcs[1]
          /\ k.kind = "prepare" =>
                k.dst \in Workplaces /\ \A i \in 1 .. Len(k.srcs) : k.srcs[i] \in Archives
          /\ k.kind \in {"apply", "release"} =>
                /\ k.dst = None /\ Len(k.srcs) = 1 /\ k.srcs[1] \in Workplaces
                /\ k.pc \in {"scan", "walk", "merge", "commit"}
          /\ k.pc \in {"clear", "copy"} => k.kind \in {"create", "archive"}

CallOK(c) ==
    /\ CallShape(call[c])
    /\ call[c].pc # "idle" =>
          /\ \A i \in 1 .. Len(call[c].srcs) : (i < call[c].at \/ call[c].pc = "commit") =>
                 SourceReady(floor, chain[call[c].srcs[i]], call[c].srcs[i] \in spoiled)
          /\ call[c].pc \in {"clear", "scan"} /\ call[c].kind # "release" => Known(Source(c))
          /\ call[c].pc = "open" => disk[Source(c)] # None
          /\ call[c].kind = "apply" => input[Source(c)] # None
          /\ call[c].kind \in {"create", "archive"} /\ call[c].pc \in {"scan", "walk", "merge", "commit"} =>
                 ~Known(call[c].dst) /\ disk[call[c].dst] = None
          /\ call[c].pc = "copy" => Known(call[c].dst)
          /\ call[c].pc \in {"walk", "merge"} =>
                 ScanSound(call[c], Source(c) \in Archives, floor, chain[Source(c)], disk[Source(c)],
                           live[Source(c)], baseline[Source(c)], changed[Source(c)], since[Source(c)],
                           Source(c) \in spoiled)

\* Two callers have nothing in common but archives they both read.
Apart ==
    \A c, d \in Callers : c # d =>
        \A x \in Uses(c) \cap Uses(d) : x # None => x \in Archives /\ x # call[c].dst /\ x # call[d].dst

InputOK(t) ==
    input[t] # None => /\ Known(t)
                       /\ \A i \in DOMAIN input[t].from : input[t].from[i] \in Chains /\ input[t].from[i] # <<>>

IInv == /\ TypeInv
        /\ \A e \in Envs : EnvOK(e)
        /\ \A c \in Callers : CallOK(c)
        /\ Apart
        /\ \A t \in Workplaces : InputOK(t)

-----------------------------------------------------------------------------
(* One environment, operation by operation *)

LEMMA TailIs ==
    ASSUME NEW ch \in Chains, ch # <<>>, NEW h \in Layers
    PROVE  /\ <<h>> \o Tail(ch) \in Chains /\ <<h>> \o Tail(ch) # <<>>
           /\ Tail(<<h>> \o Tail(ch)) = Tail(ch) /\ Head(<<h>> \o Tail(ch)) = h
BY OverOf, OverIs

LEMMA FilesGone ==
    ASSUME NEW F, NEW lv, ~lv, NEW bl, ~bl, NEW bad
    PROVE  FilesSound(F, <<>>, None, lv, bl, {}, {}, None, bad)
BY DEF FilesSound

LEMMA FilesLeft ==
    ASSUME NEW F, NEW G, NEW ch, NEW dk, NEW lv, NEW bl, NEW cg, NEW sc, NEW tk, NEW bad,
           FilesSound(F, ch, dk, lv, bl, cg, sc, tk, bad),
           NEW lw, ~lw, NEW bm, ~bm, NEW worse
    PROVE  FilesSound(G, <<>>, dk, lw, bm, {}, {}, IF dk = None THEN None ELSE tk, worse)
BY DEF FilesSound

LEMMA FilesOpened ==
    ASSUME NEW F \in Trees, NEW ch, NEW dk, NEW lv, NEW bl, NEW cg, NEW sc, NEW tk, NEW bad,
           FilesSound(F, ch, dk, lv, bl, cg, sc, tk, bad), dk # None,
           NEW lw, lw, NEW worse, ch # <<>> \/ bad => worse
    PROVE  FilesSound(F, <<Empty>>, dk, lw, bl, cg, sc, tk, worse)
<1>1. <<Empty>> # <<>> /\ Tidy(Tail(<<Empty>>), F)
  BY EmptyAlone
<1>2. ~worse => ~bl
  BY DEF FilesSound
<1> QED  BY <1>1, <1>2 DEF FilesSound

LEMMA FilesRead ==
    ASSUME NEW F, NEW ch, NEW dk, NEW lv, NEW bl, NEW cg, NEW sc, NEW tk, NEW bad,
           FilesSound(F, ch, dk, lv, bl, cg, sc, tk, bad), NEW sd, sd \subseteq cg
    PROVE  FilesSound(F, ch, dk, lv, bl, cg, sd, tk, bad)
BY DEF FilesSound

\* Absorbing fails half-way: something has moved, and only directories are there.
Halving(F, ch, dk, lv, bl, cg, sc, tk, bad, done, worse, made) ==
    /\ F \in Trees /\ ch \in Chains /\ dk \in Trees /\ done \in SUBSET Paths
    /\ FilesSound(F, ch, dk, lv, bl, cg, sc, tk, bad)
    /\ lv /\ (bad => worse) /\ (~worse => ~Resurfacing(ch, F, done) /\ cg # {})
    /\ made = <<[p \in Paths |-> IF p \in done THEN "dir" ELSE Head(ch)[p]]>> \o Tail(ch)

LEMMA FilesHalfMerged ==
    ASSUME NEW F, NEW ch, NEW dk, NEW lv, NEW bl, NEW cg, NEW sc, NEW tk, NEW bad,
           NEW done, NEW worse, NEW made,
           Halving(F, ch, dk, lv, bl, cg, sc, tk, bad, done, worse, made)
    PROVE  /\ made \in Chains /\ made # <<>>
           /\ FilesSound(F, made, dk, lv, bl, cg, sc, tk, worse)
<1>0. /\ F \in Trees /\ ch \in Chains /\ dk \in Trees /\ done \in SUBSET Paths
      /\ FilesSound(F, ch, dk, lv, bl, cg, sc, tk, bad)
      /\ lv /\ (bad => worse) /\ (~worse => ~Resurfacing(ch, F, done) /\ cg # {})
      /\ made = <<[p \in Paths |-> IF p \in done THEN "dir" ELSE Head(ch)[p]]>> \o Tail(ch)
  BY DEF Halving
<1> DEFINE h == Head(ch)
           t == Tail(ch)
           k == [p \in Paths |-> IF p \in done THEN "dir" ELSE h[p]]
           new == <<k>> \o t
<1>1. h \in Layers /\ t \in Chains /\ ch = <<h>> \o t /\ ch # <<>> /\ dk # None
  BY <1>0, OverOf, NoneAssumption DEF FilesSound
<1>2. ~worse => \A p \in Paths : IsFile(Visible(new, F)[p]) => Visible(ch, F)[p] = Visible(new, F)[p]
  <2>1. SUFFICES ASSUME ~worse
                 PROVE  \A p \in Paths : IsFile(Visible(new, F)[p]) => Visible(ch, F)[p] = Visible(new, F)[p]
    OBVIOUS
  <2> HIDE DEF h, t
  <2>2. F \in Trees /\ done \in SUBSET Paths /\ ~Resurfacing(<<h>> \o t, F, done)
    BY <1>0, <2>1, <1>1
  <2>3. h \in Layers /\ t \in Chains /\ ch = <<h>> \o t
    BY <1>1
  <2> QED  BY <2>2, <2>3, SomeDirectories
<1>3. k \in Layers
  BY <1>0, <1>1 DEF Layers
<1> HIDE DEF k
<1>4. new \in Chains /\ new # <<>> /\ Tail(new) = t
  BY <1>0, <1>1, <1>3, OverIs
<1> HIDE DEF new
<1>5. ~worse => Tidy(t, F)
  BY <1>0, <1>1 DEF FilesSound
<1>6. ~worse /\ bl => FilesAgree(Visible(new, F), dk, Paths \ cg)
  BY <1>0, <1>2 DEF FilesSound, FilesAgree
<1> HIDE DEF t
<1>7. FilesSound(F, new, dk, lv, bl, cg, sc, tk, worse)
  BY <1>0, <1>1, <1>4, <1>5, <1>6 DEF FilesSound
<1>8. made = new
  BY <1>0 DEF new, k, h, t
<1> QED  BY <1>4, <1>7, <1>8

\* A command moves some paths.
LEMMA FilesTouched ==
    ASSUME NEW F, NEW ch, NEW dk, NEW lv, NEW bl, NEW cg, NEW sc, NEW tk, NEW bad,
           FilesSound(F, ch, dk, lv, bl, cg, sc, tk, bad), lv,
           NEW dl, dl # None, NEW moved, moved # {},
           \A p \in Paths \ moved : dl[p] = dk[p]
    PROVE  FilesSound(F, ch, dl, lv, bl, cg \union moved, sc \union moved, None, bad)
<1>1. ~bad /\ bl => FilesAgree(Visible(ch, F), dl, Paths \ (cg \union moved))
  BY DEF FilesSound, FilesAgree
<1> QED  BY <1>1 DEF FilesSound

\* A layer that writes nothing over frozen layers, and no directory.
Copying(F, src, h, lv, bl, cg, sc, tk, bad) ==
    /\ F \in Trees /\ src \in Chains /\ h \in Layers /\ Writes(h) = {}
    /\ ~lv /\ ~bl /\ sc \subseteq cg
    /\ (~bad => Tidy(src, F))
    /\ (tk # None => h = Empty /\ Tidy(src, F) /\ Shown(src, F) = tk)

LEMMA FilesCopied ==
    ASSUME NEW F, NEW src, NEW h, NEW lv, NEW bl, NEW cg, NEW sc, NEW tk, NEW bad,
           Copying(F, src, h, lv, bl, cg, sc, tk, bad)
    PROVE  /\ <<h>> \o src \in Chains /\ <<h>> \o src # <<>>
           /\ FilesSound(F, <<h>> \o src, None, lv, bl, cg, sc, tk, bad)
<1>0. /\ F \in Trees /\ src \in Chains /\ h \in Layers /\ Writes(h) = {}
      /\ ~lv /\ ~bl /\ sc \subseteq cg
      /\ (~bad => Tidy(src, F))
      /\ (tk # None => h = Empty /\ Tidy(src, F) /\ Shown(src, F) = tk)
  BY DEF Copying
<1> DEFINE new == <<h>> \o src
<1>1. new \in Chains /\ new # <<>> /\ Tail(new) = src
  BY <1>0, OverIs
<1>2. Tidy(src, F) => Tidy(new, F)
  BY <1>0, UnwrittenOver, TidyOver
<1>3. tk # None => Shown(new, F) = tk
  BY <1>0, EmptyOver
<1> HIDE DEF new
<1>4. FilesSound(F, new, None, lv, bl, cg, sc, tk, bad)
  BY <1>0, <1>1, <1>2, <1>3 DEF FilesSound
<1> QED  BY <1>1, <1>4 DEF new

\* What a copy is owed is what its source stands for.
LEMMA OwedIs ==
    ASSUME NEW e \in Envs, EnvOK(e), Owed(e) # None, Known(e), baseline[e] \in BOOLEAN
    PROVE  Tidy(chain[e], floor) /\ Shown(chain[e], floor) = Owed(e)
BY DEF Owed, EnvOK, FilesSound, Known

\* Layers rendered into a directory.
Rendering(F, ch, lv, bl, cg, sc, tk, bad, lw, bm) ==
    /\ F \in Trees /\ ch \in Chains /\ ch # <<>>
    /\ FilesSound(F, ch, None, lv, bl, cg, sc, tk, bad)
    /\ Renders(ch, F) /\ lw /\ bm

LEMMA FilesRendered ==
    ASSUME NEW F, NEW ch, NEW lv, NEW bl, NEW cg, NEW sc, NEW tk, NEW bad, NEW lw, NEW bm,
           Rendering(F, ch, lv, bl, cg, sc, tk, bad, lw, bm)
    PROVE  /\ Rendered(ch, F) \in Trees
           /\ FilesSound(F, ch, Rendered(ch, F), lw, bm, {}, {}, tk, bad)
<1>0. /\ F \in Trees /\ ch \in Chains /\ ch # <<>>
      /\ FilesSound(F, ch, None, lv, bl, cg, sc, tk, bad)
      /\ Renders(ch, F) /\ lw /\ bm
  BY DEF Rendering
<1> DEFINE T == Rendered(ch, F)
<1>1. T \in Trees /\ T # None
  BY <1>0, RenderedTree, NoneAssumption
<1>2. Tidy(ch, F) => T = Shown(ch, F)
  BY <1>0, RenderedShows
<1>3. Tidy(ch, F) => FilesAgree(Visible(ch, F), T, Paths)
  BY <1>0, <1>2, VisibleShows DEF FilesAgree
<1>4. Paths \ {} = Paths
  OBVIOUS
<1> HIDE DEF T
<1>5. FilesSound(F, ch, T, lw, bm, {}, {}, tk, bad)
  BY <1>0, <1>1, <1>2, <1>3, <1>4 DEF FilesSound
<1> QED  BY <1>1, <1>5 DEF T

-----------------------------------------------------------------------------
(* Callers *)

LEMMA IdleIs ==
    /\ Idle \in CallType /\ Idle.pc = "idle" /\ Idle.srcs = <<>> /\ Idle.dst = None
    /\ CallShape(Idle)
<1>1. Idle.pc = "idle" /\ Idle.srcs = <<>> /\ Idle.dst = None
  BY DEF Idle
<1>2. Empty \in Views
  BY DEF Empty, Views
<1>3. <<>> \in Seq(Envs)
  OBVIOUS
<1>4. Idle \in CallType
  BY <1>2, <1>3 DEF Idle, CallType, Pcs, Kinds
<1> QED  BY <1>1, <1>4 DEF CallShape

LEMMA CallIs ==
    ASSUME TypeInv, NEW c \in Callers
    PROVE  /\ call[c] \in CallType
           /\ call[c].srcs \in Seq(Envs) /\ Len(call[c].srcs) \in Nat
           /\ DOMAIN call[c].srcs = 1 .. Len(call[c].srcs)
           /\ \A i \in 1 .. Len(call[c].srcs) : call[c].srcs[i] \in Envs
           /\ call[c].dst \in Envs \union {None}
<1>1. call[c] \in CallType
  BY DEF TypeInv
<1>2. call[c].srcs \in Seq(Envs) /\ call[c].dst \in Envs \union {None}
  BY <1>1 DEF CallType
<1> QED  BY <1>1, <1>2

LEMMA BusyIs ==
    ASSUME TypeInv, NEW c \in Callers, CallOK(c), call[c].pc # "idle"
    PROVE  /\ Source(c) \in Envs /\ Source(c) \in Uses(c) /\ Source(c) # None
           /\ call[c].at \in 1 .. Len(call[c].srcs)
           /\ call[c].dst \in Uses(c)
           /\ call[c].dst # None => call[c].dst \in Envs /\ call[c].dst # Source(c)
           /\ call[c].kind \in {"create", "archive", "prepare"} => call[c].dst \in Envs
           /\ call[c].kind \in {"apply", "release"} => Source(c) \in Workplaces
<1>1. call[c].at \in 1 .. Len(call[c].srcs) /\ CallShape(call[c])
  BY DEF CallOK, CallShape
<1>2. /\ call[c].srcs \in Seq(Envs) /\ DOMAIN call[c].srcs = 1 .. Len(call[c].srcs)
      /\ \A i \in 1 .. Len(call[c].srcs) : call[c].srcs[i] \in Envs
      /\ call[c].dst \in Envs \union {None} /\ call[c].kind \in Kinds
  BY CallIs DEF CallType
<1>3. Source(c) \in Envs /\ Source(c) \in Uses(c) /\ call[c].dst \in Uses(c)
  BY <1>1, <1>2 DEF Source, Uses
<1>4. Len(call[c].srcs) = 1 => Source(c) = call[c].srcs[1]
  BY <1>1 DEF Source
<1>5. call[c].kind \in {"create", "archive"} => call[c].dst \in Envs /\ call[c].dst # Source(c)
  BY <1>1, <1>4 DEF CallShape
<1>6. call[c].kind = "prepare" => /\ call[c].dst \in Workplaces /\ call[c].dst \in Envs
                                  /\ call[c].dst # Source(c)
  BY <1>1, WorkspacesAssumption DEF CallShape, Source, Envs
<1>7. call[c].kind \in {"apply", "release"} => Source(c) \in Workplaces /\ call[c].dst = None
  BY <1>1, <1>4 DEF CallShape
<1>8. call[c].kind # "none"
  BY <1>1 DEF CallShape
<1> QED  BY <1>1, <1>2, <1>3, <1>5, <1>6, <1>7, <1>8, NoneAssumption DEF Kinds

EnvSame(e) ==
    /\ chain'[e] = chain[e] /\ disk'[e] = disk[e] /\ live'[e] = live[e]
    /\ baseline'[e] = baseline[e] /\ changed'[e] = changed[e] /\ since'[e] = since[e]
    /\ e \in spoiled' <=> e \in spoiled

LEMMA EnvKept ==
    ASSUME NEW e \in Envs, EnvOK(e), floor' = floor, EnvSame(e), took'[e] = took[e]
    PROVE  EnvOK(e)'
BY DEF EnvOK, EnvSame

\* What a caller relies on, of each environment it uses.
LEMMA CallKept ==
    ASSUME TypeInv, NEW c \in Callers, CallOK(c), call'[c] = call[c],
           call[c].pc # "idle" =>
             /\ \A i \in 1 .. Len(call[c].srcs) : (i < call[c].at \/ call[c].pc = "commit") =>
                  (SourceReady(floor, chain[call[c].srcs[i]], call[c].srcs[i] \in spoiled)
                     => SourceReady(floor', chain'[call[c].srcs[i]], call[c].srcs[i] \in spoiled'))
             /\ call[c].pc \in {"clear", "scan"} /\ chain[Source(c)] # <<>> => chain'[Source(c)] # <<>>
             /\ call[c].pc = "open" /\ disk[Source(c)] # None => disk'[Source(c)] # None
             /\ call[c].kind = "apply" /\ input[Source(c)] # None => input'[Source(c)] # None
             /\ call[c].dst # None => /\ chain'[call[c].dst] = chain[call[c].dst]
                                      /\ disk[call[c].dst] = None => disk'[call[c].dst] = None
             /\ call[c].pc \in {"walk", "merge"} /\
                  ScanSound(call[c], Source(c) \in Archives, floor, chain[Source(c)], disk[Source(c)],
                            live[Source(c)], baseline[Source(c)], changed[Source(c)], since[Source(c)],
                            Source(c) \in spoiled)
                  => ScanSound(call[c], Source(c) \in Archives, floor', chain'[Source(c)], disk'[Source(c)],
                            live'[Source(c)], baseline'[Source(c)], changed'[Source(c)], since'[Source(c)],
                            Source(c) \in spoiled')
    PROVE  CallOK(c)'
<1>1. CallShape(call[c])'
  BY DEF CallOK
<1>2. CASE call[c].pc = "idle"
  BY <1>1, <1>2 DEF CallOK
<1>3. CASE call[c].pc # "idle"
  <2>1. Source(c)' = Source(c)
    BY DEF Source
  <2>2. call[c].dst # None \/ call[c].kind \notin {"create", "archive"}
    BY <1>3, BusyIs, NoneAssumption
  <2>3. call[c].pc = "copy" => call[c].kind \in {"create", "archive"}
    BY <1>3 DEF CallOK, CallShape
  <2>4. \A i \in 1 .. Len(call[c].srcs) : (i < call[c].at \/ call[c].pc = "commit") =>
            SourceReady(floor', chain'[call[c].srcs[i]], call[c].srcs[i] \in spoiled')
    BY <1>3 DEF CallOK
  <2>5. call[c].pc \in {"walk", "merge"} =>
            ScanSound(call[c], Source(c) \in Archives, floor', chain'[Source(c)], disk'[Source(c)],
                            live'[Source(c)], baseline'[Source(c)], changed'[Source(c)], since'[Source(c)],
                            Source(c) \in spoiled')
    BY <1>3 DEF CallOK
  <2>6. /\ call[c].pc \in {"clear", "scan"} /\ call[c].kind # "release" => chain'[Source(c)] # <<>>
        /\ call[c].pc = "open" => disk'[Source(c)] # None
        /\ call[c].kind = "apply" => input'[Source(c)] # None
    BY <1>3 DEF CallOK, Known
  <2>7. /\ call[c].kind \in {"create", "archive"} /\ call[c].pc \in {"scan", "walk", "merge", "commit"} =>
                 chain'[call[c].dst] = <<>> /\ disk'[call[c].dst] = None
        /\ call[c].pc = "copy" => chain'[call[c].dst] # <<>>
    BY <1>3, <2>2, <2>3 DEF CallOK, Known
  <2> QED  BY <1>1, <2>1, <2>4, <2>5, <2>6, <2>7 DEF CallOK, Known
<1> QED  BY <1>2, <1>3

LEMMA CallSame ==
    ASSUME TypeInv, NEW c \in Callers, CallOK(c), call'[c] = call[c], floor' = floor,
           \A x \in Uses(c) : x # None => /\ EnvSame(x)
                                          /\ x \in Workplaces => input'[x] = input[x]
    PROVE  CallOK(c)'
<1>1. CASE call[c].pc = "idle"
  BY <1>1 DEF CallOK
<1>2. CASE call[c].pc # "idle"
  <2>1. /\ Source(c) \in Uses(c) /\ Source(c) # None /\ call[c].dst \in Uses(c)
        /\ call[c].kind \in {"apply", "release"} => Source(c) \in Workplaces
    BY <1>2, BusyIs
  <2>2. \A i \in 1 .. Len(call[c].srcs) : call[c].srcs[i] \in Uses(c) /\ call[c].srcs[i] # None
    BY CallIs, NoneAssumption DEF Uses
  <2>3. EnvSame(Source(c)) /\ (call[c].kind = "apply" => input'[Source(c)] = input[Source(c)])
    BY <2>1
  <2>4. \A i \in 1 .. Len(call[c].srcs) : EnvSame(call[c].srcs[i])
    BY <2>2
  <2>5. call[c].dst # None => EnvSame(call[c].dst)
    BY <2>1
  <2>6. \A i \in 1 .. Len(call[c].srcs) :
             (SourceReady(floor, chain[call[c].srcs[i]], call[c].srcs[i] \in spoiled)
                => SourceReady(floor', chain'[call[c].srcs[i]], call[c].srcs[i] \in spoiled'))
    BY <2>4 DEF EnvSame
  <2>7. ScanSound(call[c], Source(c) \in Archives, floor, chain[Source(c)], disk[Source(c)],
                  live[Source(c)], baseline[Source(c)], changed[Source(c)], since[Source(c)],
                  Source(c) \in spoiled)
        => ScanSound(call[c], Source(c) \in Archives, floor', chain'[Source(c)], disk'[Source(c)],
                  live'[Source(c)], baseline'[Source(c)], changed'[Source(c)], since'[Source(c)],
                  Source(c) \in spoiled')
    BY <2>3 DEF EnvSame
  <2> QED  BY <1>2, <2>3, <2>5, <2>6, <2>7, CallKept DEF EnvSame
<1> QED  BY <1>1, <1>2

\* What a caller changes of its own, no other caller uses.
LEMMA Elsewhere ==
    ASSUME Apart, NEW c \in Callers, NEW d \in Callers, d # c, NEW e \in Uses(c), e # None,
           e \in Workplaces \/ e = call[c].dst
    PROVE  e \notin Uses(d)
BY WorkspacesAssumption DEF Apart

LEMMA ApartKept ==
    ASSUME Apart,
           \A c \in Callers : Uses(c)' \subseteq Uses(c) \union {None} /\ call'[c].dst \in {call[c].dst, None}
    PROVE  Apart'
<1>1. SUFFICES ASSUME NEW c \in Callers, NEW d \in Callers, c # d,
                      NEW x \in Uses(c)' \cap Uses(d)', x # None
               PROVE  x \in Archives /\ x # call'[c].dst /\ x # call'[d].dst
  BY DEF Apart
<1>2. x \in Uses(c) \cap Uses(d)
  BY <1>1
<1>3. x \in Archives /\ x # call[c].dst /\ x # call[d].dst
  BY <1>1, <1>2 DEF Apart
<1> QED  BY <1>1, <1>3

\* A caller that moves on within its operation, or gives up.
LEMMA ApartMoved ==
    ASSUME Apart, TypeInv, NEW c \in Callers,
           \A d \in Callers : d # c => call'[d] = call[d],
           call'[c] = Idle \/ (call'[c].srcs = call[c].srcs /\ call'[c].dst = call[c].dst)
    PROVE  Apart'
<1>1. \A d \in Callers : d # c => Uses(d)' = Uses(d) /\ call'[d].dst = call[d].dst
  BY DEF Uses
<1>2. CASE call'[c] = Idle
  <2>1. Uses(c)' = {None} /\ call'[c].dst = None
    <3>1. DOMAIN <<>> = {}
      OBVIOUS
    <3> QED  BY <1>2, <3>1, IdleIs DEF Uses
  <2> QED  BY <1>1, <2>1, ApartKept
<1>3. CASE call'[c].srcs = call[c].srcs /\ call'[c].dst = call[c].dst
  <2>1. Uses(c)' = Uses(c)
    BY <1>3 DEF Uses
  <2> QED  BY <1>1, <1>3, <2>1, ApartKept
<1> QED  BY <1>2, <1>3

LEMMA CallIdle ==
    ASSUME NEW c \in Callers, call'[c] = Idle
    PROVE  CallOK(c)'
BY IdleIs DEF CallOK

LEMMA UsesIs ==
    ASSUME TypeInv, NEW c \in Callers, NEW x \in Uses(c), x # None
    PROVE  x \in Envs
BY CallIs DEF Uses

LEMMA Others ==
    ASSUME IInv, NEW c \in Callers, NEW d \in Callers, d # c, call'[d] = call[d], floor' = floor,
           NEW e \in Uses(c), e # None, e \in Workplaces \/ e = call[c].dst,
           \A x \in Envs : x # e => EnvSame(x) /\ (x \in Workplaces => input'[x] = input[x])
    PROVE  CallOK(d)'
<1>1. TypeInv /\ CallOK(d) /\ Apart
  BY DEF IInv
<1>2. \A x \in Uses(d) : x # None => x \in Envs /\ x # e
  BY <1>1, UsesIs, Elsewhere
<1>3. \A x \in Uses(d) : x # None => EnvSame(x) /\ (x \in Workplaces => input'[x] = input[x])
  BY <1>2
<1> QED  BY <1>1, <1>3, CallSame

LEMMA GotoIs ==
    ASSUME TypeInv, NEW c \in Callers, NEW step \in Pcs, Goto(c, step)
    PROVE  /\ call' \in [Callers -> CallType]
           /\ \A d \in Callers : d # c => call'[d] = call[d]
           /\ call'[c].pc = step /\ call'[c].kind = call[c].kind /\ call'[c].srcs = call[c].srcs
           /\ call'[c].at = call[c].at /\ call'[c].dst = call[c].dst /\ call'[c].before = call[c].before
           /\ call'[c].same = call[c].same /\ call'[c].seen = call[c].seen
<1>1. call \in [Callers -> CallType]
  BY DEF TypeInv
<1>2. call' = [call EXCEPT ![c] = [call[c] EXCEPT !.pc = step]]
  BY DEF Goto
<1>3. call[c] \in CallType
  BY <1>1
<1>4. [call[c] EXCEPT !.pc = step] \in CallType
  BY <1>3 DEF CallType
<1>5. call'[c] = [call[c] EXCEPT !.pc = step]
  BY <1>1, <1>2
<1>6. /\ call'[c].pc = step /\ call'[c].kind = call[c].kind /\ call'[c].srcs = call[c].srcs
      /\ call'[c].at = call[c].at /\ call'[c].dst = call[c].dst /\ call'[c].before = call[c].before
      /\ call'[c].same = call[c].same /\ call'[c].seen = call[c].seen
  BY <1>3, <1>5 DEF CallType
<1> QED  BY <1>1, <1>2, <1>4, <1>6

LEMMA GiveUpIs ==
    ASSUME TypeInv, NEW c \in Callers, GiveUp(c)
    PROVE  /\ call' \in [Callers -> CallType]
           /\ \A d \in Callers : d # c => call'[d] = call[d]
           /\ call'[c] = Idle
BY IdleIs DEF GiveUp, TypeInv

\* A step that changes nothing but what one caller is doing.
LEMMA OnlyCalls ==
    ASSUME IInv, NEW c \in Callers,
           floor' = floor, chain' = chain, disk' = disk, live' = live, baseline' = baseline,
           changed' = changed, since' = since, input' = input, took' = took, spoiled' = spoiled,
           call' \in [Callers -> CallType], \A d \in Callers : d # c => call'[d] = call[d],
           CallOK(c)', Apart'
    PROVE  IInv'
<1>1. TypeInv /\ TypeInv'
  BY DEF IInv, TypeInv
<1>2. \A e \in Envs : EnvSame(e)
  BY DEF EnvSame
<1>3. \A e \in Envs : EnvOK(e)'
  BY <1>2, EnvKept DEF IInv
<1>4. \A d \in Callers : CallOK(d)'
  <2>1. SUFFICES ASSUME NEW d \in Callers, d # c PROVE CallOK(d)'
    OBVIOUS
  <2>2. CallOK(d) /\ \A x \in Uses(d) : x # None => x \in Envs
    BY <1>1, UsesIs DEF IInv
  <2> QED  BY <1>1, <1>2, <2>1, <2>2, CallSame
<1>5. \A t \in Workplaces : InputOK(t)'
  BY DEF IInv, InputOK, Known
<1> QED  BY <1>1, <1>3, <1>4, <1>5 DEF IInv

LEMMA BeginMoves ==
    ASSUME IInv, NEW c \in Callers, NEW kind \in Kinds \ {"none"}, NEW srcs \in Seq(Envs),
           NEW dst \in Envs \union {None}, Begin(c, kind, srcs, dst), Len(srcs) >= 1,
           kind \in {"create", "archive"} => Len(srcs) = 1 /\ dst \in Envs /\ dst # srcs[1],
           kind = "prepare" => dst \in Workplaces /\ \A i \in 1 .. Len(srcs) : srcs[i] \in Archives,
           kind \in {"apply", "release"} => dst = None /\ Len(srcs) = 1 /\ srcs[1] \in Workplaces,
           kind = "apply" => input[srcs[1]] # None
    PROVE  IInv'
<1> DEFINE k == [Idle EXCEPT !.kind = kind, !.srcs = srcs, !.dst = dst,
                    !.pc = IF kind \in {"apply", "release"} THEN "scan" ELSE "restore"]
           own == ({dst} \ {None}) \union ({srcs[i] : i \in DOMAIN srcs} \ Archives)
<1>1. /\ call[c] = Idle /\ call' = [call EXCEPT ![c] = k]
      /\ \A d \in Callers : Uses(d) \cap own = {} /\ \A i \in DOMAIN srcs : srcs[i] # call[d].dst
      /\ floor' = floor /\ chain' = chain /\ disk' = disk /\ live' = live /\ baseline' = baseline
      /\ changed' = changed /\ since' = since /\ input' = input /\ took' = took /\ spoiled' = spoiled
  BY DEF Begin, files, ghosts
<1>2. /\ k.pc = IF kind \in {"apply", "release"} THEN "scan" ELSE "restore"
      /\ k.kind = kind /\ k.srcs = srcs /\ k.at = 1 /\ k.dst = dst /\ k \in CallType
  BY IdleIs DEF Idle, CallType, Pcs, Kinds
<1> HIDE DEF k
<1>3. TypeInv /\ call \in [Callers -> CallType]
  BY DEF IInv, TypeInv
<1>4. /\ call' \in [Callers -> CallType] /\ call'[c] = k
      /\ \A d \in Callers : d # c => call'[d] = call[d]
  BY <1>1, <1>2, <1>3
<1>5. DOMAIN srcs = 1 .. Len(srcs) /\ 1 \in 1 .. Len(srcs) /\ Len(srcs) \in Nat
  OBVIOUS
<1>6. CallShape(k)
  <2>1. k.pc \in {"scan", "restore"} /\ k.at \in 1 .. Len(k.srcs)
    BY <1>2, <1>5
  <2> QED  BY <2>1, <1>2 DEF CallShape
<1>7. CallOK(c)'
  <2>1. call[c]' = k /\ Source(c)' = srcs[1]
    BY <1>2, <1>4 DEF Source
  <2>2. kind \in {"apply", "release"} => k.pc = "scan"
    BY <1>2
  <2>3. kind = "apply" => input[srcs[1]] # None /\ Known(srcs[1])
    BY DEF IInv, InputOK
  <2>4. k.pc = "scan" => kind \in {"apply", "release"}
    BY <1>2
  <2>5. k.pc \in {"scan", "restore"}
    BY <1>2
  <2>6. \A i \in 1 .. Len(k.srcs) : ~(i < k.at) /\ k.pc # "commit"
    BY <1>2, <2>5
  <2> QED  BY <1>1, <1>2, <1>6, <2>1, <2>2, <2>3, <2>4, <2>5, <2>6 DEF CallOK, Known
<1>8. Apart'
  <2>1. Uses(c)' = {srcs[i] : i \in DOMAIN srcs} \union {dst}
    BY <1>2, <1>4 DEF Uses
  <2>2. \A d \in Callers : d # c => Uses(d)' = Uses(d)
    BY <1>4 DEF Uses
  <2>3. ASSUME NEW d \in Callers, d # c, NEW x \in Uses(c)' \cap Uses(d), x # None
        PROVE  x \in Archives /\ x # dst /\ x # call[d].dst
    <3>1. x \notin own
      BY <2>3, <1>1
    <3>2. x # dst
      BY <3>1, <2>3
    <3>3. PICK i \in DOMAIN srcs : x = srcs[i]
      BY <3>2, <2>1, <2>3
    <3> QED  BY <3>1, <3>2, <3>3, <1>1
  <2>4. SUFFICES ASSUME NEW d \in Callers, NEW g \in Callers, d # g,
                        NEW x \in Uses(d)' \cap Uses(g)', x # None
                 PROVE  x \in Archives /\ x # call'[d].dst /\ x # call'[g].dst
    BY DEF Apart
  <2>5. CASE d # c /\ g # c
    BY <2>2, <2>4, <2>5, <1>4 DEF IInv, Apart
  <2>6. CASE d = c
    BY <2>2, <2>3, <2>4, <2>6, <1>2, <1>4
  <2>7. CASE g = c
    BY <2>2, <2>3, <2>4, <2>7, <1>2, <1>4
  <2> QED  BY <2>5, <2>6, <2>7
<1> QED  BY <1>1, <1>4, <1>7, <1>8, OnlyCalls

LEMMA BeginSomeMoves ==
    ASSUME IInv, BeginSome
    PROVE  IInv'
<1>1. Archives \subseteq Envs /\ Workplaces \subseteq Envs /\ Archives \cap Workplaces = {}
  BY WorkspacesAssumption DEF Envs
<1>2. \A e \in Envs : <<e>> \in Seq(Envs) /\ Len(<<e>>) = 1 /\ <<e>>[1] = e
  OBVIOUS
<1>3. PICK c \in Callers :
        \/ \E w \in Workplaces, a \in Archives : Begin(c, "archive", <<w>>, a)
        \/ \E w \in Workplaces, a \in Archives : Begin(c, "create", <<a>>, w)
        \/ \E w \in Workplaces, a \in Archives : Begin(c, "prepare", <<a>>, w)
        \/ \E w \in Workplaces, a, b \in Archives : a # b /\ Begin(c, "prepare", <<a, b>>, w)
        \/ \E w \in Workplaces : input[w] # None /\ Begin(c, "apply", <<w>>, None)
        \/ \E w \in Workplaces : Begin(c, "release", <<w>>, None)
  BY DEF BeginSome
<1>4. {"archive", "create", "prepare", "apply", "release"} \subseteq Kinds \ {"none"}
  BY DEF Kinds
<1>5. CASE \E w \in Workplaces, a \in Archives : Begin(c, "archive", <<w>>, a)
  <2>1. PICK w \in Workplaces, a \in Archives : Begin(c, "archive", <<w>>, a)
    BY <1>5
  <2>2. w \in Envs /\ a \in Envs \union {None} /\ a \in Envs /\ a # w
    BY <1>1
  <2> DEFINE srcs == <<w>>
             kind == "archive"
  <2>3. /\ kind \in Kinds \ {"none"} /\ srcs \in Seq(Envs) /\ Len(srcs) = 1 /\ srcs[1] = w
        /\ Begin(c, kind, srcs, a) /\ kind \notin {"prepare", "apply", "release"}
    BY <1>2, <1>4, <2>1, <2>2
  <2> HIDE DEF srcs, kind
  <2>4. /\ Len(srcs) >= 1
        /\ kind \in {"create", "archive"} => Len(srcs) = 1 /\ a \in Envs /\ a # srcs[1]
        /\ kind = "prepare" => a \in Workplaces /\ \A i \in 1 .. Len(srcs) : srcs[i] \in Archives
        /\ kind \in {"apply", "release"} => a = None /\ Len(srcs) = 1 /\ srcs[1] \in Workplaces
        /\ kind = "apply" => input[srcs[1]] # None
    BY <2>2, <2>3
  <2> QED  BY <2>2, <2>3, <2>4, BeginMoves
<1>6. CASE \E w \in Workplaces, a \in Archives : Begin(c, "create", <<a>>, w)
  <2>1. PICK w \in Workplaces, a \in Archives : Begin(c, "create", <<a>>, w)
    BY <1>6
  <2>2. a \in Envs /\ w \in Envs \union {None} /\ w \in Envs /\ a # w
    BY <1>1
  <2> DEFINE srcs == <<a>>
             kind == "create"
  <2>3. /\ kind \in Kinds \ {"none"} /\ srcs \in Seq(Envs) /\ Len(srcs) = 1 /\ srcs[1] = a
        /\ Begin(c, kind, srcs, w) /\ kind \notin {"prepare", "apply", "release"}
    BY <1>2, <1>4, <2>1, <2>2
  <2> HIDE DEF srcs, kind
  <2>4. /\ Len(srcs) >= 1
        /\ kind \in {"create", "archive"} => Len(srcs) = 1 /\ w \in Envs /\ w # srcs[1]
        /\ kind = "prepare" => w \in Workplaces /\ \A i \in 1 .. Len(srcs) : srcs[i] \in Archives
        /\ kind \in {"apply", "release"} => w = None /\ Len(srcs) = 1 /\ srcs[1] \in Workplaces
        /\ kind = "apply" => input[srcs[1]] # None
    BY <2>2, <2>3
  <2> QED  BY <2>2, <2>3, <2>4, BeginMoves
<1>7. CASE \E w \in Workplaces, a \in Archives : Begin(c, "prepare", <<a>>, w)
  <2>1. PICK w \in Workplaces, a \in Archives : Begin(c, "prepare", <<a>>, w)
    BY <1>7
  <2>2. a \in Envs /\ w \in Envs \union {None}
    BY <1>1
  <2> DEFINE srcs == <<a>>
             kind == "prepare"
  <2>3. /\ kind \in Kinds \ {"none"} /\ srcs \in Seq(Envs) /\ Len(srcs) = 1 /\ srcs[1] = a
        /\ Begin(c, kind, srcs, w) /\ kind \notin {"archive", "create", "apply", "release"}
    BY <1>2, <1>4, <2>1, <2>2
  <2> HIDE DEF srcs, kind
  <2>4. \A i \in 1 .. Len(srcs) : srcs[i] \in Archives
    BY <2>1, <2>3
  <2>5. /\ Len(srcs) >= 1
        /\ kind \in {"create", "archive"} => Len(srcs) = 1 /\ w \in Envs /\ w # srcs[1]
        /\ kind = "prepare" => w \in Workplaces /\ \A i \in 1 .. Len(srcs) : srcs[i] \in Archives
        /\ kind \in {"apply", "release"} => w = None /\ Len(srcs) = 1 /\ srcs[1] \in Workplaces
        /\ kind = "apply" => input[srcs[1]] # None
    BY <2>3, <2>4
  <2> QED  BY <2>2, <2>3, <2>5, BeginMoves
<1>8. CASE \E w \in Workplaces, a, b \in Archives : a # b /\ Begin(c, "prepare", <<a, b>>, w)
  <2>1. PICK w \in Workplaces, a \in Archives, b \in Archives : Begin(c, "prepare", <<a, b>>, w)
    BY <1>8
  <2>2. a \in Envs /\ b \in Envs /\ w \in Envs \union {None}
    BY <1>1
  <2> DEFINE srcs == <<a, b>>
             kind == "prepare"
  <2>3. srcs \in Seq(Envs) /\ Len(srcs) = 2 /\ srcs[1] = a /\ srcs[2] = b
    BY <2>2
  <2>4. /\ kind \in Kinds \ {"none"}
        /\ Begin(c, kind, srcs, w) /\ kind \notin {"archive", "create", "apply", "release"}
    BY <1>4, <2>1
  <2> HIDE DEF srcs, kind
  <2>5. \A i \in 1 .. Len(srcs) : srcs[i] \in Archives
    BY <2>1, <2>3
  <2>6. Len(srcs) >= 1
    BY <2>3
  <2> QED  BY <2>2, <2>3, <2>4, <2>5, <2>6, BeginMoves
<1>9. CASE \E w \in Workplaces : input[w] # None /\ Begin(c, "apply", <<w>>, None)
  <2>1. PICK w \in Workplaces : input[w] # None /\ Begin(c, "apply", <<w>>, None)
    BY <1>9
  <2>2. w \in Envs
    BY <1>1
  <2> DEFINE srcs == <<w>>
             kind == "apply"
  <2>3. /\ kind \in Kinds \ {"none"} /\ srcs \in Seq(Envs) /\ Len(srcs) = 1 /\ srcs[1] = w
        /\ Begin(c, kind, srcs, None) /\ kind \notin {"prepare", "archive", "create"}
    BY <1>2, <1>4, <2>1, <2>2
  <2> HIDE DEF srcs, kind
  <2> QED  BY <2>1, <2>3, BeginMoves
<1>10. CASE \E w \in Workplaces : Begin(c, "release", <<w>>, None)
  <2>1. PICK w \in Workplaces : Begin(c, "release", <<w>>, None)
    BY <1>10
  <2>2. w \in Envs
    BY <1>1
  <2> DEFINE srcs == <<w>>
             kind == "release"
  <2>3. /\ kind \in Kinds \ {"none"} /\ srcs \in Seq(Envs) /\ Len(srcs) = 1 /\ srcs[1] = w
        /\ Begin(c, kind, srcs, None) /\ kind \notin {"prepare", "archive", "create", "apply"}
    BY <1>2, <1>4, <2>1, <2>2
  <2> HIDE DEF srcs, kind
  <2> QED  BY <2>1, <2>3, BeginMoves
<1> QED  BY <1>3, <1>5, <1>6, <1>7, <1>8, <1>9, <1>10

LEMMA ShapeGoes ==
    ASSUME NEW k, NEW m, CallShape(k), k.pc # "idle",
           m.kind = k.kind, m.srcs = k.srcs, m.at = k.at, m.dst = k.dst,
           m.pc \in Pcs \ {"idle", "commit"},
           m.pc \in {"clear", "copy"} => k.kind \in {"create", "archive"},
           k.kind \in {"apply", "release"} => m.pc \in {"scan", "walk", "merge"}
    PROVE  CallShape(m)
BY DEF CallShape

\* Where a caller that restores a source goes on.
FoundStep(c) == IF call[c].kind = "prepare" THEN "scan" ELSE "clear"

LEMMA RestoringIs ==
    ASSUME TypeInv, NEW c \in Callers, CallOK(c), call[c].pc \in {"restore", "open"}
    PROVE  call[c].kind \in {"create", "archive", "prepare"} /\ FoundStep(c) \in Pcs \ {"idle", "commit"}
<1>1. call[c].kind \in Kinds
  BY CallIs DEF CallType
<1>2. call[c].kind # "none" /\ call[c].kind \notin {"apply", "release"}
  BY DEF CallOK, CallShape
<1> QED  BY <1>1, <1>2 DEF Kinds, FoundStep, Pcs

LEMMA RestoreLooksMoves ==
    ASSUME IInv, NEW c \in Callers, RestoreLooks(c)
    PROVE  IInv'
<1>1. TypeInv /\ CallOK(c) /\ Apart
  BY DEF IInv
<1>2. /\ call[c].pc = "restore"
      /\ floor' = floor /\ chain' = chain /\ disk' = disk /\ live' = live /\ baseline' = baseline
      /\ changed' = changed /\ since' = since /\ input' = input /\ took' = took /\ spoiled' = spoiled
      /\ \/ Known(Source(c)) /\ Goto(c, FoundStep(c))
         \/ disk[Source(c)] # None /\ Goto(c, "open")
         \/ GiveUp(c)
  BY DEF RestoreLooks, files, ghosts, FoundStep
<1>3. call[c].kind \in {"create", "archive", "prepare"} /\ FoundStep(c) \in Pcs \ {"idle", "commit"}
  BY <1>1, <1>2, RestoringIs
<1>4. "open" \in Pcs \ {"idle", "commit"}
  BY DEF Pcs
<1>5. CASE \E step \in {FoundStep(c), "open"} :
               Goto(c, step) /\ (step = "open" => disk[Source(c)] # None) /\ (step # "open" => Known(Source(c)))
  <2>1. PICK step \in {FoundStep(c), "open"} :
               Goto(c, step) /\ (step = "open" => disk[Source(c)] # None) /\ (step # "open" => Known(Source(c)))
    BY <1>5
  <2>2. step \in Pcs \ {"idle", "commit"} /\ step \in {"scan", "clear", "open"}
        /\ (step = "clear" => call[c].kind \in {"create", "archive"})
        /\ (step = "scan" => call[c].kind = "prepare")
    BY <1>3, <1>4 DEF FoundStep
  <2>3. /\ call' \in [Callers -> CallType] /\ \A d \in Callers : d # c => call'[d] = call[d]
        /\ call'[c].pc = step /\ call'[c].kind = call[c].kind /\ call'[c].srcs = call[c].srcs
        /\ call'[c].at = call[c].at /\ call'[c].dst = call[c].dst
    BY <1>1, <2>1, <2>2, GotoIs
  <2>4. CallShape(call'[c])
    <3> DEFINE k == call[c]
               m == call'[c]
    <3>1. CallShape(k) /\ k.pc # "idle" /\ k.kind \notin {"apply", "release"}
      BY <1>1, <1>2, <1>3 DEF CallOK
    <3>2. /\ m.kind = k.kind /\ m.srcs = k.srcs /\ m.at = k.at /\ m.dst = k.dst
          /\ m.pc \in Pcs \ {"idle", "commit"}
          /\ m.pc \in {"clear", "copy"} => k.kind \in {"create", "archive"}
          /\ k.kind \in {"apply", "release"} => m.pc \in {"scan", "walk", "merge"}
      BY <2>2, <2>3, <3>1
    <3> HIDE DEF k, m
    <3>3. CallShape(m)
      BY <3>1, <3>2, ShapeGoes
    <3> QED  BY <3>3 DEF m
  <2>5. Source(c)' = Source(c)
    BY <2>3 DEF Source
  <2>6. CallOK(c)'
    BY <1>1, <1>2, <1>3, <2>1, <2>2, <2>3, <2>4, <2>5 DEF CallOK, Known
  <2>7. Apart'
    BY <1>1, <2>3, ApartMoved
  <2> QED  BY <1>2, <2>3, <2>6, <2>7, OnlyCalls
<1>6. CASE GiveUp(c)
  <2>1. /\ call' \in [Callers -> CallType] /\ \A d \in Callers : d # c => call'[d] = call[d]
        /\ call'[c] = Idle
    BY <1>1, <1>6, GiveUpIs
  <2>2. CallOK(c)' /\ Apart'
    BY <1>1, <2>1, CallIdle, ApartMoved
  <2> QED  BY <1>2, <2>1, <2>2, OnlyCalls
<1>7. CASE Known(Source(c)) /\ Goto(c, FoundStep(c))
  <2>1. FoundStep(c) # "open"
    BY DEF FoundStep
  <2> QED  BY <1>5, <1>7, <2>1
<1>8. CASE disk[Source(c)] # None /\ Goto(c, "open")
  BY <1>5, <1>8
<1> QED  BY <1>2, <1>6, <1>7, <1>8

LEMMA RestoreOpensMoves ==
    ASSUME IInv, NEW c \in Callers, RestoreOpens(c)
    PROVE  IInv'
<1> DEFINE e == Source(c)
<1>1. TypeInv /\ CallOK(c) /\ Apart
  BY DEF IInv
<1>2. /\ call[c].pc = "open"
      /\ floor' = floor /\ disk' = disk /\ baseline' = baseline
      /\ changed' = changed /\ since' = since /\ input' = input /\ took' = took
      /\ chain' = [chain EXCEPT ![e] = <<Empty>>] /\ live' = [live EXCEPT ![e] = TRUE]
      /\ spoiled' = IF chain[e] # <<>> THEN spoiled \union {e} ELSE spoiled
      /\ Goto(c, FoundStep(c))
  BY DEF RestoreOpens, Set, Known, FoundStep
<1>3. e \in Envs /\ e \in Uses(c) /\ e # None
  BY <1>1, <1>2, BusyIs
<1>4. disk[e] # None
  BY <1>1, <1>2 DEF CallOK
<1>5. call[c].kind \in {"create", "archive", "prepare"} /\ FoundStep(c) \in Pcs \ {"idle", "commit"}
  BY <1>1, <1>2, RestoringIs
<1>6. /\ call' \in [Callers -> CallType] /\ \A d \in Callers : d # c => call'[d] = call[d]
      /\ call'[c].pc = FoundStep(c) /\ call'[c].kind = call[c].kind /\ call'[c].srcs = call[c].srcs
      /\ call'[c].at = call[c].at /\ call'[c].dst = call[c].dst
  BY <1>1, <1>2, <1>5, GotoIs
<1>7. /\ e \in Workplaces => \A d \in Callers : d # c => e \notin Uses(d)
      /\ \A d \in Callers : d # c => call[d].dst # e
  <2>1. \A d \in Callers : call[d].dst \in Uses(d)
    BY DEF Uses
  <2> QED  BY <1>1, <1>3, <2>1, Elsewhere DEF Apart
<1>8. Source(c)' = e
  BY <1>6 DEF Source
<1> HIDE DEF e
<1>9. /\ chain'[e] = <<Empty>> /\ live'[e] = TRUE /\ <<Empty>> \in Chains /\ <<Empty>> # <<>>
      /\ \A x \in Envs : x # e => chain'[x] = chain[x] /\ live'[x] = live[x]
                                  /\ (x \in spoiled' <=> x \in spoiled)
      /\ (e \in spoiled' <=> e \in spoiled \/ chain[e] # <<>>)
      /\ chain' \in [Envs -> Chains] /\ live' \in [Envs -> BOOLEAN] /\ spoiled' \in SUBSET Envs
  <2>1. <<Empty>> \in Chains
    BY <1>1, EmptyAlone DEF TypeInv
  <2> QED  BY <1>1, <1>2, <1>3, <2>1 DEF TypeInv
<1>10. TypeInv'
  BY <1>1, <1>2, <1>6, <1>9 DEF TypeInv
<1>11. ASSUME NEW x \in Envs PROVE EnvOK(x)'
  <2>1. CASE x = e
    <3>1. EnvOK(e) /\ floor \in Trees
      BY <1>1, <1>3 DEF IInv, TypeInv
    <3>2. FilesSound(floor, <<Empty>>, disk[e], live'[e], baseline[e], changed[e], since[e], took[e], e \in spoiled')
      <4> DEFINE lw == live'[e]
                 worse == e \in spoiled'
                 bad == e \in spoiled
      <4>1. lw /\ (chain[e] # <<>> \/ bad => worse)
        BY <1>9
      <4>2. FilesSound(floor, chain[e], disk[e], live[e], baseline[e], changed[e], since[e], took[e], bad)
        BY <3>1 DEF EnvOK
      <4> HIDE DEF lw, worse, bad
      <4>3. FilesSound(floor, <<Empty>>, disk[e], lw, baseline[e], changed[e], since[e], took[e], worse)
        BY <3>1, <4>1, <4>2, <1>4, FilesOpened
      <4> QED  BY <4>3 DEF lw, worse
    <3>3. e \in Archives => changed[e] = {}
      BY <3>1 DEF EnvOK
    <3> QED  BY <2>1, <3>2, <3>3, <1>2, <1>9 DEF EnvOK
  <2>2. CASE x # e
    BY <2>2, <1>2, <1>9, EnvKept DEF IInv, EnvSame
  <2> QED  BY <2>1, <2>2
<1>12. CallOK(c)'
  <2>1. CallShape(call'[c])
    <3> DEFINE k == call[c]
               m == call'[c]
    <3>1. CallShape(k) /\ k.pc # "idle" /\ k.kind \notin {"apply", "release"}
      BY <1>1, <1>2, <1>5 DEF CallOK
    <3>2. FoundStep(c) = "clear" => k.kind \in {"create", "archive"}
      BY <1>5 DEF FoundStep
    <3>3. FoundStep(c) \in {"scan", "clear"}
      BY DEF FoundStep
    <3> HIDE DEF k, m
    <3> QED  BY <3>1, <3>2, <3>3, <1>5, <1>6, ShapeGoes DEF k, m
  <2>2. FoundStep(c) \in {"scan", "clear"} /\ (FoundStep(c) = "scan" => call[c].kind = "prepare")
    BY DEF FoundStep
  <2>3. \A i \in 1 .. Len(call[c].srcs) : i < call[c].at =>
           SourceReady(floor, chain'[call[c].srcs[i]], call[c].srcs[i] \in spoiled')
    <3>1. SUFFICES ASSUME NEW i \in 1 .. Len(call[c].srcs), i < call[c].at
                   PROVE  SourceReady(floor, chain'[call[c].srcs[i]], call[c].srcs[i] \in spoiled')
      OBVIOUS
    <3>2. SourceReady(floor, chain[call[c].srcs[i]], call[c].srcs[i] \in spoiled) /\ call[c].srcs[i] \in Envs
      BY <1>1, <1>2, <3>1, CallIs DEF CallOK
    <3>3. CASE call[c].srcs[i] = e
      BY <3>2, <3>3, <1>9 DEF SourceReady
    <3>4. CASE call[c].srcs[i] # e
      BY <3>2, <3>4, <1>9
    <3> QED  BY <3>3, <3>4
  <2>4. chain'[Source(c)'] # <<>>
    BY <1>8, <1>9
  <2> QED  BY <1>2, <1>5, <1>6, <2>1, <2>2, <2>3, <2>4 DEF CallOK, Known
<1>13. ASSUME NEW d \in Callers, d # c PROVE CallOK(d)'
  <2>1. CallOK(d) /\ call'[d] = call[d] /\ call[d].dst # e /\ \A x \in Uses(d) : x # None => x \in Envs
    BY <1>1, <1>6, <1>7, <1>13, UsesIs DEF IInv
  <2>2. CASE call[d].pc = "idle"
    BY <1>1, <2>1, <2>2, CallKept
  <2>3. CASE call[d].pc # "idle"
    <3> DEFINE s == Source(d)
    <3>1. s \in Envs /\ call[d].dst \in Uses(d)
      BY <1>1, <2>1, <2>3, BusyIs
    <3>2. \A i \in 1 .. Len(call[d].srcs) : call[d].srcs[i] \in Envs
      BY <1>1, CallIs
    <3>3. \A x \in Envs : SourceReady(floor, chain[x], x \in spoiled)
                            => SourceReady(floor', chain'[x], x \in spoiled')
      <4>1. SUFFICES ASSUME NEW x \in Envs, SourceReady(floor, chain[x], x \in spoiled)
                     PROVE  SourceReady(floor', chain'[x], x \in spoiled')
        OBVIOUS
      <4>2. CASE x = e
        BY <4>1, <4>2, <1>2, <1>9 DEF SourceReady
      <4>3. CASE x # e
        BY <4>1, <4>3, <1>2, <1>9
      <4> QED  BY <4>2, <4>3
    <3>4. chain[s] # <<>> => chain'[s] # <<>>
      BY <3>1, <1>9
    <3>5. call[d].dst # None => chain'[call[d].dst] = chain[call[d].dst] /\ disk' = disk /\ input' = input
      BY <2>1, <3>1, <1>2, <1>9
    <3>6. ScanSound(call[d], s \in Archives, floor, chain[s], disk[s], live[s], baseline[s], changed[s],
                    since[s], s \in spoiled)
           => ScanSound(call[d], s \in Archives, floor', chain'[s], disk'[s], live'[s], baseline'[s],
                    changed'[s], since'[s], s \in spoiled')
      <4>1. CASE s = e
        <5>1. live[e] => e \in spoiled'
          <6>1. live[e] => chain[e] # <<>>
            BY <1>3 DEF IInv, EnvOK, FilesSound
          <6> QED  BY <6>1, <1>9
        <5> HIDE DEF s
        <5> QED  BY <4>1, <5>1, <1>9 DEF ScanSound
      <4>2. CASE s # e
        <5> HIDE DEF s
        <5> QED  BY <4>2, <3>1, <1>2, <1>9
      <4> QED  BY <4>1, <4>2
    <3> QED  BY <1>1, <1>2, <2>1, <2>3, <3>2, <3>3, <3>4, <3>5, <3>6, CallKept
  <2> QED  BY <2>2, <2>3
<1>14. Apart'
  BY <1>1, <1>6, ApartMoved
<1>15. \A t \in Workplaces : InputOK(t)'
  <2>1. \A t \in Workplaces : t \in Envs
    BY DEF Envs
  <2>2. \A t \in Workplaces : chain[t] # <<>> => chain'[t] # <<>>
    BY <2>1, <1>9
  <2> QED  BY <2>2, <1>2 DEF IInv, InputOK, Known
<1> QED  BY <1>10, <1>11, <1>12, <1>13, <1>14, <1>15 DEF IInv

\* A step of one caller, or of a command, that touches one environment.
LEMMA OneEnvMoves ==
    ASSUME IInv, TypeInv', NEW e \in Envs, floor' = floor,
           \A x \in Envs : x # e => EnvSame(x) /\ took'[x] = took[x]
                                    /\ (x \in Workplaces => input'[x] = input[x]),
           EnvOK(e)', e \in Workplaces => InputOK(e)', Apart',
           \A d \in Callers : CallOK(d)' \/ (call'[d] = call[d] /\ e \notin Uses(d))
    PROVE  IInv'
<1>1. TypeInv
  BY DEF IInv
<1>2. ASSUME NEW x \in Envs PROVE EnvOK(x)'
  BY EnvKept DEF IInv
<1>3. ASSUME NEW d \in Callers PROVE CallOK(d)'
  <2>1. CASE call'[d] = call[d] /\ e \notin Uses(d)
    <3>1. \A x \in Uses(d) : x # None => x \in Envs /\ x # e
      BY <1>1, <2>1, UsesIs
    <3>2. \A x \in Uses(d) : x # None => EnvSame(x) /\ (x \in Workplaces => input'[x] = input[x])
      BY <3>1
    <3>3. CallOK(d)
      BY DEF IInv
    <3> QED  BY <1>1, <2>1, <3>2, <3>3, CallSame
  <2> QED  BY <2>1
<1>4. ASSUME NEW t \in Workplaces PROVE InputOK(t)'
  <2>1. CASE t # e
    <3>1. t \in Envs
      BY DEF Envs
    <3>2. chain'[t] = chain[t] /\ input'[t] = input[t]
      BY <2>1, <3>1 DEF EnvSame
    <3>3. InputOK(t)
      BY DEF IInv
    <3> QED  BY <3>2, <3>3 DEF InputOK, Known
  <2> QED  BY <2>1
<1> QED  BY <1>2, <1>3, <1>4 DEF IInv

LEMMA ForgetIs ==
    ASSUME TypeInv, NEW e \in Envs, Forget(e)
    PROVE  /\ chain' \in [Envs -> Chains] /\ disk' \in [Envs -> Trees \union {None}]
           /\ live' \in [Envs -> BOOLEAN] /\ baseline' \in [Envs -> BOOLEAN]
           /\ changed' \in [Envs -> SUBSET Paths] /\ since' \in [Envs -> SUBSET Paths]
           /\ took' \in [Envs -> Trees \union {None}] /\ spoiled' \in SUBSET Envs
           /\ input' = [t \in Workplaces |-> input'[t]]
           /\ chain'[e] = <<>> /\ disk'[e] = None /\ ~live'[e] /\ ~baseline'[e]
           /\ changed'[e] = {} /\ since'[e] = {} /\ took'[e] = None
           /\ \A x \in Envs : x # e => EnvSame(x) /\ took'[x] = took[x]
                                       /\ (x \in Workplaces => input'[x] = input[x])
           /\ e \in Workplaces => input'[e] = None
<1>1. <<>> \in Chains
  BY DEF Chains
<1>2. /\ chain' = [chain EXCEPT ![e] = <<>>] /\ disk' = [disk EXCEPT ![e] = None]
      /\ live' = [live EXCEPT ![e] = FALSE] /\ baseline' = [baseline EXCEPT ![e] = FALSE]
      /\ changed' = [changed EXCEPT ![e] = {}] /\ since' = [since EXCEPT ![e] = {}]
      /\ took' = [took EXCEPT ![e] = None] /\ spoiled' = spoiled \ {e}
      /\ input' = IF e \in Workplaces THEN [input EXCEPT ![e] = None] ELSE input
  BY DEF Forget, Set
<1>3. input = [t \in Workplaces |-> input[t]]
  BY DEF TypeInv
<1>4. /\ input' = [t \in Workplaces |-> input'[t]]
      /\ e \in Workplaces => input'[e] = None
      /\ \A x \in Workplaces : x # e => input'[x] = input[x]
  BY <1>2, <1>3
<1>5. /\ chain' \in [Envs -> Chains] /\ disk' \in [Envs -> Trees \union {None}]
      /\ live' \in [Envs -> BOOLEAN] /\ baseline' \in [Envs -> BOOLEAN]
      /\ changed' \in [Envs -> SUBSET Paths] /\ since' \in [Envs -> SUBSET Paths]
      /\ took' \in [Envs -> Trees \union {None}] /\ spoiled' \in SUBSET Envs
  BY <1>1, <1>2 DEF TypeInv
<1>6. /\ chain'[e] = <<>> /\ disk'[e] = None /\ ~live'[e] /\ ~baseline'[e]
      /\ changed'[e] = {} /\ since'[e] = {} /\ took'[e] = None
  BY <1>2 DEF TypeInv
<1>7. \A x \in Envs : x # e => EnvSame(x) /\ took'[x] = took[x]
  BY <1>2 DEF TypeInv, EnvSame
<1> QED  BY <1>4, <1>5, <1>6, <1>7

LEMMA DiscardMoves ==
    ASSUME IInv, NEW c \in Callers, Discard(c)
    PROVE  IInv'
<1>1. TypeInv /\ CallOK(c) /\ Apart
  BY DEF IInv
<1>2. call[c].pc = "clear" /\ Forget(call[c].dst) /\ Goto(c, "scan") /\ floor' = floor
  BY DEF Discard
<1>3. /\ call[c].kind \in {"create", "archive"} /\ Len(call[c].srcs) = 1 /\ call[c].at = 1
      /\ Known(Source(c)) /\ CallShape(call[c])
  <2>1. CallShape(call[c]) /\ call[c].kind \in {"create", "archive"} /\ Known(Source(c))
    BY <1>1, <1>2 DEF CallOK, CallShape
  <2>2. call[c].at \in 1 .. Len(call[c].srcs) /\ Len(call[c].srcs) = 1
    BY <1>2, <2>1 DEF CallShape
  <2> QED  BY <2>1, <2>2
<1>7. PICK e \in Envs : e = call[c].dst
  BY <1>1, <1>2, <1>3, BusyIs
<1>4. e # None /\ e \in Uses(c) /\ Source(c) \in Envs /\ Source(c) # e
  BY <1>1, <1>2, <1>3, <1>7, BusyIs, NoneAssumption
<1>5. /\ call' \in [Callers -> CallType] /\ \A d \in Callers : d # c => call'[d] = call[d]
      /\ call'[c].pc = "scan" /\ call'[c].kind = call[c].kind /\ call'[c].srcs = call[c].srcs
      /\ call'[c].at = call[c].at /\ call'[c].dst = call[c].dst
  <2>1. "scan" \in Pcs
    BY DEF Pcs
  <2> QED  BY <1>1, <1>2, <2>1, GotoIs
<1>6. /\ chain' \in [Envs -> Chains] /\ disk' \in [Envs -> Trees \union {None}]
      /\ live' \in [Envs -> BOOLEAN] /\ baseline' \in [Envs -> BOOLEAN]
      /\ changed' \in [Envs -> SUBSET Paths] /\ since' \in [Envs -> SUBSET Paths]
      /\ took' \in [Envs -> Trees \union {None}] /\ spoiled' \in SUBSET Envs
      /\ input' = [t \in Workplaces |-> input'[t]]
      /\ chain'[e] = <<>> /\ disk'[e] = None /\ ~live'[e] /\ ~baseline'[e]
      /\ changed'[e] = {} /\ since'[e] = {} /\ took'[e] = None
      /\ \A x \in Envs : x # e => EnvSame(x) /\ took'[x] = took[x]
                                  /\ (x \in Workplaces => input'[x] = input[x])
      /\ e \in Workplaces => input'[e] = None
  BY <1>1, <1>2, <1>7, ForgetIs
<1>8. TypeInv'
  BY <1>1, <1>2, <1>5, <1>6 DEF TypeInv
<1>9. EnvOK(e)'
  BY <1>6 DEF EnvOK, FilesSound
<1>10. CallOK(c)'
  <2>1. CallShape(call'[c])
    BY <1>2, <1>3, <1>5 DEF CallShape
  <2>2. Source(c)' = Source(c) /\ chain'[Source(c)] # <<>>
    BY <1>3, <1>4, <1>5, <1>6 DEF Source, EnvSame, Known
  <2>3. \A i \in 1 .. Len(call[c].srcs) : ~(i < call[c].at)
    BY <1>3
  <2> QED  BY <1>3, <1>5, <1>6, <1>7, <2>1, <2>2, <2>3 DEF CallOK, Known
<1>11. Apart'
  BY <1>1, <1>5, ApartMoved
<1>12. \A d \in Callers : d # c => call'[d] = call[d] /\ e \notin Uses(d)
  BY <1>1, <1>4, <1>5, <1>7, Elsewhere
<1>13. e \in Workplaces => InputOK(e)'
  BY <1>6 DEF InputOK
<1> QED  BY <1>2, <1>4, <1>6, <1>8, <1>9, <1>10, <1>11, <1>12, <1>13, OneEnvMoves

LEMMA NotTheOnly ==
    ASSUME NEW n \in Nat, NEW a \in 1 .. n, a < n
    PROVE  n # 1
OBVIOUS

\* The next source, or the operation itself.
LEMMA OnwardIs ==
    ASSUME TypeInv, NEW c \in Callers, CallOK(c), call[c].pc \in {"scan", "merge"}, Onward(c),
           call[c].kind # "release" =>
               \A i \in 1 .. Len(call[c].srcs) : i <= call[c].at =>
                   SourceReady(floor', chain'[call[c].srcs[i]], call[c].srcs[i] \in spoiled'),
           call[c].kind \in {"create", "archive"} =>
               chain'[call[c].dst] = chain[call[c].dst] /\ disk'[call[c].dst] = disk[call[c].dst],
           input' = input
    PROVE  /\ call' \in [Callers -> CallType] /\ \A d \in Callers : d # c => call'[d] = call[d]
           /\ call'[c] = Idle \/ (call'[c].srcs = call[c].srcs /\ call'[c].dst = call[c].dst)
           /\ CallOK(c)'
<1> DEFINE k == call[c]
           rest == [k EXCEPT !.at = k.at + 1, !.pc = "restore", !.before = Empty,
                             !.same = {}, !.seen = Empty]
           last == [k EXCEPT !.pc = "commit", !.before = Empty, !.same = {}, !.seen = Empty]
<1>1. k \in CallType /\ call \in [Callers -> CallType] /\ CallShape(k) /\ k.pc # "idle"
  BY DEF TypeInv, CallOK
<1>2. k.at \in 1 .. Len(k.srcs) /\ k.at \in Nat /\ Len(k.srcs) \in Nat
  <2>1. k.at \in 1 .. Len(k.srcs) /\ Len(k.srcs) \in Nat
    BY <1>1, CallIs DEF CallShape
  <2> QED  BY <2>1
<1>3. CASE k.at < Len(k.srcs)
  <2>1. call' = [call EXCEPT ![c] = rest]
    BY <1>1, <1>3 DEF Onward
  <2>2. /\ rest.pc = "restore" /\ rest.at = k.at + 1 /\ rest.srcs = k.srcs
        /\ rest.dst = k.dst /\ rest.kind = k.kind /\ rest \in CallType
    <3>1. k.at + 1 \in Nat /\ Empty \in Views /\ "restore" \in Pcs
      BY <1>2 DEF Empty, Views, Pcs
    <3> HIDE DEF k
    <3> QED  BY <1>1, <3>1 DEF CallType
  <2> HIDE DEF rest
  <2>3. /\ call' \in [Callers -> CallType] /\ \A d \in Callers : d # c => call'[d] = call[d]
        /\ call'[c] = rest
    BY <1>1, <2>1, <2>2
  <2>4. k.kind \notin {"create", "archive", "apply", "release"}
    <3> HIDE DEF k
    <3>1. Len(k.srcs) # 1
      BY <1>2, <1>3, NotTheOnly
    <3> QED  BY <1>1, <3>1 DEF CallShape
  <2>5. CallShape(rest)
    <3> HIDE DEF k
    <3>1. rest.at \in 1 .. Len(rest.srcs)
      BY <1>2, <1>3, <2>2
    <3> QED  BY <1>1, <2>2, <2>4, <3>1 DEF CallShape
  <2>6. \A i \in 1 .. Len(k.srcs) : i < rest.at =>
             SourceReady(floor', chain'[k.srcs[i]], k.srcs[i] \in spoiled')
    BY <1>2, <2>2, <2>4
  <2>7. CallOK(c)'
    BY <2>2, <2>3, <2>4, <2>5, <2>6 DEF CallOK
  <2> QED  BY <2>2, <2>3, <2>7
<1>4. CASE ~(k.at < Len(k.srcs)) /\ k.kind = "release"
  <2>1. GiveUp(c)
    BY <1>4 DEF Onward
  <2> QED  BY <2>1, GiveUpIs, CallIdle
<1>5. CASE ~(k.at < Len(k.srcs)) /\ k.kind # "release"
  <2>1. call' = [call EXCEPT ![c] = last]
    BY <1>1, <1>5 DEF Onward
  <2>2. /\ last.pc = "commit" /\ last.at = k.at /\ last.srcs = k.srcs
        /\ last.dst = k.dst /\ last.kind = k.kind /\ last \in CallType
    <3>1. Empty \in Views /\ "commit" \in Pcs
      BY DEF Empty, Views, Pcs
    <3> HIDE DEF k
    <3> QED  BY <1>1, <3>1 DEF CallType
  <2> HIDE DEF last
  <2>3. /\ call' \in [Callers -> CallType] /\ \A d \in Callers : d # c => call'[d] = call[d]
        /\ call'[c] = last
    BY <1>1, <2>1, <2>2
  <2>4. k.at = Len(k.srcs)
    BY <1>2, <1>5
  <2>5. CallShape(last)
    <3> HIDE DEF k
    <3> QED  BY <1>1, <1>2, <2>2, <2>4 DEF CallShape
  <2>6. \A i \in 1 .. Len(k.srcs) : SourceReady(floor', chain'[k.srcs[i]], k.srcs[i] \in spoiled')
    BY <1>2, <1>5, <2>4
  <2>7. Source(c)' = Source(c) /\ (k.kind = "apply" => input[Source(c)] # None)
    BY <1>1, <2>2, <2>3 DEF Source, CallOK
  <2>8. k.kind \in {"create", "archive"} => chain'[k.dst] = <<>> /\ disk'[k.dst] = None
    BY <1>1 DEF CallOK, Known
  <2>9. CallOK(c)'
    BY <2>2, <2>3, <2>5, <2>6, <2>7, <2>8 DEF CallOK, Known
  <2> QED  BY <2>2, <2>3, <2>9
<1> QED  BY <1>3, <1>4, <1>5

LEMMA ScanMoves ==
    ASSUME IInv, NEW c \in Callers, Scan(c)
    PROVE  IInv'
<1>1. TypeInv /\ CallOK(c) /\ Apart
  BY DEF IInv
<1>2. /\ call[c].pc = "scan"
      /\ floor' = floor /\ chain' = chain /\ disk' = disk /\ live' = live /\ baseline' = baseline
      /\ changed' = changed /\ input' = input /\ took' = took /\ spoiled' = spoiled
  BY DEF Scan, ghosts
<1>3. PICK e \in Envs : e = Source(c)
  BY <1>1, <1>2, BusyIs
<1>4. e # None /\ e \in Uses(c) /\ call[c].at \in Nat
  BY <1>1, <1>2, <1>3, BusyIs, CallIs DEF CallType
<1>5. EnvOK(e) /\ live[e] \in BOOLEAN /\ baseline[e] \in BOOLEAN /\ floor \in Trees
      /\ chain[e] \in Chains /\ changed[e] \in SUBSET Paths /\ since[e] \in SUBSET Paths
  BY <1>1 DEF IInv, TypeInv
<1>6. CASE (~live[e] \/ (baseline[e] /\ changed[e] = {})) /\ Onward(c) /\ since' = since
  <2>1. call[c].kind # "release" => SourceReady(floor, chain[e], e \in spoiled)
    BY <1>1, <1>2, <1>3, <1>5, <1>6 DEF CallOK, EnvOK, FilesSound, SourceReady, Known
  <2>2. call[c].kind # "release" =>
          \A i \in 1 .. Len(call[c].srcs) : i <= call[c].at =>
              SourceReady(floor', chain'[call[c].srcs[i]], call[c].srcs[i] \in spoiled')
    <3>1. SUFFICES ASSUME call[c].kind # "release", NEW i \in 1 .. Len(call[c].srcs), i <= call[c].at
                   PROVE  SourceReady(floor', chain'[call[c].srcs[i]], call[c].srcs[i] \in spoiled')
      OBVIOUS
    <3>2. CASE i < call[c].at
      BY <1>1, <1>2, <3>2 DEF CallOK
    <3>3. CASE i = call[c].at
      <4>1. call[c].srcs[i] = e
        BY <1>3, <3>3 DEF Source
      <4> QED  BY <4>1, <2>1, <3>1, <1>2
    <3> QED  BY <3>1, <3>2, <3>3, <1>4
  <2>3. /\ call' \in [Callers -> CallType] /\ \A d \in Callers : d # c => call'[d] = call[d]
        /\ call'[c] = Idle \/ (call'[c].srcs = call[c].srcs /\ call'[c].dst = call[c].dst)
        /\ CallOK(c)'
    BY <1>1, <1>2, <1>6, <2>2, OnwardIs
  <2>4. Apart'
    BY <1>1, <2>3, ApartMoved
  <2> QED  BY <1>2, <1>6, <2>3, <2>4, OnlyCalls
<1>7. CASE /\ live[e] /\ ~(baseline[e] /\ changed[e] = {})
           /\ call' = [call EXCEPT ![c].pc = "walk", ![c].before = Visible(chain[e], floor),
                              ![c].same = IF baseline[e] THEN Paths \ changed[e] ELSE {}]
           /\ since' = [since EXCEPT ![e] = {}]
  <2> DEFINE k == call[c]
             m == [k EXCEPT !.pc = "walk", !.before = Visible(chain[e], floor),
                            !.same = IF baseline[e] THEN Paths \ changed[e] ELSE {}]
  <2>1. k \in CallType /\ call \in [Callers -> CallType] /\ CallShape(k) /\ k.pc = "scan"
    BY <1>1, <1>2 DEF TypeInv, CallOK
  <2>2. /\ m \in CallType /\ m.pc = "walk" /\ m.srcs = k.srcs /\ m.dst = k.dst /\ m.kind = k.kind
        /\ m.at = k.at /\ m.before = Visible(chain[e], floor)
        /\ m.same = IF baseline[e] THEN Paths \ changed[e] ELSE {}
    <3>1. Visible(chain[e], floor) \in Views /\ "walk" \in Pcs
      BY <1>5, ViewIs DEF Pcs
    <3>2. (IF baseline[e] THEN Paths \ changed[e] ELSE {}) \in SUBSET Paths
      OBVIOUS
    <3> HIDE DEF k
    <3> QED  BY <2>1, <3>1, <3>2 DEF CallType
  <2>3. call' = [call EXCEPT ![c] = m]
    BY <1>7, <2>1
  <2> HIDE DEF m
  <2>4. /\ call' \in [Callers -> CallType] /\ \A d \in Callers : d # c => call'[d] = call[d]
        /\ call'[c] = m
    BY <2>1, <2>2, <2>3
  <2>5. CallShape(m)
    <3> HIDE DEF k
    <3> QED  BY <2>1, <2>2 DEF CallShape
  <2>6. Source(c)' = e
    BY <1>3, <2>2, <2>4 DEF Source
  <2>7. /\ since'[e] = {} /\ since' \in [Envs -> SUBSET Paths]
        /\ \A x \in Envs : x # e => since'[x] = since[x]
    BY <1>1, <1>7 DEF TypeInv
  <2>8. TypeInv'
    BY <1>1, <1>2, <2>4, <2>7 DEF TypeInv
  <2>9. FilesSound(floor, chain[e], disk[e], live[e], baseline[e], changed[e], since[e], took[e], e \in spoiled)
    BY <1>5 DEF EnvOK
  <2>10. EnvOK(e)'
    <3>1. FilesSound(floor, chain[e], disk[e], live[e], baseline[e], changed[e], since'[e], took[e], e \in spoiled)
      BY <2>7, <2>9, FilesRead
    <3> QED  BY <3>1, <1>2, <1>5 DEF EnvOK
  <2>11. ScanSound(m, e \in Archives, floor, chain[e], disk[e], live[e], baseline[e], changed[e], since'[e],
                   e \in spoiled)
    <3>1. e \in Archives => ~baseline[e]
      BY <1>5, <1>7 DEF EnvOK
    <3>2. e \notin spoiled => FilesAgree(m.before, disk[e], m.same \ since'[e])
      <4>1. since'[e] = {} /\ m.same \ {} = m.same
        BY <2>7
      <4>2. CASE baseline[e]
        BY <4>1, <4>2, <2>2, <2>9 DEF FilesSound
      <4>3. CASE ~baseline[e]
        BY <4>1, <4>3, <2>2 DEF FilesAgree
      <4> QED  BY <4>2, <4>3
    <3> QED  BY <3>1, <3>2, <1>7, <2>2 DEF ScanSound
  <2>12. CallOK(c)'
    <3>1. \A i \in 1 .. Len(k.srcs) : i < k.at =>
              SourceReady(floor, chain[k.srcs[i]], k.srcs[i] \in spoiled)
      BY <1>1, <2>1 DEF CallOK
    <3>2. k.kind = "apply" => input[e] # None
      BY <1>1, <1>3, <2>1 DEF CallOK
    <3>3. k.kind \in {"create", "archive"} => chain[k.dst] = <<>> /\ disk[k.dst] = None
      BY <1>1, <2>1 DEF CallOK, Known
    <3> HIDE DEF k
    <3> QED  BY <1>2, <2>2, <2>4, <2>5, <2>6, <2>11, <3>1, <3>2, <3>3 DEF CallOK, Known
  <2>13. Apart'
    BY <1>1, <2>2, <2>4, ApartMoved
  <2>14. \A d \in Callers : d # c => CallOK(d)' \/ (call'[d] = call[d] /\ e \notin Uses(d))
    <3>1. CASE e \in Workplaces
      BY <1>1, <1>4, <2>4, <3>1, Elsewhere
    <3>2. CASE e \in Archives
      <4>1. since[e] = {}
        BY <1>5, <2>9, <3>2 DEF EnvOK, FilesSound
      <4>2. \A x \in Envs : EnvSame(x)
        BY <1>2, <2>7, <4>1 DEF EnvSame
      <4>3. \A d \in Callers : CallOK(d) /\ \A x \in Uses(d) : x # None => x \in Envs
        BY <1>1, UsesIs DEF IInv
      <4> QED  BY <1>1, <1>2, <2>4, <4>2, <4>3, CallSame
    <3> QED  BY <3>1, <3>2 DEF Envs
  <2>15. \A x \in Envs : x # e => EnvSame(x) /\ took'[x] = took[x]
                                  /\ (x \in Workplaces => input'[x] = input[x])
    BY <1>2, <2>7 DEF EnvSame
  <2>16. e \in Workplaces => InputOK(e)'
    BY <1>2 DEF IInv, InputOK, Known
  <2> QED  BY <1>2, <2>8, <2>10, <2>12, <2>13, <2>14, <2>15, <2>16, OneEnvMoves
<1>8. IF ~live[e] \/ (baseline[e] /\ changed[e] = {})
      THEN Onward(c) /\ since' = since
      ELSE /\ call' = [call EXCEPT ![c].pc = "walk", ![c].before = Visible(chain[e], floor),
                              ![c].same = IF baseline[e] THEN Paths \ changed[e] ELSE {}]
           /\ since' = [since EXCEPT ![e] = {}]
  BY <1>3 DEF Scan, Set
<1> QED  BY <1>6, <1>7, <1>8

LEMMA WalkedIs ==
    ASSUME NEW B \in Views, NEW T \in Trees, NEW same, NEW W \in Views,
           \A p \in Paths : W[p] = IF p \in same /\ IsFile(B[p]) /\ IsFile(T[p]) THEN B[p] ELSE T[p]
    PROVE  W \in Trees
<1>2. ASSUME NEW p \in Paths
      PROVE  /\ W[p] \in Contents \union {"dir", "absent"}
             /\ W[p] = "absent" <=> T[p] = "absent"
             /\ W[p] = "dir" <=> T[p] = "dir"
  <2>1. IsFile(T[p]) \/ T[p] \in {"dir", "absent"}
    BY TreeIs
  <2> QED  BY <2>1, ContentsAssumption DEF IsFile
<1>3. \A p \in Paths : W[p] # "absent" => \A a \in Ancestors(p) : W[a] = "dir"
  BY <1>2, TreeIs, PathIs
<1>4. W \in [Paths -> Contents \union {"dir", "absent"}]
  BY DEF Views
<1> QED  BY <1>3, <1>4 DEF Trees

LEMMA WalkMoves ==
    ASSUME IInv, NEW c \in Callers, Walk(c)
    PROVE  IInv'
<1>1. TypeInv /\ CallOK(c) /\ Apart
  BY DEF IInv
<1>2. /\ call[c].pc = "walk"
      /\ floor' = floor /\ chain' = chain /\ disk' = disk /\ live' = live /\ baseline' = baseline
      /\ changed' = changed /\ since' = since /\ input' = input /\ took' = took /\ spoiled' = spoiled
      /\ call' = [call EXCEPT ![c].pc = "merge", ![c].seen = Walked(c)]
  BY DEF Walk, ghosts, files
<1>3. PICK e \in Envs : e = Source(c)
  BY <1>1, <1>2, BusyIs
<1> DEFINE k == call[c]
           walked == Walked(c)
           m == [k EXCEPT !.pc = "merge", !.seen = walked]
<1>4. k \in CallType /\ call \in [Callers -> CallType] /\ CallShape(k) /\ k.before \in Views
  BY <1>1 DEF TypeInv, CallOK, CallType
<1>5. ScanSound(k, e \in Archives, floor, chain[e], disk[e], live[e], baseline[e], changed[e], since[e],
                e \in spoiled)
  BY <1>1, <1>2, <1>3 DEF CallOK
<1>6. disk[e] \in Trees
  <2>1. live[e] /\ EnvOK(e) /\ disk[e] \in Trees \union {None}
    BY <1>1, <1>5 DEF ScanSound, IInv, TypeInv
  <2> QED  BY <2>1 DEF EnvOK, FilesSound
<1>7. walked = [p \in Paths |-> IF p \in k.same /\ IsFile(k.before[p]) /\ IsFile(disk[e][p])
                           THEN k.before[p] ELSE disk[e][p]]
  BY <1>3 DEF Walked
<1> HIDE DEF walked
<1>8. /\ walked \in Trees
      /\ FilesAgree(k.before, disk[e], k.same \ since[e]) => \A p \in Paths \ since[e] : walked[p] = disk[e][p]
  <2> DEFINE old == k.before
             kept == k.same
             tree == disk[e]
  <2>1. /\ old \in Views /\ tree \in Trees
        /\ \A p \in Paths : walked[p] = IF p \in kept /\ IsFile(old[p]) /\ IsFile(tree[p])
                                       THEN old[p] ELSE tree[p]
    BY <1>4, <1>6, <1>7
  <2>3. walked \in Views
    BY <1>4, <1>6, <1>7 DEF Views, Trees
  <2> HIDE DEF old, kept, tree
  <2>2. walked \in Trees
    BY <2>1, <2>3, WalkedIs
  <2>4. FilesAgree(old, tree, kept \ since[e]) => \A p \in Paths \ since[e] : walked[p] = tree[p]
    BY <2>1 DEF FilesAgree
  <2> QED  BY <2>2, <2>4 DEF old, kept, tree
<1>9. /\ m \in CallType /\ m.pc = "merge" /\ m.srcs = k.srcs /\ m.dst = k.dst /\ m.kind = k.kind
      /\ m.at = k.at /\ m.before = k.before /\ m.same = k.same /\ m.seen = walked
  <2>1. walked \in Views /\ "merge" \in Pcs
    BY <1>8 DEF Pcs, Trees, Views
  <2> HIDE DEF k
  <2> QED  BY <1>4, <2>1 DEF CallType
<1>10. call' = [call EXCEPT ![c] = m]
  BY <1>2, <1>4 DEF walked
<1> HIDE DEF m
<1>11. /\ call' \in [Callers -> CallType] /\ \A d \in Callers : d # c => call'[d] = call[d]
       /\ call'[c] = m
  BY <1>4, <1>9, <1>10
<1>15. Source(c)' = e
  <2>1. m.srcs[m.at] = call[c].srcs[call[c].at]
    BY <1>9
  <2>2. Source(c)' = call'[c].srcs[call'[c].at] /\ Source(c) = call[c].srcs[call[c].at]
    BY DEF Source
  <2>3. call'[c].srcs[call'[c].at] = m.srcs[m.at]
    BY <1>11
  <2> QED  BY <2>1, <2>2, <2>3, <1>3
<1>12. ScanSound(m, e \in Archives, floor, chain[e], disk[e], live[e], baseline[e], changed[e], since[e],
                 e \in spoiled)
  BY <1>2, <1>5, <1>8, <1>9 DEF ScanSound
<1>13. CallOK(c)'
  <2>1. \A i \in 1 .. Len(k.srcs) : i < k.at =>
            SourceReady(floor, chain[k.srcs[i]], k.srcs[i] \in spoiled)
    BY <1>1, <1>2 DEF CallOK
  <2>2. k.kind = "apply" => input[e] # None
    BY <1>1, <1>2, <1>3 DEF CallOK
  <2>3. k.kind \in {"create", "archive"} => chain[k.dst] = <<>> /\ disk[k.dst] = None
    BY <1>1, <1>2 DEF CallOK, Known
  <2>4. CallShape(m) /\ k.pc = "walk"
    <3>1. k.pc = "walk"
      BY <1>2
    <3> HIDE DEF k
    <3> QED  BY <1>4, <1>9, <3>1 DEF CallShape
  <2> HIDE DEF k
  <2> QED  BY <1>2, <1>9, <1>11, <1>12, <1>15, <2>1, <2>2, <2>3, <2>4 DEF CallOK, Known
<1>14. Apart'
  BY <1>1, <1>9, <1>11, ApartMoved
<1> QED  BY <1>2, <1>11, <1>13, <1>14, OnlyCalls

\* A caller that shares an archive with the one that has just changed its layers.
LEMMA SharedKept ==
    ASSUME IInv, NEW d \in Callers, call'[d] = call[d], floor' = floor, input' = input,
           NEW e \in Envs, e # call[d].dst, \A x \in Envs : x # e => EnvSame(x),
           chain'[e] # <<>>, disk'[e] = disk[e],
           SourceReady(floor, chain[e], e \in spoiled) => SourceReady(floor, chain'[e], e \in spoiled'),
           call[d].pc \in {"walk", "merge"} /\ Source(d) = e /\
             ScanSound(call[d], e \in Archives, floor, chain[e], disk[e], live[e], baseline[e],
                       changed[e], since[e], e \in spoiled)
             => ScanSound(call[d], e \in Archives, floor, chain'[e], disk'[e], live'[e], baseline'[e],
                       changed'[e], since'[e], e \in spoiled')
    PROVE  CallOK(d)'
<1>1. TypeInv /\ CallOK(d)
  BY DEF IInv
<1>2. CASE call[d].pc = "idle"
  BY <1>1, <1>2, CallKept
<1>3. CASE call[d].pc # "idle"
  <2>1. PICK s \in Envs : s = Source(d)
    BY <1>1, <1>3, BusyIs
  <2>2. \A i \in 1 .. Len(call[d].srcs) : call[d].srcs[i] \in Envs
    BY <1>1, CallIs
  <2>3. ASSUME NEW x \in Envs, SourceReady(floor, chain[x], x \in spoiled)
        PROVE  SourceReady(floor, chain'[x], x \in spoiled')
    <3>1. CASE x = e
      BY <2>3, <3>1
    <3>2. CASE x # e
      BY <2>3, <3>2 DEF EnvSame
    <3> QED  BY <3>1, <3>2
  <2>4. \A x \in Envs : (chain[x] # <<>> => chain'[x] # <<>>) /\ disk'[x] = disk[x]
    BY DEF EnvSame
  <2>5. call[d].dst # None => chain'[call[d].dst] = chain[call[d].dst] /\ disk'[call[d].dst] = disk[call[d].dst]
    <3>1. call[d].dst # None => call[d].dst \in Envs
      BY <1>1, <1>3, BusyIs
    <3> QED  BY <3>1 DEF EnvSame
  <2>6. call[d].pc \in {"walk", "merge"} /\
             ScanSound(call[d], s \in Archives, floor, chain[s], disk[s], live[s], baseline[s],
                       changed[s], since[s], s \in spoiled)
             => ScanSound(call[d], s \in Archives, floor, chain'[s], disk'[s], live'[s], baseline'[s],
                       changed'[s], since'[s], s \in spoiled')
    <3>1. CASE s = e
      BY <2>1, <3>1
    <3>2. CASE s # e
      BY <3>2 DEF EnvSame
    <3> QED  BY <3>1, <3>2
  <2> QED  BY <1>1, <1>3, <2>1, <2>2, <2>3, <2>4, <2>5, <2>6, CallKept
<1> QED  BY <1>2, <1>3

\* A merge of what was seen, S, into an environment whose layers showed B when
\* it was scanned.
Merging(F, ch, dk, lv, bl, cg, sc, tk, bad, shared, B, S, worse, bm, made) ==
    /\ F \in Trees /\ ch \in Chains /\ dk \in Trees /\ sc \in SUBSET Paths /\ S \in Trees
    /\ FilesSound(F, ch, dk, lv, bl, cg, sc, tk, bad)
    /\ lv /\ (shared => cg = {})
    /\ ~bad => /\ \/ B = Visible(ch, F) /\ (shared => ~bl)
                  \/ shared /\ bl /\ cg = {} /\ Merged(ch, F, B, dk) = Head(ch)
               /\ \A p \in Paths \ sc : S[p] = dk[p]
    /\ (bad => worse) /\ (~worse => ~Resurfacing(ch, F, NewDirectories(ch, F, S)))
    /\ bm /\ made = <<Merged(ch, F, B, S)>> \o Tail(ch)

LEMMA MergeSound ==
    ASSUME NEW F, NEW ch, NEW dk, NEW lv, NEW bl, NEW cg, NEW sc, NEW tk, NEW bad, NEW shared,
           NEW B, NEW S, NEW worse, NEW bm, NEW made,
           Merging(F, ch, dk, lv, bl, cg, sc, tk, bad, shared, B, S, worse, bm, made)
    PROVE  /\ made \in Chains /\ made # <<>>
           /\ FilesSound(F, made, dk, lv, bm, sc, sc, tk, worse)
           /\ ~worse => Tidy(made, F)
           /\ ~worse /\ shared => (made = ch /\ bl) \/ (~bl /\ B = Visible(ch, F) /\ S = dk)
<1>0. /\ F \in Trees /\ ch \in Chains /\ dk \in Trees /\ sc \in SUBSET Paths /\ S \in Trees
      /\ FilesSound(F, ch, dk, lv, bl, cg, sc, tk, bad)
      /\ lv /\ (shared => cg = {})
      /\ ~bad => /\ \/ B = Visible(ch, F) /\ (shared => ~bl)
                    \/ shared /\ bl /\ cg = {} /\ Merged(ch, F, B, dk) = Head(ch)
                 /\ \A p \in Paths \ sc : S[p] = dk[p]
      /\ (bad => worse) /\ (~worse => ~Resurfacing(ch, F, NewDirectories(ch, F, S)))
      /\ bm /\ made = <<Merged(ch, F, B, S)>> \o Tail(ch)
  BY DEF Merging
<1>1. CASE worse \/ (B = Visible(ch, F) /\ (shared => ~bl))
  <2> DEFINE h == Head(ch)
             t == Tail(ch)
  <2>1. h \in Layers /\ t \in Chains /\ ch = <<h>> \o t /\ ch # <<>> /\ dk # None
    BY <1>0, OverOf, NoneAssumption DEF FilesSound
  <2>2. /\ made \in Chains /\ made # <<>>
        /\ FilesSound(F, made, dk, lv, bm, sc, sc, tk, worse)
        /\ ~worse => Tidy(made, F)
    <3> DEFINE M == Merged(ch, F, B, S)
    <3> HIDE DEF h, t
    <3>1. M \in Layers
      BY <1>0, <2>1, MergedType
    <3>2. made = <<M>> \o t
      BY <1>0 DEF t
    <3> HIDE DEF M
    <3>3. made \in Chains /\ made # <<>> /\ Tail(made) = t
      <4>1. t \in Chains
        BY <2>1
      <4>2. <<M>> \o t \in Chains /\ <<M>> \o t # <<>> /\ Tail(<<M>> \o t) = t
        BY <3>1, <4>1, OverIs
      <4> QED  BY <3>2, <4>2
    <3>4. CASE worse
      <4>1. lv /\ bm /\ dk # None /\ (tk # None => dk = tk)
        BY <1>0, <2>1 DEF FilesSound
      <4>2. FilesSound(F, made, dk, lv, bm, sc, sc, tk, worse)
        BY <3>3, <3>4, <4>1 DEF FilesSound
      <4> QED  BY <3>3, <3>4, <4>2
    <3>5. CASE ~worse
      <4>1. Tidy(t, F)
        BY <1>0, <2>1, <3>5 DEF FilesSound, t
      <4>6. Shown(<<M>> \o t, F) = S /\ Parented(<<M>> \o t, F)
        <5>1. M = Merged(ch, F, Visible(ch, F), S) /\ ~Resurfacing(ch, F, NewDirectories(ch, F, S))
          BY <1>0, <1>1, <3>5 DEF M
        <5> QED  BY <1>0, <5>1, <2>1, MergedShows
      <4>7. Tidy(<<M>> \o t, F)
        BY <1>0, <4>1, <4>6, <2>1, <3>1, TidyOver
      <4>2. Shown(made, F) = S /\ Tidy(made, F)
        BY <1>0, <4>6, <4>7, <3>2
      <4>3. Tidy(made, F)
        BY <1>0, <4>2
      <4>4. FilesAgree(Visible(made, F), dk, Paths \ sc)
        <5>1. \A p \in Paths : IsFile(Visible(made, F)[p]) => Visible(made, F)[p] = S[p]
          <6>1. made \in Chains /\ F \in Trees
            BY <1>0, <3>3
          <6> QED  BY <6>1, <4>2, FilesShown
        <5> QED  BY <1>0, <5>1, <3>5 DEF FilesAgree
      <4>5. sc = {} => S = dk
        <5>1. SUFFICES ASSUME sc = {} PROVE S = dk
          OBVIOUS
        <5>2. \A p \in Paths : S[p] = dk[p]
          BY <1>0, <5>1, <3>5
        <5>3. S \in [Paths -> Contents \union {"dir", "absent"}] /\ dk \in [Paths -> Contents \union {"dir", "absent"}]
          BY <1>0 DEF Trees
        <5> QED  BY <1>0, <5>2, <5>3
      <4> QED  BY <1>0, <4>1, <4>2, <4>3, <4>4, <4>5, <2>1, <3>3, <3>5 DEF FilesSound
    <3> QED  BY <1>0, <3>4, <3>5
  <2>3. ~worse /\ shared => S = dk
    <3>1. SUFFICES ASSUME ~worse, shared PROVE S = dk
      OBVIOUS
    <3>2. sc = {} /\ \A p \in Paths \ sc : S[p] = dk[p]
      BY <1>0, <3>1 DEF FilesSound
    <3>3. \A p \in Paths : S[p] = dk[p]
      BY <1>0, <3>2
    <3>4. S \in [Paths -> Contents \union {"dir", "absent"}] /\ dk \in [Paths -> Contents \union {"dir", "absent"}]
      BY <1>0 DEF Trees
    <3> QED  BY <1>0, <3>3, <3>4
  <2> QED  BY <1>0, <1>1, <2>2, <2>3
<1>2. CASE ~worse /\ shared /\ bl /\ cg = {} /\ Merged(ch, F, B, dk) = Head(ch)
  <2>1. sc = {} /\ \A p \in Paths : S[p] = dk[p]
    BY <1>0, <1>2 DEF FilesSound
  <2>2. S = dk
    <3>1. S \in [Paths -> Contents \union {"dir", "absent"}] /\ dk \in [Paths -> Contents \union {"dir", "absent"}]
      BY <1>0 DEF Trees
    <3> QED  BY <1>0, <2>1, <3>1
  <2>3. ch # <<>>
    BY <1>0 DEF FilesSound
  <2>4. made = ch
    BY <1>0, <1>2, <2>2, <2>3, OverOf
  <2>5. FilesSound(F, ch, dk, lv, bm, sc, sc, tk, worse) /\ Tidy(ch, F)
    BY <1>0, <1>2, <2>1, <2>3 DEF FilesSound
  <2>6. made \in Chains /\ made # <<>> /\ Tidy(made, F)
    BY <1>0, <2>3, <2>4, <2>5
  <2>7. FilesSound(F, made, dk, lv, bm, sc, sc, tk, worse)
    BY <1>0, <2>4, <2>5
  <2> QED  BY <1>0, <1>2, <2>4, <2>6, <2>7
<1>3. CASE ~worse
  <2>1. ~bad
    BY <1>0, <1>3
  <2>2. \/ B = Visible(ch, F) /\ (shared => ~bl)
        \/ shared /\ bl /\ cg = {} /\ Merged(ch, F, B, dk) = Head(ch)
    BY <1>0, <2>1
  <2> QED  BY <1>0, <1>1, <1>2, <1>3, <2>2
<1> QED  BY <1>0, <1>1, <1>3

LEMMA AgainIs ==
    ASSUME NEW F \in Trees, NEW ch \in Chains, ch # <<>>, NEW dk \in Trees, NEW B,
           Shown(<<Merged(ch, F, B, dk)>> \o Tail(ch), F) = dk
    PROVE  Merged(<<Merged(ch, F, B, dk)>> \o Tail(ch), F, B, dk) = Head(<<Merged(ch, F, B, dk)>> \o Tail(ch))
<1>1. PICK k \in Layers, s \in Chains : ch = <<k>> \o s /\ Tail(ch) = s
  BY OverOf
<1>2. PICK h \in Layers : h = Merged(<<k>> \o s, F, B, dk)
  BY MergedType
<1>3. Head(<<h>> \o s) = h
  BY OverIs
<1>4. Shown(<<h>> \o s, F) = dk
  BY <1>1, <1>2
<1>5. Merged(<<h>> \o s, F, B, dk) = h
  BY <1>2, <1>4, MergedAgain
<1> QED  BY <1>1, <1>2, <1>3, <1>5

\* What it leaves of another caller's scan of the same archive.
Scanning(F, ch, dk, lv, bl, cg, sc, tk, bad, shared, B, S, worse, bm, made, k) ==
    /\ F \in Trees /\ ch \in Chains /\ dk \in Trees /\ sc = {} /\ shared
    /\ (bad => worse) /\ bm /\ made = <<Merged(ch, F, B, S)>> \o Tail(ch) /\ ch # <<>>
    /\ FilesSound(F, made, dk, lv, bm, sc, sc, tk, worse)
    /\ ~worse => (made = ch /\ bl) \/ (~bl /\ B = Visible(ch, F) /\ S = dk)
    /\ ScanSound(k, shared, F, ch, dk, lv, bl, cg, sc, bad)

LEMMA ScanShared ==
    ASSUME NEW F, NEW ch, NEW dk, NEW lv, NEW bl, NEW cg, NEW sc, NEW tk, NEW bad, NEW shared,
           NEW B, NEW S, NEW worse, NEW bm, NEW made, NEW k,
           Scanning(F, ch, dk, lv, bl, cg, sc, tk, bad, shared, B, S, worse, bm, made, k)
    PROVE  ScanSound(k, shared, F, made, dk, lv, bm, sc, sc, worse)
<1>0. /\ F \in Trees /\ ch \in Chains /\ dk \in Trees /\ sc = {} /\ shared
      /\ (bad => worse) /\ bm /\ made = <<Merged(ch, F, B, S)>> \o Tail(ch) /\ ch # <<>>
      /\ FilesSound(F, made, dk, lv, bm, sc, sc, tk, worse)
      /\ ~worse => (made = ch /\ bl) \/ (~bl /\ B = Visible(ch, F) /\ S = dk)
      /\ ScanSound(k, shared, F, ch, dk, lv, bl, cg, sc, bad)
  BY DEF Scanning
<1>2. CASE worse
  BY <1>0, <1>2 DEF ScanSound
<1>3. CASE ~worse /\ made = ch /\ bl
  BY <1>0, <1>3 DEF ScanSound
<1>4. CASE ~worse /\ ~bl /\ B = Visible(ch, F) /\ S = dk
  <2>1. k.before = B
    BY <1>0, <1>4 DEF ScanSound
  <2>2. Shown(made, F) = dk
    BY <1>0, <1>4 DEF FilesSound
  <2>4. made = <<Merged(ch, F, B, dk)>> \o Tail(ch)
    BY <1>0, <1>4
  <2>5. Shown(<<Merged(ch, F, B, dk)>> \o Tail(ch), F) = dk
    BY <1>0, <2>2, <2>4
  <2>3. Merged(made, F, B, dk) = Head(made)
    BY <1>0, <2>4, <2>5, AgainIs
  <2> QED  BY <1>0, <1>4, <2>1, <2>3 DEF ScanSound
<1> QED  BY <1>0, <1>2, <1>3, <1>4

LEMMA MergeMoves ==
    ASSUME IInv, NEW c \in Callers, Merge(c)
    PROVE  IInv'
<1>1. TypeInv /\ CallOK(c) /\ Apart
  BY DEF IInv
<1>2. PICK e \in Envs : e = Source(c)
  <2>1. call[c].pc # "idle"
    BY DEF Merge
  <2> QED  BY <1>1, <2>1, BusyIs
<1>3. PICK S : S = call[c].seen
  OBVIOUS
<1>4. PICK B : B = call[c].before
  OBVIOUS
<1>5. PICK new : new = <<Merged(chain[e], floor, B, S)>> \o Tail(chain[e])
  OBVIOUS
<1>6. /\ call[c].pc = "merge" /\ floor' = floor /\ disk' = disk /\ live' = live
      /\ since' = since /\ input' = input /\ took' = took /\ Onward(c)
      /\ chain' = [chain EXCEPT ![e] = new] /\ baseline' = [baseline EXCEPT ![e] = TRUE]
      /\ changed' = [changed EXCEPT ![e] = since[e]]
      /\ spoiled' = spoiled \union
            {x \in {e} : Resurfacing(chain[e], floor, NewDirectories(chain[e], floor, S))}
  BY <1>2, <1>3, <1>4, <1>5 DEF Merge, Set, Moved, Resurfaces, Resurfacing
<1>7. /\ floor \in Trees /\ chain[e] \in Chains /\ since[e] \in SUBSET Paths /\ changed[e] \in SUBSET Paths
      /\ baseline[e] \in BOOLEAN /\ live[e] \in BOOLEAN /\ EnvOK(e)
      /\ FilesSound(floor, chain[e], disk[e], live[e], baseline[e], changed[e], since[e], took[e], e \in spoiled)
      /\ e \in Archives => changed[e] = {}
  BY <1>1 DEF IInv, TypeInv, EnvOK
<1>8. ScanSound(call[c], e \in Archives, floor, chain[e], disk[e], live[e], baseline[e], changed[e],
                since[e], e \in spoiled)
  BY <1>1, <1>2, <1>6 DEF CallOK
<1>9. live[e] /\ disk[e] \in Trees /\ S \in Trees /\ chain[e] # <<>>
  <2>1. live[e] /\ S \in Trees
    BY <1>3, <1>6, <1>8 DEF ScanSound
  <2>2. disk[e] # None /\ chain[e] # <<>> /\ disk[e] \in Trees \union {None}
    BY <1>1, <1>7, <2>1 DEF FilesSound, TypeInv
  <2> QED  BY <2>1, <2>2
<1>10. e \notin spoiled =>
          /\ \/ B = Visible(chain[e], floor) /\ (e \in Archives => ~baseline[e])
             \/ e \in Archives /\ baseline[e] /\ changed[e] = {}
                  /\ Merged(chain[e], floor, B, disk[e]) = Head(chain[e])
          /\ \A p \in Paths \ since[e] : S[p] = disk[e][p]
  BY <1>3, <1>4, <1>6, <1>8 DEF ScanSound
<1>11. /\ e \in spoiled => e \in spoiled'
       /\ e \notin spoiled' => ~Resurfacing(chain[e], floor, NewDirectories(chain[e], floor, S))
       /\ \A x \in Envs : x # e => (x \in spoiled' <=> x \in spoiled)
       /\ spoiled' \in SUBSET Envs
  BY <1>1, <1>6 DEF TypeInv
<1>12. /\ new \in Chains /\ new # <<>>
       /\ FilesSound(floor, new, disk[e], live[e], TRUE, since[e], since[e], took[e], e \in spoiled')
       /\ e \notin spoiled' => Tidy(new, floor)
       /\ e \notin spoiled' /\ e \in Archives =>
             (new = chain[e] /\ baseline[e]) \/ (~baseline[e] /\ B = Visible(chain[e], floor) /\ S = disk[e])
  <2> DEFINE lvl == live[e]
             bas == baseline[e]
             was == e \in spoiled
             worst == e \in spoiled'
             both == e \in Archives
             fing == TRUE
  <2>1. Merging(floor, chain[e], disk[e], lvl, bas, changed[e], since[e], took[e], was, both,
                B, S, worst, fing, new)
    BY <1>5, <1>7, <1>9, <1>10, <1>11 DEF Merging
  <2> HIDE DEF lvl, bas, was, worst, both, fing
  <2>4. /\ new \in Chains /\ new # <<>>
        /\ FilesSound(floor, new, disk[e], lvl, fing, since[e], since[e], took[e], worst)
        /\ ~worst => Tidy(new, floor)
        /\ ~worst /\ both => (new = chain[e] /\ bas) \/ (~bas /\ B = Visible(chain[e], floor) /\ S = disk[e])
    BY <2>1, MergeSound
  <2> QED  BY <2>4 DEF lvl, bas, worst, both, fing
<1>13. /\ chain'[e] = new /\ baseline'[e] = TRUE /\ changed'[e] = since[e]
       /\ \A x \in Envs : x # e => EnvSame(x) /\ took'[x] = took[x]
                                   /\ (x \in Workplaces => input'[x] = input[x])
       /\ chain' \in [Envs -> Chains] /\ baseline' \in [Envs -> BOOLEAN]
       /\ changed' \in [Envs -> SUBSET Paths]
  <2>1. /\ chain \in [Envs -> Chains] /\ baseline \in [Envs -> BOOLEAN] /\ changed \in [Envs -> SUBSET Paths]
    BY <1>1 DEF TypeInv
  <2>2. /\ chain'[e] = new /\ baseline'[e] = TRUE /\ changed'[e] = since[e]
        /\ chain' \in [Envs -> Chains] /\ baseline' \in [Envs -> BOOLEAN]
        /\ changed' \in [Envs -> SUBSET Paths]
    BY <1>6, <1>7, <1>12, <2>1
  <2>3. \A x \in Envs : x # e => chain'[x] = chain[x] /\ baseline'[x] = baseline[x] /\ changed'[x] = changed[x]
    BY <1>6, <2>1
  <2> QED  BY <1>6, <1>11, <2>2, <2>3 DEF EnvSame
<1>14. EnvOK(e)'
  <2>1. e \in Archives => changed'[e] = {}
    BY <1>7, <1>13 DEF FilesSound
  <2> QED  BY <1>6, <1>12, <1>13, <2>1 DEF EnvOK
<1>15. /\ call' \in [Callers -> CallType] /\ \A d \in Callers : d # c => call'[d] = call[d]
       /\ call'[c] = Idle \/ (call'[c].srcs = call[c].srcs /\ call'[c].dst = call[c].dst)
       /\ CallOK(c)'
  <2>1. SourceReady(floor, new, e \in spoiled')
    BY <1>12 DEF SourceReady
  <2>2. ASSUME NEW i \in 1 .. Len(call[c].srcs), i <= call[c].at
        PROVE  SourceReady(floor', chain'[call[c].srcs[i]], call[c].srcs[i] \in spoiled')
    <3>1. PICK x \in Envs : x = call[c].srcs[i]
      BY <1>1, CallIs
    <3>2. CASE x = e
      BY <2>1, <3>1, <3>2, <1>6, <1>13
    <3>3. CASE x # e
      <4>1. i # call[c].at
        BY <1>2, <3>1, <3>3 DEF Source
      <4>2. call[c].at \in Nat
        BY <1>1, CallIs DEF CallType
      <4>3. i < call[c].at
        BY <2>2, <4>1, <4>2
      <4>4. SourceReady(floor, chain[x], x \in spoiled)
        BY <1>1, <1>6, <3>1, <4>3 DEF CallOK
      <4> QED  BY <3>1, <3>3, <4>4, <1>6, <1>13 DEF EnvSame
    <3> QED  BY <3>2, <3>3
  <2>3. call[c].kind \in {"create", "archive"} =>
               chain'[call[c].dst] = chain[call[c].dst] /\ disk'[call[c].dst] = disk[call[c].dst]
    <3>1. call[c].kind \in {"create", "archive"} => call[c].dst \in Envs /\ call[c].dst # e
      BY <1>1, <1>2, <1>6, BusyIs, NoneAssumption
    <3> QED  BY <3>1, <1>6, <1>13 DEF EnvSame
  <2>4. call[c].pc \in {"scan", "merge"} /\ Onward(c) /\ input' = input
    BY <1>6
  <2> QED  BY <1>1, <2>2, <2>3, <2>4, OnwardIs
<1>16. TypeInv'
  BY <1>1, <1>6, <1>11, <1>13, <1>15 DEF TypeInv
<1>17. Apart'
  BY <1>1, <1>15, ApartMoved
<1>18. ASSUME NEW d \in Callers PROVE CallOK(d)' \/ (call'[d] = call[d] /\ e \notin Uses(d))
  <2>1. CASE d = c
    BY <1>15, <2>1
  <2>2. CASE d # c /\ e \in Workplaces
    <3>1. e \in Uses(c) /\ e # None
      BY <1>1, <1>2, <1>6, BusyIs
    <3> QED  BY <1>1, <1>15, <2>2, <3>1, Elsewhere
  <2>3. CASE d # c /\ e \in Archives /\ e \in Uses(d)
    <3>1. e # call[d].dst
      <4>1. e \in Uses(c) /\ e # None
        BY <1>1, <1>2, <1>6, BusyIs
      <4> QED  BY <1>1, <2>3, <4>1 DEF Apart
    <3>2. SourceReady(floor, chain'[e], e \in spoiled')
      BY <1>12, <1>13 DEF SourceReady
    <3>3. ASSUME ScanSound(call[d], e \in Archives, floor, chain[e], disk[e], live[e], baseline[e],
                           changed[e], since[e], e \in spoiled)
          PROVE  ScanSound(call[d], e \in Archives, floor, chain'[e], disk'[e], live'[e], baseline'[e],
                           changed'[e], since'[e], e \in spoiled')
      <4> DEFINE lvl == live[e]
                 bas == baseline[e]
                 was == e \in spoiled
                 worst == e \in spoiled'
                 both == e \in Archives
                 fing == TRUE
                 it == call[d]
      <4>1. since[e] = {}
        BY <1>7, <2>3 DEF FilesSound
      <4>2. Scanning(floor, chain[e], disk[e], lvl, bas, changed[e], since[e], took[e], was, both,
                     B, S, worst, fing, new, it)
        BY <1>5, <1>7, <1>9, <1>11, <1>12, <2>3, <3>3, <4>1 DEF Scanning
      <4> HIDE DEF lvl, bas, was, worst, both, fing, it
      <4>4. ScanSound(it, both, floor, new, disk[e], lvl, fing, since[e], since[e], worst)
        BY <4>2, ScanShared
      <4> QED  BY <4>4, <1>6, <1>13 DEF lvl, worst, both, fing, it
    <3>4. call'[d] = call[d] /\ chain'[e] # <<>> /\ disk'[e] = disk[e] /\ \A x \in Envs : x # e => EnvSame(x)
      BY <1>6, <1>12, <1>13, <1>15, <2>3
    <3> QED  BY <1>6, <3>1, <3>2, <3>3, <3>4, SharedKept
  <2>4. CASE d # c /\ e \notin Uses(d)
    BY <1>15, <2>4
  <2> QED  BY <2>1, <2>2, <2>3, <2>4 DEF Envs
<1>19. e \in Workplaces => InputOK(e)'
  BY <1>6, <1>12, <1>13 DEF IInv, InputOK, Known
<1> QED  BY <1>6, <1>13, <1>14, <1>16, <1>17, <1>18, <1>19, OneEnvMoves

LEMMA MergeFailsMoves ==
    ASSUME IInv, NEW c \in Callers, MergeFails(c)
    PROVE  IInv'
<1>1. TypeInv /\ CallOK(c) /\ Apart
  BY DEF IInv
<1>2. PICK e \in Envs : e = Source(c)
  <2>1. call[c].pc # "idle"
    BY DEF MergeFails
  <2> QED  BY <1>1, <2>1, BusyIs
<1>20. PICK done \in SUBSET (NewDirectories(chain[Source(c)], floor, call[c].seen) \ Vanished(c)) :
         /\ Set(chain, Source(c), <<[p \in Paths |-> IF p \in done THEN "dir" ELSE Head(chain[Source(c)])[p]]>>
                              \o Tail(chain[Source(c)]))
         /\ spoiled' = spoiled \union {x \in {Source(c)} : Resurfaces(Source(c), done)}
  BY DEF MergeFails
<1>3. /\ chain' = [chain EXCEPT ![e] = <<[p \in Paths |-> IF p \in done THEN "dir" ELSE Head(chain[e])[p]]>>
                              \o Tail(chain[e])]
      /\ spoiled' = spoiled \union {x \in {e} : Resurfacing(chain[e], floor, done)}
  BY <1>2, <1>20 DEF Set, Resurfaces, Resurfacing
<1>4. PICK new : new = <<[p \in Paths |-> IF p \in done THEN "dir" ELSE Head(chain[e])[p]]>> \o Tail(chain[e])
  OBVIOUS
<1>5. /\ call[c].pc = "merge" /\ floor' = floor /\ disk' = disk /\ live' = live /\ baseline' = baseline
      /\ changed' = changed /\ since' = since /\ input' = input /\ took' = took /\ GiveUp(c)
      /\ chain' = [chain EXCEPT ![e] = new] /\ Vanished(c) # {}
  BY <1>3, <1>4 DEF MergeFails
<1>6. /\ floor \in Trees /\ chain[e] \in Chains /\ live[e] \in BOOLEAN /\ EnvOK(e)
      /\ FilesSound(floor, chain[e], disk[e], live[e], baseline[e], changed[e], since[e], took[e], e \in spoiled)
      /\ e \in Archives => changed[e] = {}
  BY <1>1 DEF IInv, TypeInv, EnvOK
<1>7. ScanSound(call[c], e \in Archives, floor, chain[e], disk[e], live[e], baseline[e], changed[e],
                since[e], e \in spoiled)
  BY <1>1, <1>2, <1>5 DEF CallOK
<1>8. live[e] /\ disk[e] \in Trees /\ chain[e] # <<>>
  <2>1. live[e]
    BY <1>7 DEF ScanSound
  <2>2. disk[e] # None /\ chain[e] # <<>> /\ disk[e] \in Trees \union {None}
    BY <1>1, <1>6, <2>1 DEF FilesSound, TypeInv
  <2> QED  BY <2>1, <2>2
<1>9. e \notin spoiled => changed[e] # {} /\ e \notin Archives
  <2>1. SUFFICES ASSUME e \notin spoiled PROVE changed[e] # {}
    BY <1>6
  <2>2. PICK p \in Paths : call[c].seen[p] = "dir" /\ disk[e][p] = "absent"
    BY <1>2, <1>5 DEF Vanished
  <2>3. call[c].seen[p] # disk[e][p]
    BY <2>2
  <2>4. p \in since[e]
    BY <1>5, <1>7, <2>1, <2>3 DEF ScanSound
  <2> QED  BY <1>6, <2>4 DEF FilesSound
<1>10. done \in SUBSET Paths
  BY DEF NewDirectories
<1>11. /\ e \in spoiled => e \in spoiled'
       /\ e \notin spoiled' => ~Resurfacing(chain[e], floor, done)
       /\ \A x \in Envs : x # e => (x \in spoiled' <=> x \in spoiled)
       /\ spoiled' \in SUBSET Envs
  BY <1>1, <1>3 DEF TypeInv
<1>12. /\ new \in Chains /\ new # <<>>
       /\ FilesSound(floor, new, disk[e], live[e], baseline[e], changed[e], since[e], took[e], e \in spoiled')
  <2> DEFINE lvl == live[e]
             bas == baseline[e]
             was == e \in spoiled
             worst == e \in spoiled'
  <2>1. Halving(floor, chain[e], disk[e], lvl, bas, changed[e], since[e], took[e], was, done, worst, new)
    BY <1>4, <1>6, <1>8, <1>9, <1>10, <1>11 DEF Halving
  <2> HIDE DEF lvl, bas, was, worst
  <2>2. /\ new \in Chains /\ new # <<>>
        /\ FilesSound(floor, new, disk[e], lvl, bas, changed[e], since[e], took[e], worst)
    BY <2>1, FilesHalfMerged
  <2> QED  BY <2>2 DEF lvl, bas, worst
<1>13. /\ chain'[e] = new /\ chain' \in [Envs -> Chains]
       /\ \A x \in Envs : x # e => EnvSame(x) /\ took'[x] = took[x]
                                   /\ (x \in Workplaces => input'[x] = input[x])
  <2>1. chain \in [Envs -> Chains]
    BY <1>1 DEF TypeInv
  <2>2. chain'[e] = new /\ chain' \in [Envs -> Chains] /\ \A x \in Envs : x # e => chain'[x] = chain[x]
    BY <1>5, <1>12, <2>1
  <2> QED  BY <1>5, <1>11, <2>2 DEF EnvSame
<1>14. EnvOK(e)'
  BY <1>5, <1>6, <1>12, <1>13 DEF EnvOK
<1>15. /\ call' \in [Callers -> CallType] /\ \A d \in Callers : d # c => call'[d] = call[d]
       /\ call'[c] = Idle
  BY <1>1, <1>5, GiveUpIs
<1>16. TypeInv'
  BY <1>1, <1>5, <1>11, <1>13, <1>15 DEF TypeInv
<1>17. Apart'
  BY <1>1, <1>15, ApartMoved
<1>18. ASSUME NEW d \in Callers PROVE CallOK(d)' \/ (call'[d] = call[d] /\ e \notin Uses(d))
  <2>5. e \in Uses(c) /\ e # None
    BY <1>1, <1>2, <1>5, BusyIs
  <2>1. CASE d = c
    BY <1>15, <2>1, CallIdle
  <2>2. CASE d # c /\ e \in Workplaces
    BY <1>1, <1>15, <2>2, <2>5, Elsewhere
  <2>3. CASE d # c /\ e \in Archives /\ e \in Uses(d)
    <3>1. e # call[d].dst
      BY <1>1, <2>3, <2>5 DEF Apart
    <3>2. e \in spoiled /\ e \in spoiled'
      BY <1>9, <1>11, <2>3
    <3>3. SourceReady(floor, chain'[e], e \in spoiled')
      BY <1>12, <1>13, <3>2 DEF SourceReady
    <3>4. ScanSound(call[d], e \in Archives, floor, chain[e], disk[e], live[e], baseline[e],
                           changed[e], since[e], e \in spoiled)
          => ScanSound(call[d], e \in Archives, floor, chain'[e], disk'[e], live'[e], baseline'[e],
                           changed'[e], since'[e], e \in spoiled')
      BY <1>5, <3>2 DEF ScanSound
    <3>5. call'[d] = call[d] /\ chain'[e] # <<>> /\ disk'[e] = disk[e] /\ \A x \in Envs : x # e => EnvSame(x)
      BY <1>5, <1>12, <1>13, <1>15, <2>3
    <3> QED  BY <1>5, <3>1, <3>3, <3>4, <3>5, SharedKept
  <2>4. CASE d # c /\ e \notin Uses(d)
    BY <1>15, <2>4
  <2> QED  BY <2>1, <2>2, <2>3, <2>4 DEF Envs
<1>19. e \in Workplaces => InputOK(e)'
  BY <1>5, <1>12, <1>13 DEF IInv, InputOK, Known
<1> QED  BY <1>5, <1>13, <1>14, <1>16, <1>17, <1>18, <1>19, OneEnvMoves

LEMMA CreateMoves ==
    ASSUME IInv, NEW c \in Callers, Create(c)
    PROVE  IInv'
<1>1. TypeInv /\ CallOK(c) /\ Apart
  BY DEF IInv
<1>2. call[c].pc = "commit" /\ call[c].kind \in {"create", "archive"}
  BY DEF Create
<1>3. PICK s \in Envs, e \in Envs : s = Source(c) /\ e = call[c].dst /\ e # s
  BY <1>1, <1>2, BusyIs, NoneAssumption
<1>4. e # None /\ e \in Uses(c)
  BY <1>1, <1>2, <1>3, BusyIs, NoneAssumption
<1>5. /\ floor' = floor /\ disk' = disk /\ live' = live /\ baseline' = baseline /\ changed' = changed
      /\ since' = since /\ input' = input
      /\ chain' = [chain EXCEPT ![e] = <<Empty>> \o chain[s]]
      /\ took' = [took EXCEPT ![e] = Owed(s)]
      /\ spoiled' = IF s \in spoiled THEN spoiled \union {e} ELSE spoiled
      /\ IF call[c].kind = "archive" THEN Goto(c, "copy") ELSE GiveUp(c)
  BY <1>3 DEF Create, Set, Snapshot
<1>6. /\ floor \in Trees /\ chain[s] \in Chains /\ EnvOK(s) /\ EnvOK(e)
      /\ baseline[s] \in BOOLEAN /\ baseline[e] \in BOOLEAN /\ live[e] \in BOOLEAN
  BY <1>1 DEF IInv, TypeInv
<1>7. chain[s] # <<>> /\ (s \notin spoiled => Tidy(chain[s], floor))
      /\ chain[e] = <<>> /\ disk[e] = None
  <2>1. CallShape(call[c])
    BY <1>1 DEF CallOK
  <2>2. call[c].at \in 1 .. Len(call[c].srcs)
    BY <1>2, <2>1 DEF CallShape
  <2>3. SourceReady(floor, chain[s], s \in spoiled)
    BY <1>1, <1>2, <1>3, <2>2 DEF CallOK, Source
  <2> QED  BY <1>1, <1>2, <1>3, <2>3 DEF CallOK, Known, SourceReady
<1>8. ~live[e] /\ ~baseline[e] /\ since[e] \subseteq changed[e] /\ (e \in Archives => changed[e] = {})
  BY <1>6, <1>7 DEF EnvOK, FilesSound
<1>9. Owed(s) # None => Tidy(chain[s], floor) /\ Shown(chain[s], floor) = Owed(s)
  BY <1>6, <1>7, OwedIs DEF Known
<1>10. /\ s \notin spoiled \/ e \in spoiled'
       /\ \A x \in Envs : x # e => (x \in spoiled' <=> x \in spoiled)
       /\ spoiled' \in SUBSET Envs
  BY <1>1, <1>3, <1>5 DEF TypeInv
<1>11. /\ <<Empty>> \o chain[s] \in Chains /\ <<Empty>> \o chain[s] # <<>>
       /\ FilesSound(floor, <<Empty>> \o chain[s], None, live[e], baseline[e], changed[e], since[e], Owed(s),
                     e \in spoiled')
  <2> DEFINE lvl == live[e]
             bas == baseline[e]
             worst == e \in spoiled'
  <2>1. Empty \in Layers /\ Writes(Empty) = {}
    BY WritesNothing
  <2>2. Copying(floor, chain[s], Empty, lvl, bas, changed[e], since[e], Owed(s), worst)
    BY <1>6, <1>7, <1>8, <1>9, <1>10, <2>1 DEF Copying
  <2> HIDE DEF lvl, bas, worst
  <2>3. /\ <<Empty>> \o chain[s] \in Chains /\ <<Empty>> \o chain[s] # <<>>
        /\ FilesSound(floor, <<Empty>> \o chain[s], None, lvl, bas, changed[e], since[e], Owed(s), worst)
    BY <2>2, FilesCopied
  <2> QED  BY <2>3 DEF lvl, bas, worst
<1>12. Owed(s) \in Trees \union {None}
  <2>1. Owed(s) \in {None, took[s], disk[s]}
    BY DEF Owed
  <2> QED  BY <1>1, <2>1 DEF TypeInv
<1>13. /\ chain'[e] = <<Empty>> \o chain[s] /\ took'[e] = Owed(s) /\ chain' \in [Envs -> Chains]
       /\ took' \in [Envs -> Trees \union {None}]
       /\ \A x \in Envs : x # e => EnvSame(x) /\ took'[x] = took[x]
                                   /\ (x \in Workplaces => input'[x] = input[x])
  <2>1. chain \in [Envs -> Chains] /\ took \in [Envs -> Trees \union {None}]
    BY <1>1 DEF TypeInv
  <2>2. /\ chain'[e] = <<Empty>> \o chain[s] /\ took'[e] = Owed(s)
        /\ chain' \in [Envs -> Chains] /\ took' \in [Envs -> Trees \union {None}]
    BY <1>5, <1>11, <1>12, <2>1
  <2>3. \A x \in Envs : x # e => chain'[x] = chain[x] /\ took'[x] = took[x]
    BY <1>5, <2>1
  <2> QED  BY <1>5, <1>10, <2>2, <2>3 DEF EnvSame
<1>14. EnvOK(e)'
  BY <1>5, <1>7, <1>8, <1>11, <1>13 DEF EnvOK
<1>15. /\ call' \in [Callers -> CallType] /\ \A d \in Callers : d # c => call'[d] = call[d]
       /\ call'[c] = Idle \/ (call'[c].srcs = call[c].srcs /\ call'[c].dst = call[c].dst)
       /\ CallOK(c)'
  <2>1. CASE call[c].kind = "archive"
    <3>1. Goto(c, "copy") /\ "copy" \in Pcs
      BY <1>5, <2>1 DEF Pcs
    <3>2. /\ call' \in [Callers -> CallType] /\ \A d \in Callers : d # c => call'[d] = call[d]
          /\ call'[c].pc = "copy" /\ call'[c].kind = call[c].kind /\ call'[c].srcs = call[c].srcs
          /\ call'[c].at = call[c].at /\ call'[c].dst = call[c].dst
      BY <1>1, <3>1, GotoIs
    <3>3. CallShape(call[c])
      BY <1>1 DEF CallOK
    <3>4. CallShape(call'[c])
      BY <1>2, <2>1, <3>2, <3>3 DEF CallShape
    <3>5. \A i \in 1 .. Len(call[c].srcs) : ~(i < call[c].at)
      <4>1. Len(call[c].srcs) = 1 /\ call[c].at \in 1 .. Len(call[c].srcs)
        BY <1>2, <3>3 DEF CallShape
      <4> QED  BY <4>1
    <3>6. CallOK(c)'
      BY <1>3, <1>11, <1>13, <2>1, <3>2, <3>4, <3>5 DEF CallOK, Known
    <3> QED  BY <3>2, <3>6
  <2>2. CASE call[c].kind # "archive"
    BY <1>1, <1>5, <2>2, GiveUpIs, CallIdle
  <2> QED  BY <2>1, <2>2
<1>16. TypeInv'
  BY <1>1, <1>5, <1>10, <1>13, <1>15 DEF TypeInv
<1>17. Apart'
  BY <1>1, <1>15, ApartMoved
<1>18. \A d \in Callers : CallOK(d)' \/ (call'[d] = call[d] /\ e \notin Uses(d))
  BY <1>1, <1>3, <1>4, <1>15, Elsewhere
<1>19. e \in Workplaces => InputOK(e)'
  BY <1>5, <1>11, <1>13 DEF IInv, InputOK, Known
<1> QED  BY <1>5, <1>13, <1>14, <1>16, <1>17, <1>18, <1>19, OneEnvMoves

LEMMA OpenedIs ==
    ASSUME IInv, NEW e \in Envs, Known(e), Opened(e)
    PROVE  /\ disk' \in [Envs -> Trees \union {None}]
           /\ live' \in [Envs -> BOOLEAN] /\ baseline' \in [Envs -> BOOLEAN]
           /\ changed' \in [Envs -> SUBSET Paths] /\ since' \in [Envs -> SUBSET Paths]
           /\ \A x \in Envs : x # e => /\ disk'[x] = disk[x] /\ live'[x] = live[x] /\ baseline'[x] = baseline[x]
                                       /\ changed'[x] = changed[x] /\ since'[x] = since[x]
           /\ FilesSound(floor, chain[e], disk'[e], live'[e], baseline'[e], changed'[e], since'[e],
                         took[e], e \in spoiled)
           /\ e \in Archives => changed'[e] = {}
<1>1. /\ floor \in Trees /\ chain[e] \in Chains /\ chain[e] # <<>>
      /\ disk \in [Envs -> Trees \union {None}]
      /\ live \in [Envs -> BOOLEAN] /\ baseline \in [Envs -> BOOLEAN]
      /\ changed \in [Envs -> SUBSET Paths] /\ since \in [Envs -> SUBSET Paths]
  BY DEF IInv, TypeInv, Known
<1>2. /\ FilesSound(floor, chain[e], disk[e], live[e], baseline[e], changed[e], since[e], took[e], e \in spoiled)
      /\ e \in Archives => changed[e] = {}
  BY DEF IInv, EnvOK
<1>3. live' = [live EXCEPT ![e] = TRUE]
  BY DEF Opened, Set
<1>4. live' \in [Envs -> BOOLEAN] /\ live'[e] = TRUE /\ \A x \in Envs : x # e => live'[x] = live[x]
  BY <1>1, <1>3
<1>5. CASE disk[e] # None
  <2>1. disk' = disk /\ baseline' = baseline /\ changed' = changed /\ since' = since
    BY <1>5 DEF Opened
  <2>2. live[e]
    BY <1>1, <1>2, <1>5 DEF FilesSound
  <2>3. live'[e] = live[e]
    BY <1>1, <1>4, <2>2
  <2> QED  BY <1>1, <1>2, <1>4, <2>1, <2>3
<1>6. CASE disk[e] = None
  <2>1. /\ Renders(chain[e], floor) /\ disk' = [disk EXCEPT ![e] = Rendered(chain[e], floor)]
        /\ baseline' = [baseline EXCEPT ![e] = TRUE]
        /\ changed' = [changed EXCEPT ![e] = {}] /\ since' = [since EXCEPT ![e] = {}]
    BY <1>6 DEF Opened, Set
  <2>2. /\ Rendered(chain[e], floor) \in Trees
        /\ FilesSound(floor, chain[e], Rendered(chain[e], floor), TRUE, TRUE, {}, {}, took[e], e \in spoiled)
    <3> DEFINE lvl == live[e]
               bas == baseline[e]
               was == e \in spoiled
               opened == TRUE
    <3>1. Rendering(floor, chain[e], lvl, bas, changed[e], since[e], took[e], was, opened, opened)
      BY <1>1, <1>2, <1>6, <2>1 DEF Rendering
    <3> HIDE DEF lvl, bas, was, opened
    <3>2. /\ Rendered(chain[e], floor) \in Trees
          /\ FilesSound(floor, chain[e], Rendered(chain[e], floor), opened, opened, {}, {}, took[e], was)
      BY <3>1, FilesRendered
    <3> QED  BY <3>2 DEF opened, was
  <2>3. /\ disk'[e] = Rendered(chain[e], floor) /\ baseline'[e] = TRUE /\ changed'[e] = {} /\ since'[e] = {}
        /\ baseline' \in [Envs -> BOOLEAN]
        /\ changed' \in [Envs -> SUBSET Paths] /\ since' \in [Envs -> SUBSET Paths]
    BY <1>1, <2>1
  <2>4. disk' \in [Envs -> Trees \union {None}]
    BY <1>1, <2>1, <2>2
  <2>5. \A x \in Envs : x # e => /\ disk'[x] = disk[x] /\ baseline'[x] = baseline[x]
                                 /\ changed'[x] = changed[x] /\ since'[x] = since[x]
    BY <1>1, <2>1
  <2> QED  BY <1>4, <2>2, <2>3, <2>4, <2>5
<1> QED  BY <1>5, <1>6

LEMMA MaterializeMoves ==
    ASSUME IInv, NEW e \in Workplaces, Materialize(e)
    PROVE  IInv'
<1>1. /\ Known(e) /\ Opened(e) /\ \A d \in Callers : e \notin Uses(d)
      /\ floor' = floor /\ chain' = chain /\ input' = input /\ call' = call /\ took' = took /\ spoiled' = spoiled
  BY DEF Materialize, ghosts
<1>2. e \in Envs /\ TypeInv /\ Apart
  BY DEF Envs, IInv
<1>3. /\ disk' \in [Envs -> Trees \union {None}]
      /\ live' \in [Envs -> BOOLEAN] /\ baseline' \in [Envs -> BOOLEAN]
      /\ changed' \in [Envs -> SUBSET Paths] /\ since' \in [Envs -> SUBSET Paths]
      /\ \A x \in Envs : x # e => /\ disk'[x] = disk[x] /\ live'[x] = live[x] /\ baseline'[x] = baseline[x]
                                  /\ changed'[x] = changed[x] /\ since'[x] = since[x]
      /\ FilesSound(floor, chain[e], disk'[e], live'[e], baseline'[e], changed'[e], since'[e],
                         took[e], e \in spoiled)
      /\ e \in Archives => changed'[e] = {}
  BY <1>1, <1>2, OpenedIs
<1>4. TypeInv'
  BY <1>1, <1>2, <1>3 DEF TypeInv
<1>5. EnvOK(e)'
  BY <1>1, <1>3 DEF EnvOK
<1>6. Apart'
  BY <1>1, <1>2 DEF Apart, Uses
<1>7. InputOK(e)'
  BY <1>1 DEF IInv, InputOK, Known
<1>8. \A x \in Envs : x # e => EnvSame(x) /\ took'[x] = took[x] /\ (x \in Workplaces => input'[x] = input[x])
  BY <1>1, <1>3 DEF EnvSame
<1> QED  BY <1>1, <1>2, <1>4, <1>5, <1>6, <1>7, <1>8, OneEnvMoves

LEMMA RenderArchiveMoves ==
    ASSUME IInv, NEW c \in Callers, RenderArchive(c)
    PROVE  IInv'
<1>1. TypeInv /\ CallOK(c) /\ Apart
  BY DEF IInv
<1>2. /\ call[c].pc = "copy" /\ Opened(call[c].dst) /\ GiveUp(c)
      /\ floor' = floor /\ chain' = chain /\ input' = input /\ took' = took /\ spoiled' = spoiled
  BY DEF RenderArchive, ghosts
<1>3. Known(call[c].dst) /\ call[c].kind \in {"create", "archive"}
  BY <1>1, <1>2 DEF CallOK, CallShape
<1>4. PICK e \in Envs : e = call[c].dst
  BY <1>1, <1>2, <1>3, BusyIs
<1>5. e # None /\ e \in Uses(c)
  BY <1>1, <1>2, <1>4, BusyIs, NoneAssumption
<1>6. /\ disk' \in [Envs -> Trees \union {None}]
      /\ live' \in [Envs -> BOOLEAN] /\ baseline' \in [Envs -> BOOLEAN]
      /\ changed' \in [Envs -> SUBSET Paths] /\ since' \in [Envs -> SUBSET Paths]
      /\ \A x \in Envs : x # e => /\ disk'[x] = disk[x] /\ live'[x] = live[x] /\ baseline'[x] = baseline[x]
                                  /\ changed'[x] = changed[x] /\ since'[x] = since[x]
      /\ FilesSound(floor, chain[e], disk'[e], live'[e], baseline'[e], changed'[e], since'[e],
                         took[e], e \in spoiled)
      /\ e \in Archives => changed'[e] = {}
  <2>1. Known(e) /\ Opened(e)
    BY <1>2, <1>3, <1>4
  <2> QED  BY <2>1, OpenedIs
<1>7. /\ call' \in [Callers -> CallType] /\ \A d \in Callers : d # c => call'[d] = call[d]
      /\ call'[c] = Idle
  BY <1>1, <1>2, GiveUpIs
<1>8. TypeInv'
  BY <1>1, <1>2, <1>6, <1>7 DEF TypeInv
<1>9. EnvOK(e)'
  BY <1>2, <1>6 DEF EnvOK
<1>10. Apart'
  BY <1>1, <1>7, ApartMoved
<1>11. e \in Workplaces => InputOK(e)'
  BY <1>2 DEF IInv, InputOK, Known
<1>12. \A x \in Envs : x # e => EnvSame(x) /\ took'[x] = took[x] /\ (x \in Workplaces => input'[x] = input[x])
  BY <1>2, <1>6 DEF EnvSame
<1>13. \A d \in Callers : CallOK(d)' \/ (call'[d] = call[d] /\ e \notin Uses(d))
  BY <1>1, <1>4, <1>5, <1>7, CallIdle, Elsewhere
<1> QED  BY <1>2, <1>8, <1>9, <1>10, <1>11, <1>12, <1>13, OneEnvMoves

LEMMA RenderFailsMoves ==
    ASSUME IInv, NEW c \in Callers, RenderFails(c)
    PROVE  IInv'
<1>1. TypeInv /\ CallOK(c) /\ Apart
  BY DEF IInv
<1>2. call[c].pc = "copy" /\ Forget(call[c].dst) /\ GiveUp(c) /\ floor' = floor
  BY DEF RenderFails
<1>3. call[c].kind \in {"create", "archive"}
  BY <1>1, <1>2 DEF CallOK, CallShape
<1>4. PICK e \in Envs : e = call[c].dst
  BY <1>1, <1>2, <1>3, BusyIs
<1>5. e # None /\ e \in Uses(c)
  BY <1>1, <1>2, <1>4, BusyIs, NoneAssumption
<1>6. /\ chain' \in [Envs -> Chains] /\ disk' \in [Envs -> Trees \union {None}]
      /\ live' \in [Envs -> BOOLEAN] /\ baseline' \in [Envs -> BOOLEAN]
      /\ changed' \in [Envs -> SUBSET Paths] /\ since' \in [Envs -> SUBSET Paths]
      /\ took' \in [Envs -> Trees \union {None}] /\ spoiled' \in SUBSET Envs
      /\ input' = [t \in Workplaces |-> input'[t]]
      /\ chain'[e] = <<>> /\ disk'[e] = None /\ ~live'[e] /\ ~baseline'[e]
      /\ changed'[e] = {} /\ since'[e] = {} /\ took'[e] = None
      /\ \A x \in Envs : x # e => EnvSame(x) /\ took'[x] = took[x]
                                  /\ (x \in Workplaces => input'[x] = input[x])
      /\ e \in Workplaces => input'[e] = None
  BY <1>1, <1>2, <1>4, ForgetIs
<1>7. /\ call' \in [Callers -> CallType] /\ \A d \in Callers : d # c => call'[d] = call[d]
      /\ call'[c] = Idle
  BY <1>1, <1>2, GiveUpIs
<1>8. TypeInv'
  BY <1>1, <1>2, <1>6, <1>7 DEF TypeInv
<1>9. EnvOK(e)'
  BY <1>6 DEF EnvOK, FilesSound
<1>10. Apart'
  BY <1>1, <1>7, ApartMoved
<1>11. e \in Workplaces => InputOK(e)'
  BY <1>6 DEF InputOK
<1>13. \A d \in Callers : CallOK(d)' \/ (call'[d] = call[d] /\ e \notin Uses(d))
  BY <1>1, <1>4, <1>5, <1>7, CallIdle, Elsewhere
<1> QED  BY <1>2, <1>6, <1>8, <1>9, <1>10, <1>11, <1>13, OneEnvMoves

LEMMA CandidateIs ==
    ASSUME NEW v \in Views, NEW P \in SUBSET Paths
    PROVE  Candidate(v, P) \in Layers
BY DEF Candidate, Views, Layers

LEMMA AtMostOne ==
    ASSUME NEW n \in Nat, 1 \in 1 .. n, ~(n > 1)
    PROVE  n = 1
OBVIOUS

LEMMA PreparedIs ==
    ASSUME TypeInv, NEW c \in Callers, CallOK(c), call[c].pc = "commit"
    PROVE  /\ \A i \in DOMAIN Prepared(c).from : Prepared(c).from[i] \in Chains /\ Prepared(c).from[i] # <<>>
           /\ Tail(Prepared(c).from[1]) = <<Undecided(Prepared(c).paths)>> \o chain[call[c].srcs[1]]
           /\ Prepared(c).paths \in SUBSET Paths
           /\ Len(call[c].srcs) = 1 => Prepared(c).paths = {}
<1> DEFINE srcs == call[c].srcs
           views == [i \in DOMAIN srcs |-> Visible(chain[srcs[i]], floor)]
           paths == Differing({views[i] : i \in DOMAIN views})
           base == <<Undecided(paths)>> \o chain[srcs[1]]
           from == [i \in DOMAIN views |-> <<Candidate(views[i], paths)>> \o base]
<1>1. /\ DOMAIN srcs = 1 .. Len(srcs) /\ \A i \in 1 .. Len(srcs) : srcs[i] \in Envs
      /\ Len(srcs) \in Nat /\ floor \in Trees /\ chain \in [Envs -> Chains]
  BY CallIs DEF TypeInv
<1>2. 1 \in DOMAIN srcs
  <2>1. call[c].at \in 1 .. Len(srcs)
    BY DEF CallOK, CallShape
  <2> QED  BY <1>1, <2>1
<1>3. Prepared(c).from = from /\ Prepared(c).paths = paths
  BY DEF Prepared
<1> HIDE DEF srcs
<1>4. \A i \in DOMAIN srcs : views[i] = Visible(chain[srcs[i]], floor) /\ views[i] \in Views
  BY <1>1, ViewIs
<1>5. paths \in SUBSET Paths
  BY DEF Differing
<1>6. Len(srcs) = 1 => paths = {}
  <2>1. SUFFICES ASSUME Len(srcs) = 1, NEW v \in {views[i] : i \in DOMAIN views},
                        NEW w \in {views[i] : i \in DOMAIN views}
                 PROVE  v = w
    BY DEF Differing
  <2>2. DOMAIN views = {1}
    BY <1>1, <2>1
  <2> QED  BY <2>1, <2>2
<1>7. \A i \in DOMAIN srcs : from[i] = <<Candidate(views[i], paths)>> \o base
  OBVIOUS
<1>8. DOMAIN from = DOMAIN srcs
  OBVIOUS
<1> HIDE DEF from, views, paths
<1>9. base \in Chains
  <2>1. chain[srcs[1]] \in Chains
    BY <1>1, <1>2
  <2> QED  BY <2>1, <1>5, WritesNothing, OverIs
<1> HIDE DEF base
<1>10. \A i \in DOMAIN srcs : from[i] \in Chains /\ from[i] # <<>> /\ Tail(from[i]) = base
  <2>1. SUFFICES ASSUME NEW i \in DOMAIN srcs
                 PROVE  from[i] \in Chains /\ from[i] # <<>> /\ Tail(from[i]) = base
    OBVIOUS
  <2>2. Candidate(views[i], paths) \in Layers
    BY <1>4, <1>5, CandidateIs
  <2>3. PICK own \in Layers : own = Candidate(views[i], paths)
    BY <2>2
  <2>4. PICK rest \in Chains : rest = base
    BY <1>9
  <2>5. <<own>> \o rest \in Chains /\ <<own>> \o rest # <<>> /\ Tail(<<own>> \o rest) = rest
    BY OverIs
  <2>6. from[i] = <<own>> \o rest
    BY <1>7, <2>3, <2>4
  <2> QED  BY <2>4, <2>5, <2>6
<1> QED  BY <1>2, <1>3, <1>5, <1>6, <1>8, <1>10 DEF base, srcs

LEMMA PrepareMoves ==
    ASSUME IInv, NEW c \in Callers, Prepare(c)
    PROVE  IInv'
<1>1. TypeInv /\ CallOK(c) /\ Apart
  BY DEF IInv
<1>2. /\ call[c].pc = "commit" /\ call[c].kind = "prepare"
      /\ floor' = floor /\ disk' = disk /\ baseline' = baseline /\ changed' = changed /\ since' = since
      /\ GiveUp(c)
  BY DEF Prepare
<1>3. PICK e \in Workplaces : e = call[c].dst
  BY <1>1, <1>2 DEF CallOK, CallShape
<1>4. e \in Envs /\ e # None /\ e \in Uses(c)
  BY <1>1, <1>2, <1>3, BusyIs, NoneAssumption DEF Envs
<1>5. /\ call' \in [Callers -> CallType] /\ \A d \in Callers : d # c => call'[d] = call[d]
      /\ call'[c] = Idle
  BY <1>1, <1>2, GiveUpIs
<1>6. Apart' /\ CallOK(c)'
  BY <1>1, <1>5, ApartMoved, CallIdle
<1>7. \A d \in Callers : CallOK(d)' \/ (call'[d] = call[d] /\ e \notin Uses(d))
  BY <1>1, <1>3, <1>4, <1>5, <1>6, Elsewhere
<1>8. /\ \A i \in DOMAIN Prepared(c).from : Prepared(c).from[i] \in Chains /\ Prepared(c).from[i] # <<>>
      /\ Tail(Prepared(c).from[1]) = <<Undecided(Prepared(c).paths)>> \o chain[call[c].srcs[1]]
      /\ Prepared(c).paths \in SUBSET Paths
      /\ Len(call[c].srcs) = 1 => Prepared(c).paths = {}
  BY <1>1, <1>2, PreparedIs
<1>9. /\ floor \in Trees /\ chain \in [Envs -> Chains] /\ live \in [Envs -> BOOLEAN] /\ EnvOK(e)
      /\ baseline[e] \in BOOLEAN /\ input = [t \in Workplaces |-> input[t]]
      /\ FilesSound(floor, chain[e], disk[e], live[e], baseline[e], changed[e], since[e], took[e], e \in spoiled)
      /\ e \notin Archives
  BY <1>1, <1>4, WorkspacesAssumption DEF IInv, TypeInv, EnvOK
<1>10. CASE /\ chain' = chain /\ live' = live /\ input' = input /\ took' = took /\ spoiled' = spoiled
  BY <1>2, <1>5, <1>6, <1>10, OnlyCalls
<1>11. CASE /\ Known(e) \/ disk[e] # None
            /\ chain' = [chain EXCEPT ![e] = IF Known(e) THEN chain[e] ELSE <<Empty>>]
            /\ live' = [live EXCEPT ![e] = live[e] \/ ~Known(e)]
            /\ input' = [input EXCEPT ![e] = Prepared(c)]
            /\ took' = took
            /\ spoiled' = IF \E i \in DOMAIN call[c].srcs : call[c].srcs[i] \in spoiled
                          THEN spoiled \union {e} ELSE spoiled
  <2>1. <<Empty>> \in Chains /\ <<Empty>> # <<>>
    BY <1>9, EmptyAlone
  <2>2. /\ chain'[e] = IF Known(e) THEN chain[e] ELSE <<Empty>>
        /\ live'[e] = (live[e] \/ ~Known(e))
        /\ chain' \in [Envs -> Chains] /\ live' \in [Envs -> BOOLEAN]
        /\ \A x \in Envs : x # e => chain'[x] = chain[x] /\ live'[x] = live[x]
    BY <1>4, <1>9, <1>11, <2>1
  <2>3. /\ input' = [t \in Workplaces |-> input'[t]] /\ input'[e] = Prepared(c)
        /\ \A x \in Workplaces : x # e => input'[x] = input[x]
    BY <1>9, <1>11
  <2>9. /\ e \in spoiled => e \in spoiled'
        /\ \A x \in Envs : x # e => (x \in spoiled' <=> x \in spoiled)
        /\ spoiled' \in SUBSET Envs
    BY <1>1, <1>4, <1>11 DEF TypeInv
  <2>4. FilesSound(floor, chain'[e], disk[e], live'[e], baseline[e], changed[e], since[e], took[e], e \in spoiled')
    <3>1. CASE Known(e)
      <4>1. chain'[e] = chain[e] /\ live'[e] = live[e]
        BY <1>4, <1>9, <2>2, <3>1
      <4> QED  BY <4>1, <1>9, <2>9 DEF FilesSound
    <3>2. CASE ~Known(e)
      <4>1. chain'[e] = <<Empty>> /\ live'[e] /\ disk[e] # None /\ chain[e] = <<>>
        BY <1>11, <2>2, <3>2 DEF Known
      <4>2. Tidy(Tail(<<Empty>>), floor) /\ <<Empty>> # <<>>
        BY <1>9, EmptyAlone
      <4>3. ~baseline[e]
        BY <1>9, <4>1 DEF FilesSound
      <4> QED  BY <4>1, <4>2, <4>3, <1>9, <2>9 DEF FilesSound
    <3> QED  BY <3>1, <3>2
  <2>5. EnvOK(e)'
    BY <1>2, <1>9, <1>11, <2>4 DEF EnvOK
  <2>6. InputOK(e)'
    BY <1>8, <2>1, <2>2, <2>3 DEF InputOK, Known
  <2>7. TypeInv'
    BY <1>1, <1>2, <1>5, <1>11, <2>2, <2>3, <2>9 DEF TypeInv
  <2>8. \A x \in Envs : x # e => EnvSame(x) /\ took'[x] = took[x] /\ (x \in Workplaces => input'[x] = input[x])
    BY <1>2, <1>11, <2>2, <2>3, <2>9 DEF EnvSame
  <2> QED  BY <1>2, <1>4, <1>6, <1>7, <2>5, <2>6, <2>7, <2>8, OneEnvMoves
<1>12. CASE /\ ~Known(e) /\ disk[e] = None
            /\ chain' = [chain EXCEPT ![e] = Tail(Prepared(c).from[1])]
            /\ input' = [input EXCEPT ![e] = Prepared(c)]
            /\ took' = [took EXCEPT ![e] = IF Len(call[c].srcs) > 1 THEN None ELSE Owed(Source(c))]
            /\ spoiled' = IF \E i \in DOMAIN call[c].srcs : call[c].srcs[i] \in spoiled
                          THEN spoiled \union {e} ELSE spoiled
            /\ live' = live
  <2>1. PICK s \in Envs : s = call[c].srcs[1] /\ 1 \in DOMAIN call[c].srcs
                          /\ SourceReady(floor, chain[s], s \in spoiled)
                          /\ (~(Len(call[c].srcs) > 1) => Len(call[c].srcs) = 1 /\ Source(c) = s)
    <3>1. /\ call[c].at \in 1 .. Len(call[c].srcs) /\ call[c].at = Len(call[c].srcs)
          /\ DOMAIN call[c].srcs = 1 .. Len(call[c].srcs) /\ Len(call[c].srcs) \in Nat
          /\ \A i \in 1 .. Len(call[c].srcs) : call[c].srcs[i] \in Envs
      BY <1>1, <1>2, CallIs DEF CallOK, CallShape
    <3>2. 1 \in 1 .. Len(call[c].srcs)
      BY <3>1
    <3>3. SourceReady(floor, chain[call[c].srcs[1]], call[c].srcs[1] \in spoiled)
      BY <1>1, <1>2, <3>2 DEF CallOK
    <3>4. ~(Len(call[c].srcs) > 1) => Len(call[c].srcs) = 1
      BY <3>1, <3>2, AtMostOne
    <3> QED  BY <3>1, <3>2, <3>3, <3>4 DEF Source
  <2>2. PICK owed : owed = IF Len(call[c].srcs) > 1 THEN None ELSE Owed(s)
    OBVIOUS
  <2>3. PICK h : h = Undecided(Prepared(c).paths)
    OBVIOUS
  <2>4. took' = [took EXCEPT ![e] = owed] /\ chain' = [chain EXCEPT ![e] = <<h>> \o chain[s]]
    BY <1>8, <1>12, <2>1, <2>2, <2>3
  <2>5. h \in Layers /\ Writes(h) = {} /\ (Len(call[c].srcs) = 1 => h = Empty)
    BY <1>8, <2>3, WritesNothing
  <2>6. s \in Envs /\ EnvOK(s) /\ chain[s] \in Chains /\ chain[s] # <<>> /\ baseline[s] \in BOOLEAN
    BY <1>1, <1>9, <2>1 DEF IInv, TypeInv, SourceReady
  <2>7. owed # None => h = Empty /\ Tidy(chain[s], floor) /\ Shown(chain[s], floor) = owed
    BY <2>1, <2>2, <2>5, <2>6, OwedIs DEF Known
  <2>8. owed \in Trees \union {None}
    <3>1. owed \in {None, took[s], disk[s]}
      BY <2>2 DEF Owed
    <3> QED  BY <1>1, <3>1 DEF TypeInv
  <2>9. /\ s \in spoiled => e \in spoiled'
        /\ \A x \in Envs : x # e => (x \in spoiled' <=> x \in spoiled)
        /\ spoiled' \in SUBSET Envs
    BY <1>1, <1>4, <1>12, <2>1 DEF TypeInv
  <2>10. ~live[e] /\ ~baseline[e] /\ since[e] \subseteq changed[e]
    BY <1>9, <1>12 DEF FilesSound
  <2>11. /\ <<h>> \o chain[s] \in Chains /\ <<h>> \o chain[s] # <<>>
         /\ FilesSound(floor, <<h>> \o chain[s], None, live[e], baseline[e], changed[e], since[e], owed, e \in spoiled')
    <3> DEFINE lvl == live[e]
               bas == baseline[e]
               worst == e \in spoiled'
    <3>1. Copying(floor, chain[s], h, lvl, bas, changed[e], since[e], owed, worst)
      BY <1>9, <2>1, <2>5, <2>6, <2>7, <2>9, <2>10 DEF Copying, SourceReady
    <3> HIDE DEF lvl, bas, worst
    <3>2. /\ <<h>> \o chain[s] \in Chains /\ <<h>> \o chain[s] # <<>>
          /\ FilesSound(floor, <<h>> \o chain[s], None, lvl, bas, changed[e], since[e], owed, worst)
      BY <3>1, FilesCopied
    <3> QED  BY <3>2 DEF lvl, bas, worst
  <2>12. /\ chain'[e] = <<h>> \o chain[s] /\ took'[e] = owed /\ chain' \in [Envs -> Chains]
         /\ took' \in [Envs -> Trees \union {None}]
         /\ \A x \in Envs : x # e => chain'[x] = chain[x] /\ took'[x] = took[x]
    <3>1. took \in [Envs -> Trees \union {None}]
      BY <1>1 DEF TypeInv
    <3>2. chain'[e] = <<h>> \o chain[s] /\ took'[e] = owed /\ chain' \in [Envs -> Chains]
          /\ took' \in [Envs -> Trees \union {None}]
      BY <1>4, <1>9, <2>4, <2>8, <2>11, <3>1
    <3>3. \A x \in Envs : x # e => chain'[x] = chain[x] /\ took'[x] = took[x]
      BY <1>9, <2>4, <3>1
    <3> QED  BY <3>2, <3>3
  <2>13. /\ input' = [t \in Workplaces |-> input'[t]] /\ input'[e] = Prepared(c)
         /\ \A x \in Workplaces : x # e => input'[x] = input[x]
    BY <1>9, <1>12
  <2>14. EnvOK(e)'
    BY <1>2, <1>9, <1>12, <2>11, <2>12 DEF EnvOK
  <2>15. InputOK(e)'
    BY <1>8, <2>11, <2>12, <2>13 DEF InputOK, Known
  <2>16. TypeInv'
    BY <1>1, <1>2, <1>5, <1>12, <2>9, <2>12, <2>13 DEF TypeInv
  <2>17. \A x \in Envs : x # e => EnvSame(x) /\ took'[x] = took[x] /\ (x \in Workplaces => input'[x] = input[x])
    BY <1>2, <1>12, <2>9, <2>12, <2>13 DEF EnvSame
  <2> QED  BY <1>2, <1>4, <1>6, <1>7, <2>14, <2>15, <2>16, <2>17, OneEnvMoves
<1>13. \/ chain' = chain /\ live' = live /\ input' = input /\ took' = took /\ spoiled' = spoiled
       \/ /\ Known(e) \/ disk[e] # None
          /\ chain' = [chain EXCEPT ![e] = IF Known(e) THEN chain[e] ELSE <<Empty>>]
          /\ live' = [live EXCEPT ![e] = live[e] \/ ~Known(e)]
          /\ input' = [input EXCEPT ![e] = Prepared(c)]
          /\ took' = took
          /\ spoiled' = IF \E i \in DOMAIN call[c].srcs : call[c].srcs[i] \in spoiled
                        THEN spoiled \union {e} ELSE spoiled
       \/ /\ ~Known(e) /\ disk[e] = None
          /\ chain' = [chain EXCEPT ![e] = Tail(Prepared(c).from[1])]
          /\ input' = [input EXCEPT ![e] = Prepared(c)]
          /\ took' = [took EXCEPT ![e] = IF Len(call[c].srcs) > 1 THEN None ELSE Owed(Source(c))]
          /\ spoiled' = IF \E i \in DOMAIN call[c].srcs : call[c].srcs[i] \in spoiled
                        THEN spoiled \union {e} ELSE spoiled
          /\ live' = live
  BY <1>3 DEF Prepare, Set
<1> QED  BY <1>10, <1>11, <1>12, <1>13

\* Adopting paths into an environment whose layers are absorbed, or not yet rendered.
Applying(F, ch, dk, lv, bl, cg, sc, tk, bad, items, made, dl, cd, sd, worse) ==
    /\ F \in Trees /\ ch \in Chains /\ ch # <<>> /\ items \in Layers
    /\ dk \in Trees \union {None}
    /\ FilesSound(F, ch, dk, lv, bl, cg, sc, tk, bad)
    /\ made = <<AppliedTo(Head(ch), items)>> \o Tail(ch)
    /\ (bad => worse)
    /\ IF lv /\ items # Empty /\ Reaches(dk, items)
       THEN dl = Layed(dk, items) /\ cd = Paths /\ sd = Paths
       ELSE dl = dk /\ cd = cg /\ sd = sc
    /\ lv /\ items # Empty /\ ~Reaches(dk, items) => worse
    /\ ~lv => worse \/ Parented(made, F)

LEMMA FilesApplied ==
    ASSUME NEW F, NEW ch, NEW dk, NEW lv, NEW bl, NEW cg, NEW sc, NEW tk, NEW bad,
           NEW items, NEW made, NEW dl, NEW cd, NEW sd, NEW worse,
           Applying(F, ch, dk, lv, bl, cg, sc, tk, bad, items, made, dl, cd, sd, worse)
    PROVE  /\ made \in Chains /\ made # <<>> /\ dl \in Trees \union {None}
           /\ FilesSound(F, made, dl, lv, bl, cd, sd, None, worse)
<1>0. /\ F \in Trees /\ ch \in Chains /\ ch # <<>> /\ items \in Layers
      /\ dk \in Trees \union {None}
      /\ FilesSound(F, ch, dk, lv, bl, cg, sc, tk, bad)
      /\ made = <<AppliedTo(Head(ch), items)>> \o Tail(ch)
      /\ (bad => worse)
      /\ IF lv /\ items # Empty /\ Reaches(dk, items)
         THEN dl = Layed(dk, items) /\ cd = Paths /\ sd = Paths
         ELSE dl = dk /\ cd = cg /\ sd = sc
      /\ lv /\ items # Empty /\ ~Reaches(dk, items) => worse
      /\ ~lv => worse \/ Parented(made, F)
  BY DEF Applying
<1> DEFINE h == Head(ch)
           t == Tail(ch)
           k == AppliedTo(h, items)
<1>1. h \in Layers /\ t \in Chains /\ ch = <<h>> \o t
  BY <1>0, OverOf
<1> HIDE DEF h, t
<1>2. k \in Layers /\ (items = Empty => k = h)
  BY <1>0, <1>1, AppliedLayer
<1>3. made = <<k>> \o t
  BY <1>0 DEF h, t
<1> HIDE DEF k
<1>4. made \in Chains /\ made # <<>> /\ Tail(made) = t /\ Tail(ch) = t
  BY <1>1, <1>2, <1>3, OverIs
<1>5. ~bad => Tidy(t, F)
  BY <1>0, <1>4 DEF FilesSound
<1>6. Parented(made, F) /\ Tidy(t, F) => Tidy(made, F)
  <2>1. PICK own \in Layers : own = k
    BY <1>2
  <2>2. PICK rest \in Chains : rest = t
    BY <1>1
  <2>3. Tidy(<<own>> \o rest, F) <=> Parented(<<own>> \o rest, F) /\ Tidy(rest, F)
    BY <1>0, TidyOver
  <2> QED  BY <2>1, <2>2, <2>3, <1>3
<1>7. items = Empty => made = ch
  BY <1>1, <1>2, <1>3
<1>8. CASE lv /\ items # Empty /\ Reaches(dk, items)
  <2>1. dk # None
    BY <1>0, <1>8 DEF FilesSound
  <2>2. Layed(dk, items) \in Trees
    BY <1>0, <1>8, <2>1, LayedTree DEF Reaches
  <2>3. dl # None /\ dl \in Trees /\ cd = Paths /\ sd = Paths
    BY <1>0, <1>8, <2>2, NoneAssumption
  <2>4. PICK p \in Paths : TRUE
    <3>1. items = [p \in Paths |-> items[p]] /\ Empty = [p \in Paths |-> Empty[p]]
      BY <1>0 DEF Layers, Empty
    <3> QED  BY <1>8, <3>1
  <2>5. Paths # {} /\ Paths \ Paths = {}
    BY <2>4
  <2>6. FilesAgree(Visible(made, F), dl, Paths \ cd)
    BY <2>3, <2>5 DEF FilesAgree
  <2>7. FilesSound(F, made, dl, lv, bl, cd, sd, None, worse)
    BY <1>0, <1>4, <1>5, <1>8, <2>3, <2>5, <2>6 DEF FilesSound
  <2> QED  BY <1>4, <2>3, <2>7
<1>9. CASE lv /\ items # Empty /\ ~Reaches(dk, items)
  <2>1. worse /\ dl = dk /\ cd = cg /\ sd = sc
    BY <1>0, <1>9
  <2>2. FilesSound(F, made, dl, lv, bl, cd, sd, None, worse)
    BY <1>0, <1>4, <2>1 DEF FilesSound
  <2> QED  BY <1>0, <1>4, <2>1, <2>2
<1>10. CASE lv /\ items = Empty
  <2>1. made = ch /\ dl = dk /\ cd = cg /\ sd = sc
    BY <1>0, <1>7, <1>10
  <2>2. FilesSound(F, made, dl, lv, bl, cd, sd, None, worse)
    BY <1>0, <2>1 DEF FilesSound
  <2> QED  BY <1>0, <1>4, <2>1, <2>2
<1>11. CASE ~lv
  <2>1. dl = dk /\ cd = cg /\ sd = sc /\ ~bl /\ dk = None
    BY <1>0, <1>11 DEF FilesSound
  <2>2. ~worse => Tidy(made, F) /\ Tidy(t, F)
    BY <1>0, <1>5, <1>6, <1>11
  <2>3. FilesSound(F, made, dl, lv, bl, cd, sd, None, worse)
    BY <1>0, <1>4, <1>11, <2>1, <2>2 DEF FilesSound
  <2> QED  BY <1>0, <1>4, <2>1, <2>3
<1> QED  BY <1>8, <1>9, <1>10, <1>11

LEMMA ItemsAre ==
    ASSUME NEW t \in Workplaces, InputOK(t), input[t] # None, NEW i \in DOMAIN input[t].from,
           NEW paths, NEW replace
    PROVE  Items(t, i, paths, replace) \in Layers
<1>1. Head(input[t].from[i]) \in Layers
  BY OverOf DEF InputOK
<1>2. \A p \in Paths : Head(input[t].from[i])[p] \in Contents \union {"dir", "absent", "tomb"}
  BY <1>1 DEF Layers
<1> QED  BY <1>2 DEF Items, Selected, Layers

LEMMA ApplyMoves ==
    ASSUME IInv, NEW c \in Callers, Apply(c)
    PROVE  IInv'
<1>1. TypeInv /\ CallOK(c) /\ Apart
  BY DEF IInv
<1>2. /\ call[c].pc = "commit" /\ call[c].kind = "apply"
      /\ floor' = floor /\ live' = live /\ baseline' = baseline /\ input' = input
      /\ GiveUp(c)
  BY DEF Apply
<1>3. PICK e \in Workplaces : e = Source(c) /\ e # None /\ e \in Uses(c)
  BY <1>1, <1>2, BusyIs
<1>4. e \in Envs /\ input[e] # None /\ InputOK(e)
  BY <1>1, <1>2, <1>3 DEF Envs, CallOK, IInv
<1>5. /\ call' \in [Callers -> CallType] /\ \A d \in Callers : d # c => call'[d] = call[d]
      /\ call'[c] = Idle
  BY <1>1, <1>2, GiveUpIs
<1>6. Apart' /\ CallOK(c)'
  BY <1>1, <1>5, ApartMoved, CallIdle
<1>7. \A d \in Callers : CallOK(d)' \/ (call'[d] = call[d] /\ e \notin Uses(d))
  BY <1>1, <1>3, <1>4, <1>5, <1>6, Elsewhere
<1>8. /\ floor \in Trees /\ chain \in [Envs -> Chains] /\ chain[e] # <<>>
      /\ disk \in [Envs -> Trees \union {None}]
      /\ changed \in [Envs -> SUBSET Paths] /\ since \in [Envs -> SUBSET Paths]
      /\ took \in [Envs -> Trees \union {None}] /\ spoiled \in SUBSET Envs
      /\ FilesSound(floor, chain[e], disk[e], live[e], baseline[e], changed[e], since[e], took[e], e \in spoiled)
      /\ e \notin Archives
  BY <1>1, <1>3, <1>4, WorkspacesAssumption DEF IInv, TypeInv, EnvOK, InputOK, Known
<1>9. PICK i \in DOMAIN input[e].from, paths \in SUBSET input[e].paths \ {{}}, replace \in BOOLEAN :
          LET items == Items(e, i, paths, replace)
              inDir == live[e] /\ items # Empty
              fails == inDir /\ ~Reaches(disk[e], items)
          IN IF ~replace /\ Rejected(e, i, paths)
             THEN UNCHANGED <<chain, disk, changed, since, took, adopted, spoiled>>
             ELSE /\ Set(chain, e, <<AppliedTo(Head(chain[e]), items)>> \o Tail(chain[e]))
                  /\ IF inDir /\ ~fails
                     THEN /\ Set(disk, e, WritesApplied(TombsApplied(disk[e], items), items))
                          /\ Set(changed, e, Paths) /\ Set(since, e, Paths)
                     ELSE UNCHANGED <<disk, changed, since>>
                  /\ spoiled' = IF fails \/ (~live[e] /\ ~(Renders(chain'[e], floor) /\ Parented(chain'[e], floor)))
                                THEN spoiled \union {e} ELSE spoiled
                  /\ Set(adopted, e, IF fails \/ changed[e] # {} THEN Undone
                                     ELSE Recorded(e, i, paths, replace))
                  /\ Set(took, e, None)
  BY <1>3 DEF Apply
<1>10. PICK items \in Layers : items = Items(e, i, paths, replace)
  BY <1>4, ItemsAre
<1>11. CASE ~replace /\ Rejected(e, i, paths)
  <2>1. chain' = chain /\ disk' = disk /\ changed' = changed /\ since' = since /\ took' = took /\ spoiled' = spoiled
    BY <1>9, <1>11
  <2> QED  BY <1>2, <1>5, <1>6, <2>1, OnlyCalls
<1>12. CASE ~(~replace /\ Rejected(e, i, paths))
  <2>1. PICK new : new = <<AppliedTo(Head(chain[e]), items)>> \o Tail(chain[e])
    OBVIOUS
  <2>2. /\ chain' = [chain EXCEPT ![e] = new] /\ took' = [took EXCEPT ![e] = None]
        /\ IF live[e] /\ items # Empty /\ Reaches(disk[e], items)
           THEN /\ disk' = [disk EXCEPT ![e] = Layed(disk[e], items)]
                /\ changed' = [changed EXCEPT ![e] = Paths] /\ since' = [since EXCEPT ![e] = Paths]
           ELSE disk' = disk /\ changed' = changed /\ since' = since
        /\ spoiled' = IF \/ live[e] /\ items # Empty /\ ~Reaches(disk[e], items)
                         \/ ~live[e] /\ ~(Renders(chain'[e], floor) /\ Parented(chain'[e], floor))
                      THEN spoiled \union {e} ELSE spoiled
    BY <1>9, <1>10, <1>12, <2>1 DEF Set, Layed
  <2>3. chain'[e] = new /\ took'[e] = None
    BY <1>4, <1>8, <2>2
  <2>4. /\ e \in spoiled => e \in spoiled'
        /\ live[e] /\ items # Empty /\ ~Reaches(disk[e], items) => e \in spoiled'
        /\ ~live[e] => e \in spoiled' \/ Parented(new, floor)
        /\ \A x \in Envs : x # e => (x \in spoiled' <=> x \in spoiled)
        /\ spoiled' \in SUBSET Envs
    BY <1>4, <1>8, <2>2, <2>3
  <2>5. /\ IF live[e] /\ items # Empty /\ Reaches(disk[e], items)
           THEN disk'[e] = Layed(disk[e], items) /\ changed'[e] = Paths /\ since'[e] = Paths
           ELSE disk'[e] = disk[e] /\ changed'[e] = changed[e] /\ since'[e] = since[e]
        /\ \A x \in Envs : x # e => disk'[x] = disk[x] /\ changed'[x] = changed[x] /\ since'[x] = since[x]
        /\ changed' \in [Envs -> SUBSET Paths] /\ since' \in [Envs -> SUBSET Paths]
        /\ disk' = [x \in Envs |-> disk'[x]]
    BY <1>4, <1>8, <2>2
  <2>6. /\ new \in Chains /\ new # <<>> /\ disk'[e] \in Trees \union {None}
        /\ FilesSound(floor, new, disk'[e], live[e], baseline[e], changed'[e], since'[e], None, e \in spoiled')
    <3> DEFINE lvl == live[e]
               bas == baseline[e]
               was == e \in spoiled
               worst == e \in spoiled'
    <3>1. chain[e] \in Chains /\ disk[e] \in Trees \union {None}
      BY <1>4, <1>8
    <3>2. Applying(floor, chain[e], disk[e], lvl, bas, changed[e], since[e], took[e], was, items, new,
                   disk'[e], changed'[e], since'[e], worst)
      BY <1>8, <2>1, <2>4, <2>5, <3>1 DEF Applying
    <3> HIDE DEF lvl, bas, was, worst
    <3>3. /\ new \in Chains /\ new # <<>> /\ disk'[e] \in Trees \union {None}
          /\ FilesSound(floor, new, disk'[e], lvl, bas, changed'[e], since'[e], None, worst)
      BY <3>2, FilesApplied
    <3> QED  BY <3>3 DEF lvl, bas, worst
  <2>7. /\ chain' \in [Envs -> Chains] /\ took' \in [Envs -> Trees \union {None}]
        /\ disk' \in [Envs -> Trees \union {None}]
        /\ \A x \in Envs : x # e => chain'[x] = chain[x] /\ took'[x] = took[x]
    <3>1. chain' \in [Envs -> Chains] /\ took' \in [Envs -> Trees \union {None}]
          /\ \A x \in Envs : x # e => chain'[x] = chain[x] /\ took'[x] = took[x]
      BY <1>4, <1>8, <2>2, <2>6
    <3>2. \A x \in Envs : disk'[x] \in Trees \union {None}
      BY <1>8, <2>5, <2>6
    <3> QED  BY <2>5, <3>1, <3>2
  <2>8. EnvOK(e)'
    BY <1>2, <1>8, <2>3, <2>6 DEF EnvOK
  <2>9. InputOK(e)'
    BY <1>2, <1>4, <2>3, <2>6 DEF InputOK, Known
  <2>10. TypeInv'
    BY <1>1, <1>2, <1>5, <2>4, <2>5, <2>7 DEF TypeInv
  <2>11. \A x \in Envs : x # e => EnvSame(x) /\ took'[x] = took[x] /\ (x \in Workplaces => input'[x] = input[x])
    BY <1>2, <2>4, <2>5, <2>7 DEF EnvSame
  <2> QED  BY <1>2, <1>4, <1>6, <1>7, <2>8, <2>9, <2>10, <2>11, OneEnvMoves
<1> QED  BY <1>11, <1>12

\* What a command moves while a directory is absorbed is marked.
LEMMA ScanTouched ==
    ASSUME NEW k, NEW shared, ~shared, NEW F, NEW ch, NEW dk, NEW lv, NEW bl, NEW cg, NEW sc, NEW bad,
           ScanSound(k, shared, F, ch, dk, lv, bl, cg, sc, bad),
           NEW dl, NEW cd, NEW moved, \A p \in Paths \ moved : dl[p] = dk[p], k.same \in SUBSET Paths
    PROVE  ScanSound(k, shared, F, ch, dl, lv, bl, cd, sc \union moved, bad)
<1>1. FilesAgree(k.before, dk, k.same \ sc) => FilesAgree(k.before, dl, k.same \ (sc \union moved))
  BY DEF FilesAgree
<1>2. (\A p \in Paths \ sc : k.seen[p] = dk[p]) => \A p \in Paths \ (sc \union moved) : k.seen[p] = dl[p]
  OBVIOUS
<1> QED  BY <1>1, <1>2 DEF ScanSound

\* A command writes only what a command may.
LEMMA TouchedTree ==
    ASSUME NEW T \in Trees, NEW p \in Paths,
           NEW tree \in {Removed(T, p)} \union {Written(T, p, v) : v \in Typed}
                          \union (IF T[p] = "absent" THEN {Written(T, p, "dir")} ELSE {})
    PROVE  tree \in Trees
<1>1. Typed \subseteq Contents \union {"dir"} /\ "dir" \in Contents \union {"dir"}
  BY WorkspacesAssumption
<1>2. \A v \in Typed : Written(T, p, v) \in Trees
  BY <1>1, WrittenTree
<1>3. Written(T, p, "dir") \in Trees
  BY <1>1, WrittenTree
<1>4. Removed(T, p) \in Trees
  BY RemovedTree
<1> QED  BY <1>2, <1>3, <1>4

LEMMA TouchMoves ==
    ASSUME IInv, NEW e \in Workplaces, Touch(e)
    PROVE  IInv'
<1>1. TypeInv /\ Apart /\ e \in Envs /\ e \notin Archives
  BY WorkspacesAssumption DEF IInv, Envs
<1>2. /\ live[e] /\ floor' = floor /\ chain' = chain /\ live' = live /\ baseline' = baseline
      /\ input' = input /\ call' = call /\ spoiled' = spoiled /\ took' = [took EXCEPT ![e] = None]
  BY DEF Touch, Set
<1>30. PICK p \in Paths : \E tree \in {Removed(disk[e], p)}
             \union {Written(disk[e], p, v) : v \in Typed}
             \union (IF disk[e][p] = "absent" THEN {Written(disk[e], p, "dir")} ELSE {}) :
          LET moved == {p} \union {q \in Paths : tree[q] # disk[e][q]} IN
          /\ Set(disk, e, tree)
          /\ Set(changed, e, changed[e] \union moved)
          /\ Set(since, e, since[e] \union moved)
  BY DEF Touch
<1>3. PICK tree \in {Removed(disk[e], p)}
             \union {Written(disk[e], p, v) : v \in Typed}
             \union (IF disk[e][p] = "absent" THEN {Written(disk[e], p, "dir")} ELSE {}) :
          LET moved == {p} \union {q \in Paths : tree[q] # disk[e][q]} IN
          /\ Set(disk, e, tree)
          /\ Set(changed, e, changed[e] \union moved)
          /\ Set(since, e, since[e] \union moved)
  BY <1>30
<1>4. PICK moved : moved = {p} \union {q \in Paths : tree[q] # disk[e][q]}
  OBVIOUS
<1>5. /\ disk' = [disk EXCEPT ![e] = tree] /\ changed' = [changed EXCEPT ![e] = changed[e] \union moved]
      /\ since' = [since EXCEPT ![e] = since[e] \union moved]
      /\ moved \in SUBSET Paths /\ moved # {}
      /\ \A q \in Paths \ moved : tree[q] = disk[e][q]
  BY <1>3, <1>4 DEF Set
<1>6. /\ disk \in [Envs -> Trees \union {None}]
      /\ changed \in [Envs -> SUBSET Paths] /\ since \in [Envs -> SUBSET Paths]
      /\ took \in [Envs -> Trees \union {None}]
      /\ FilesSound(floor, chain[e], disk[e], live[e], baseline[e], changed[e], since[e], took[e], e \in spoiled)
  BY <1>1 DEF IInv, TypeInv, EnvOK
<1>7. disk[e] \in Trees /\ disk[e] # None
  BY <1>1, <1>2, <1>6 DEF FilesSound
<1>8. tree \in Trees /\ tree # None
  BY <1>3, <1>7, TouchedTree, NoneAssumption
<1>9. /\ disk'[e] = tree /\ changed'[e] = changed[e] \union moved /\ since'[e] = since[e] \union moved
      /\ took'[e] = None
      /\ \A x \in Envs : x # e => /\ disk'[x] = disk[x] /\ changed'[x] = changed[x] /\ since'[x] = since[x]
                                  /\ took'[x] = took[x]
      /\ disk' \in [Envs -> Trees \union {None}]
      /\ changed' \in [Envs -> SUBSET Paths] /\ since' \in [Envs -> SUBSET Paths]
      /\ took' \in [Envs -> Trees \union {None}]
  BY <1>1, <1>2, <1>5, <1>6, <1>8
<1>10. TypeInv'
  BY <1>1, <1>2, <1>9 DEF TypeInv
<1>11. EnvOK(e)'
  <2> DEFINE lvl == live[e]
             bas == baseline[e]
             was == e \in spoiled
  <2>1. FilesSound(floor, chain[e], disk[e], lvl, bas, changed[e], since[e], took[e], was) /\ lvl
    BY <1>2, <1>6
  <2> HIDE DEF lvl, bas, was
  <2>2. FilesSound(floor, chain[e], tree, lvl, bas, changed[e] \union moved, since[e] \union moved, None, was)
    BY <1>5, <1>8, <2>1, FilesTouched
  <2>3. FilesSound(floor, chain[e], tree, live[e], baseline[e], changed[e] \union moved,
                   since[e] \union moved, None, e \in spoiled)
    BY <2>2 DEF lvl, bas, was
  <2> QED  BY <1>1, <1>2, <1>9, <2>3 DEF EnvOK
<1>12. ASSUME NEW x \in Envs, x # e PROVE EnvOK(x)'
  <2>1. EnvSame(x)
    BY <1>2, <1>9, <1>12 DEF EnvSame
  <2> QED  BY <1>2, <1>9, <1>12, <2>1, EnvKept DEF IInv
<1>13. ASSUME NEW d \in Callers PROVE CallOK(d)'
  <2>1. CallOK(d) /\ call'[d] = call[d]
    BY <1>2 DEF IInv
  <2>2. CASE call[d].pc = "idle"
    BY <2>1, <2>2 DEF CallOK
  <2>3. CASE call[d].pc # "idle"
    <3>1. PICK s \in Envs : s = Source(d)
      BY <1>1, <2>1, <2>3, BusyIs
    <3>2. /\ call[d].dst # None => call[d].dst \in Envs
          /\ call[d].same \in SUBSET Paths
      BY <1>1, CallIs DEF CallType
    <3>3. \A x \in Envs : disk'[x] = disk[x] \/ (disk[x] # None /\ disk'[x] # None)
      BY <1>7, <1>8, <1>9
    <3>4. ScanSound(call[d], s \in Archives, floor, chain[s], disk[s], live[s], baseline[s], changed[s],
                    since[s], s \in spoiled)
          => ScanSound(call[d], s \in Archives, floor, chain[s], disk'[s], live[s], baseline[s], changed'[s],
                    since'[s], s \in spoiled)
      <4>1. CASE s # e
        BY <1>9, <4>1
      <4>2. CASE s = e
        <5> DEFINE lvl == live[e]
                   bas == baseline[e]
                   was == e \in spoiled
                   both == e \in Archives
        <5>1. SUFFICES ASSUME ScanSound(call[d], both, floor, chain[e], disk[e], lvl, bas, changed[e],
                                        since[e], was)
                       PROVE  ScanSound(call[d], both, floor, chain[e], tree, lvl, bas, changed'[e],
                                        since[e] \union moved, was)
          BY <1>9, <4>2
        <5>2. ~both
          BY <1>1
        <5> HIDE DEF lvl, bas, was, both
        <5> QED  BY <1>5, <3>2, <5>1, <5>2, ScanTouched
      <4> QED  BY <4>1, <4>2
    <3> QED  BY <1>1, <1>2, <2>1, <3>1, <3>2, <3>3, <3>4, CallKept
  <2> QED  BY <2>2, <2>3
<1>14. Apart'
  BY <1>1, <1>2 DEF Apart, Uses
<1>15. \A t \in Workplaces : InputOK(t)'
  BY <1>2 DEF IInv, InputOK, Known
<1> QED  BY <1>10, <1>11, <1>12, <1>13, <1>14, <1>15 DEF IInv

LEMMA RestartMoves ==
    ASSUME IInv, Restart
    PROVE  IInv'
<1>1. /\ floor' \in Floors /\ chain' = [x \in Envs |-> <<>>] /\ disk' = disk
      /\ live' = [x \in Envs |-> FALSE] /\ baseline' = live'
      /\ changed' = [x \in Envs |-> {}] /\ since' = changed'
      /\ input' = [x \in Workplaces |-> None] /\ call' = [d \in Callers |-> Idle]
      /\ took' = [x \in Envs |-> IF disk[x] = None THEN None ELSE took[x]]
      /\ spoiled' = {}
  BY DEF Restart
<1>2. TypeInv
  BY DEF IInv
<1>3. floor' \in Trees /\ <<>> \in Chains
  BY <1>1, WorkspacesAssumption DEF Chains
<1>4. TypeInv'
  <2>1. took' \in [Envs -> Trees \union {None}]
    BY <1>1, <1>2 DEF TypeInv
  <2>2. call' \in [Callers -> CallType]
    BY <1>1, IdleIs
  <2>3. chain' \in [Envs -> Chains] /\ live' \in [Envs -> BOOLEAN] /\ baseline' \in [Envs -> BOOLEAN]
        /\ changed' \in [Envs -> SUBSET Paths] /\ since' \in [Envs -> SUBSET Paths]
    BY <1>1, <1>3
  <2>4. input' = [t \in Workplaces |-> input'[t]]
    BY <1>1
  <2> QED  BY <1>1, <1>2, <1>3, <2>1, <2>2, <2>3, <2>4 DEF TypeInv
<1>5. ASSUME NEW x \in Envs PROVE EnvOK(x)'
  <2>1. FilesSound(floor, chain[x], disk[x], live[x], baseline[x], changed[x], since[x], took[x], x \in spoiled)
    BY DEF IInv, EnvOK
  <2>2. /\ chain'[x] = <<>> /\ disk'[x] = disk[x] /\ ~live'[x] /\ ~baseline'[x]
        /\ changed'[x] = {} /\ since'[x] = {} /\ took'[x] = IF disk[x] = None THEN None ELSE took[x]
    BY <1>1
  <2> QED  BY <2>1, <2>2 DEF EnvOK, FilesSound
<1>6. \A d \in Callers : CallOK(d)' /\ Uses(d)' = {None}
  <2>1. \A d \in Callers : call'[d] = Idle
    BY <1>1
  <2>2. DOMAIN <<>> = {}
    OBVIOUS
  <2> QED  BY <2>1, <2>2, IdleIs, CallIdle DEF Uses
<1>7. Apart'
  BY <1>6 DEF Apart
<1>8. \A t \in Workplaces : InputOK(t)'
  BY <1>1 DEF InputOK
<1> QED  BY <1>4, <1>5, <1>6, <1>7, <1>8 DEF IInv

-----------------------------------------------------------------------------
(* The invariant holds *)

\* An archive that an earlier role left shows its directory.
LEMMA LayeredShows ==
    ASSUME NEW T \in Trees, NEW F \in Trees
    PROVE  LET ch == <<Empty, Layered(T, F)>>
           IN /\ ch \in Chains /\ ch # <<>> /\ Tidy(ch, F) /\ Tidy(Tail(ch), F) /\ Shown(ch, F) = T
              /\ FilesAgree(Visible(ch, F), T, Paths)
<1>1. /\ <<Empty>> = <<Empty>> \o <<>> /\ Visible(<<Empty>>, F) = F /\ <<>> \in Chains /\ Tidy(<<>>, F)
      /\ Empty \in Layers /\ \A p \in Paths : Empty[p] = "absent"
  <2>1. {} \in SUBSET Paths
    OBVIOUS
  <2> QED  BY <2>1, EmptyAlone, NoLayer, WritesNothing
<1>2. ~Resurfacing(<<Empty>> \o <<>>, F, NewDirectories(<<Empty>> \o <<>>, F, T))
  <2>1. Head(<<Empty>> \o <<>>) = Empty
    BY <1>1, OverIs
  <2>2. \A p \in Paths : ~Masks(Empty[p])
    BY <1>1, LayerEntry, ContentsAssumption DEF IsFile
  <2>3. NewDirectories(<<Empty>> \o <<>>, F, T) \subseteq Paths
    BY DEF NewDirectories
  <2> QED  BY <2>1, <2>2, <2>3 DEF Resurfacing
<1>3. PICK own \in Layers : own = Layered(T, F)
  <2>1. Merged(<<Empty>> \o <<>>, F, F, T) \in Layers
    BY <1>1, MergedType
  <2> QED  BY <1>1, <2>1 DEF Layered
<1>4. Shown(<<own>> \o <<>>, F) = T /\ Parented(<<own>> \o <<>>, F)
  <2>1. own = Merged(<<Empty>> \o <<>>, F, Visible(<<Empty>> \o <<>>, F), T)
    BY <1>1, <1>3 DEF Layered
  <2>2. PICK h \in Layers, t \in Chains : h = Empty /\ t = <<>>
    BY <1>1
  <2>3. ~Resurfacing(<<h>> \o t, F, NewDirectories(<<h>> \o t, F, T))
    BY <1>2, <2>2
  <2>4. /\ Shown(<<Merged(<<h>> \o t, F, Visible(<<h>> \o t, F), T)>> \o t, F) = T
        /\ Parented(<<Merged(<<h>> \o t, F, Visible(<<h>> \o t, F), T)>> \o t, F)
    BY <2>3, MergedShows
  <2> QED  BY <2>1, <2>2, <2>4
<1>5. Tidy(<<own>> \o <<>>, F) /\ <<own>> \o <<>> \in Chains
  BY <1>1, <1>4, TidyOver, OverIs
<1>6. PICK rest \in Chains : rest = <<own>> \o <<>>
  BY <1>5
<1>7. /\ <<Empty>> \o rest \in Chains /\ <<Empty>> \o rest # <<>>
      /\ Shown(<<Empty>> \o rest, F) = T /\ Parented(<<Empty>> \o rest, F)
      /\ Tail(<<Empty>> \o rest) = rest
  BY <1>1, <1>4, <1>6, EmptyOver, OverIs
<1>8. Tidy(<<Empty>> \o rest, F)
  BY <1>1, <1>5, <1>6, <1>7, TidyOver
<1>9. <<Empty, own>> = <<Empty>> \o rest
  BY <1>6
<1>10. PICK ch \in Chains : ch = <<Empty, Layered(T, F)>> /\ ch = <<Empty>> \o rest
  BY <1>3, <1>7, <1>9
<1>11. FilesAgree(Visible(ch, F), T, Paths)
  <2>1. Tidy(ch, F) /\ Shown(ch, F) = T
    BY <1>7, <1>8, <1>10
  <2>2. \A p \in Paths : IsFile(Visible(ch, F)[p]) => Visible(ch, F)[p] = T[p]
    BY <2>1, FilesShown
  <2> QED  BY <2>2 DEF FilesAgree
<1> QED  BY <1>5, <1>6, <1>7, <1>8, <1>10, <1>11

LEMMA InitHolds ==
    ASSUME Init
    PROVE  IInv
<1>1. /\ floor \in Floors /\ disk \in [Envs -> Lefts \union {None}]
      /\ \A e \in Envs : (disk[e] = None) <=> (e \in Workplaces)
      /\ chain = [e \in Envs |-> IF e \in Archives THEN <<Empty, Layered(disk[e], floor)>> ELSE <<>>]
      /\ live = [e \in Envs |-> e \in Archives] /\ baseline = live
      /\ changed = [e \in Envs |-> {}] /\ since = changed
      /\ input = [e \in Workplaces |-> None]
      /\ call = [d \in Callers |-> Idle]
      /\ took = [e \in Envs |-> None] /\ spoiled = {}
  BY DEF Init
<1>2. floor \in Trees /\ Lefts \subseteq Trees
  BY <1>1, WorkspacesAssumption
<1>3. disk \in [Envs -> Trees \union {None}]
  BY <1>1, <1>2
<1>4. \A e \in Archives : e \in Envs /\ e \notin Workplaces /\ disk[e] \in Trees
  BY <1>1, <1>2, WorkspacesAssumption DEF Envs
<1>5. ASSUME NEW e \in Archives
      PROVE  /\ chain[e] \in Chains /\ chain[e] # <<>>
             /\ Tidy(chain[e], floor) /\ Tidy(Tail(chain[e]), floor) /\ Shown(chain[e], floor) = disk[e]
             /\ FilesAgree(Visible(chain[e], floor), disk[e], Paths)
  <2>1. chain[e] = <<Empty, Layered(disk[e], floor)>>
    BY <1>1, <1>4
  <2> QED  BY <1>2, <1>4, <2>1, LayeredShows
<1>6. \A e \in Envs : e \notin Archives => chain[e] = <<>>
  BY <1>1
<1>7. chain \in [Envs -> Chains]
  <2>1. <<>> \in Chains
    BY DEF Chains
  <2>2. \A e \in Envs : chain[e] \in Chains
    BY <1>5, <1>6, <2>1
  <2>3. chain = [e \in Envs |-> chain[e]]
    BY <1>1
  <2> QED  BY <2>2, <2>3
<1>8. TypeInv
  <2>1. call \in [Callers -> CallType]
    BY <1>1, IdleIs
  <2>2. /\ live \in [Envs -> BOOLEAN] /\ baseline \in [Envs -> BOOLEAN]
        /\ changed \in [Envs -> SUBSET Paths] /\ since \in [Envs -> SUBSET Paths]
        /\ took \in [Envs -> Trees \union {None}] /\ spoiled \in SUBSET Envs
    BY <1>1
  <2>3. input = [t \in Workplaces |-> input[t]]
    BY <1>1
  <2> QED  BY <1>2, <1>3, <1>7, <2>1, <2>2, <2>3 DEF TypeInv
<1>9. ASSUME NEW e \in Envs PROVE EnvOK(e)
  <2>1. changed[e] = {} /\ since[e] = {} /\ took[e] = None /\ e \notin spoiled
    BY <1>1
  <2>2. Paths \ {} = Paths
    OBVIOUS
  <2>3. CASE e \in Archives
    <3>1. live[e] /\ baseline[e] /\ disk[e] # None
      BY <1>1, <1>4, <2>3
    <3> QED  BY <1>5, <2>1, <2>2, <2>3, <3>1 DEF EnvOK, FilesSound
  <2>4. CASE e \notin Archives
    <3>1. ~live[e] /\ ~baseline[e] /\ disk[e] = None /\ chain[e] = <<>>
      BY <1>1, <1>6, <2>4 DEF Envs
    <3> QED  BY <2>1, <2>4, <3>1 DEF EnvOK, FilesSound
  <2> QED  BY <2>3, <2>4
<1>10. \A d \in Callers : CallOK(d) /\ Uses(d) = {None}
  <2>1. \A d \in Callers : call[d] = Idle
    BY <1>1
  <2>2. DOMAIN <<>> = {}
    OBVIOUS
  <2> QED  BY <2>1, <2>2, IdleIs DEF Uses, CallOK
<1>11. Apart
  BY <1>10 DEF Apart
<1>12. \A t \in Workplaces : InputOK(t)
  BY <1>1 DEF InputOK
<1> QED  BY <1>8, <1>9, <1>10, <1>11, <1>12 DEF IInv

LEMMA NothingMoves ==
    ASSUME IInv, UNCHANGED vars
    PROVE  IInv'
<1>1. /\ floor' = floor /\ chain' = chain /\ disk' = disk /\ live' = live /\ baseline' = baseline
      /\ changed' = changed /\ since' = since /\ input' = input /\ call' = call
      /\ took' = took /\ spoiled' = spoiled
  BY DEF vars, files, ghosts
<1>2. TypeInv'
  BY <1>1 DEF IInv, TypeInv
<1>3. \A e \in Envs : EnvOK(e)'
  BY <1>1 DEF IInv, EnvOK
<1>4. \A d \in Callers : CallOK(d)'
  <2>1. SUFFICES ASSUME NEW d \in Callers PROVE CallOK(d)'
    OBVIOUS
  <2>2. CallOK(d) /\ Source(d)' = Source(d)
    BY <1>1 DEF IInv, Source
  <2> QED  BY <1>1, <2>2 DEF CallOK, Known
<1>5. Apart'
  BY <1>1 DEF IInv, Apart, Uses
<1>6. \A t \in Workplaces : InputOK(t)'
  BY <1>1 DEF IInv, InputOK, Known
<1> QED  BY <1>2, <1>3, <1>4, <1>5, <1>6 DEF IInv

\* The invariant: what each environment's layers and directory have in common,
\* whatever is under way, and what each caller relies on meanwhile.
THEOREM WorkspacesInvariant == Spec => []IInv
<1>1. Init => IInv
  BY InitHolds
<1>2. IInv /\ [Next]_vars => IInv'
  <2>1. SUFFICES ASSUME IInv, [Next]_vars PROVE IInv'
    OBVIOUS
  <2>2. CASE BeginSome
    BY <2>1, <2>2, BeginSomeMoves
  <2>3. ASSUME NEW c \in Callers,
               RestoreLooks(c) \/ RestoreOpens(c) \/ Discard(c) \/ Scan(c) \/ Walk(c) \/ Merge(c)
                 \/ MergeFails(c) \/ Create(c) \/ RenderArchive(c) \/ RenderFails(c) \/ Prepare(c) \/ Apply(c)
        PROVE  IInv'
    BY <2>1, <2>3, RestoreLooksMoves, RestoreOpensMoves, DiscardMoves, ScanMoves, WalkMoves, MergeMoves,
       MergeFailsMoves, CreateMoves, RenderArchiveMoves, RenderFailsMoves, PrepareMoves, ApplyMoves
  <2>4. ASSUME NEW e \in Workplaces, Materialize(e) \/ Touch(e) PROVE IInv'
    BY <2>1, <2>4, MaterializeMoves, TouchMoves
  <2>5. CASE Restart
    BY <2>1, <2>5, RestartMoves
  <2>6. CASE UNCHANGED vars
    BY <2>1, <2>6, NothingMoves
  <2> QED  BY <2>1, <2>2, <2>3, <2>4, <2>5, <2>6 DEF Next
<1> QED  BY <1>1, <1>2, PTL DEF Spec

\* An open directory that has not moved since its fingerprint is what the layers
\* show, path by path and name by name, whatever absorbs it (live.go:147-274) and
\* however the layers are read (store.go:805-1010, input.go:238-256).
THEOREM OpenDirectoryIsItsLayers == Spec => []LayersAgree
<1>1. IInv => LayersAgree
  <2>1. SUFFICES ASSUME IInv, NEW e \in Envs, live[e], baseline[e], changed[e] = {}, e \notin spoiled
                 PROVE  Agrees(Visible(chain[e], floor), disk[e]) /\ ReadsAs(e, disk[e])
    BY DEF LayersAgree
  <2>2. /\ floor \in Trees /\ chain[e] \in Chains
        /\ Tidy(chain[e], floor) /\ Shown(chain[e], floor) = disk[e]
    <3>1. floor \in Trees /\ chain[e] \in Chains /\ EnvOK(e)
      BY <2>1 DEF IInv, TypeInv
    <3> QED  BY <2>1, <3>1 DEF EnvOK, FilesSound
  <2>3. Agrees(Visible(chain[e], floor), disk[e])
    BY <2>2, VisibleShows
  <2> QED  BY <2>2, <2>3, ReadsShow DEF ReadsAs
<1> QED  BY <1>1, WorkspacesInvariant, PTL

\* A copy is the tree its source had, however it is read or rendered later, by
\* this session or by one over another floor: an input's sources (input.go:29-189),
\* an environment created from one (store.go:376-419), an archive and a workspace
\* restored from it (live.go:401-454).
THEOREM CopiesAreExact == Spec => []CopyIsExact
<1>1. IInv => CopyIsExact
  <2>1. SUFFICES ASSUME IInv, NEW e \in Envs, took[e] # None
                 PROVE  IF disk[e] # None THEN disk[e] = took[e] ELSE Known(e) => ReadsAs(e, took[e])
    BY DEF CopyIsExact
  <2>2. floor \in Trees /\ chain[e] \in Chains /\ EnvOK(e)
    BY <2>1 DEF IInv, TypeInv
  <2>3. CASE disk[e] # None
    BY <2>1, <2>2, <2>3 DEF EnvOK, FilesSound
  <2>4. ASSUME disk[e] = None, Known(e) PROVE ReadsAs(e, took[e])
    <3>1. Tidy(chain[e], floor) /\ Shown(chain[e], floor) = took[e]
      BY <2>1, <2>2, <2>4 DEF EnvOK, FilesSound, Known
    <3> QED  BY <2>2, <3>1, ReadsShow DEF ReadsAs
  <2> QED  BY <2>3, <2>4
<1> QED  BY <1>1, WorkspacesInvariant, PTL
=============================================================================
