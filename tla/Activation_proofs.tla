-------------------------- MODULE Activation_proofs --------------------------
(***************************************************************************)
(* The safety properties of Activation, for all bounds on writes, failures *)
(* and restarts.                                                           *)
(***************************************************************************)
EXTENDS Activation, TLAPS

(* The inductive invariant, in the layers in which it is proved. *)

Asking == {"reap", "qualify", "archive", "journal"}
Installing == {"memory", "place", "start", "ask"} \cup Asking
Exporting == {"restore", "snapshot", "commit", "clear"}

\* A runner works for the first role without an output, and no export is
\* pending while it does; an export belongs to the role that is run.
RunnerInv ==
    /\ pc \in {"input"} \cup Installing =>
         /\ role \in Roles /\ output[role] = None
         /\ \A q \in 1 .. role - 1 : output[q] # None
    /\ pc \in {"input", "pick", "discard"} \cup Installing => pending = None
    /\ pc = "discard" => role \in Roles
    /\ pc \in Exporting => pending # None
    /\ pc \in {"memory", "place", "start"} => input[role] = "ready"
    /\ pc \in {"ask"} \cup Asking => input[role] = "started"
    /\ pc \in {"start", "ask", "reap", "qualify", "archive"} => work[role] # None

\* Outputs appear in the order of the roles, behind their archive and snapshot;
\* a pending export is the next one, or the one just made.
OutputInv ==
    /\ \A r \in Roles : output[r] # None =>
         /\ archive[r] # None /\ snapshot[r] # None
         /\ \A q \in 1 .. r - 1 : output[q] # None
    /\ \A r \in Roles : input[r] # "none" => \A q \in 1 .. r - 1 : output[q] # None
    /\ pending # None =>
         /\ archive[pending.role] # None
         /\ \A q \in 1 .. pending.role - 1 : output[q] # None
         /\ pc \in {"commit", "clear"} => snapshot[pending.role] = pending.memory
    /\ \A r \in Roles : archive[r] # None => \A q \in 1 .. r - 1 : output[q] # None
    /\ pc = "journal" => archive[role] # None

ChainInv == TypeOK /\ RunnerInv /\ OutputInv

\* The answer given is the one that is held, journaled, sealed and committed.
MatchInv ==
    /\ PairMatchesAnswer
    /\ pending # None =>
         /\ pending.report = asks[pending.role]
         /\ pending.memory.at = answer[pending.role][2]
         /\ Disposable(pending.role) => archive[pending.role] = inFiles[pending.role]
    /\ pc \in {"reap", "qualify"} => live.at = answer[role][2]
    /\ pc \in {"archive", "journal"} => held.at = answer[role][2]
    /\ pc = "journal" /\ Disposable(role) => archive[role] = inFiles[role]

\* No stamp is ahead of the clock.
StampInv ==
    \A r \in Roles :
        /\ inFiles[r] <= clock /\ begun[r] <= clock
        /\ work[r] # None => work[r] <= clock
        /\ archive[r] # None => archive[r] <= clock

\* Role r answered after it changed its files and the facts.
Unsupported(r) ==
    Disposable(r) /\ answer[r][1] # inFiles[r] /\ answer[r][2] # inMemory[r].at

\* What a role changed before its answer is still changed when it is qualified.
DisputeInv ==
    /\ UnsupportedFactsDisputed
    /\ pending # None /\ Unsupported(pending.role) => pending.memory.disputed
    /\ pc \in {"reap", "qualify"} /\ answer[role][1] # inFiles[role] =>
         work[role] # inFiles[role]
    /\ pc \in {"archive", "journal"} /\ Unsupported(role) => held.disputed

\* The executor has been reaped, and later its files have been taken.
Reaped == \/ output[Executor] # None
          \/ pending # None /\ pending.role = Executor
          \/ role = Executor /\ pc \in {"qualify", "archive", "journal"}

Taken == \/ output[Executor] # None
         \/ pending # None /\ pending.role = Executor
         \/ role = Executor /\ pc = "journal"

QuietInv ==
    /\ Reaped => Executor \notin procs
    /\ Taken /\ work[Executor] # None => archive[Executor] = work[Executor]

\* Until a started role has its output nobody else touches memory or workspace.
OwnInv ==
    /\ pc \in {"place", "start"} => live.at = inMemory[role].at
    /\ pc = "start" => work[role] = inFiles[role] /\ role \notin procs
    /\ \A r \in Roles : input[r] = "started" /\ output[r] = None =>
         /\ live.at = inMemory[r].at \/ live.at > begun[r]
         /\ work[r] = None \/ work[r] = inFiles[r] \/ work[r] > begun[r]

-----------------------------------------------------------------------------
LEMMA InitChain == Init => ChainInv
BY NoneAssumption DEF Init, ChainInv, TypeOK, RunnerInv, OutputInv, Memory, Stamps, Fresh,
   Steps,
   Roles, Installing, Asking, Exporting

LEMMA NextType == ChainInv /\ [Next]_vars => TypeOK'
<1> SUFFICES ASSUME ChainInv, [Next]_vars PROVE TypeOK'
  OBVIOUS
<1> USE NoneAssumption DEF ChainInv, TypeOK, Stamps, Memory, Pending, Roles, Planner, Executor,
                           Verifier, Steps
<1>1. CASE Restart
  BY <1>1 DEF Restart, inputs, exports, observed, bounds
<1>2. CASE Start
  BY <1>2 DEF Start, inputs, exports, observed, bounds
<1>3. CASE Load
  BY <1>3 DEF Load, inputs, exports, observed, bounds
<1>4. ASSUME NEW r \in Roles, PickRole(r) PROVE TypeOK'
  BY <1>4 DEF PickRole, inputs, exports, observed, bounds
<1>5. CASE RolesDone
  BY <1>5 DEF RolesDone, inputs, exports, observed, bounds
<1>6. CASE InheritInput
  BY <1>6 DEF InheritInput, PublishPair, RunnerInv, Installing, Asking, OutputInv,
     exports, observed, bounds
<1>7. CASE JoinInputs
  BY <1>7 DEF JoinInputs, PublishPair, RunnerInv, Installing, Asking, exports, observed
<1>8. CASE ReadyAgain
  BY <1>8 DEF ReadyAgain, inputs, exports, observed, bounds
<1>9. CASE ResumeWorkspace
  BY <1>9 DEF ResumeWorkspace, inputs, exports, observed, bounds
<1>10. CASE RestoreMemory
  BY <1>10 DEF RestoreMemory, RunnerInv, Installing, Asking, inputs, exports, observed,
     bounds
<1>11. CASE PlaceWorkspace
  BY <1>11 DEF PlaceWorkspace, inputs, exports, observed, bounds
<1>12. CASE MarkStarted
  BY <1>12 DEF MarkStarted, exports, bounds
<1>13. CASE EditFiles
  BY <1>13 DEF EditFiles, RunnerInv, Installing, Asking, inputs, exports, runner,
     observed
<1>14. CASE EditMemory
  BY <1>14 DEF EditMemory, RunnerInv, Installing, Asking, inputs, exports, runner,
     observed
<1>15. CASE Spawn
  BY <1>15 DEF Spawn, RunnerInv, Installing, Asking, inputs, exports, runner, observed,
     bounds
<1>16. ASSUME NEW r \in Roles, BackgroundWrite(r) PROVE TypeOK'
  BY <1>16 DEF BackgroundWrite, inputs, exports, runner, observed
<1>17. CASE Answer
  BY <1>17 DEF Answer, RunnerInv, Installing, Asking, inputs, exports, bounds
<1>18. CASE Reap
  BY <1>18 DEF Reap, inputs, exports, observed, bounds
<1>19. CASE Qualify
  BY <1>19 DEF Qualify, Disposable, inputs, exports, observed, bounds
<1>20. CASE Archive
  BY <1>20 DEF Archive, Disposable, RunnerInv, Installing, Asking, inputs, observed,
     bounds
<1>21. CASE Journal
  BY <1>21 DEF Journal, RunnerInv, Installing, Asking, inputs, observed, bounds
<1>22. CASE RestoreArchive
  BY <1>22 DEF RestoreArchive, inputs, exports, observed, bounds
<1>23. CASE SaveSnapshot
  BY <1>23 DEF SaveSnapshot, RunnerInv, Exporting, inputs, observed, bounds
<1>24. CASE CommitOutput
  BY <1>24 DEF CommitOutput, RunnerInv, Exporting, inputs, observed, bounds
<1>25. CASE ClearPending
  BY <1>25 DEF ClearPending, inputs, observed, bounds
<1>26. CASE DiscardWorkspace
  BY <1>26 DEF DiscardWorkspace, Disposable, inputs, exports, observed, bounds
<1>27. CASE Cleanup
  BY <1>27 DEF Cleanup, inputs, exports, observed, bounds
<1>28. CASE CleanupFails
  BY <1>28 DEF CleanupFails, inputs, exports, observed, bounds
<1>29. CASE Fail
  BY <1>29 DEF Fail, IOSteps, inputs, exports, observed
<1>30. CASE Crash
  BY <1>30 DEF Crash, Untouched, Fresh, inputs, exports, observed
<1>31. CASE UNCHANGED vars
  BY <1>31 DEF vars, inputs, exports, runner, observed, bounds
<1>32. CASE StartAgain
  BY <1>32 DEF StartAgain, inputs, exports, observed, bounds
<1>33. CASE Settle
  BY <1>33 DEF Settle, inputs, exports, observed, bounds
<1>34. CASE SettleFails
  BY <1>34 DEF SettleFails, inputs, exports, observed
<1> QED
  BY <1>1, <1>2, <1>3, <1>4, <1>5, <1>6, <1>7, <1>8, <1>9, <1>10, <1>11, <1>12, <1>13,
     <1>14, <1>15, <1>16, <1>17, <1>18, <1>19, <1>20, <1>21, <1>22, <1>23, <1>24, <1>25,
     <1>26, <1>27, <1>28, <1>29, <1>30, <1>31, <1>32, <1>33, <1>34
     DEF Next, Run

LEMMA NextRunner == ChainInv /\ [Next]_vars => RunnerInv'
<1> SUFFICES ASSUME ChainInv, [Next]_vars PROVE RunnerInv'
  OBVIOUS
<1> USE NoneAssumption DEF ChainInv, RunnerInv, Installing, Asking, Exporting, TypeOK, Stamps,
                           Pending, Roles, Steps
<1>1. CASE Restart
  BY <1>1 DEF Restart, inputs, exports, observed, bounds
<1>2. CASE Start
  BY <1>2 DEF Start, inputs, exports, observed, bounds
<1>3. CASE Load
  BY <1>3 DEF Load, inputs, exports, observed, bounds
<1>4. ASSUME NEW r \in Roles, PickRole(r) PROVE RunnerInv'
  BY <1>4 DEF PickRole, inputs, exports, observed, bounds
<1>5. CASE RolesDone
  BY <1>5 DEF RolesDone, inputs, exports, observed, bounds
<1>6. CASE InheritInput
  BY <1>6 DEF InheritInput, PublishPair, OutputInv, Planner, exports, observed, bounds
<1>7. CASE JoinInputs
  BY <1>7 DEF JoinInputs, PublishPair, exports, observed
<1>8. CASE ReadyAgain
  BY <1>8 DEF ReadyAgain, inputs, exports, observed, bounds
<1>9. CASE ResumeWorkspace
  BY <1>9 DEF ResumeWorkspace, inputs, exports, observed, bounds
<1>10. CASE RestoreMemory
  BY <1>10 DEF RestoreMemory, inputs, exports, observed, bounds
<1>11. CASE PlaceWorkspace
  BY <1>11 DEF PlaceWorkspace, inputs, exports, observed, bounds
<1>12. CASE MarkStarted
  BY <1>12 DEF MarkStarted, exports, bounds
<1>13. CASE EditFiles
  BY <1>13 DEF EditFiles, inputs, exports, runner, observed
<1>14. CASE EditMemory
  BY <1>14 DEF EditMemory, inputs, exports, runner, observed
<1>15. CASE Spawn
  BY <1>15 DEF Spawn, inputs, exports, runner, observed, bounds
<1>16. ASSUME NEW r \in Roles, BackgroundWrite(r) PROVE RunnerInv'
  BY <1>16 DEF BackgroundWrite, inputs, exports, runner, observed
<1>17. CASE Answer
  BY <1>17 DEF Answer, inputs, exports, bounds
<1>18. CASE Reap
  BY <1>18 DEF Reap, inputs, exports, observed, bounds
<1>19. CASE Qualify
  BY <1>19 DEF Qualify, Disposable, inputs, exports, observed, bounds
<1>20. CASE Archive
  BY <1>20 DEF Archive, Disposable, inputs, observed, bounds
<1>21. CASE Journal
  BY <1>21 DEF Journal, inputs, observed, bounds
<1>22. CASE RestoreArchive
  BY <1>22 DEF RestoreArchive, inputs, exports, observed, bounds
<1>23. CASE SaveSnapshot
  BY <1>23 DEF SaveSnapshot, inputs, observed, bounds
<1>24. CASE CommitOutput
  BY <1>24 DEF CommitOutput, inputs, observed, bounds
<1>25. CASE ClearPending
  BY <1>25 DEF ClearPending, inputs, observed, bounds
<1>26. CASE DiscardWorkspace
  BY <1>26 DEF DiscardWorkspace, Disposable, inputs, exports, observed, bounds
<1>27. CASE Cleanup
  BY <1>27 DEF Cleanup, inputs, exports, observed, bounds
<1>28. CASE CleanupFails
  BY <1>28 DEF CleanupFails, inputs, exports, observed, bounds
<1>29. CASE Fail
  BY <1>29 DEF Fail, IOSteps, inputs, exports, observed
<1>30. CASE Crash
  BY <1>30 DEF Crash, Untouched, Fresh, inputs, exports, observed
<1>31. CASE UNCHANGED vars
  BY <1>31 DEF vars, inputs, exports, runner, observed, bounds
<1>32. CASE StartAgain
  BY <1>32 DEF StartAgain, inputs, exports, observed, bounds
<1>33. CASE Settle
  BY <1>33 DEF Settle, inputs, exports, observed, bounds
<1>34. CASE SettleFails
  BY <1>34 DEF SettleFails, inputs, exports, observed
<1> QED
  BY <1>1, <1>2, <1>3, <1>4, <1>5, <1>6, <1>7, <1>8, <1>9, <1>10, <1>11, <1>12, <1>13,
     <1>14, <1>15, <1>16, <1>17, <1>18, <1>19, <1>20, <1>21, <1>22, <1>23, <1>24, <1>25,
     <1>26, <1>27, <1>28, <1>29, <1>30, <1>31, <1>32, <1>33, <1>34
     DEF Next, Run

LEMMA NextOutput == ChainInv /\ [Next]_vars => OutputInv'
<1> SUFFICES ASSUME ChainInv, [Next]_vars PROVE OutputInv'
  OBVIOUS
<1> USE NoneAssumption DEF ChainInv, OutputInv, RunnerInv, Installing, Asking, Exporting,
   TypeOK, Stamps,
                           Pending, Roles, Steps
<1>1. CASE Restart
  BY <1>1 DEF Restart, inputs, exports, observed, bounds
<1>2. CASE Start
  BY <1>2 DEF Start, inputs, exports, observed, bounds
<1>3. CASE Load
  BY <1>3 DEF Load, inputs, exports, observed, bounds
<1>4. ASSUME NEW r \in Roles, PickRole(r) PROVE OutputInv'
  BY <1>4 DEF PickRole, inputs, exports, observed, bounds
<1>5. CASE RolesDone
  BY <1>5 DEF RolesDone, inputs, exports, observed, bounds
<1>6. CASE InheritInput
  BY <1>6 DEF InheritInput, PublishPair, OutputInv, Planner, exports, observed, bounds
<1>7. CASE JoinInputs
  BY <1>7 DEF JoinInputs, PublishPair, exports, observed
<1>8. CASE ReadyAgain
  BY <1>8 DEF ReadyAgain, inputs, exports, observed, bounds
<1>9. CASE ResumeWorkspace
  BY <1>9 DEF ResumeWorkspace, inputs, exports, observed, bounds
<1>10. CASE RestoreMemory
  BY <1>10 DEF RestoreMemory, inputs, exports, observed, bounds
<1>11. CASE PlaceWorkspace
  BY <1>11 DEF PlaceWorkspace, inputs, exports, observed, bounds
<1>12. CASE MarkStarted
  BY <1>12 DEF MarkStarted, exports, bounds
<1>13. CASE EditFiles
  BY <1>13 DEF EditFiles, inputs, exports, runner, observed
<1>14. CASE EditMemory
  BY <1>14 DEF EditMemory, inputs, exports, runner, observed
<1>15. CASE Spawn
  BY <1>15 DEF Spawn, inputs, exports, runner, observed, bounds
<1>16. ASSUME NEW r \in Roles, BackgroundWrite(r) PROVE OutputInv'
  BY <1>16 DEF BackgroundWrite, inputs, exports, runner, observed
<1>17. CASE Answer
  BY <1>17 DEF Answer, inputs, exports, bounds
<1>18. CASE Reap
  BY <1>18 DEF Reap, inputs, exports, observed, bounds
<1>19. CASE Qualify
  BY <1>19 DEF Qualify, Disposable, inputs, exports, observed, bounds
<1>20. CASE Archive
  BY <1>20 DEF Archive, Disposable, inputs, observed, bounds
<1>21. CASE Journal
  BY <1>21 DEF Journal, inputs, observed, bounds
<1>22. CASE RestoreArchive
  BY <1>22 DEF RestoreArchive, inputs, exports, observed, bounds
<1>23. CASE SaveSnapshot
  BY <1>23 DEF SaveSnapshot, inputs, observed, bounds
<1>24. CASE CommitOutput
  BY <1>24 DEF CommitOutput, inputs, observed, bounds
<1>25. CASE ClearPending
  BY <1>25 DEF ClearPending, inputs, observed, bounds
<1>26. CASE DiscardWorkspace
  BY <1>26 DEF DiscardWorkspace, Disposable, inputs, exports, observed, bounds
<1>27. CASE Cleanup
  BY <1>27 DEF Cleanup, inputs, exports, observed, bounds
<1>28. CASE CleanupFails
  BY <1>28 DEF CleanupFails, inputs, exports, observed, bounds
<1>29. CASE Fail
  BY <1>29 DEF Fail, IOSteps, inputs, exports, observed
<1>30. CASE Crash
  BY <1>30 DEF Crash, Untouched, Fresh, inputs, exports, observed
<1>31. CASE UNCHANGED vars
  BY <1>31 DEF vars, inputs, exports, runner, observed, bounds
<1>32. CASE StartAgain
  BY <1>32 DEF StartAgain, inputs, exports, observed, bounds
<1>33. CASE Settle
  BY <1>33 DEF Settle, inputs, exports, observed, bounds
<1>34. CASE SettleFails
  BY <1>34 DEF SettleFails, inputs, exports, observed
<1> QED
  BY <1>1, <1>2, <1>3, <1>4, <1>5, <1>6, <1>7, <1>8, <1>9, <1>10, <1>11, <1>12, <1>13,
     <1>14, <1>15, <1>16, <1>17, <1>18, <1>19, <1>20, <1>21, <1>22, <1>23, <1>24, <1>25,
     <1>26, <1>27, <1>28, <1>29, <1>30, <1>31, <1>32, <1>33, <1>34
     DEF Next, Run

LEMMA NextChain == ChainInv /\ [Next]_vars => ChainInv'
BY NextType, NextRunner, NextOutput DEF ChainInv

\* The records of an activation and its runner stay within their types.
THEOREM TypeCorrect == Spec => []TypeOK
<1>1. Init => ChainInv
  BY InitChain
<1>2. ChainInv /\ [Next]_vars => ChainInv'
  BY NextChain
<1>3. ChainInv => TypeOK
  BY DEF ChainInv
<1> QED
  BY <1>1, <1>2, <1>3, PTL DEF Spec

LEMMA ChainAlways == Spec => []ChainInv
<1>1. Init => ChainInv
  BY InitChain
<1>2. ChainInv /\ [Next]_vars => ChainInv'
  BY NextChain
<1> QED
  BY <1>1, <1>2, PTL DEF Spec

\* A role is asked only while it has neither an output nor a journaled answer.
THEOREM NeverAskedAgain == Spec => AnsweredOnce
<1>1. ASSUME ChainInv, [Next]_vars, NEW r \in Roles,
             output[r] # None \/ (pending # None /\ pending.role = r)
      PROVE  asks'[r] = asks[r]
  <2>1. CASE Answer
    BY <1>1, <2>1 DEF Answer, ChainInv, RunnerInv, Installing, TypeOK
  <2>2. CASE [Next]_vars /\ ~Answer
    <3>1. asks' = asks
      BY <2>2 DEF Next, Run, Restart, Start, Load, PickRole, RolesDone, InheritInput,
         JoinInputs, ReadyAgain, ResumeWorkspace, RestoreMemory, PlaceWorkspace, MarkStarted,
         EditFiles, EditMemory, Spawn, BackgroundWrite, Answer, Reap, Qualify, Archive,
         Journal, RestoreArchive, SaveSnapshot, CommitOutput, ClearPending, DiscardWorkspace,
         Cleanup, CleanupFails, StartAgain,
       Settle, SettleFails, Fail, Crash, PublishPair, inputs, exports, runner, observed,
         bounds, vars
    <3> QED  BY <3>1
  <2> QED  BY <1>1, <2>1, <2>2
<1>2. ChainInv /\ [Next]_vars =>
        [\A r \in Roles : output[r] # None \/ (pending # None /\ pending.role = r) =>
            asks'[r] = asks[r]]_vars
  BY <1>1
<1> QED
  BY <1>2, ChainAlways, PTL DEF Spec, AnsweredOnce

-----------------------------------------------------------------------------
LEMMA InitMatch == Init => MatchInv
BY NoneAssumption DEF Init, MatchInv, PairMatchesAnswer

LEMMA NextMatch == ChainInv /\ MatchInv /\ [Next]_vars => MatchInv'
<1> SUFFICES ASSUME ChainInv, MatchInv, [Next]_vars PROVE MatchInv'
  OBVIOUS
<1> USE NoneAssumption DEF ChainInv, RunnerInv, OutputInv, Installing, Asking, Exporting,
           TypeOK, Stamps, Memory, Pending, Roles, Steps, MatchInv, PairMatchesAnswer,
           Disposable
<1>1. CASE Restart
  BY <1>1 DEF Restart, inputs, exports, observed, bounds
<1>2. CASE Start
  BY <1>2 DEF Start, inputs, exports, observed, bounds
<1>3. CASE Load
  BY <1>3 DEF Load, inputs, exports, observed, bounds
<1>4. ASSUME NEW r \in Roles, PickRole(r) PROVE MatchInv'
  BY <1>4 DEF PickRole, inputs, exports, observed, bounds
<1>5. CASE RolesDone
  BY <1>5 DEF RolesDone, inputs, exports, observed, bounds
<1>6. CASE InheritInput
  BY <1>6 DEF InheritInput, PublishPair, exports, observed, bounds
<1>7. CASE JoinInputs
  BY <1>7 DEF JoinInputs, PublishPair, exports, observed
<1>8. CASE ReadyAgain
  BY <1>8 DEF ReadyAgain, inputs, exports, observed, bounds
<1>9. CASE ResumeWorkspace
  BY <1>9 DEF ResumeWorkspace, inputs, exports, observed, bounds
<1>10. CASE RestoreMemory
  BY <1>10 DEF RestoreMemory, inputs, exports, observed, bounds
<1>11. CASE PlaceWorkspace
  BY <1>11 DEF PlaceWorkspace, inputs, exports, observed, bounds
<1>12. CASE MarkStarted
  BY <1>12 DEF MarkStarted, exports, bounds
<1>13. CASE EditFiles
  BY <1>13 DEF EditFiles, inputs, exports, runner, observed
<1>14. CASE EditMemory
  BY <1>14 DEF EditMemory, inputs, exports, runner, observed
<1>15. CASE Spawn
  BY <1>15 DEF Spawn, inputs, exports, runner, observed, bounds
<1>16. ASSUME NEW r \in Roles, BackgroundWrite(r) PROVE MatchInv'
  BY <1>16 DEF BackgroundWrite, inputs, exports, runner, observed
<1>17. CASE Answer
  BY <1>17 DEF Answer, inputs, exports, bounds
<1>18. CASE Reap
  BY <1>18 DEF Reap, inputs, exports, observed, bounds
<1>19. CASE Qualify
  BY <1>19 DEF Qualify, Disposable, inputs, exports, observed, bounds
<1>20. CASE Archive
  BY <1>20 DEF Archive, Disposable, inputs, observed, bounds
<1>21. CASE Journal
  BY <1>21 DEF Journal, inputs, observed, bounds
<1>22. CASE RestoreArchive
  BY <1>22 DEF RestoreArchive, inputs, exports, observed, bounds
<1>23. CASE SaveSnapshot
  BY <1>23 DEF SaveSnapshot, inputs, observed, bounds
<1>24. CASE CommitOutput
  BY <1>24 DEF CommitOutput, inputs, observed, bounds
<1>25. CASE ClearPending
  BY <1>25 DEF ClearPending, inputs, observed, bounds
<1>26. CASE DiscardWorkspace
  BY <1>26 DEF DiscardWorkspace, Disposable, inputs, exports, observed, bounds
<1>27. CASE Cleanup
  BY <1>27 DEF Cleanup, inputs, exports, observed, bounds
<1>28. CASE CleanupFails
  BY <1>28 DEF CleanupFails, inputs, exports, observed, bounds
<1>29. CASE Fail
  BY <1>29 DEF Fail, IOSteps, inputs, exports, observed
<1>30. CASE Crash
  BY <1>30 DEF Crash, Untouched, Fresh, inputs, exports, observed
<1>31. CASE UNCHANGED vars
  BY <1>31 DEF vars, inputs, exports, runner, observed, bounds
<1>32. CASE StartAgain
  BY <1>32 DEF StartAgain, inputs, exports, observed, bounds
<1>33. CASE Settle
  BY <1>33 DEF Settle, inputs, exports, observed, bounds
<1>34. CASE SettleFails
  BY <1>34 DEF SettleFails, inputs, exports, observed
<1> QED
  BY <1>1, <1>2, <1>3, <1>4, <1>5, <1>6, <1>7, <1>8, <1>9, <1>10, <1>11, <1>12, <1>13,
     <1>14, <1>15, <1>16, <1>17, <1>18, <1>19, <1>20, <1>21, <1>22, <1>23, <1>24, <1>25,
     <1>26, <1>27, <1>28, <1>29, <1>30, <1>31, <1>32, <1>33, <1>34
     DEF Next, Run

-----------------------------------------------------------------------------
LEMMA InitStamp == Init => StampInv
BY NoneAssumption DEF Init, StampInv, Roles

LEMMA NextStamp == ChainInv /\ StampInv /\ [Next]_vars => StampInv'
<1> SUFFICES ASSUME ChainInv, StampInv, [Next]_vars PROVE StampInv'
  OBVIOUS
<1> USE NoneAssumption DEF ChainInv, RunnerInv, OutputInv, Installing, Asking, Exporting,
           TypeOK, Stamps, Memory, Pending, Roles, Steps, StampInv
<1>1. CASE Restart
  BY <1>1 DEF Restart, inputs, exports, observed, bounds
<1>2. CASE Start
  BY <1>2 DEF Start, inputs, exports, observed, bounds
<1>3. CASE Load
  BY <1>3 DEF Load, inputs, exports, observed, bounds
<1>4. ASSUME NEW r \in Roles, PickRole(r) PROVE StampInv'
  BY <1>4 DEF PickRole, inputs, exports, observed, bounds
<1>5. CASE RolesDone
  BY <1>5 DEF RolesDone, inputs, exports, observed, bounds
<1>6. CASE InheritInput
  BY <1>6 DEF InheritInput, PublishPair, Planner, exports, observed, bounds
<1>7. CASE JoinInputs
  BY <1>7 DEF JoinInputs, PublishPair, exports, observed
<1>8. CASE ReadyAgain
  BY <1>8 DEF ReadyAgain, inputs, exports, observed, bounds
<1>9. CASE ResumeWorkspace
  BY <1>9 DEF ResumeWorkspace, inputs, exports, observed, bounds
<1>10. CASE RestoreMemory
  BY <1>10 DEF RestoreMemory, inputs, exports, observed, bounds
<1>11. CASE PlaceWorkspace
  BY <1>11 DEF PlaceWorkspace, inputs, exports, observed, bounds
<1>12. CASE MarkStarted
  BY <1>12 DEF MarkStarted, exports, bounds
<1>13. CASE EditFiles
  BY <1>13 DEF EditFiles, inputs, exports, runner, observed
<1>14. CASE EditMemory
  BY <1>14 DEF EditMemory, inputs, exports, runner, observed
<1>15. CASE Spawn
  BY <1>15 DEF Spawn, inputs, exports, runner, observed, bounds
<1>16. ASSUME NEW r \in Roles, BackgroundWrite(r) PROVE StampInv'
  BY <1>16 DEF BackgroundWrite, inputs, exports, runner, observed
<1>17. CASE Answer
  BY <1>17 DEF Answer, inputs, exports, bounds
<1>18. CASE Reap
  BY <1>18 DEF Reap, inputs, exports, observed, bounds
<1>19. CASE Qualify
  BY <1>19 DEF Qualify, Disposable, inputs, exports, observed, bounds
<1>20. CASE Archive
  BY <1>20 DEF Archive, Disposable, inputs, observed, bounds
<1>21. CASE Journal
  BY <1>21 DEF Journal, inputs, observed, bounds
<1>22. CASE RestoreArchive
  BY <1>22 DEF RestoreArchive, inputs, exports, observed, bounds
<1>23. CASE SaveSnapshot
  BY <1>23 DEF SaveSnapshot, inputs, observed, bounds
<1>24. CASE CommitOutput
  BY <1>24 DEF CommitOutput, inputs, observed, bounds
<1>25. CASE ClearPending
  BY <1>25 DEF ClearPending, inputs, observed, bounds
<1>26. CASE DiscardWorkspace
  BY <1>26 DEF DiscardWorkspace, Disposable, inputs, exports, observed, bounds
<1>27. CASE Cleanup
  BY <1>27 DEF Cleanup, inputs, exports, observed, bounds
<1>28. CASE CleanupFails
  BY <1>28 DEF CleanupFails, inputs, exports, observed, bounds
<1>29. CASE Fail
  BY <1>29 DEF Fail, IOSteps, inputs, exports, observed
<1>30. CASE Crash
  BY <1>30 DEF Crash, Untouched, Fresh, inputs, exports, observed
<1>31. CASE UNCHANGED vars
  BY <1>31 DEF vars, inputs, exports, runner, observed, bounds
<1>32. CASE StartAgain
  BY <1>32 DEF StartAgain, inputs, exports, observed, bounds
<1>33. CASE Settle
  BY <1>33 DEF Settle, inputs, exports, observed, bounds
<1>34. CASE SettleFails
  BY <1>34 DEF SettleFails, inputs, exports, observed
<1> QED
  BY <1>1, <1>2, <1>3, <1>4, <1>5, <1>6, <1>7, <1>8, <1>9, <1>10, <1>11, <1>12, <1>13,
     <1>14, <1>15, <1>16, <1>17, <1>18, <1>19, <1>20, <1>21, <1>22, <1>23, <1>24, <1>25,
     <1>26, <1>27, <1>28, <1>29, <1>30, <1>31, <1>32, <1>33, <1>34
     DEF Next, Run

-----------------------------------------------------------------------------
LEMMA InitDispute == Init => DisputeInv
BY NoneAssumption DEF Init, DisputeInv, UnsupportedFactsDisputed

LEMMA NextDispute == ChainInv /\ MatchInv /\ StampInv /\ DisputeInv /\ [Next]_vars =>
   DisputeInv'
<1> SUFFICES ASSUME ChainInv, MatchInv, StampInv, DisputeInv, [Next]_vars PROVE DisputeInv'
  OBVIOUS
<1> USE NoneAssumption DEF ChainInv, RunnerInv, OutputInv, Installing, Asking, Exporting,
           TypeOK, Stamps, Memory, Pending, Roles, Steps, MatchInv, StampInv, DisputeInv,
           UnsupportedFactsDisputed, Unsupported, Disposable
<1>1. CASE Restart
  BY <1>1 DEF Restart, inputs, exports, observed, bounds
<1>2. CASE Start
  BY <1>2 DEF Start, inputs, exports, observed, bounds
<1>3. CASE Load
  BY <1>3 DEF Load, inputs, exports, observed, bounds
<1>4. ASSUME NEW r \in Roles, PickRole(r) PROVE DisputeInv'
  BY <1>4 DEF PickRole, inputs, exports, observed, bounds
<1>5. CASE RolesDone
  BY <1>5 DEF RolesDone, inputs, exports, observed, bounds
<1>6. CASE InheritInput
  BY <1>6 DEF InheritInput, PublishPair, exports, observed, bounds
<1>7. CASE JoinInputs
  BY <1>7 DEF JoinInputs, PublishPair, exports, observed
<1>8. CASE ReadyAgain
  BY <1>8 DEF ReadyAgain, inputs, exports, observed, bounds
<1>9. CASE ResumeWorkspace
  BY <1>9 DEF ResumeWorkspace, inputs, exports, observed, bounds
<1>10. CASE RestoreMemory
  BY <1>10 DEF RestoreMemory, inputs, exports, observed, bounds
<1>11. CASE PlaceWorkspace
  BY <1>11 DEF PlaceWorkspace, inputs, exports, observed, bounds
<1>12. CASE MarkStarted
  BY <1>12 DEF MarkStarted, exports, bounds
<1>13. CASE EditFiles
  BY <1>13 DEF EditFiles, inputs, exports, runner, observed
<1>14. CASE EditMemory
  BY <1>14 DEF EditMemory, inputs, exports, runner, observed
<1>15. CASE Spawn
  BY <1>15 DEF Spawn, inputs, exports, runner, observed, bounds
<1>16. ASSUME NEW r \in Roles, BackgroundWrite(r) PROVE DisputeInv'
  BY <1>16 DEF BackgroundWrite, inputs, exports, runner, observed
<1>17. CASE Answer
  BY <1>17 DEF Answer, inputs, exports, bounds
<1>18. CASE Reap
  BY <1>18 DEF Reap, inputs, exports, observed, bounds
<1>19. CASE Qualify
  BY <1>19 DEF Qualify, Disposable, inputs, exports, observed, bounds
<1>20. CASE Archive
  BY <1>20 DEF Archive, Disposable, inputs, observed, bounds
<1>21. CASE Journal
  BY <1>21 DEF Journal, inputs, observed, bounds
<1>22. CASE RestoreArchive
  BY <1>22 DEF RestoreArchive, inputs, exports, observed, bounds
<1>23. CASE SaveSnapshot
  BY <1>23 DEF SaveSnapshot, inputs, observed, bounds
<1>24. CASE CommitOutput
  BY <1>24 DEF CommitOutput, inputs, observed, bounds
<1>25. CASE ClearPending
  BY <1>25 DEF ClearPending, inputs, observed, bounds
<1>26. CASE DiscardWorkspace
  BY <1>26 DEF DiscardWorkspace, Disposable, inputs, exports, observed, bounds
<1>27. CASE Cleanup
  BY <1>27 DEF Cleanup, inputs, exports, observed, bounds
<1>28. CASE CleanupFails
  BY <1>28 DEF CleanupFails, inputs, exports, observed, bounds
<1>29. CASE Fail
  BY <1>29 DEF Fail, IOSteps, inputs, exports, observed
<1>30. CASE Crash
  BY <1>30 DEF Crash, Untouched, Fresh, inputs, exports, observed
<1>31. CASE UNCHANGED vars
  BY <1>31 DEF vars, inputs, exports, runner, observed, bounds
<1>32. CASE StartAgain
  BY <1>32 DEF StartAgain, inputs, exports, observed, bounds
<1>33. CASE Settle
  BY <1>33 DEF Settle, inputs, exports, observed, bounds
<1>34. CASE SettleFails
  BY <1>34 DEF SettleFails, inputs, exports, observed
<1> QED
  BY <1>1, <1>2, <1>3, <1>4, <1>5, <1>6, <1>7, <1>8, <1>9, <1>10, <1>11, <1>12, <1>13,
     <1>14, <1>15, <1>16, <1>17, <1>18, <1>19, <1>20, <1>21, <1>22, <1>23, <1>24, <1>25,
     <1>26, <1>27, <1>28, <1>29, <1>30, <1>31, <1>32, <1>33, <1>34
     DEF Next, Run

-----------------------------------------------------------------------------
LEMMA InitQuiet == Init => QuietInv
BY NoneAssumption DEF Init, QuietInv, Reaped, Taken, Roles, Executor

LEMMA NextQuiet == ChainInv /\ QuietInv /\ [Next]_vars => QuietInv'
<1> SUFFICES ASSUME ChainInv, QuietInv, [Next]_vars PROVE QuietInv'
  OBVIOUS
<1> USE NoneAssumption DEF ChainInv, RunnerInv, OutputInv, Installing, Asking, Exporting,
           TypeOK, Stamps, Memory, Pending, Roles, Steps, QuietInv, Reaped, Taken, Executor,
           Disposable
<1>1. CASE Restart
  BY <1>1 DEF Restart, inputs, exports, observed, bounds
<1>2. CASE Start
  BY <1>2 DEF Start, inputs, exports, observed, bounds
<1>3. CASE Load
  BY <1>3 DEF Load, inputs, exports, observed, bounds
<1>4. ASSUME NEW r \in Roles, PickRole(r) PROVE QuietInv'
  BY <1>4 DEF PickRole, inputs, exports, observed, bounds
<1>5. CASE RolesDone
  BY <1>5 DEF RolesDone, inputs, exports, observed, bounds
<1>6. CASE InheritInput
  BY <1>6 DEF InheritInput, PublishPair, exports, observed, bounds
<1>7. CASE JoinInputs
  BY <1>7 DEF JoinInputs, PublishPair, exports, observed
<1>8. CASE ReadyAgain
  BY <1>8 DEF ReadyAgain, inputs, exports, observed, bounds
<1>9. CASE ResumeWorkspace
  BY <1>9 DEF ResumeWorkspace, inputs, exports, observed, bounds
<1>10. CASE RestoreMemory
  BY <1>10 DEF RestoreMemory, inputs, exports, observed, bounds
<1>11. CASE PlaceWorkspace
  BY <1>11 DEF PlaceWorkspace, inputs, exports, observed, bounds
<1>12. CASE MarkStarted
  BY <1>12 DEF MarkStarted, exports, bounds
<1>13. CASE EditFiles
  BY <1>13 DEF EditFiles, inputs, exports, runner, observed
<1>14. CASE EditMemory
  BY <1>14 DEF EditMemory, inputs, exports, runner, observed
<1>15. CASE Spawn
  BY <1>15 DEF Spawn, inputs, exports, runner, observed, bounds
<1>16. ASSUME NEW r \in Roles, BackgroundWrite(r) PROVE QuietInv'
  BY <1>16 DEF BackgroundWrite, inputs, exports, runner, observed
<1>17. CASE Answer
  BY <1>17 DEF Answer, inputs, exports, bounds
<1>18. CASE Reap
  BY <1>18 DEF Reap, inputs, exports, observed, bounds
<1>19. CASE Qualify
  BY <1>19 DEF Qualify, Disposable, inputs, exports, observed, bounds
<1>20. CASE Archive
  BY <1>20 DEF Archive, Disposable, inputs, observed, bounds
<1>21. CASE Journal
  BY <1>21 DEF Journal, inputs, observed, bounds
<1>22. CASE RestoreArchive
  BY <1>22 DEF RestoreArchive, inputs, exports, observed, bounds
<1>23. CASE SaveSnapshot
  BY <1>23 DEF SaveSnapshot, inputs, observed, bounds
<1>24. CASE CommitOutput
  BY <1>24 DEF CommitOutput, inputs, observed, bounds
<1>25. CASE ClearPending
  BY <1>25 DEF ClearPending, inputs, observed, bounds
<1>26. CASE DiscardWorkspace
  BY <1>26 DEF DiscardWorkspace, Disposable, inputs, exports, observed, bounds
<1>27. CASE Cleanup
  BY <1>27 DEF Cleanup, inputs, exports, observed, bounds
<1>28. CASE CleanupFails
  BY <1>28 DEF CleanupFails, inputs, exports, observed, bounds
<1>29. CASE Fail
  BY <1>29 DEF Fail, IOSteps, inputs, exports, observed
<1>30. CASE Crash
  BY <1>30 DEF Crash, Untouched, Fresh, inputs, exports, observed
<1>31. CASE UNCHANGED vars
  BY <1>31 DEF vars, inputs, exports, runner, observed, bounds
<1>32. CASE StartAgain
  BY <1>32 DEF StartAgain, inputs, exports, observed, bounds
<1>33. CASE Settle
  BY <1>33 DEF Settle, inputs, exports, observed, bounds
<1>34. CASE SettleFails
  BY <1>34 DEF SettleFails, inputs, exports, observed
<1> QED
  BY <1>1, <1>2, <1>3, <1>4, <1>5, <1>6, <1>7, <1>8, <1>9, <1>10, <1>11, <1>12, <1>13,
     <1>14, <1>15, <1>16, <1>17, <1>18, <1>19, <1>20, <1>21, <1>22, <1>23, <1>24, <1>25,
     <1>26, <1>27, <1>28, <1>29, <1>30, <1>31, <1>32, <1>33, <1>34
     DEF Next, Run

-----------------------------------------------------------------------------
LEMMA InitOwn == Init => OwnInv
BY NoneAssumption DEF Init, OwnInv

LEMMA NextOwn == ChainInv /\ StampInv /\ OwnInv /\ [Next]_vars => OwnInv'
<1> SUFFICES ASSUME ChainInv, StampInv, OwnInv, [Next]_vars PROVE OwnInv'
  OBVIOUS
<1> USE NoneAssumption DEF ChainInv, RunnerInv, OutputInv, Installing, Asking, Exporting,
           TypeOK, Stamps, Memory, Pending, Roles, Steps, StampInv, OwnInv
<1>1. CASE Restart
  BY <1>1 DEF Restart, inputs, exports, observed, bounds
<1>2. CASE Start
  BY <1>2 DEF Start, inputs, exports, observed, bounds
<1>3. CASE Load
  BY <1>3 DEF Load, inputs, exports, observed, bounds
<1>4. ASSUME NEW r \in Roles, PickRole(r) PROVE OwnInv'
  BY <1>4 DEF PickRole, inputs, exports, observed, bounds
<1>5. CASE RolesDone
  BY <1>5 DEF RolesDone, inputs, exports, observed, bounds
<1>6. CASE InheritInput
  BY <1>6 DEF InheritInput, PublishPair, exports, observed, bounds
<1>7. CASE JoinInputs
  BY <1>7 DEF JoinInputs, PublishPair, exports, observed
<1>8. CASE ReadyAgain
  BY <1>8 DEF ReadyAgain, inputs, exports, observed, bounds
<1>9. CASE ResumeWorkspace
  BY <1>9 DEF ResumeWorkspace, inputs, exports, observed, bounds
<1>10. CASE RestoreMemory
  BY <1>10 DEF RestoreMemory, inputs, exports, observed, bounds
<1>11. CASE PlaceWorkspace
  BY <1>11 DEF PlaceWorkspace, inputs, exports, observed, bounds
<1>12. CASE MarkStarted
  BY <1>12 DEF MarkStarted, exports, bounds
<1>13. CASE EditFiles
  BY <1>13 DEF EditFiles, inputs, exports, runner, observed
<1>14. CASE EditMemory
  BY <1>14 DEF EditMemory, inputs, exports, runner, observed
<1>15. CASE Spawn
  BY <1>15 DEF Spawn, inputs, exports, runner, observed, bounds
<1>16. ASSUME NEW r \in Roles, BackgroundWrite(r) PROVE OwnInv'
  BY <1>16 DEF BackgroundWrite, inputs, exports, runner, observed
<1>17. CASE Answer
  BY <1>17 DEF Answer, inputs, exports, bounds
<1>18. CASE Reap
  BY <1>18 DEF Reap, inputs, exports, observed, bounds
<1>19. CASE Qualify
  BY <1>19 DEF Qualify, Disposable, inputs, exports, observed, bounds
<1>20. CASE Archive
  BY <1>20 DEF Archive, Disposable, inputs, observed, bounds
<1>21. CASE Journal
  BY <1>21 DEF Journal, inputs, observed, bounds
<1>22. CASE RestoreArchive
  BY <1>22 DEF RestoreArchive, inputs, exports, observed, bounds
<1>23. CASE SaveSnapshot
  BY <1>23 DEF SaveSnapshot, inputs, observed, bounds
<1>24. CASE CommitOutput
  BY <1>24 DEF CommitOutput, inputs, observed, bounds
<1>25. CASE ClearPending
  BY <1>25 DEF ClearPending, inputs, observed, bounds
<1>26. CASE DiscardWorkspace
  BY <1>26 DEF DiscardWorkspace, Disposable, inputs, exports, observed, bounds
<1>27. CASE Cleanup
  BY <1>27 DEF Cleanup, inputs, exports, observed, bounds
<1>28. CASE CleanupFails
  BY <1>28 DEF CleanupFails, inputs, exports, observed, bounds
<1>29. CASE Fail
  BY <1>29 DEF Fail, IOSteps, inputs, exports, observed
<1>30. CASE Crash
  BY <1>30 DEF Crash, Untouched, Fresh, inputs, exports, observed
<1>31. CASE UNCHANGED vars
  BY <1>31 DEF vars, inputs, exports, runner, observed, bounds
<1>32. CASE StartAgain
  BY <1>32 DEF StartAgain, inputs, exports, observed, bounds
<1>33. CASE Settle
  BY <1>33 DEF Settle, inputs, exports, observed, bounds
<1>34. CASE SettleFails
  BY <1>34 DEF SettleFails, inputs, exports, observed
<1> QED
  BY <1>1, <1>2, <1>3, <1>4, <1>5, <1>6, <1>7, <1>8, <1>9, <1>10, <1>11, <1>12, <1>13,
     <1>14, <1>15, <1>16, <1>17, <1>18, <1>19, <1>20, <1>21, <1>22, <1>23, <1>24, <1>25,
     <1>26, <1>27, <1>28, <1>29, <1>30, <1>31, <1>32, <1>33, <1>34
     DEF Next, Run

-----------------------------------------------------------------------------
(* The properties *)

ActivationInv == ChainInv /\ MatchInv /\ StampInv /\ DisputeInv /\ QuietInv /\ OwnInv

LEMMA ActivationInvariant == Spec => []ActivationInv
<1>1. Init => ActivationInv
  BY InitChain, InitMatch, InitStamp, InitDispute, InitQuiet, InitOwn DEF ActivationInv
<1>2. ActivationInv /\ [Next]_vars => ActivationInv'
  BY NextChain, NextMatch, NextStamp, NextDispute, NextQuiet, NextOwn DEF ActivationInv
<1> QED
  BY <1>1, <1>2, PTL DEF Spec

\* A committed triple is one answer's, whatever failed between the answer and the commit.
THEOREM PairsMatch == Spec => []PairMatchesAnswer
<1>1. ActivationInv => PairMatchesAnswer
  BY DEF ActivationInv, MatchInv
<1> QED
  BY <1>1, ActivationInvariant, PTL

\* No process the executor left behind writes after its files are archived.
THEOREM ExecutorQuiescent == Spec => []ArchiveIsQuiescent
<1>1. ActivationInv => ArchiveIsQuiescent
  BY DEF ActivationInv, QuietInv, Taken, ArchiveIsQuiescent
<1> QED
  BY <1>1, ActivationInvariant, PTL

\* Every role works on its own pair, also when it is asked after a restart.
THEOREM OwnInput == Spec => []RoleOwnsInput
<1>1. ActivationInv => RoleOwnsInput
  BY DEF ActivationInv, ChainInv, RunnerInv, Installing, OwnInv, RoleOwnsInput
<1> QED
  BY <1>1, ActivationInvariant, PTL

\* Facts recorded beside files that are thrown away are sealed as disputed.
THEOREM UnsupportedAreDisputed == Spec => []UnsupportedFactsDisputed
<1>1. ActivationInv => UnsupportedFactsDisputed
  BY DEF ActivationInv, DisputeInv
<1> QED
  BY <1>1, ActivationInvariant, PTL

Committed == [r \in Roles |-> IF output[r] = None THEN None
                                ELSE <<archive[r], snapshot[r], output[r]>>]

LEMMA InitRefines == Init => Outputs!Init
BY DEF Init, Outputs!Init, Roles

\* A step commits the triple of the pending role, or changes no committed triple.
LEMMA NextRefines == ChainInv /\ ChainInv' /\ [Next]_vars => [Outputs!Next]_Committed
<1> SUFFICES ASSUME ChainInv, ChainInv', [Next]_vars
             PROVE  Outputs!Next \/ Committed' = Committed
  OBVIOUS
<1> USE NoneAssumption DEF ChainInv, RunnerInv, OutputInv, TypeOK, Pending, Roles, Stamps,
   Exporting,
                           Installing, Asking
<1>1. CASE CommitOutput /\ output[pending.role] = None
  <2>1. PICK R \in 1 .. 3 : R = pending.role
    BY <1>1 DEF CommitOutput
  <2> DEFINE triple == <<archive[R], snapshot[R], pending.report>>
  <2>2. Committed[R] = None /\ triple \in Stamps \X Memory \X Nat
    BY <1>1, <2>1 DEF CommitOutput, Committed
  <2>3. ASSUME NEW q \in 1 .. R - 1 PROVE Committed[q] # None
    <3>1. q \in Roles /\ output[q] \in Nat
      BY <1>1, <2>1 DEF CommitOutput
    <3>2. archive[q] \in Nat /\ snapshot[q] \in Memory
      BY <3>1
    <3>3. Committed[q] = <<archive[q], snapshot[q], output[q]>>
      BY <3>1 DEF Committed
    <3> QED
      BY <3>1, <3>2, <3>3
  <2>4. output' = [output EXCEPT ![R] = pending.report] /\ UNCHANGED <<archive, snapshot>>
    BY <1>1, <2>1 DEF CommitOutput
  <2>5. pending.report # None
    BY <1>1 DEF CommitOutput
  <2>6. Committed' = [Committed EXCEPT ![R] = triple]
    BY <2>1, <2>4, <2>5 DEF Committed
  <2>7. Committed'[R] = triple
    BY <2>6 DEF Committed
  <2>8. Outputs!Commit(R)
    BY <2>2, <2>3, <2>6, <2>7 DEF Outputs!Commit, Committed
  <2> QED
    BY <2>8 DEF Outputs!Next
<1>2. CASE CommitOutput /\ output[pending.role] # None
  BY <1>2 DEF CommitOutput, Committed
<1>3. CASE SaveSnapshot
  BY <1>3 DEF SaveSnapshot, Committed
<1>4. CASE Archive
  BY <1>4 DEF Archive, Committed
<1>5. CASE ~CommitOutput /\ ~SaveSnapshot /\ ~Archive
  <2>1. UNCHANGED <<output, archive, snapshot>>
    BY <1>5 DEF Next, Run, Restart, Start, Load, PickRole, RolesDone, InheritInput,
       JoinInputs, ReadyAgain, ResumeWorkspace, RestoreMemory, PlaceWorkspace, MarkStarted,
       EditFiles, EditMemory, Spawn, BackgroundWrite, Answer, Reap, Qualify, Journal,
       RestoreArchive, ClearPending, DiscardWorkspace, Cleanup, CleanupFails, StartAgain,
       Settle, SettleFails, Fail, Crash,
       PublishPair, inputs, exports, runner, observed, bounds, vars
  <2> QED
    BY <2>1 DEF Committed
<1> QED
  BY <1>1, <1>2, <1>3, <1>4, <1>5

\* An activation implements the promise made to the readers of its outputs.
THEOREM ImplementsPairedOutput == Spec => CommitsTriples
<1>1. Init => Outputs!Init
  BY InitRefines
<1>2. ChainInv /\ ChainInv' /\ [Next]_vars => [Outputs!Next]_Committed
  BY NextRefines
<1> QED
  BY <1>1, <1>2, ChainAlways, PTL DEF Spec, CommitsTriples, Outputs!Spec, Committed
=============================================================================
