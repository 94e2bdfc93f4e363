--------------------------- MODULE TaskRuns_proofs ---------------------------
(***************************************************************************)
(* The safety properties of TaskRuns, for all tasks, roles and bounds.     *)
(***************************************************************************)
EXTENDS TaskRuns, TLAPS

(* The inductive invariant *)

\* What a runner knows of its task, its sources and its report.
RunOf(t) ==
    /\ run[t].act = act[t]
    /\ run[t].step \in {"start", "await", "work"} =>
         /\ NodeOf(t) \notin outputs
         /\ run[t].batch = Incoming(NodeOf(t))
         /\ run[t].batch \ run[t].wait \subseteq outputs
    /\ run[t].step = "work" => run[t].wait = {} /\ NodeOf(t) \in saved
    /\ run[t].report # "none" => job[t] = "attached"
    /\ run[t].report = "sent" /\ ~run[t].reportFailed => <<t, run[t].act>> \in told
    /\ run[t].step \in {"settle", "end"} => run[t].report # "due"

RunInv == \A t \in Tasks : Running(t) => RunOf(t)

\* No node of a later activation has a record or an output.
NotAhead == \A n \in saved \cup outputs : n[2] <= act[TaskOf(n)]

GraphInv == RecordedBatchComplete /\ NotAhead

\* A late report is about an activation that was run.
LateInv == \A t \in Tasks : job[t] \in {"late", "deliver"} => late[t] \in Activations

RunsInv == TypeOK /\ RunInv /\ GraphInv /\ LateInv

-----------------------------------------------------------------------------
LEMMA NewRunType ==
    ASSUME TypeOK, NEW t \in Tasks, NEW report \in {"none", "due", "sent"}
    PROVE  NewRun(t, report) \in Runner
BY RunsAssumption DEF RunsAssumption, TypeOK, NewRun, Runner, RoleIds, RunSteps, Watches, Results

LEMMA ChainType ==
    ASSUME NEW t \in Tasks, NEW a \in Activations
    PROVE  Chain(t, a) \subseteq Nodes \X Nodes
BY RunsAssumption DEF RunsAssumption, Chain, Nodes, RoleIds, Activations

LEMMA InitType == Init => TypeOK
<1> SUFFICES ASSUME Init PROVE TypeOK
  OBVIOUS
<1>1. 1 \in Activations
  BY RunsAssumption DEF RunsAssumption, Activations
<1>2. edges \subseteq Nodes \X Nodes
  BY <1>1, ChainType DEF Init
<1> QED
  BY <1>1, <1>2, RunsAssumption DEF RunsAssumption, Init, TypeOK, Outcomes, Jobs

\* What an action writes into a runner's record keeps it a runner.
LEMMA RunnerUpdates ==
    ASSUME NEW x \in Runner
    PROVE  /\ \A s \in RunSteps, r \in Results : [x EXCEPT !.step = s, !.result = r] \in Runner
           /\ \A s \in RunSteps : [x EXCEPT !.step = s] \in Runner
           /\ \A B, S \in SUBSET Nodes :
                [x EXCEPT !.step = "start", !.batch = B, !.wait = B, !.start = S] \in Runner
           /\ \A S \in SUBSET Nodes : [x EXCEPT !.start = S] \in Runner
           /\ \A n \in Nodes \cup {None} : [x EXCEPT !.on = n, !.watch = "no"] \in Runner
           /\ \A W \in SUBSET Nodes : [x EXCEPT !.wait = W, !.on = None, !.watch = "no"] \in Runner
           /\ \A w \in Watches : [x EXCEPT !.watch = w] \in Runner
           /\ [x EXCEPT !.canceled = TRUE] \in Runner
           /\ [x EXCEPT !.report = "sent", !.reportFailed = TRUE] \in Runner
BY ZenonT(60) DEF Runner, RunSteps, Watches

LEMMA RunnerOf ==
    ASSUME TypeOK, NEW t \in Tasks, Running(t)
    PROVE  run[t] \in Runner
BY DEF TypeOK, Running

LEMMA ReplaceRunner ==
    ASSUME TypeOK, NEW t \in Tasks, NEW x \in Runner
    PROVE  [run EXCEPT ![t] = x] \in [Tasks -> Runner \cup {None}]
BY DEF TypeOK

LEMMA NodeOfType ==
    ASSUME TypeOK, NEW t \in Tasks, Running(t)
    PROVE  NodeOf(t) \in Nodes
BY RunnerOf DEF NodeOf, Nodes, Runner

LEMMA NextType == TypeOK /\ LateInv /\ [Next]_vars => TypeOK'
<1> SUFFICES ASSUME TypeOK, LateInv, [Next]_vars PROVE TypeOK'
  OBVIOUS
<1> USE RunsAssumption, NoneAssumption DEF LateInv, Jobs, Outcomes, Activations, RoleIds
<1>a. /\ Results = {"ok", "failed", "canceled"}
      /\ {"role", "report", "start", "await", "work", "settle", "end"} \subseteq RunSteps
  BY DEF Results, RunSteps
<1>1. ASSUME NEW t \in Tasks, RunReady(t) PROVE TypeOK'
  BY <1>1 DEF RunReady, durable, bounds, graph, TypeOK, Runner, RunSteps, Watches, Results
<1>2. ASSUME NEW t \in Tasks, CallStarts(t) PROVE TypeOK'
  BY <1>2 DEF CallStarts, Running, NewRun, CanStart, durable, bounds, graph, TypeOK, Runner,
     RunSteps, Watches, Results
<1>3. ASSUME NEW t \in Tasks, CallAttaches(t) PROVE TypeOK'
  BY <1>3, SMTT(30) DEF CallAttaches, Running, durable, bounds, graph, TypeOK, Runner, RunSteps,
     Watches, Results
<1>4. ASSUME NEW t \in Tasks, CallLate(t) PROVE TypeOK'
  BY <1>4 DEF CallLate, Running, durable, bounds, graph, TypeOK, Runner, RunSteps, Watches,
     Results
<1>5. ASSUME NEW t \in Tasks, CallRefused(t) PROVE TypeOK'
  BY <1>5 DEF CallRefused, Running, CanStart, durable, bounds, graph, TypeOK, Runner,
     RunSteps, Watches, Results
<1>6. ASSUME NEW t \in Tasks, DeliverLate(t) PROVE TypeOK'
  BY <1>6 DEF DeliverLate, graph, bounds, TypeOK, Runner, RunSteps, Watches, Results
<1>7. ASSUME NEW t \in Tasks, Begin(t) PROVE TypeOK'
  <2> DEFINE over == LastNode(t, run[t].act) \in outputs
             x == IF over \/ run[t].canceled THEN "report" ELSE "role"
             y == IF ~over /\ run[t].canceled THEN "canceled" ELSE "ok"
  <2>1. run[t] \in Runner
    BY <1>7, RunnerOf DEF Begin, At
  <2>2. [run[t] EXCEPT !.step = x, !.result = y] \in Runner
    <3>1. x \in RunSteps /\ y \in Results
      BY <1>a
    <3> HIDE DEF x, y
    <3> QED
      BY <2>1, <3>1, RunnerUpdates
  <2>3. run' = [run EXCEPT ![t] = [run[t] EXCEPT !.step = x, !.result = y]]
    BY <1>7, <2>1 DEF Begin, TypeOK, Runner
  <2>4. run' \in [Tasks -> Runner \cup {None}]
    BY <2>2, <2>3, ReplaceRunner
  <2> QED
    BY <1>7, <2>4 DEF TypeOK, Begin, durable, manager, bounds, graph
<1>8. ASSUME NEW t \in Tasks, SkipRole(t) PROVE TypeOK'
  BY <1>8 DEF SkipRole, At, NodeOf, Ends, durable, manager, bounds, graph, Running, TypeOK,
     Runner, RunSteps, Watches, Results
<1>9. ASSUME NEW t \in Tasks, EnterRole(t) PROVE TypeOK'
  <2> DEFINE sources == Incoming(NodeOf(t))
             missing == {m \in sources : m \notin outputs /\ TaskOf(m) # t}
             x == [run[t] EXCEPT !.step = "start", !.batch = sources, !.wait = sources,
                                 !.start = missing]
  <2>1. run[t] \in Runner
    BY <1>9, RunnerOf DEF EnterRole, At
  <2>2. x \in Runner
    BY <2>1, RunnerUpdates DEF Incoming
  <2>3. run' = [run EXCEPT ![t] = x]
    BY <1>9, <2>1 DEF EnterRole, TypeOK, Runner
  <2>4. run' \in [Tasks -> Runner \cup {None}]
    BY <2>2, <2>3, ReplaceRunner
  <2> QED
    BY <1>9, <2>4 DEF TypeOK, EnterRole, durable, manager, bounds, graph
<1>10. ASSUME NEW t \in Tasks, Canceled(t) PROVE TypeOK'
  <2>1. run[t] \in Runner
    BY <1>10, RunnerOf DEF Canceled, At, Awaiting, Running
  <2>2. [run[t] EXCEPT !.step = "report", !.result = "canceled"] \in Runner
    BY <1>10, <1>a, <2>1, RunnerUpdates DEF Canceled, At
  <2>3. run' = [run EXCEPT ![t] = [run[t] EXCEPT !.step = "report", !.result = "canceled"]]
    BY <1>10, <2>1 DEF Canceled, Ends, TypeOK, Runner
  <2>4. run' \in [Tasks -> Runner \cup {None}]
    BY <2>2, <2>3, ReplaceRunner
  <2> QED
    BY <1>10, <2>4 DEF TypeOK, Canceled, durable, manager, bounds, graph
<1>11. ASSUME NEW t \in Tasks, NEW m \in Nodes, StartSource(t, m) PROVE TypeOK'
  <2> DEFINE s == TaskOf(m)
             this == [run[t] EXCEPT !.start = run[t].start \ {m}]
  <2>1. run[t] \in Runner /\ s \in Tasks
    BY <1>11, RunnerOf DEF StartSource, At, Nodes, TaskOf
  <2>2. this \in Runner
    <3>1. run[t].start \ {m} \in SUBSET Nodes
      BY <2>1 DEF Runner
    <3> QED
      BY <2>1, <3>1, RunnerUpdates
  <2>3. NewRun(s, "none") \in Runner
    BY <2>1, NewRunType
  <2>4. [run[t] EXCEPT !.step = "report", !.result = "failed"] \in Runner
    BY <1>a, <2>1, RunnerUpdates
  <2>5. \/ run' = [run EXCEPT ![t] = this]
        \/ run' = [run EXCEPT ![t] = this, ![s] = NewRun(s, "none")]
        \/ run' = [run EXCEPT ![t] = [run[t] EXCEPT !.step = "report", !.result = "failed"]]
    BY <1>11, <2>1 DEF StartSource, Ends, TypeOK, Runner
  <2> HIDE DEF s, this
  <2>6. run' \in [Tasks -> Runner \cup {None}]
    BY <2>1, <2>2, <2>3, <2>4, <2>5 DEF TypeOK
  <2> QED
    BY <1>11, <2>6 DEF StartSource, TypeOK, durable, graph, manager, bounds
<1>12. ASSUME NEW t \in Tasks, NEW m \in Nodes, AwaitNext(t, m) PROVE TypeOK'
  <2>1. run[t] \in Runner
    BY <1>12, RunnerOf DEF AwaitNext, At, Awaiting, Running
  <2>2. [run[t] EXCEPT !.on = m, !.watch = "no"] \in Runner
    BY <1>12, <1>a, <2>1, RunnerUpdates DEF AwaitNext, At
  <2>3. run' = [run EXCEPT ![t] = [run[t] EXCEPT !.on = m, !.watch = "no"]]
    BY <1>12, <2>1, ZenonT(60) DEF AwaitNext, Ends, TypeOK, Runner
  <2>4. run' \in [Tasks -> Runner \cup {None}]
    BY <2>2, <2>3, ReplaceRunner
  <2> QED
    BY <1>12, <2>4 DEF TypeOK, AwaitNext, durable, manager, bounds, graph
<1>13. ASSUME NEW t \in Tasks, FrontierStarted(t) PROVE TypeOK'
  BY <1>13 DEF FrontierStarted, At, durable, manager, bounds, graph, Running, TypeOK,
     Runner, RunSteps, Watches, Results
<1>14. ASSUME NEW t \in Tasks, SourceReady(t) PROVE TypeOK'
  BY <1>14 DEF SourceReady, At, durable, manager, bounds, graph, Running, TypeOK, Runner,
     RunSteps, Watches, Results
<1>15. ASSUME NEW t \in Tasks, JoinSource(t) PROVE TypeOK'
  <2> DEFINE s == TaskOf(run[t].on)
             live == [run[t] EXCEPT !.watch = "live"]
  <2>1. run[t] \in Runner /\ s \in Tasks
    BY <1>15, RunnerOf DEF JoinSource, Awaiting, At, Nodes, TaskOf, Runner
  <2>2. live \in Runner
    BY <2>1, RunnerUpdates DEF Watches
  <2>3. NewRun(s, "none") \in Runner
    BY <2>1, NewRunType
  <2>4. [run[t] EXCEPT !.step = "report", !.result = "failed"] \in Runner
    BY <1>a, <2>1, RunnerUpdates
  <2>5. \/ run' = [run EXCEPT ![t] = live]
        \/ run' = [run EXCEPT ![t] = live, ![s] = NewRun(s, "none")]
        \/ run' = [run EXCEPT ![t] = [run[t] EXCEPT !.step = "report", !.result = "failed"]]
    BY <1>15, <2>1, ZenonT(60) DEF JoinSource, Ends, TypeOK, Runner
  <2> HIDE DEF s, live
  <2>6. run' \in [Tasks -> Runner \cup {None}]
    BY <2>1, <2>2, <2>3, <2>4, <2>5 DEF TypeOK
  <2> QED
    BY <1>15, <2>6 DEF JoinSource, TypeOK, durable, graph, manager, bounds
<1>16. ASSUME NEW t \in Tasks, SourceFailed(t) PROVE TypeOK'
  <2>1. run[t] \in Runner
    BY <1>16, RunnerOf DEF SourceFailed, At, Awaiting, Running
  <2>2. [run[t] EXCEPT !.step = "report", !.result = "failed"] \in Runner
    BY <1>16, <1>a, <2>1, RunnerUpdates DEF SourceFailed, At
  <2>3. run' = [run EXCEPT ![t] = [run[t] EXCEPT !.step = "report", !.result = "failed"]]
    BY <1>16, <2>1 DEF SourceFailed, Ends, TypeOK, Runner
  <2>4. run' \in [Tasks -> Runner \cup {None}]
    BY <2>2, <2>3, ReplaceRunner
  <2> QED
    BY <1>16, <2>4 DEF TypeOK, SourceFailed, durable, manager, bounds, graph
<1>17. ASSUME NEW t \in Tasks, SaveBatch(t) PROVE TypeOK'
  <2>1. run[t] \in Runner
    BY <1>17, RunnerOf DEF SaveBatch, At, Awaiting, Running
  <2>2. [run[t] EXCEPT !.step = "work"] \in Runner
    BY <1>17, <1>a, <2>1, RunnerUpdates DEF SaveBatch, At
  <2>3. run' = [run EXCEPT ![t] = [run[t] EXCEPT !.step = "work"]]
    BY <1>17, <2>1 DEF SaveBatch, Ends, TypeOK, Runner
  <2>4. run' \in [Tasks -> Runner \cup {None}]
    BY <2>2, <2>3, ReplaceRunner
  <2>5. NodeOf(t) \in Nodes
    BY <1>17, NodeOfType DEF SaveBatch, At
  <2> QED
    BY <1>17, <2>4, <2>5 DEF TypeOK, SaveBatch, graph, manager, bounds
<1>18. ASSUME NEW t \in Tasks, CommitOutput(t) PROVE TypeOK'
  <2>1. run[t] \in Runner /\ NodeOf(t) \in Nodes
    BY <1>18, RunnerOf, NodeOfType DEF CommitOutput, At
  <2>2. ASSUME NEW s \in Tasks PROVE run'[s] \in Runner \cup {None}
    <3>1. CASE s = t
      <4>1. run'[s] = [run[t] EXCEPT !.step = "role"]
        BY <1>18, <3>1 DEF CommitOutput, Waiters
      <4>2. [run[t] EXCEPT !.step = "role"] \in Runner
        BY <1>a, <2>1, RunnerUpdates
      <4> QED
        BY <4>1, <4>2
    <3>2. CASE s # t /\ s \in Waiters(t, "live")
      <4>1. run'[s] = [run[s] EXCEPT !.watch = "changed"]
        BY <1>18, <3>2 DEF CommitOutput
      <4>2. run[s] \in Runner /\ "changed" \in Watches
        BY <3>2, RunnerOf DEF Waiters, Watches
      <4>3. [run[s] EXCEPT !.watch = "changed"] \in Runner
        BY <4>2, RunnerUpdates
      <4> QED
        BY <4>1, <4>3
    <3>3. CASE s # t /\ s \notin Waiters(t, "live")
      BY <1>18, <3>3 DEF CommitOutput, TypeOK
    <3> QED  BY <3>1, <3>2, <3>3
  <2>3. run' \in [Tasks -> Runner \cup {None}]
    BY <1>18, <2>2 DEF CommitOutput
  <2> QED
    BY <1>18, <2>1, <2>3 DEF CommitOutput, TypeOK, manager, bounds
<1>19. ASSUME NEW t \in Tasks, DeliverReport(t) PROVE TypeOK'
  BY <1>19 DEF DeliverReport, At, graph, manager, bounds, Running, TypeOK, Runner, RunSteps,
     Watches, Results
<1>20. ASSUME NEW t \in Tasks, ReportsDone(t) PROVE TypeOK'
  BY <1>20, SMTT(30) DEF ReportsDone, At, durable, manager, bounds, graph, Running, TypeOK, Runner,
     RunSteps, Watches, Results
<1>21. ASSUME NEW t \in Tasks, Settle(t) PROVE TypeOK'
  BY <1>21 DEF Settle, At, RecordOutcome, manager, bounds, TaskOutcome, Running, TypeOK,
     Runner, RunSteps, Watches, Results
<1>22. ASSUME NEW t \in Tasks, End(t) PROVE TypeOK'
  <2>1. ASSUME NEW s \in Tasks PROVE run'[s] \in Runner \cup {None}
    <3>1. CASE s = t
      BY <1>22, <3>1 DEF End, Waiters
    <3>2. ASSUME s # t, NEW from, NEW w \in Watches, s \in Waiters(t, from),
                 run'[s] = [run[s] EXCEPT !.watch = w]
          PROVE  run'[s] \in Runner
      <4>1. run[s] \in Runner
        BY <3>2, RunnerOf DEF Waiters
      <4> QED
        BY <3>2, <4>1, RunnerUpdates
    <3>3. CASE s # t /\ s \in Waiters(t, "live")
      <4>1. run'[s] = [run[s] EXCEPT !.watch = "over"]
        BY <1>22, <3>3 DEF End, Waiters
      <4> QED
        BY <3>2, <3>3, <4>1 DEF Watches
    <3>4. CASE s # t /\ s \notin Waiters(t, "live") /\ s \in Waiters(t, "changed")
      <4>1. run'[s] = [run[s] EXCEPT !.watch = "either"]
        BY <1>22, <3>4 DEF End
      <4> QED
        BY <3>2, <3>4, <4>1 DEF Watches
    <3>5. CASE s # t /\ s \notin Waiters(t, "live") /\ s \notin Waiters(t, "changed")
      BY <1>22, <3>5 DEF End, TypeOK
    <3> QED  BY <3>1, <3>3, <3>4, <3>5
  <2>2. run' \in [Tasks -> Runner \cup {None}]
    BY <1>22, <2>1 DEF End
  <2>3. job' \in [Tasks -> Jobs]
    BY <1>22 DEF End, TypeOK
  <2> QED
    BY <1>22, <2>2, <2>3 DEF End, TypeOK, durable, graph, bounds
<1>23. ASSUME NEW t \in Tasks, DeliverLateFails(t) PROVE TypeOK'
  BY <1>23 DEF DeliverLateFails, SetTaskActive, TypeOK, Runner, RunSteps, Watches, Results
<1>24. ASSUME NEW t \in Tasks, RoleFails(t) PROVE TypeOK'
  <2>1. run[t] \in Runner
    BY <1>24, RunnerOf DEF RoleFails, At, Awaiting, Running
  <2>2. [run[t] EXCEPT !.step = "report", !.result = "failed"] \in Runner
    BY <1>24, <1>a, <2>1, RunnerUpdates DEF RoleFails, At
  <2>3. run' = [run EXCEPT ![t] = [run[t] EXCEPT !.step = "report", !.result = "failed"]]
    BY <1>24, <2>1 DEF RoleFails, Ends, TypeOK, Runner
  <2>4. run' \in [Tasks -> Runner \cup {None}]
    BY <2>2, <2>3, ReplaceRunner
  <2> QED
    BY <1>24, <2>4 DEF TypeOK, RoleFails, durable, manager, graph
<1>25. ASSUME NEW t \in Tasks, DeliverReportFails(t) PROVE TypeOK'
  <2>1. run[t] \in Runner
    BY <1>25, RunnerOf DEF DeliverReportFails, At, Awaiting, Running
  <2>2. [run[t] EXCEPT !.report = "sent", !.reportFailed = TRUE] \in Runner
    BY <1>25, <1>a, <2>1, RunnerUpdates DEF DeliverReportFails, At
  <2>3. run' = [run EXCEPT ![t] = [run[t] EXCEPT !.report = "sent", !.reportFailed = TRUE]]
    BY <1>25, <2>1 DEF DeliverReportFails, Ends, TypeOK, Runner
  <2>4. run' \in [Tasks -> Runner \cup {None}]
    BY <2>2, <2>3, ReplaceRunner
  <2> QED
    BY <1>25, <2>4 DEF TypeOK, DeliverReportFails, durable, manager, graph
<1>26. ASSUME NEW t \in Tasks, SettleFails(t) PROVE TypeOK'
  BY <1>26 DEF SettleFails, At, durable, manager, graph, Running, TypeOK, Runner, RunSteps,
     Watches, Results
<1>27. ASSUME NEW m \in Nodes, NEW n \in Nodes, Connect(m, n) PROVE TypeOK'
  BY <1>27 DEF Connect, manager, TypeOK, Runner, RunSteps, Watches, Results
<1>28. ASSUME NEW t \in Tasks, Enable(t) PROVE TypeOK'
  BY <1>28 DEF Enable, HistoryOpen, NotStarted, NoSavedInput, Running, TaskOf, manager, bounds, TypeOK, Runner, RunSteps, Watches,
     Results
<1>34. ASSUME NEW t \in Tasks, Hold(t) PROVE TypeOK'
  BY <1>34 DEF Hold, HistoryOpen, NotStarted, NoSavedInput, Running, TaskOf, manager, bounds, TypeOK, Runner, RunSteps, Watches,
     Results
<1>29. ASSUME NEW t \in Tasks, CancelTask(t) PROVE TypeOK'
  <2>1. run[t] \in Runner
    BY <1>29, RunnerOf DEF CancelTask, At, Awaiting, Running
  <2>2. [run[t] EXCEPT !.canceled = TRUE] \in Runner
    BY <1>29, <1>a, <2>1, RunnerUpdates DEF CancelTask, At
  <2>3. run' = [run EXCEPT ![t] = [run[t] EXCEPT !.canceled = TRUE]]
    BY <1>29, <2>1 DEF CancelTask, Ends, TypeOK, Runner
  <2>4. run' \in [Tasks -> Runner \cup {None}]
    BY <2>2, <2>3, ReplaceRunner
  <2> QED
    BY <1>29, <2>4 DEF TypeOK, CancelTask, durable, manager, graph
<1>30. ASSUME NEW t \in Tasks, CloseTask(t) PROVE TypeOK'
  <2>1. run' \in [Tasks -> Runner \cup {None}]
    <3>1. CASE Running(t)
      <4>1. run[t] \in Runner
        BY <3>1, RunnerOf
      <4>2. run' = [run EXCEPT ![t] = [run[t] EXCEPT !.canceled = TRUE]]
        BY <1>30, <3>1, <4>1 DEF CloseTask, TypeOK, Runner
      <4> QED
        BY <4>1, <4>2, RunnerUpdates, ReplaceRunner
    <3>2. CASE ~Running(t)
      BY <1>30, <3>2 DEF CloseTask, TypeOK
    <3> QED  BY <3>1, <3>2
  <2>2. outcome' \in [Tasks -> Outcomes]
    BY <1>30 DEF CloseTask, TypeOK
  <2> QED
    BY <1>30, <2>1, <2>2 DEF CloseTask, TypeOK, manager
<1>31. ASSUME NEW t \in Tasks, Continue(t) PROVE TypeOK'
  <2>1. act[t] + 1 \in Activations
    BY <1>31 DEF Continue, TypeOK
  <2>2. Chain(t, act[t] + 1) \subseteq Nodes \X Nodes
    BY <2>1, ChainType
  <2>3. LastNode(t, act[t]) \in Nodes /\ <<t, act[t] + 1, 1>> \in Nodes
    BY <2>1 DEF TypeOK, Nodes, LastNode
  <2>4. edges' \subseteq Nodes \X Nodes
    BY <1>31, <2>2, <2>3 DEF Continue, TypeOK
  <2>5. act' \in [Tasks -> Activations]
    BY <1>31, <2>1 DEF Continue, TypeOK
  <2>6. outcome' \in [Tasks -> Outcomes]
    BY <1>31 DEF Continue, TypeOK
  <2> QED
    BY <1>31, <2>4, <2>5, <2>6 DEF Continue, TypeOK, manager, bounds
<1>32. CASE Crash
  BY <1>32 DEF Crash, durable, graph, TypeOK, Runner, RunSteps, Watches, Results
<1>33. CASE UNCHANGED vars
  BY <1>33 DEF vars, durable, graph, manager, bounds, TypeOK, Runner, RunSteps, Watches,
     Results
<1> QED
  BY <1>1, <1>2, <1>3, <1>4, <1>5, <1>6, <1>7, <1>8, <1>9, <1>10, <1>11, <1>12, <1>13,
     <1>14, <1>15, <1>16, <1>17, <1>18, <1>19, <1>20, <1>21, <1>22, <1>23, <1>24, <1>25,
     <1>26, <1>27, <1>28, <1>29, <1>30, <1>31, <1>32, <1>33, <1>34 DEF Next, ManagerStep,
     RunnerStep, Faulty, Edit

-----------------------------------------------------------------------------
LEMMA NextLate == TypeOK /\ LateInv /\ [Next]_vars => LateInv'
<1> SUFFICES ASSUME TypeOK, LateInv, [Next]_vars PROVE LateInv'
  OBVIOUS
<1> USE DEF LateInv, TypeOK
<1>1. ASSUME NEW t \in Tasks, RunReady(t) PROVE LateInv'
  BY <1>1 DEF RunReady, durable, bounds, graph
<1>2. ASSUME NEW t \in Tasks, CallStarts(t) PROVE LateInv'
  BY <1>2 DEF CallStarts, Running, NewRun, CanStart, durable, bounds, graph
<1>3. ASSUME NEW t \in Tasks, CallAttaches(t) PROVE LateInv'
  BY <1>3 DEF CallAttaches, Running, durable, bounds, graph
<1>4. ASSUME NEW t \in Tasks, CallLate(t) PROVE LateInv'
  BY <1>4 DEF CallLate, Running, durable, bounds, graph, Runner
<1>5. ASSUME NEW t \in Tasks, CallRefused(t) PROVE LateInv'
  BY <1>5 DEF CallRefused, Running, CanStart, durable, bounds, graph
<1>6. ASSUME NEW t \in Tasks, DeliverLate(t) PROVE LateInv'
  BY <1>6 DEF DeliverLate, graph, bounds
<1>7. ASSUME NEW t \in Tasks, Begin(t) PROVE LateInv'
  BY <1>7 DEF Begin, At, durable, manager, bounds, graph, Running
<1>8. ASSUME NEW t \in Tasks, SkipRole(t) PROVE LateInv'
  BY <1>8 DEF SkipRole, At, durable, manager, bounds, graph, Running
<1>9. ASSUME NEW t \in Tasks, EnterRole(t) PROVE LateInv'
  BY <1>9 DEF EnterRole, At, TaskOf, durable, manager, bounds, graph, Running
<1>10. ASSUME NEW t \in Tasks, Canceled(t) PROVE LateInv'
  BY <1>10 DEF Canceled, At, Awaiting, durable, manager, bounds, graph, Running
<1>11. ASSUME NEW t \in Tasks, NEW m \in Nodes, StartSource(t, m) PROVE LateInv'
  BY <1>11 DEF StartSource, At, Running, NewRun, CanStart, TaskOf, durable, manager, bounds,
     graph
<1>12. ASSUME NEW t \in Tasks, NEW m \in Nodes, AwaitNext(t, m) PROVE LateInv'
  BY <1>12 DEF AwaitNext, At, durable, manager, bounds, graph, Running
<1>13. ASSUME NEW t \in Tasks, FrontierStarted(t) PROVE LateInv'
  BY <1>13 DEF FrontierStarted, At, durable, manager, bounds, graph, Running
<1>14. ASSUME NEW t \in Tasks, SourceReady(t) PROVE LateInv'
  BY <1>14 DEF SourceReady, At, durable, manager, bounds, graph, Running
<1>15. ASSUME NEW t \in Tasks, JoinSource(t) PROVE LateInv'
  BY <1>15 DEF JoinSource, Running, Awaiting, NewRun, CanStart, TaskOf, durable, manager,
     bounds, graph, At
<1>16. ASSUME NEW t \in Tasks, SourceFailed(t) PROVE LateInv'
  BY <1>16 DEF SourceFailed, Awaiting, durable, manager, bounds, graph, At, Running
<1>17. ASSUME NEW t \in Tasks, SaveBatch(t) PROVE LateInv'
  BY <1>17 DEF SaveBatch, At, graph, manager, bounds, Running
<1>18. ASSUME NEW t \in Tasks, CommitOutput(t) PROVE LateInv'
  BY <1>18 DEF CommitOutput, At, Waiters, manager, bounds, Running, TaskOf
<1>19. ASSUME NEW t \in Tasks, DeliverReport(t) PROVE LateInv'
  BY <1>19 DEF DeliverReport, At, graph, manager, bounds, Running
<1>20. ASSUME NEW t \in Tasks, ReportsDone(t) PROVE LateInv'
  BY <1>20 DEF ReportsDone, At, durable, manager, bounds, graph, Running
<1>21. ASSUME NEW t \in Tasks, Settle(t) PROVE LateInv'
  BY <1>21 DEF Settle, At, RecordOutcome, manager, bounds, TaskOutcome, Running
<1>22. ASSUME NEW t \in Tasks, End(t) PROVE LateInv'
  BY <1>22 DEF End, At, Waiters, durable, bounds, graph, Running, TaskOf
<1>23. ASSUME NEW t \in Tasks, DeliverLateFails(t) PROVE LateInv'
  BY <1>23 DEF DeliverLateFails, SetTaskActive
<1>24. ASSUME NEW t \in Tasks, RoleFails(t) PROVE LateInv'
  BY <1>24 DEF RoleFails, At, durable, manager, graph, Running
<1>25. ASSUME NEW t \in Tasks, DeliverReportFails(t) PROVE LateInv'
  BY <1>25 DEF DeliverReportFails, At, durable, manager, graph, Running
<1>26. ASSUME NEW t \in Tasks, SettleFails(t) PROVE LateInv'
  BY <1>26 DEF SettleFails, At, durable, manager, graph, Running
<1>27. ASSUME NEW m \in Nodes, NEW n \in Nodes, Connect(m, n) PROVE LateInv'
  BY <1>27 DEF Connect, manager
<1>28. ASSUME NEW t \in Tasks, Enable(t) PROVE LateInv'
  BY <1>28 DEF Enable, HistoryOpen, NotStarted, NoSavedInput, Running, TaskOf, manager, bounds
<1>34. ASSUME NEW t \in Tasks, Hold(t) PROVE LateInv'
  BY <1>34 DEF Hold, HistoryOpen, NotStarted, NoSavedInput, Running, TaskOf, manager, bounds
<1>29. ASSUME NEW t \in Tasks, CancelTask(t) PROVE LateInv'
  BY <1>29 DEF CancelTask, Running, durable, manager, graph
<1>30. ASSUME NEW t \in Tasks, CloseTask(t) PROVE LateInv'
  BY <1>30 DEF CloseTask, Running, manager
<1>31. ASSUME NEW t \in Tasks, Continue(t) PROVE LateInv'
  BY <1>31 DEF Continue, Running, manager, bounds
<1>32. CASE Crash
  BY <1>32 DEF Crash, durable, graph
<1>33. CASE UNCHANGED vars
  BY <1>33 DEF vars, durable, graph, manager, bounds
<1> QED
  BY <1>1, <1>2, <1>3, <1>4, <1>5, <1>6, <1>7, <1>8, <1>9, <1>10, <1>11, <1>12, <1>13,
     <1>14, <1>15, <1>16, <1>17, <1>18, <1>19, <1>20, <1>21, <1>22, <1>23, <1>24, <1>25,
     <1>26, <1>27, <1>28, <1>29, <1>30, <1>31, <1>32, <1>33, <1>34 DEF Next, ManagerStep,
     RunnerStep, Faulty, Edit

\* What RunOf says of a runner stays true when the action leaves its record,
\* its task and the edges into its node alone.
Kept(s) ==
    /\ run'[s].act = run[s].act /\ run'[s].role = run[s].role /\ run'[s].step = run[s].step
    /\ run'[s].batch = run[s].batch /\ run'[s].wait = run[s].wait
    /\ run'[s].report = run[s].report /\ run'[s].reportFailed = run[s].reportFailed
    /\ act'[s] = act[s] /\ job'[s] = job[s]
    /\ outputs \subseteq outputs' /\ (NodeOf(s) \in outputs' => NodeOf(s) \in outputs)
    /\ \A m \in Nodes : <<m, NodeOf(s)>> \in edges' <=> <<m, NodeOf(s)>> \in edges
    /\ saved \subseteq saved' /\ told \subseteq told'

LEMMA KeptRun ==
    ASSUME NEW s \in Tasks, RunOf(s), Kept(s)
    PROVE  RunOf(s)'
<1>1. NodeOf(s)' = NodeOf(s)
  BY DEF Kept, NodeOf
<1>2. Incoming(NodeOf(s))' = Incoming(NodeOf(s))
  BY <1>1 DEF Kept, Incoming
<1> QED
  BY <1>1, <1>2 DEF RunOf, Kept

\* A runner goes on as x, perhaps having started another, or it gives up.
LEMMA StartsOrFails ==
    ASSUME TypeOK, RunInv, NEW t \in Tasks, NEW s \in Tasks, NEW x \in Runner, Running(t),
           x.act = run[t].act /\ x.role = run[t].role /\ x.step = run[t].step,
           x.batch = run[t].batch /\ x.wait = run[t].wait,
           x.report = run[t].report /\ x.reportFailed = run[t].reportFailed,
           UNCHANGED <<durable, manager>>,
           \/ run' = [run EXCEPT ![t] = x]
           \/ ~Running(s) /\ run' = [run EXCEPT ![t] = x, ![s] = NewRun(s, "none")]
           \/ run' = [run EXCEPT ![t] = [run[t] EXCEPT !.step = "report", !.result = "failed"]]
    PROVE  RunInv'
<1> SUFFICES ASSUME NEW u \in Tasks, Running(u)' PROVE RunOf(u)'
  BY DEF RunInv
<1>1. UNCHANGED <<act, job, outputs, edges, saved, told>>
  BY DEF durable, graph, manager
<1>2. CASE Running(u) /\ run'[u] = run[u]
  <2>1. Kept(u)
    BY <1>1, <1>2 DEF Kept
  <2> QED
    BY <1>2, <2>1, KeptRun DEF RunInv
<1>3. CASE u = t /\ run'[u] = x
  <2>1. Kept(u)
    BY <1>1, <1>3 DEF Kept
  <2> QED
    BY <1>3, <2>1, KeptRun DEF RunInv
<1>4. CASE run'[u] = NewRun(u, "none")
  BY <1>1, <1>4 DEF RunOf, NewRun
<1>5. CASE u = t /\ run'[u] = [run[t] EXCEPT !.step = "report", !.result = "failed"]
  <2>1. run[t] \in Runner /\ RunOf(t)
    BY RunnerOf DEF RunInv
  <2>2. /\ run'[u].act = run[t].act /\ run'[u].step = "report" /\ run'[u].report = run[t].report
        /\ run'[u].reportFailed = run[t].reportFailed
    BY <1>5, <2>1 DEF Runner
  <2> QED
    BY <1>1, <1>5, <2>1, <2>2 DEF RunOf
<1> QED
  BY <1>2, <1>3, <1>4, <1>5 DEF TypeOK, Running

LEMMA NextRun == TypeOK /\ RunInv /\ [Next]_vars => RunInv'
<1> SUFFICES ASSUME TypeOK, RunInv, [Next]_vars PROVE RunInv'
  OBVIOUS
<1>a. \A s \in Tasks : Running(s) => RunOf(s)
  BY DEF RunInv
<1>1. ASSUME NEW t \in Tasks, RunReady(t) PROVE RunInv'
  <2>1. ASSUME NEW s \in Tasks, s # t, Running(s)' PROVE Running(s) /\ Kept(s)
    BY <1>1, <2>1 DEF RunReady, durable, bounds, graph, Kept, TypeOK, Running
  <2>2. ASSUME Running(t)' PROVE RunOf(t)'
    BY <1>1, <1>a, <2>2 DEF RunReady, durable, bounds, graph, RunOf, TypeOK, Running,
       Runner, NodeOf, Incoming
  <2> QED
    BY <1>a, <2>1, <2>2, KeptRun DEF RunInv
<1>2. ASSUME NEW t \in Tasks, CallStarts(t) PROVE RunInv'
  <2>1. ASSUME NEW s \in Tasks, s # t, Running(s)' PROVE Running(s) /\ Kept(s)
    BY <1>2, <2>1 DEF CallStarts, Running, NewRun, CanStart, durable, bounds, graph, Kept,
       TypeOK
  <2>2. ASSUME Running(t)' PROVE RunOf(t)'
    BY <1>2, <1>a, <2>2 DEF CallStarts, Running, NewRun, CanStart, durable, bounds, graph,
       RunOf, TypeOK, Runner, NodeOf, Incoming
  <2> QED
    BY <1>a, <2>1, <2>2, KeptRun DEF RunInv
<1>3. ASSUME NEW t \in Tasks, CallAttaches(t) PROVE RunInv'
  <2>1. ASSUME NEW s \in Tasks, s # t, Running(s)' PROVE Running(s) /\ Kept(s)
    BY <1>3, <2>1 DEF CallAttaches, Running, durable, bounds, graph, Kept, TypeOK
  <2>2. run[t] \in Runner /\ RunOf(t)
    BY <1>3, <1>a, RunnerOf DEF CallAttaches, At, Awaiting, Running
  <2>3. /\ run'[t].act = run[t].act /\ run'[t].role = run[t].role
        /\ run'[t].step = run[t].step /\ run'[t].batch = run[t].batch
        /\ run'[t].wait = run[t].wait /\ run'[t].report = "due"
        /\ run'[t].reportFailed = run[t].reportFailed
        /\ UNCHANGED <<act, outputs, edges, saved, told>>
        /\ job'[t] = "attached" /\ run[t].step \notin {"settle", "end"}
    BY <1>3, <2>2 DEF CallAttaches, Running, durable, bounds, graph, TypeOK, Runner
  <2>4. RunOf(t)'
    BY <2>2, <2>3 DEF RunOf, NodeOf, Incoming
  <2> QED
    BY <1>a, <2>1, <2>4, KeptRun DEF RunInv
<1>4. ASSUME NEW t \in Tasks, CallLate(t) PROVE RunInv'
  <2>1. ASSUME NEW s \in Tasks, s # t, Running(s)' PROVE Running(s) /\ Kept(s)
    BY <1>4, <2>1 DEF CallLate, Running, durable, bounds, graph, Kept, TypeOK
  <2>2. ASSUME Running(t)' PROVE RunOf(t)'
    BY <1>4, <1>a, <2>2 DEF CallLate, Running, durable, bounds, graph, RunOf, TypeOK,
       Runner, NodeOf, Incoming
  <2> QED
    BY <1>a, <2>1, <2>2, KeptRun DEF RunInv
<1>5. ASSUME NEW t \in Tasks, CallRefused(t) PROVE RunInv'
  <2>1. ASSUME NEW s \in Tasks, s # t, Running(s)' PROVE Running(s) /\ Kept(s)
    BY <1>5, <2>1 DEF CallRefused, Running, CanStart, durable, bounds, graph, Kept, TypeOK
  <2>2. ASSUME Running(t)' PROVE RunOf(t)'
    BY <1>5, <1>a, <2>2 DEF CallRefused, Running, CanStart, durable, bounds, graph, RunOf,
       TypeOK, Runner, NodeOf, Incoming
  <2> QED
    BY <1>a, <2>1, <2>2, KeptRun DEF RunInv
<1>6. ASSUME NEW t \in Tasks, DeliverLate(t) PROVE RunInv'
  <2>1. ASSUME NEW s \in Tasks, s # t, Running(s)' PROVE Running(s) /\ Kept(s)
    BY <1>6, <2>1 DEF DeliverLate, graph, bounds, Kept, TypeOK, Running
  <2>2. ASSUME Running(t)' PROVE RunOf(t)'
    BY <1>6, <1>a, <2>2 DEF DeliverLate, graph, bounds, RunOf, TypeOK, Running, Runner,
       NodeOf, Incoming
  <2> QED
    BY <1>a, <2>1, <2>2, KeptRun DEF RunInv
<1>7. ASSUME NEW t \in Tasks, Begin(t) PROVE RunInv'
  <2>1. ASSUME NEW s \in Tasks, s # t, Running(s)' PROVE Running(s) /\ Kept(s)
    BY <1>7, <2>1 DEF Begin, At, LastNode, durable, manager, bounds, graph, Running, Kept,
       TypeOK
  <2>2. run[t] \in Runner /\ RunOf(t)
    BY <1>7, <1>a, RunnerOf DEF Begin, At, Awaiting, Running
  <2>3. /\ run'[t].act = run[t].act /\ run'[t].role = run[t].role
        /\ run'[t].batch = run[t].batch /\ run'[t].wait = run[t].wait
        /\ run'[t].report = run[t].report /\ run'[t].reportFailed = run[t].reportFailed
        /\ UNCHANGED <<act, job, outputs, edges, saved, told>>
        /\ run'[t].step \in {"report", "role"}
    BY <1>7, <2>2 DEF Begin, At, durable, manager, bounds, graph, Running, TypeOK, Runner
  <2>4. RunOf(t)'
    BY <2>2, <2>3 DEF RunOf, NodeOf, Incoming
  <2> QED
    BY <1>a, <2>1, <2>4, KeptRun DEF RunInv
<1>8. ASSUME NEW t \in Tasks, SkipRole(t) PROVE RunInv'
  <2>1. ASSUME NEW s \in Tasks, s # t, Running(s)' PROVE Running(s) /\ Kept(s)
    BY <1>8, <2>1 DEF SkipRole, At, NodeOf, Ends, durable, manager, bounds, graph, Running,
       Kept, TypeOK
  <2>2. ASSUME Running(t)' PROVE RunOf(t)'
    BY <1>8, <1>a, <2>2 DEF SkipRole, At, NodeOf, Ends, durable, manager, bounds, graph,
       Running, RunOf, TypeOK, Runner, Incoming
  <2> QED
    BY <1>a, <2>1, <2>2, KeptRun DEF RunInv
<1>9. ASSUME NEW t \in Tasks, EnterRole(t) PROVE RunInv'
  <2>1. ASSUME NEW s \in Tasks, s # t, Running(s)' PROVE Running(s) /\ Kept(s)
    BY <1>9, <2>1 DEF EnterRole, At, NodeOf, TaskOf, Incoming, durable, manager, bounds,
       graph, Running, Kept, TypeOK
  <2>2. run[t] \in Runner /\ RunOf(t)
    BY <1>9, <1>a, RunnerOf DEF EnterRole, At, Awaiting, Running
  <2>3. /\ run'[t].act = run[t].act /\ run'[t].role = run[t].role
        /\ run'[t].step = "start" /\ run'[t].batch = Incoming(NodeOf(t))
        /\ run'[t].wait = Incoming(NodeOf(t)) /\ run'[t].report = run[t].report
        /\ run'[t].reportFailed = run[t].reportFailed
        /\ UNCHANGED <<act, job, outputs, edges, saved, told>>
        /\ NodeOf(t) \notin outputs /\ run[t].step = "role"
    BY <1>9, <2>2 DEF EnterRole, At, durable, manager, bounds, graph, Running, TypeOK,
       Runner
  <2>4. RunOf(t)'
    BY <2>2, <2>3 DEF RunOf, NodeOf, Incoming
  <2> QED
    BY <1>a, <2>1, <2>4, KeptRun DEF RunInv
<1>10. ASSUME NEW t \in Tasks, Canceled(t) PROVE RunInv'
  <2>1. ASSUME NEW s \in Tasks, s # t, Running(s)' PROVE Running(s) /\ Kept(s)
    BY <1>10, <2>1 DEF Canceled, At, Ends, Awaiting, durable, manager, bounds, graph,
       Running, Kept, TypeOK
  <2>2. run[t] \in Runner /\ RunOf(t)
    BY <1>10, <1>a, RunnerOf DEF Canceled, At, Awaiting, Running
  <2>3. /\ run'[t].act = run[t].act /\ run'[t].role = run[t].role
        /\ run'[t].step = "report" /\ run'[t].batch = run[t].batch
        /\ run'[t].wait = run[t].wait /\ run'[t].report = run[t].report
        /\ run'[t].reportFailed = run[t].reportFailed
        /\ UNCHANGED <<act, job, outputs, edges, saved, told>>
    BY <1>10, <2>2 DEF Canceled, At, Ends, Awaiting, durable, manager, bounds, graph,
       Running, TypeOK, Runner
  <2>4. RunOf(t)'
    BY <2>2, <2>3 DEF RunOf, NodeOf, Incoming
  <2> QED
    BY <1>a, <2>1, <2>4, KeptRun DEF RunInv
<1>11. ASSUME NEW t \in Tasks, NEW m \in Nodes, StartSource(t, m) PROVE RunInv'
  <2> DEFINE s == TaskOf(m)
             x == [run[t] EXCEPT !.start = run[t].start \ {m}]
  <2>1. run[t] \in Runner /\ s \in Tasks /\ Running(t)
    BY <1>11, RunnerOf DEF StartSource, At, Nodes, TaskOf
  <2>2. x \in Runner
    <3>1. run[t].start \ {m} \in SUBSET Nodes
      BY <2>1 DEF Runner
    <3> QED
      BY <2>1, <3>1, RunnerUpdates
  <2>3. /\ x.act = run[t].act /\ x.role = run[t].role /\ x.step = run[t].step
        /\ x.batch = run[t].batch /\ x.wait = run[t].wait
        /\ x.report = run[t].report /\ x.reportFailed = run[t].reportFailed
    BY <2>1 DEF Runner
  <2>4. \/ run' = [run EXCEPT ![t] = x]
        \/ ~Running(s) /\ run' = [run EXCEPT ![t] = x, ![s] = NewRun(s, "none")]
        \/ run' = [run EXCEPT ![t] = [run[t] EXCEPT !.step = "report", !.result = "failed"]]
    BY <1>11, <2>1 DEF StartSource, Ends, TypeOK, Runner
  <2>5. UNCHANGED <<durable, manager>>
    BY <1>11 DEF StartSource
  <2> HIDE DEF s, x
  <2> QED
    BY <2>1, <2>2, <2>3, <2>4, <2>5, StartsOrFails
<1>12. ASSUME NEW t \in Tasks, NEW m \in Nodes, AwaitNext(t, m) PROVE RunInv'
  <2>1. ASSUME NEW s \in Tasks, s # t, Running(s)' PROVE Running(s) /\ Kept(s)
    BY <1>12, <2>1 DEF AwaitNext, At, durable, manager, bounds, graph, Running, Kept, TypeOK
  <2>2. ASSUME Running(t)' PROVE RunOf(t)'
    BY <1>12, <1>a, <2>2 DEF AwaitNext, At, durable, manager, bounds, graph, Running, RunOf,
       TypeOK, Runner, NodeOf, Incoming
  <2> QED
    BY <1>a, <2>1, <2>2, KeptRun DEF RunInv
<1>13. ASSUME NEW t \in Tasks, FrontierStarted(t) PROVE RunInv'
  <2>1. ASSUME NEW s \in Tasks, s # t, Running(s)' PROVE Running(s) /\ Kept(s)
    BY <1>13, <2>1 DEF FrontierStarted, At, durable, manager, bounds, graph, Running, Kept,
       TypeOK
  <2>2. ASSUME Running(t)' PROVE RunOf(t)'
    BY <1>13, <1>a, <2>2 DEF FrontierStarted, At, durable, manager, bounds, graph, Running,
       RunOf, TypeOK, Runner, NodeOf, Incoming
  <2> QED
    BY <1>a, <2>1, <2>2, KeptRun DEF RunInv
<1>14. ASSUME NEW t \in Tasks, SourceReady(t) PROVE RunInv'
  <2>1. ASSUME NEW s \in Tasks, s # t, Running(s)' PROVE Running(s) /\ Kept(s)
    BY <1>14, <2>1 DEF SourceReady, At, durable, manager, bounds, graph, Running, Kept,
       TypeOK
  <2>2. ASSUME Running(t)' PROVE RunOf(t)'
    BY <1>14, <1>a, <2>2 DEF SourceReady, At, durable, manager, bounds, graph, Running,
       RunOf, TypeOK, Runner, NodeOf, Incoming
  <2> QED
    BY <1>a, <2>1, <2>2, KeptRun DEF RunInv
<1>15. ASSUME NEW t \in Tasks, JoinSource(t) PROVE RunInv'
  <2> DEFINE s == TaskOf(run[t].on)
             x == [run[t] EXCEPT !.watch = "live"]
  <2>1. run[t] \in Runner /\ s \in Tasks /\ Running(t)
    BY <1>15, NoneAssumption, RunnerOf DEF JoinSource, Awaiting, At, Nodes, TaskOf, Runner
  <2>2. x \in Runner
    BY <2>1, RunnerUpdates DEF Watches
  <2>3. /\ x.act = run[t].act /\ x.role = run[t].role /\ x.step = run[t].step
        /\ x.batch = run[t].batch /\ x.wait = run[t].wait
        /\ x.report = run[t].report /\ x.reportFailed = run[t].reportFailed
    BY <2>1 DEF Runner
  <2>4. \/ run' = [run EXCEPT ![t] = x]
        \/ ~Running(s) /\ run' = [run EXCEPT ![t] = x, ![s] = NewRun(s, "none")]
        \/ run' = [run EXCEPT ![t] = [run[t] EXCEPT !.step = "report", !.result = "failed"]]
    BY <1>15, <2>1 DEF JoinSource, Ends, TypeOK, Runner
  <2>5. UNCHANGED <<durable, manager>>
    BY <1>15 DEF JoinSource
  <2> HIDE DEF s, x
  <2> QED
    BY <2>1, <2>2, <2>3, <2>4, <2>5, StartsOrFails
<1>16. ASSUME NEW t \in Tasks, SourceFailed(t) PROVE RunInv'
  <2>1. ASSUME NEW s \in Tasks, s # t, Running(s)' PROVE Running(s) /\ Kept(s)
    BY <1>16, <2>1 DEF SourceFailed, Ends, Awaiting, durable, manager, bounds, graph, At,
       Running, Kept, TypeOK
  <2>2. run[t] \in Runner /\ RunOf(t)
    BY <1>16, <1>a, RunnerOf DEF SourceFailed, At, Awaiting, Running
  <2>3. /\ run'[t].act = run[t].act /\ run'[t].role = run[t].role
        /\ run'[t].step = "report" /\ run'[t].batch = run[t].batch
        /\ run'[t].wait = run[t].wait /\ run'[t].report = run[t].report
        /\ run'[t].reportFailed = run[t].reportFailed
        /\ UNCHANGED <<act, job, outputs, edges, saved, told>>
    BY <1>16, <2>2 DEF SourceFailed, Ends, Awaiting, durable, manager, bounds, graph, At,
       Running, TypeOK, Runner
  <2>4. RunOf(t)'
    BY <2>2, <2>3 DEF RunOf, NodeOf, Incoming
  <2> QED
    BY <1>a, <2>1, <2>4, KeptRun DEF RunInv
<1>17. ASSUME NEW t \in Tasks, SaveBatch(t) PROVE RunInv'
  <2>1. ASSUME NEW s \in Tasks, s # t, Running(s)' PROVE Running(s) /\ Kept(s)
    BY <1>17, <2>1 DEF SaveBatch, At, NodeOf, graph, manager, bounds, Running, Kept, TypeOK
  <2>2. ASSUME Running(t)' PROVE RunOf(t)'
    BY <1>17, <1>a, <2>2 DEF SaveBatch, At, NodeOf, graph, manager, bounds, Running, RunOf,
       TypeOK, Runner, Incoming
  <2> QED
    BY <1>a, <2>1, <2>2, KeptRun DEF RunInv
<1>18. ASSUME NEW t \in Tasks, CommitOutput(t) PROVE RunInv'
  <2>1. ASSUME NEW s \in Tasks, s # t, Running(s)' PROVE Running(s) /\ Kept(s)
    BY <1>18, <2>1 DEF CommitOutput, At, NodeOf, Waiters, manager, bounds, Running, TaskOf,
       Kept, TypeOK
  <2>2. ASSUME Running(t)' PROVE RunOf(t)'
    BY <1>18, <1>a, <2>2 DEF CommitOutput, At, NodeOf, Waiters, manager, bounds, Running,
       TaskOf, RunOf, TypeOK, Runner, Incoming
  <2> QED
    BY <1>a, <2>1, <2>2, KeptRun DEF RunInv
<1>19. ASSUME NEW t \in Tasks, DeliverReport(t) PROVE RunInv'
  <2>1. ASSUME NEW s \in Tasks, s # t, Running(s)' PROVE Running(s) /\ Kept(s)
    BY <1>19, <2>1 DEF DeliverReport, At, graph, manager, bounds, Running, Kept, TypeOK
  <2>2. run[t] \in Runner /\ RunOf(t)
    BY <1>19, <1>a, RunnerOf DEF DeliverReport, At, Awaiting, Running
  <2>3. /\ run'[t].act = run[t].act /\ run'[t].role = run[t].role
        /\ run'[t].step = run[t].step /\ run'[t].batch = run[t].batch
        /\ run'[t].wait = run[t].wait /\ run'[t].report = "sent"
        /\ run'[t].reportFailed = run[t].reportFailed
        /\ UNCHANGED <<act, job, outputs, edges, saved>>
        /\ run[t].step = "report" /\ run[t].report = "due" /\ told \subseteq told'
        /\ <<t, run[t].act>> \in told'
    BY <1>19, <2>2 DEF DeliverReport, At, graph, manager, bounds, Running, TypeOK, Runner
  <2>4. RunOf(t)'
    BY <2>2, <2>3 DEF RunOf, NodeOf, Incoming
  <2> QED
    BY <1>a, <2>1, <2>4, KeptRun DEF RunInv
<1>20. ASSUME NEW t \in Tasks, ReportsDone(t) PROVE RunInv'
  <2>1. ASSUME NEW s \in Tasks, s # t, Running(s)' PROVE Running(s) /\ Kept(s)
    BY <1>20, <2>1 DEF ReportsDone, At, durable, manager, bounds, graph, Running, Kept,
       TypeOK
  <2>2. run[t] \in Runner /\ RunOf(t)
    BY <1>20, <1>a, RunnerOf DEF ReportsDone, At, Awaiting, Running
  <2>3. /\ run'[t].act = run[t].act /\ run'[t].role = run[t].role
        /\ run'[t].step = "settle" /\ run'[t].batch = run[t].batch
        /\ run'[t].wait = run[t].wait /\ run'[t].report = run[t].report
        /\ run'[t].reportFailed = run[t].reportFailed
        /\ UNCHANGED <<act, job, outputs, edges, saved, told>>
        /\ run[t].report # "due"
    BY <1>20, <2>2 DEF ReportsDone, At, durable, manager, bounds, graph, Running, TypeOK,
       Runner
  <2>4. RunOf(t)'
    BY <2>2, <2>3 DEF RunOf, NodeOf, Incoming
  <2> QED
    BY <1>a, <2>1, <2>4, KeptRun DEF RunInv
<1>21. ASSUME NEW t \in Tasks, Settle(t) PROVE RunInv'
  <2>1. ASSUME NEW s \in Tasks, s # t, Running(s)' PROVE Running(s) /\ Kept(s)
    BY <1>21, <2>1 DEF Settle, At, RecordOutcome, manager, bounds, TaskOutcome, Running,
       Kept, TypeOK
  <2>2. run[t] \in Runner /\ RunOf(t)
    BY <1>21, <1>a, RunnerOf DEF Settle, At, Awaiting, Running
  <2>3. /\ run'[t].act = run[t].act /\ run'[t].role = run[t].role
        /\ run'[t].step = "end" /\ run'[t].batch = run[t].batch
        /\ run'[t].wait = run[t].wait /\ run'[t].report = run[t].report
        /\ run'[t].reportFailed = run[t].reportFailed
        /\ UNCHANGED <<act, job, outputs, edges, saved, told>>
        /\ run[t].step = "settle"
    BY <1>21, <2>2 DEF Settle, At, RecordOutcome, manager, bounds, TaskOutcome, Running,
       TypeOK, Runner
  <2>4. RunOf(t)'
    BY <2>2, <2>3 DEF RunOf, NodeOf, Incoming
  <2> QED
    BY <1>a, <2>1, <2>4, KeptRun DEF RunInv
<1>22. ASSUME NEW t \in Tasks, End(t) PROVE RunInv'
  <2>1. ASSUME NEW s \in Tasks, s # t, Running(s)' PROVE Running(s) /\ Kept(s)
    BY <1>22, <2>1 DEF End, At, Waiters, durable, bounds, graph, Running, TaskOf, Kept,
       TypeOK
  <2>2. ASSUME Running(t)' PROVE RunOf(t)'
    BY <1>22, <1>a, <2>2 DEF End, At, Waiters, durable, bounds, graph, Running, TaskOf,
       RunOf, TypeOK, Runner, NodeOf, Incoming
  <2> QED
    BY <1>a, <2>1, <2>2, KeptRun DEF RunInv
<1>23. ASSUME NEW t \in Tasks, DeliverLateFails(t) PROVE RunInv'
  <2>1. ASSUME NEW s \in Tasks, s # t, Running(s)' PROVE Running(s) /\ Kept(s)
    BY <1>23, <2>1 DEF DeliverLateFails, SetTaskActive, Kept, TypeOK, Running
  <2>2. ASSUME Running(t)' PROVE RunOf(t)'
    BY <1>23, <1>a, <2>2 DEF DeliverLateFails, SetTaskActive, RunOf, TypeOK, Running,
       Runner, NodeOf, Incoming
  <2> QED
    BY <1>a, <2>1, <2>2, KeptRun DEF RunInv
<1>24. ASSUME NEW t \in Tasks, RoleFails(t) PROVE RunInv'
  <2>1. ASSUME NEW s \in Tasks, s # t, Running(s)' PROVE Running(s) /\ Kept(s)
    BY <1>24, <2>1 DEF RoleFails, At, Ends, durable, manager, graph, Running, Kept, TypeOK
  <2>2. run[t] \in Runner /\ RunOf(t)
    BY <1>24, <1>a, RunnerOf DEF RoleFails, At, Awaiting, Running
  <2>3. /\ run'[t].act = run[t].act /\ run'[t].role = run[t].role
        /\ run'[t].step = "report" /\ run'[t].batch = run[t].batch
        /\ run'[t].wait = run[t].wait /\ run'[t].report = run[t].report
        /\ run'[t].reportFailed = run[t].reportFailed
        /\ UNCHANGED <<act, job, outputs, edges, saved, told>>
    BY <1>24, <2>2 DEF RoleFails, At, Ends, durable, manager, graph, Running, TypeOK, Runner
  <2>4. RunOf(t)'
    BY <2>2, <2>3 DEF RunOf, NodeOf, Incoming
  <2> QED
    BY <1>a, <2>1, <2>4, KeptRun DEF RunInv
<1>25. ASSUME NEW t \in Tasks, DeliverReportFails(t) PROVE RunInv'
  <2>1. ASSUME NEW s \in Tasks, s # t, Running(s)' PROVE Running(s) /\ Kept(s)
    BY <1>25, <2>1 DEF DeliverReportFails, At, durable, manager, graph, Running, Kept,
       TypeOK
  <2>2. run[t] \in Runner /\ RunOf(t)
    BY <1>25, <1>a, RunnerOf DEF DeliverReportFails, At, Awaiting, Running
  <2>3. /\ run'[t].act = run[t].act /\ run'[t].role = run[t].role
        /\ run'[t].step = run[t].step /\ run'[t].batch = run[t].batch
        /\ run'[t].wait = run[t].wait /\ run'[t].report = "sent"
        /\ run'[t].reportFailed = TRUE
        /\ UNCHANGED <<act, job, outputs, edges, saved, told>>
        /\ run[t].step = "report" /\ run[t].report = "due"
    BY <1>25, <2>2 DEF DeliverReportFails, At, durable, manager, graph, Running, TypeOK,
       Runner
  <2>4. RunOf(t)'
    BY <2>2, <2>3 DEF RunOf, NodeOf, Incoming
  <2> QED
    BY <1>a, <2>1, <2>4, KeptRun DEF RunInv
<1>26. ASSUME NEW t \in Tasks, SettleFails(t) PROVE RunInv'
  <2>1. ASSUME NEW s \in Tasks, s # t, Running(s)' PROVE Running(s) /\ Kept(s)
    BY <1>26, <2>1 DEF SettleFails, At, durable, manager, graph, Running, Kept, TypeOK
  <2>2. run[t] \in Runner /\ RunOf(t)
    BY <1>26, <1>a, RunnerOf DEF SettleFails, At, Awaiting, Running
  <2>3. /\ run'[t].act = run[t].act /\ run'[t].role = run[t].role
        /\ run'[t].step = "end" /\ run'[t].batch = run[t].batch
        /\ run'[t].wait = run[t].wait /\ run'[t].report = run[t].report
        /\ run'[t].reportFailed = run[t].reportFailed
        /\ UNCHANGED <<act, job, outputs, edges, saved, told>>
        /\ run[t].step = "settle"
    BY <1>26, <2>2 DEF SettleFails, At, durable, manager, graph, Running, TypeOK, Runner
  <2>4. RunOf(t)'
    BY <2>2, <2>3 DEF RunOf, NodeOf, Incoming
  <2> QED
    BY <1>a, <2>1, <2>4, KeptRun DEF RunInv
<1>27. ASSUME NEW m \in Nodes, NEW n \in Nodes, Connect(m, n) PROVE RunInv'
  <2>1. UNCHANGED <<act, job, outputs, saved, told, run>> /\ edges' = edges \cup {<<m, n>>}
    BY <1>27 DEF Connect, manager
  <2>2. ASSUME NEW s \in Tasks, Running(s)' PROVE RunOf(s)'
    <3>1. Running(s) /\ RunOf(s)
      BY <1>a, <2>1, <2>2 DEF Running
    <3>2. CASE run[s].step \in {"begin", "role"}
      BY <2>1, <3>1, <3>2 DEF RunOf
    <3>3. CASE run[s].step \notin {"begin", "role"}
      <4>1. n # NodeOf(s)
        BY <1>27, <3>1, <3>3 DEF Connect, InputFrozen, NodeStarted, NodeOf, TaskOf, RoleOf
      <4>2. Kept(s)
        BY <2>1, <4>1 DEF Kept
      <4> QED
        BY <3>1, <4>2, KeptRun
    <3> QED  BY <3>2, <3>3
  <2> QED
    BY <2>2 DEF RunInv
<1>28. ASSUME NEW t \in Tasks, Enable(t) PROVE RunInv'
  <2>1. ASSUME NEW s \in Tasks, Running(s)' PROVE Running(s) /\ Kept(s)
    BY <1>28, <2>1 DEF Enable, HistoryOpen, NotStarted, NoSavedInput, Running, TaskOf, manager, bounds, Kept, TypeOK
  <2> QED
    BY <1>a, <2>1, KeptRun DEF RunInv
<1>34. ASSUME NEW t \in Tasks, Hold(t) PROVE RunInv'
  <2>1. ASSUME NEW s \in Tasks, Running(s)' PROVE Running(s) /\ Kept(s)
    BY <1>34, <2>1 DEF Hold, HistoryOpen, NotStarted, NoSavedInput, Running, TaskOf, manager, bounds, Kept, TypeOK
  <2> QED
    BY <1>a, <2>1, KeptRun DEF RunInv
<1>29. ASSUME NEW t \in Tasks, CancelTask(t) PROVE RunInv'
  <2>1. ASSUME NEW s \in Tasks, s # t, Running(s)' PROVE Running(s) /\ Kept(s)
    BY <1>29, <2>1 DEF CancelTask, Running, durable, manager, graph, Kept, TypeOK
  <2>2. ASSUME Running(t)' PROVE RunOf(t)'
    BY <1>29, <1>a, <2>2 DEF CancelTask, Running, durable, manager, graph, RunOf, TypeOK,
       Runner, NodeOf, Incoming
  <2> QED
    BY <1>a, <2>1, <2>2, KeptRun DEF RunInv
<1>30. ASSUME NEW t \in Tasks, CloseTask(t) PROVE RunInv'
  <2>1. ASSUME NEW s \in Tasks, s # t, Running(s)' PROVE Running(s) /\ Kept(s)
    BY <1>30, <2>1 DEF CloseTask, Running, manager, Kept, TypeOK
  <2>2. ASSUME Running(t)' PROVE RunOf(t)'
    BY <1>30, <1>a, <2>2 DEF CloseTask, Running, manager, RunOf, TypeOK, Runner, NodeOf,
       Incoming
  <2> QED
    BY <1>a, <2>1, <2>2, KeptRun DEF RunInv
<1>31. ASSUME NEW t \in Tasks, Continue(t) PROVE RunInv'
  <2>1. ASSUME NEW s \in Tasks, Running(s)' PROVE Running(s) /\ Kept(s)
    <3>1. UNCHANGED <<run, job, outputs, saved, told>> /\ Running(s) /\ s # t
      BY <1>31, <2>1 DEF Continue, Running, manager
    <3>2. act'[s] = act[s]
      BY <1>31, <3>1 DEF Continue, TypeOK
    <3>3. ASSUME NEW m \in Nodes, <<m, NodeOf(s)>> \in edges' PROVE <<m, NodeOf(s)>> \in edges
      <4>1. <<m, NodeOf(s)>> \notin Chain(t, act[t] + 1)
        BY <3>1 DEF Chain, NodeOf
      <4>2. NodeOf(s) # <<t, act[t] + 1, 1>>
        BY <3>1 DEF NodeOf
      <4> QED
        BY <1>31, <3>3, <4>1, <4>2 DEF Continue
    <3>4. edges \subseteq edges'
      BY <1>31 DEF Continue
    <3> QED
      BY <3>1, <3>2, <3>3, <3>4 DEF Kept
  <2> QED
    BY <1>a, <2>1, KeptRun DEF RunInv
<1>32. CASE Crash
  BY <1>32 DEF Crash, RunInv, Running
<1>33. CASE UNCHANGED vars
  BY <1>33 DEF vars, durable, graph, manager, bounds, RunInv, RunOf, NodeOf, Incoming,
     Running
<1> QED
  BY <1>1, <1>2, <1>3, <1>4, <1>5, <1>6, <1>7, <1>8, <1>9, <1>10, <1>11, <1>12, <1>13,
     <1>14, <1>15, <1>16, <1>17, <1>18, <1>19, <1>20, <1>21, <1>22, <1>23, <1>24, <1>25,
     <1>26, <1>27, <1>28, <1>29, <1>30, <1>31, <1>32, <1>33, <1>34 DEF Next, ManagerStep,
     RunnerStep, Faulty, Edit

-----------------------------------------------------------------------------
LEMMA NextGraph == TypeOK /\ RunInv /\ GraphInv /\ [Next]_vars => GraphInv'
<1> SUFFICES ASSUME TypeOK, RunInv, GraphInv, [Next]_vars PROVE GraphInv'
  OBVIOUS
<1>a. UNCHANGED <<edges, outputs, saved, act>> => GraphInv'
  BY DEF GraphInv, RecordedBatchComplete, NotAhead, Incoming
<1>1. ASSUME NEW t \in Tasks, RunReady(t) PROVE GraphInv'
  BY <1>1, <1>a DEF RunReady, durable, graph
<1>2. ASSUME NEW t \in Tasks, CallStarts(t) PROVE GraphInv'
  BY <1>2, <1>a DEF CallStarts, durable, graph
<1>3. ASSUME NEW t \in Tasks, CallAttaches(t) PROVE GraphInv'
  BY <1>3, <1>a DEF CallAttaches, durable, graph
<1>4. ASSUME NEW t \in Tasks, CallLate(t) PROVE GraphInv'
  BY <1>4, <1>a DEF CallLate, durable, graph
<1>5. ASSUME NEW t \in Tasks, CallRefused(t) PROVE GraphInv'
  BY <1>5, <1>a DEF CallRefused, durable, graph
<1>6. ASSUME NEW t \in Tasks, DeliverLate(t) PROVE GraphInv'
  BY <1>6, <1>a DEF DeliverLate, graph
<1>7. ASSUME NEW t \in Tasks, Begin(t) PROVE GraphInv'
  BY <1>7, <1>a DEF Begin, durable, graph
<1>8. ASSUME NEW t \in Tasks, SkipRole(t) PROVE GraphInv'
  BY <1>8, <1>a DEF SkipRole, durable, graph
<1>9. ASSUME NEW t \in Tasks, EnterRole(t) PROVE GraphInv'
  BY <1>9, <1>a DEF EnterRole, durable, graph
<1>10. ASSUME NEW t \in Tasks, Canceled(t) PROVE GraphInv'
  BY <1>10, <1>a DEF Canceled, durable, graph
<1>11. ASSUME NEW t \in Tasks, NEW m \in Nodes, StartSource(t, m) PROVE GraphInv'
  BY <1>11, <1>a DEF StartSource, durable, graph
<1>12. ASSUME NEW t \in Tasks, NEW m \in Nodes, AwaitNext(t, m) PROVE GraphInv'
  BY <1>12, <1>a DEF AwaitNext, durable, graph
<1>13. ASSUME NEW t \in Tasks, FrontierStarted(t) PROVE GraphInv'
  BY <1>13, <1>a DEF FrontierStarted, durable, graph
<1>14. ASSUME NEW t \in Tasks, SourceReady(t) PROVE GraphInv'
  BY <1>14, <1>a DEF SourceReady, durable, graph
<1>15. ASSUME NEW t \in Tasks, JoinSource(t) PROVE GraphInv'
  BY <1>15, <1>a DEF JoinSource, durable, graph
<1>16. ASSUME NEW t \in Tasks, SourceFailed(t) PROVE GraphInv'
  BY <1>16, <1>a DEF SourceFailed, durable, graph
<1>17. ASSUME NEW t \in Tasks, SaveBatch(t) PROVE GraphInv'
  <2>1. run[t] \in Runner /\ RunOf(t) /\ run[t].step = "await" /\ run[t].wait = {}
    BY <1>17, RunnerOf DEF SaveBatch, At, RunInv
  <2>2. Incoming(NodeOf(t)) \subseteq outputs
    BY <2>1 DEF RunOf
  <2>3. UNCHANGED <<edges, outputs, act>> /\ saved' = saved \cup {NodeOf(t)}
    BY <1>17 DEF SaveBatch, graph
  <2>4. NodeOf(t)[2] <= act[TaskOf(NodeOf(t))]
    BY <2>1 DEF RunOf, NodeOf, TaskOf, TypeOK, Activations
  <2> QED
    BY <2>2, <2>3, <2>4 DEF GraphInv, RecordedBatchComplete, NotAhead, Incoming
<1>18. ASSUME NEW t \in Tasks, CommitOutput(t) PROVE GraphInv'
  <2>1. NodeOf(t) \in saved
    BY <1>18, RunnerOf DEF CommitOutput, At, RunInv, RunOf
  <2>2. UNCHANGED <<edges, saved, act>> /\ outputs' = outputs \cup {NodeOf(t)}
    BY <1>18 DEF CommitOutput
  <2> QED
    BY <2>1, <2>2 DEF GraphInv, RecordedBatchComplete, NotAhead, Incoming
<1>19. ASSUME NEW t \in Tasks, DeliverReport(t) PROVE GraphInv'
  BY <1>19, <1>a DEF DeliverReport, graph
<1>20. ASSUME NEW t \in Tasks, ReportsDone(t) PROVE GraphInv'
  BY <1>20, <1>a DEF ReportsDone, durable, graph
<1>21. ASSUME NEW t \in Tasks, Settle(t) PROVE GraphInv'
  BY <1>21, <1>a DEF Settle
<1>22. ASSUME NEW t \in Tasks, End(t) PROVE GraphInv'
  BY <1>22, <1>a DEF End, durable, graph
<1>23. ASSUME NEW t \in Tasks, DeliverLateFails(t) PROVE GraphInv'
  BY <1>23, <1>a DEF DeliverLateFails
<1>24. ASSUME NEW t \in Tasks, RoleFails(t) PROVE GraphInv'
  BY <1>24, <1>a DEF RoleFails, durable, graph
<1>25. ASSUME NEW t \in Tasks, DeliverReportFails(t) PROVE GraphInv'
  BY <1>25, <1>a DEF DeliverReportFails, durable, graph
<1>26. ASSUME NEW t \in Tasks, SettleFails(t) PROVE GraphInv'
  BY <1>26, <1>a DEF SettleFails, durable, graph
<1>27. ASSUME NEW m \in Nodes, NEW n \in Nodes, Connect(m, n) PROVE GraphInv'
  <2>1. UNCHANGED <<act, outputs, saved>> /\ edges' = edges \cup {<<m, n>>}
    BY <1>27 DEF Connect
  <2>2. n \notin outputs \cup saved
    BY <1>27 DEF Connect, InputFrozen
  <2>3. ASSUME NEW k \in saved \cup outputs PROVE Incoming(k)' = Incoming(k)
    BY <2>1, <2>2, <2>3 DEF Incoming
  <2> QED
    BY <2>1, <2>3 DEF GraphInv, RecordedBatchComplete, NotAhead
<1>28. ASSUME NEW t \in Tasks, Enable(t) PROVE GraphInv'
  BY <1>28, <1>a DEF Enable, HistoryOpen, NotStarted, NoSavedInput
<1>34. ASSUME NEW t \in Tasks, Hold(t) PROVE GraphInv'
  BY <1>34, <1>a DEF Hold, HistoryOpen, NotStarted, NoSavedInput
<1>29. ASSUME NEW t \in Tasks, CancelTask(t) PROVE GraphInv'
  BY <1>29, <1>a DEF CancelTask, durable, graph
<1>30. ASSUME NEW t \in Tasks, CloseTask(t) PROVE GraphInv'
  BY <1>30, <1>a DEF CloseTask
<1>31. ASSUME NEW t \in Tasks, Continue(t) PROVE GraphInv'
  <2>1. UNCHANGED <<outputs, saved>> /\ act' = [act EXCEPT ![t] = act[t] + 1]
    BY <1>31 DEF Continue
  <2>2. act[t] \in Nat /\ act' \in [Tasks -> Nat] /\ \A u \in Tasks : act[u] <= act'[u]
    BY <2>1 DEF TypeOK, Activations
  <2>3. ASSUME NEW k \in saved \cup outputs PROVE Incoming(k)' = Incoming(k)
    <3>1. k \in Nodes /\ k[2] \in Nat /\ TaskOf(k) \in Tasks /\ k[2] <= act[TaskOf(k)]
      BY <2>3 DEF TypeOK, GraphInv, NotAhead, Nodes, TaskOf, Activations
    <3>2. \A j \in Nodes : <<j, k>> \notin Chain(t, act[t] + 1)
      BY <2>2, <3>1 DEF Chain, TaskOf
    <3>3. k # <<t, act[t] + 1, 1>>
      BY <2>2, <3>1 DEF TaskOf
    <3> QED
      BY <1>31, <3>2, <3>3 DEF Continue, Incoming
  <2>4. ASSUME NEW k \in saved \cup outputs PROVE k[2] <= act'[TaskOf(k)]
    <3>1. k[2] \in Nat /\ TaskOf(k) \in Tasks /\ k[2] <= act[TaskOf(k)]
      BY <2>4 DEF TypeOK, GraphInv, NotAhead, Nodes, TaskOf, Activations
    <3>2. act[TaskOf(k)] \in Nat /\ act'[TaskOf(k)] \in Nat /\ act[TaskOf(k)] <= act'[TaskOf(k)]
      BY <2>2, <3>1 DEF TypeOK, Activations
    <3> QED
      BY <3>1, <3>2
  <2> QED
    BY <2>1, <2>3, <2>4 DEF GraphInv, RecordedBatchComplete, NotAhead, TaskOf
<1>32. CASE Crash
  BY <1>32, <1>a DEF Crash, durable, graph
<1>33. CASE UNCHANGED vars
  BY <1>33, <1>a DEF vars, durable, graph
<1> QED
  BY <1>1, <1>2, <1>3, <1>4, <1>5, <1>6, <1>7, <1>8, <1>9, <1>10, <1>11, <1>12, <1>13,
     <1>14, <1>15, <1>16, <1>17, <1>18, <1>19, <1>20, <1>21, <1>22, <1>23, <1>24, <1>25,
     <1>26, <1>27, <1>28, <1>29, <1>30, <1>31, <1>32, <1>33, <1>34 DEF Next, ManagerStep,
     RunnerStep, Faulty, Edit

LEMMA InitRuns == Init => RunsInv
<1> SUFFICES ASSUME Init PROVE RunsInv
  OBVIOUS
<1>1. RunInv /\ GraphInv /\ LateInv
  BY NoneAssumption DEF Init, RunInv, Running, GraphInv, RecordedBatchComplete, NotAhead, LateInv
<1> QED
  BY <1>1, InitType DEF RunsInv

LEMMA RunsInvariant == Spec => []RunsInv
<1>1. Init => RunsInv
  BY InitRuns
<1>2. RunsInv /\ [Next]_vars => RunsInv'
  BY NextType, NextLate, NextRun, NextGraph DEF RunsInv
<1> QED
  BY <1>1, <1>2, PTL DEF Spec

-----------------------------------------------------------------------------
(* The properties *)

\* Graph, runners and calls of the manager stay within their types; a late
\* report is always about an activation there was.
THEOREM TypeCorrect == Spec => []TypeOK
<1>1. RunsInv => TypeOK
  BY DEF RunsInv
<1> QED
  BY <1>1, RunsInvariant, PTL

\* A role works on exactly the sources its edges name, all of them committed,
\* whatever is connected, canceled or started while it collects them.
THEOREM SourcesRespected == Spec => []WorksOnItsSources
<1>1. RunsInv => WorksOnItsSources
  BY DEF RunsInv, RunInv, RunOf, WorksOnItsSources, At
<1> QED
  BY <1>1, RunsInvariant, PTL

\* The sources of a node with a recorded batch or an output are committed: an
\* edge added or replaced later never gives it a source it did not collect.
THEOREM BatchesComplete == Spec => []RecordedBatchComplete
<1>1. RunsInv => RecordedBatchComplete
  BY DEF RunsInv, GraphInv
<1> QED
  BY <1>1, RunsInvariant, PTL

\* A role that has committed is never worked on again.
THEOREM CommittedSkipped == Spec => []CommittedRolesSkipped
<1>1. RunsInv => CommittedRolesSkipped
  BY DEF RunsInv, RunInv, RunOf, CommittedRolesSkipped, At
<1> QED
  BY <1>1, RunsInvariant, PTL

\* How a step may change the outcome of a task.
OutcomeStep(u) ==
    \/ outcome'[u] = outcome[u]
    \/ outcome'[u] = "closed"
    \/ outcome[u] = "idle" /\ outcome'[u] = "active" /\ ~Running(u) /\ act'[u] # act[u]
    \/ /\ outcome[u] # "closed" /\ outcome'[u] = "active"
       /\ job[u] = "deliver" /\ late[u] = act[u]
    \/ /\ outcome[u] # "closed" /\ outcome'[u] # "active"
       /\ At(u, "settle") /\ ~run[u].reportFailed

LEMMA OutcomeSteps == TypeOK /\ [Next]_vars => \A u \in Tasks : OutcomeStep(u)
<1> SUFFICES ASSUME TypeOK, [Next]_vars, NEW u \in Tasks PROVE OutcomeStep(u)
  OBVIOUS
<1>a. UNCHANGED outcome => OutcomeStep(u)
  BY DEF OutcomeStep
<1>1. ASSUME NEW t \in Tasks, RunReady(t) PROVE OutcomeStep(u)
  BY <1>1, <1>a DEF RunReady, durable, graph
<1>2. ASSUME NEW t \in Tasks, CallStarts(t) PROVE OutcomeStep(u)
  BY <1>2, <1>a DEF CallStarts, durable, graph
<1>3. ASSUME NEW t \in Tasks, CallAttaches(t) PROVE OutcomeStep(u)
  BY <1>3, <1>a DEF CallAttaches, durable, graph
<1>4. ASSUME NEW t \in Tasks, CallLate(t) PROVE OutcomeStep(u)
  BY <1>4, <1>a DEF CallLate, durable, graph
<1>5. ASSUME NEW t \in Tasks, CallRefused(t) PROVE OutcomeStep(u)
  BY <1>5, <1>a DEF CallRefused, durable, graph
<1>6. ASSUME NEW t \in Tasks, DeliverLate(t) PROVE OutcomeStep(u)
  BY <1>6, <1>a DEF DeliverLate, graph
<1>7. ASSUME NEW t \in Tasks, Begin(t) PROVE OutcomeStep(u)
  BY <1>7, <1>a DEF Begin, durable, graph
<1>8. ASSUME NEW t \in Tasks, SkipRole(t) PROVE OutcomeStep(u)
  BY <1>8, <1>a DEF SkipRole, durable, graph
<1>9. ASSUME NEW t \in Tasks, EnterRole(t) PROVE OutcomeStep(u)
  BY <1>9, <1>a DEF EnterRole, durable, graph
<1>10. ASSUME NEW t \in Tasks, Canceled(t) PROVE OutcomeStep(u)
  BY <1>10, <1>a DEF Canceled, durable, graph
<1>11. ASSUME NEW t \in Tasks, NEW m \in Nodes, StartSource(t, m) PROVE OutcomeStep(u)
  BY <1>11, <1>a DEF StartSource, durable, graph
<1>12. ASSUME NEW t \in Tasks, NEW m \in Nodes, AwaitNext(t, m) PROVE OutcomeStep(u)
  BY <1>12, <1>a DEF AwaitNext, durable, graph
<1>13. ASSUME NEW t \in Tasks, FrontierStarted(t) PROVE OutcomeStep(u)
  BY <1>13, <1>a DEF FrontierStarted, durable, graph
<1>14. ASSUME NEW t \in Tasks, SourceReady(t) PROVE OutcomeStep(u)
  BY <1>14, <1>a DEF SourceReady, durable, graph
<1>15. ASSUME NEW t \in Tasks, JoinSource(t) PROVE OutcomeStep(u)
  BY <1>15, <1>a DEF JoinSource, durable, graph
<1>16. ASSUME NEW t \in Tasks, SourceFailed(t) PROVE OutcomeStep(u)
  BY <1>16, <1>a DEF SourceFailed, durable, graph
<1>17. ASSUME NEW t \in Tasks, SaveBatch(t) PROVE OutcomeStep(u)
  BY <1>17, <1>a DEF SaveBatch, graph
<1>18. ASSUME NEW t \in Tasks, CommitOutput(t) PROVE OutcomeStep(u)
  BY <1>18, <1>a DEF CommitOutput
<1>19. ASSUME NEW t \in Tasks, DeliverReport(t) PROVE OutcomeStep(u)
  BY <1>19, <1>a DEF DeliverReport, graph
<1>20. ASSUME NEW t \in Tasks, ReportsDone(t) PROVE OutcomeStep(u)
  BY <1>20, <1>a DEF ReportsDone, durable, graph
<1>21. ASSUME NEW t \in Tasks, Settle(t) PROVE OutcomeStep(u)
  BY <1>21 DEF Settle, RecordOutcome, TaskOutcome, OutcomeStep, TypeOK, Running, At, Runner,
     Results, Activations
<1>22. ASSUME NEW t \in Tasks, End(t) PROVE OutcomeStep(u)
  BY <1>22, <1>a DEF End, durable, graph
<1>23. ASSUME NEW t \in Tasks, DeliverLateFails(t) PROVE OutcomeStep(u)
  BY <1>23 DEF DeliverLateFails, SetTaskActive, OutcomeStep, TypeOK, Running, At, Runner,
     Results, Activations
<1>24. ASSUME NEW t \in Tasks, RoleFails(t) PROVE OutcomeStep(u)
  BY <1>24, <1>a DEF RoleFails, durable, graph
<1>25. ASSUME NEW t \in Tasks, DeliverReportFails(t) PROVE OutcomeStep(u)
  BY <1>25, <1>a DEF DeliverReportFails, durable, graph
<1>26. ASSUME NEW t \in Tasks, SettleFails(t) PROVE OutcomeStep(u)
  BY <1>26, <1>a DEF SettleFails, durable, graph
<1>27. ASSUME NEW m \in Nodes, NEW n \in Nodes, Connect(m, n) PROVE OutcomeStep(u)
  BY <1>27, <1>a DEF Connect
<1>28. ASSUME NEW t \in Tasks, Enable(t) PROVE OutcomeStep(u)
  BY <1>28, <1>a DEF Enable, HistoryOpen, NotStarted, NoSavedInput
<1>34. ASSUME NEW t \in Tasks, Hold(t) PROVE OutcomeStep(u)
  BY <1>34, <1>a DEF Hold, HistoryOpen, NotStarted, NoSavedInput
<1>29. ASSUME NEW t \in Tasks, CancelTask(t) PROVE OutcomeStep(u)
  BY <1>29, <1>a DEF CancelTask, durable, graph
<1>30. ASSUME NEW t \in Tasks, CloseTask(t) PROVE OutcomeStep(u)
  BY <1>30 DEF CloseTask, OutcomeStep, TypeOK, Running, At, Runner, Results, Activations
<1>31. ASSUME NEW t \in Tasks, Continue(t) PROVE OutcomeStep(u)
  BY <1>31 DEF Continue, OutcomeStep, TypeOK, Running, At, Runner, Results, Activations
<1>32. CASE Crash
  BY <1>32, <1>a DEF Crash, durable, graph
<1>33. CASE UNCHANGED vars
  BY <1>33, <1>a DEF vars, durable, graph
<1> QED
  BY <1>1, <1>2, <1>3, <1>4, <1>5, <1>6, <1>7, <1>8, <1>9, <1>10, <1>11, <1>12, <1>13,
     <1>14, <1>15, <1>16, <1>17, <1>18, <1>19, <1>20, <1>21, <1>22, <1>23, <1>24, <1>25,
     <1>26, <1>27, <1>28, <1>29, <1>30, <1>31, <1>32, <1>33, <1>34 DEF Next, ManagerStep,
     RunnerStep, Faulty, Edit

\* A closed task stays closed.
THEOREM ClosedStays == Spec => ClosedForever
<1>1. RunsInv /\ [Next]_vars =>
        [\A t \in Tasks : outcome[t] = "closed" => outcome'[t] = "closed"]_vars
  BY OutcomeSteps DEF RunsInv, OutcomeStep
<1> QED
  BY <1>1, RunsInvariant, PTL DEF Spec, ClosedForever

\* A late report that fails reopens its own activation only.
THEOREM NextUntouched == Spec => NextActivationUntouched
<1>1. RunsInv /\ [Next]_vars =>
        [\A t \in Tasks :
            job[t] = "deliver" /\ act[t] # late[t] /\ outcome'[t] = "active"
            => outcome[t] = "active" \/ act'[t] # act[t]]_vars
  BY OutcomeSteps DEF RunsInv, OutcomeStep
<1> QED
  BY <1>1, RunsInvariant, PTL DEF Spec, NextActivationUntouched

\* A runner with a report to deliver records its outcome after the report.
THEOREM ReportedFirst == Spec => ReportedBeforeOutcome
<1>1. ASSUME RunsInv, [Next]_vars, NEW t \in Tasks,
             At(t, "settle"), run[t].report # "none", outcome'[t] # outcome[t]
      PROVE  <<t, run[t].act>> \in told \/ outcome'[t] = "closed"
  <2>1. Running(t) /\ RunOf(t) /\ run[t] \in Runner /\ run[t].step = "settle"
    BY <1>1, RunnerOf DEF RunsInv, RunInv, At
  <2>2. job[t] = "attached" /\ run[t].report = "sent"
    BY <1>1, <2>1 DEF RunOf, Runner
  <2>3. OutcomeStep(t)
    BY <1>1, OutcomeSteps DEF RunsInv
  <2>4. outcome'[t] = "closed" \/ ~run[t].reportFailed
    BY <1>1, <2>1, <2>2, <2>3 DEF OutcomeStep
  <2> QED
    BY <2>1, <2>2, <2>4 DEF RunOf
<1>2. RunsInv /\ [Next]_vars =>
        [\A t \in Tasks :
            /\ At(t, "settle") /\ run[t].report # "none" /\ outcome'[t] # outcome[t]
            => <<t, run[t].act>> \in told \/ outcome'[t] = "closed"]_vars
  BY <1>1
<1> QED
  BY <1>2, RunsInvariant, PTL DEF Spec, ReportedBeforeOutcome
=============================================================================
