------------------------------ MODULE TaskRuns ------------------------------
(***************************************************************************)
(* Tasks that depend on each other, run by one graph and one manager       *)
(* (internal/coordination/run.go, graph.go; runReady and runTask of        *)
(* internal/manager/manager.go).  A task has at most one runner, started   *)
(* by the manager with a report to deliver or by another runner that waits *)
(* for one of its outputs; whoever comes later shares it.                  *)
(*                                                                         *)
(* A node is <<task, activation, role>>.  What a role does between its     *)
(* collected sources and its committed output is one step here; Activation *)
(* refines it.                                                             *)
(***************************************************************************)
EXTENDS Naturals, FiniteSets

CONSTANTS Tasks, Persistent,   \* the tasks; those that go idle instead of done
          NumRoles, None,
          MaxActivations, MaxConnects, MaxStops, MaxFaults, MaxCrashes

ASSUME RunsAssumption ==
    /\ Persistent \subseteq Tasks
    /\ NumRoles \in Nat \ {0} /\ MaxActivations \in Nat \ {0}
    /\ MaxConnects \in Nat /\ MaxStops \in Nat /\ MaxFaults \in Nat /\ MaxCrashes \in Nat

RoleIds == 1 .. NumRoles
Activations == 1 .. MaxActivations
Nodes == Tasks \X Activations \X RoleIds
TaskOf(n) == n[1]
RoleOf(n) == n[3]

Results == {"ok", "failed", "canceled"}

VARIABLES
    \* durable: the graph, and the nodes with a recorded input batch
    outcome, act, policy, edges, outputs, saved,
    \* durable: activations whose report reached the manager's memory
    told,
    \* volatile: the runner of each task; the manager's RunWithReport call per
    \* task, the activation it was launched for, and that of a late report
    run, job, launched, late,
    \* bounds
    connects, stops, faults, crashes

graph   == <<outcome, act, policy, edges, outputs>>
durable == <<graph, saved, told>>
manager == <<job, launched, late>>
bounds  == <<connects, stops, faults, crashes>>
vars == <<durable, run, manager, bounds>>

Outcomes == {"active", "done", "idle", "failed", "canceled", "closed"}
RunSteps == {"begin", "role", "start", "await", "work", "report", "settle", "end"}
Jobs     == {"none", "call", "attached", "late", "deliver", "refused"}

\* What wakes a waiting runner: the joined runner committed something (changed),
\* ended (over), or first the one and then the other (either).
Watches == {"no", "live", "changed", "over", "either"}

Runner == [act : Activations, role : RoleIds, step : RunSteps,
           batch : SUBSET Nodes,                \* sources of the role at hand
           start : SUBSET Nodes,                \* of these, not yet started
           wait : SUBSET Nodes,                 \* of these, not yet awaited
           on : Nodes \cup {None},              \* the source being awaited
           watch : Watches,                     \* and what its runner has done since
           result : Results, canceled : BOOLEAN,
           report : {"none", "due", "sent"}, reportFailed : BOOLEAN]

ASSUME NoneAssumption == None \notin Runner /\ None \notin Nodes

TypeOK ==
    /\ outcome \in [Tasks -> Outcomes]
    /\ act \in [Tasks -> Activations]
    /\ policy \in [Tasks -> {"enabled", "held"}]
    /\ edges \subseteq Nodes \X Nodes
    /\ outputs \subseteq Nodes /\ saved \subseteq Nodes
    /\ told \subseteq Tasks \X Activations
    /\ run \in [Tasks -> Runner \cup {None}]
    /\ job \in [Tasks -> Jobs]
    /\ launched \in [Tasks -> 0 .. MaxActivations]
    /\ late \in [Tasks -> 0 .. MaxActivations]
    /\ connects \in Nat /\ stops \in Nat /\ faults \in Nat /\ crashes \in Nat

Running(t) == run[t] # None
At(t, step) == Running(t) /\ run[t].step = step
NodeOf(t) == <<t, run[t].act, run[t].role>>
LastNode(t, a) == <<t, a, NumRoles>>
Incoming(n) == {m \in Nodes : <<m, n>> \in edges}

\* addActivationLocked: the edges between the roles of one activation.
Chain(t, a) == {<<<<t, a, r>>, <<t, a, r + 1>>>> : r \in 1 .. NumRoles - 1}

NewRun(t, report) ==
    [act |-> act[t], role |-> 1, step |-> "begin", batch |-> {}, start |-> {},
     wait |-> {}, on |-> None, watch |-> "no", result |-> "ok",
     canceled |-> FALSE, report |-> report, reportFailed |-> FALSE]

\* start refuses a closed or a held task, unless it has a runner to share.
CanStart(t) == outcome[t] # "closed" /\ policy[t] = "enabled"

Init ==
    /\ outcome = [t \in Tasks |-> "active"]
    /\ act = [t \in Tasks |-> 1]
    /\ policy \in [Tasks -> {"enabled", "held"}]
    /\ edges = UNION {Chain(t, 1) : t \in Tasks}
    /\ outputs = {} /\ saved = {} /\ told = {}
    /\ run = [t \in Tasks |-> None]
    /\ job = [t \in Tasks |-> "none"]
    /\ launched = [t \in Tasks |-> 0] /\ late = [t \in Tasks |-> 0]
    /\ connects = 0 /\ stops = 0 /\ faults = 0 /\ crashes = 0

-----------------------------------------------------------------------------
(* The manager *)

\* runReady: one call per activation of an active, enabled task.
RunReady(t) ==
    /\ outcome[t] = "active" /\ policy[t] = "enabled"
    /\ job[t] \in {"none", "refused"} /\ launched[t] # act[t]
    /\ launched' = [launched EXCEPT ![t] = act[t]]
    /\ job' = [job EXCEPT ![t] = "call"]
    /\ UNCHANGED <<durable, run, late, bounds>>

\* RunWithReport starts the runner with the report ...
CallStarts(t) ==
    /\ job[t] = "call" /\ ~Running(t) /\ CanStart(t)
    /\ run' = [run EXCEPT ![t] = NewRun(t, "due")]
    /\ job' = [job EXCEPT ![t] = "attached"]
    /\ UNCHANGED <<durable, launched, late, bounds>>

\* ... or adds it to the runner that is there (addReport) ...
CallAttaches(t) ==
    /\ job[t] = "call" /\ Running(t) /\ run[t].step \notin {"settle", "end"}
    /\ run' = [run EXCEPT ![t].report = "due"]
    /\ job' = [job EXCEPT ![t] = "attached"]
    /\ UNCHANGED <<durable, launched, late, bounds>>

\* ... or is too late for it and delivers the report itself afterwards ...
CallLate(t) ==
    /\ job[t] = "call" /\ Running(t) /\ run[t].step \in {"settle", "end"}
    /\ job' = [job EXCEPT ![t] = "late"]
    /\ late' = [late EXCEPT ![t] = run[t].act]
    /\ UNCHANGED <<durable, run, launched, bounds>>

\* ... or is refused.  The manager keeps the activation in its table all the same
\* and does not launch it again.
CallRefused(t) ==
    /\ job[t] = "call" /\ ~Running(t) /\ ~CanStart(t)
    /\ job' = [job EXCEPT ![t] = "refused"]
    /\ UNCHANGED <<durable, run, launched, late, bounds>>

DeliverLate(t) ==
    /\ job[t] = "deliver"
    /\ told' = told \cup {<<t, late[t]>>}
    /\ job' = [job EXCEPT ![t] = "none"]
    /\ UNCHANGED <<graph, saved, run, launched, late, bounds>>

\* Mutants of SetTaskActive: a closed task, another activation goes back too.
ReopenClosed(t, a) ==
    outcome' = [outcome EXCEPT ![t] = IF act[t] = a THEN "active" ELSE @]

ReopenAny(t, a) ==
    outcome' = [outcome EXCEPT ![t] = IF outcome[t] # "closed" THEN "active" ELSE @]

\* setTaskActive: only the same activation, and only an open task, goes back.
SetTaskActive(t, a) ==
    outcome' = [outcome EXCEPT ![t] =
        IF act[t] = a /\ outcome[t] # "closed" THEN "active" ELSE @]

DeliverLateFails(t) ==
    /\ job[t] = "deliver" /\ faults < MaxFaults
    /\ SetTaskActive(t, late[t])
    /\ job' = [job EXCEPT ![t] = "none"]
    /\ faults' = faults + 1
    /\ UNCHANGED <<act, policy, edges, outputs, saved, told, run, launched, late,
                   connects, stops, crashes>>

-----------------------------------------------------------------------------
(* The runner *)

\* runTask: a task whose last role has an output is over, canceled or not.
Begin(t) ==
    /\ At(t, "begin")
    /\ LET over == LastNode(t, run[t].act) \in outputs IN
       run' = [run EXCEPT
           ![t].step = IF over \/ run[t].canceled THEN "report" ELSE "role",
           ![t].result = IF ~over /\ run[t].canceled THEN "canceled" ELSE "ok"]
    /\ UNCHANGED <<durable, manager, bounds>>

Ends(t, result) ==
    run' = [run EXCEPT ![t].step = "report", ![t].result = result]

\* The loop over the roles: a committed one is skipped.
SkipRole(t) ==
    /\ At(t, "role") /\ ~run[t].canceled
    /\ NodeOf(t) \in outputs
    /\ IF run[t].role = NumRoles
         THEN Ends(t, "ok")
         ELSE run' = [run EXCEPT ![t].role = @ + 1]
    /\ UNCHANGED <<durable, manager, bounds>>

\* Mutant of EnterRole: the role is not looked up among the outputs.
EnterAnyRole(t) ==
    /\ At(t, "role") /\ ~run[t].canceled
    /\ LET sources == Incoming(NodeOf(t)) IN
       run' = [run EXCEPT
           ![t].step = "start", ![t].batch = sources, ![t].wait = sources,
           ![t].start = {m \in sources : m \notin outputs /\ TaskOf(m) # t}]
    /\ UNCHANGED <<durable, manager, bounds>>

\* markNodeStarted freezes the role's edges; collectInputs reads them.
EnterRole(t) ==
    /\ At(t, "role") /\ ~run[t].canceled
    /\ NodeOf(t) \notin outputs
    /\ LET sources == Incoming(NodeOf(t)) IN
       run' = [run EXCEPT
           ![t].step = "start", ![t].batch = sources, ![t].wait = sources,
           ![t].start = {m \in sources : m \notin outputs /\ TaskOf(m) # t}]
    /\ UNCHANGED <<durable, manager, bounds>>

Awaiting(t) == At(t, "await") /\ run[t].on # None /\ run[t].on \notin outputs

Canceled(t) ==
    /\ At(t, "role") \/ Awaiting(t) \/ At(t, "work")
    /\ run[t].canceled
    /\ Ends(t, "canceled")
    /\ UNCHANGED <<durable, manager, bounds>>

\* The whole frontier is started before any source is awaited; a held source
\* is left alone.
StartSource(t, m) ==
    /\ At(t, "start") /\ m \in run[t].start
    /\ LET s == TaskOf(m)
           this == [run[t] EXCEPT !.start = @ \ {m}] IN
       \/ /\ Running(s) \/ (policy[s] = "held" /\ outcome[s] # "closed")
          /\ run' = [run EXCEPT ![t] = this]
       \/ /\ ~Running(s) /\ CanStart(s)
          /\ run' = [run EXCEPT ![t] = this, ![s] = NewRun(s, "none")]
       \/ /\ ~Running(s) /\ outcome[s] = "closed"
          /\ Ends(t, "failed")
    /\ UNCHANGED <<durable, manager, bounds>>

FrontierStarted(t) ==
    /\ At(t, "start") /\ run[t].start = {}
    /\ run' = [run EXCEPT ![t].step = "await"]
    /\ UNCHANGED <<durable, manager, bounds>>

\* The sources are awaited one after the other.
AwaitNext(t, m) ==
    /\ At(t, "await") /\ run[t].on = None /\ m \in run[t].wait
    /\ run' = [run EXCEPT ![t].on = m, ![t].watch = "no"]
    /\ UNCHANGED <<durable, manager, bounds>>

SourceReady(t) ==
    /\ At(t, "await") /\ run[t].on \in outputs
    /\ run' = [run EXCEPT ![t].wait = @ \ {run[t].on}, ![t].on = None, ![t].watch = "no"]
    /\ UNCHANGED <<durable, manager, bounds>>

\* waitOutput joins or starts the source's runner, again whenever that runner
\* has committed something else.  A held source blocks until the graph changes.
JoinSource(t) ==
    /\ Awaiting(t) /\ run[t].watch \in {"no", "changed", "either"}
    /\ LET s == TaskOf(run[t].on) IN
       /\ s # t /\ (policy[s] = "enabled" \/ outcome[s] = "closed")
       /\ \/ /\ Running(s)
             /\ run' = [run EXCEPT ![t].watch = "live"]
          \/ /\ ~Running(s) /\ CanStart(s)
             /\ run' = [run EXCEPT ![t].watch = "live", ![s] = NewRun(s, "none")]
          \/ /\ ~Running(s) /\ outcome[s] = "closed"
             /\ Ends(t, "failed")
    /\ UNCHANGED <<durable, manager, bounds>>

\* The runner that was joined ended without the output: the consumer fails.
SourceFailed(t) ==
    /\ Awaiting(t) /\ run[t].watch \in {"over", "either"}
    /\ Ends(t, "failed")
    /\ UNCHANGED <<durable, manager, bounds>>

\* All sources are there: prepareInput records the batch, canceled or not.
SaveBatch(t) ==
    /\ At(t, "await") /\ run[t].wait = {}
    /\ saved' = saved \cup {NodeOf(t)}
    /\ run' = [run EXCEPT ![t].step = "work"]
    /\ UNCHANGED <<graph, told, manager, bounds>>

\* The runners waiting for something of task t, in the state from.
Waiters(t, from) ==
    {s \in Tasks \ {t} : Running(s) /\ run[s].on # None /\ run[s].watch = from
                         /\ TaskOf(run[s].on) = t}

\* Activation: the role commits its output, or fails.
CommitOutput(t) ==
    /\ At(t, "work")
    /\ outputs' = outputs \cup {NodeOf(t)}
    /\ run' = [s \in Tasks |->
           CASE s = t                    -> [run[s] EXCEPT !.step = "role"]
             [] s \in Waiters(t, "live") -> [run[s] EXCEPT !.watch = "changed"]
             [] OTHER                    -> run[s]]
    /\ UNCHANGED <<outcome, act, policy, edges, saved, told, manager, bounds>>

RoleFails(t) ==
    /\ At(t, "work") /\ faults < MaxFaults
    /\ Ends(t, "failed")
    /\ faults' = faults + 1
    /\ UNCHANGED <<durable, manager, connects, stops, crashes>>

\* execute: the reports are delivered before the outcome is recorded.
DeliverReport(t) ==
    /\ At(t, "report") /\ run[t].report = "due"
    /\ told' = told \cup {<<t, run[t].act>>}
    /\ run' = [run EXCEPT ![t].report = "sent"]
    /\ UNCHANGED <<graph, saved, manager, bounds>>

\* Mutant of DeliverReportFails: the failure replaces the state of the report.
ReportLost(t) ==
    /\ At(t, "report") /\ run[t].report = "due" /\ faults < MaxFaults
    /\ run' = [run EXCEPT ![t].report = "failed"]
    /\ faults' = faults + 1
    /\ UNCHANGED <<durable, manager, connects, stops, crashes>>

DeliverReportFails(t) ==
    /\ At(t, "report") /\ run[t].report = "due" /\ faults < MaxFaults
    /\ run' = [run EXCEPT ![t].report = "sent", ![t].reportFailed = TRUE]
    /\ faults' = faults + 1
    /\ UNCHANGED <<durable, manager, connects, stops, crashes>>

\* From here on addReport is refused.
ReportsDone(t) ==
    /\ At(t, "report") /\ run[t].report # "due"
    /\ run' = [run EXCEPT ![t].step = "settle"]
    /\ UNCHANGED <<durable, manager, bounds>>

TaskOutcome(t, result) ==
    CASE result = "ok" -> IF t \in Persistent THEN "idle" ELSE "done"
      [] result # "ok" -> result

\* recordOutcome never reopens a closed task.
RecordOutcome(t, result) ==
    outcome' = [outcome EXCEPT ![t] =
        IF outcome[t] = "closed" THEN @ ELSE TaskOutcome(t, result)]

\* Mutant of Settle: the outcome is recorded whatever became of the reports.
SettleUnreported(t) ==
    /\ At(t, "settle")
    /\ run' = [run EXCEPT ![t].step = "end"]
    /\ RecordOutcome(t, run[t].result)
    /\ UNCHANGED <<act, policy, edges, outputs, saved, told, manager, bounds>>

Settle(t) ==
    /\ At(t, "settle")
    /\ run' = [run EXCEPT ![t].step = "end"]
    /\ IF run[t].reportFailed THEN UNCHANGED outcome ELSE RecordOutcome(t, run[t].result)
    /\ UNCHANGED <<act, policy, edges, outputs, saved, told, manager, bounds>>

SettleFails(t) ==
    /\ At(t, "settle") /\ ~run[t].reportFailed /\ faults < MaxFaults
    /\ run' = [run EXCEPT ![t].step = "end"]
    /\ faults' = faults + 1
    /\ UNCHANGED <<durable, manager, connects, stops, crashes>>

\* Mutant of End: the runners that share it are not told.
EndSilently(t) ==
    /\ At(t, "end")
    /\ run' = [run EXCEPT ![t] = None]
    /\ job' = [job EXCEPT ![t] = CASE @ = "attached" -> "none"
                                    [] @ = "late"     -> "deliver"
                                    [] OTHER          -> @]
    /\ UNCHANGED <<durable, launched, late, bounds>>

\* The runner leaves the graph and everyone who shared it wakes up.
End(t) ==
    /\ At(t, "end")
    /\ run' = [s \in Tasks |->
           CASE s = t                       -> None
             [] s \in Waiters(t, "live")    -> [run[s] EXCEPT !.watch = "over"]
             [] s \in Waiters(t, "changed") -> [run[s] EXCEPT !.watch = "either"]
             [] OTHER                       -> run[s]]
    /\ job' = [job EXCEPT ![t] = CASE @ = "attached" -> "none"
                                    [] @ = "late"     -> "deliver"
                                    [] OTHER          -> @]
    /\ UNCHANGED <<durable, launched, late, bounds>>

-----------------------------------------------------------------------------
(* Edits of the graph, cancellation, restart *)

Reachable(n) ==
    LET reach[k \in 0 .. Cardinality(Nodes)] ==
          IF k = 0 THEN {n}
          ELSE reach[k - 1] \cup {e[2] : e \in {x \in edges : x[1] \in reach[k - 1]}}
    IN reach[Cardinality(Nodes)]

NodeStarted(t, n) ==
    /\ Running(t) /\ TaskOf(n) = t /\ n[2] = run[t].act
    /\ \/ RoleOf(n) < run[t].role
       \/ RoleOf(n) = run[t].role /\ run[t].step \notin {"begin", "role"}

\* Mutants of InputFrozen: the roles under way, the saved records are left out.
FrozenUnlessStarted(n) ==
    \/ n \in outputs \/ n \in saved
    \/ outcome[TaskOf(n)] # "active" \/ n[2] # act[TaskOf(n)]

FrozenUnlessSaved(n) ==
    \/ n \in outputs
    \/ outcome[TaskOf(n)] # "active" \/ n[2] # act[TaskOf(n)]
    \/ NodeStarted(TaskOf(n), n)

\* inputFrozenLocked: the node's sources are being, or have been, used.
InputFrozen(n) ==
    \/ n \in outputs \/ n \in saved
    \/ outcome[TaskOf(n)] # "active" \/ n[2] # act[TaskOf(n)]
    \/ NodeStarted(TaskOf(n), n)

ValidSource(m) ==
    m \in outputs \/ (m[2] = act[TaskOf(m)] /\ outcome[TaskOf(m)] # "closed")

Connect(m, n) ==
    /\ connects < MaxConnects
    /\ <<m, n>> \notin edges
    /\ ~InputFrozen(n) /\ ValidSource(m) /\ m \notin Reachable(n)
    /\ edges' = edges \cup {<<m, n>>}
    /\ connects' = connects + 1
    /\ UNCHANGED <<outcome, act, policy, outputs, saved, told, run, manager, stops, faults, crashes>>

\* immutableHistoryUnchanged, runningSliceUnchanged, persistedInputsUnchanged: what
\* lets a task be changed.
HistoryOpen(t)  == outcome[t] = "active" /\ \A n \in outputs : TaskOf(n) = t => n[2] # act[t]
NotStarted(t)   == ~Running(t)
NoSavedInput(t) == \A n \in saved : TaskOf(n) # t

\* ReplacePending may enable a held task that has not begun, or hold an enabled
\* one, also between its launch and its start.
Enable(t) ==
    /\ policy[t] = "held" /\ HistoryOpen(t) /\ NotStarted(t) /\ NoSavedInput(t)
    /\ policy' = [policy EXCEPT ![t] = "enabled"]
    /\ UNCHANGED <<outcome, act, edges, outputs, saved, told, run, manager, bounds>>

Hold(t) ==
    /\ policy[t] = "enabled" /\ HistoryOpen(t) /\ NotStarted(t) /\ NoSavedInput(t)
    /\ stops < MaxStops
    /\ policy' = [policy EXCEPT ![t] = "held"]
    /\ stops' = stops + 1
    /\ UNCHANGED <<outcome, act, edges, outputs, saved, told, run, manager, connects,
                   faults, crashes>>

CancelTask(t) ==
    /\ Running(t) /\ ~run[t].canceled /\ stops < MaxStops
    /\ run' = [run EXCEPT ![t].canceled = TRUE]
    /\ stops' = stops + 1
    /\ UNCHANGED <<durable, manager, connects, faults, crashes>>

CloseTask(t) ==
    /\ t \in Persistent /\ outcome[t] # "closed" /\ stops < MaxStops
    /\ outcome' = [outcome EXCEPT ![t] = "closed"]
    /\ run' = IF Running(t) THEN [run EXCEPT ![t].canceled = TRUE] ELSE run
    /\ stops' = stops + 1
    /\ UNCHANGED <<act, policy, edges, outputs, saved, told, manager, connects, faults, crashes>>

\* Continue: the next activation starts from the last output.
Continue(t) ==
    /\ t \in Persistent /\ outcome[t] = "idle" /\ ~Running(t)
    /\ act[t] < MaxActivations /\ LastNode(t, act[t]) \in outputs
    /\ act' = [act EXCEPT ![t] = @ + 1]
    /\ outcome' = [outcome EXCEPT ![t] = "active"]
    /\ edges' = edges \cup Chain(t, act[t] + 1)
                      \cup {<<LastNode(t, act[t]), <<t, act[t] + 1, 1>>>>}
    /\ UNCHANGED <<policy, outputs, saved, told, run, manager, bounds>>

\* The process stops and is opened again.
Crash ==
    /\ crashes < MaxCrashes
    /\ crashes' = crashes + 1
    /\ run' = [t \in Tasks |-> None]
    /\ job' = [t \in Tasks |-> "none"]
    /\ launched' = [t \in Tasks |-> 0] /\ late' = [t \in Tasks |-> 0]
    /\ UNCHANGED <<durable, connects, stops, faults>>

ManagerStep(t) ==
    \/ RunReady(t) \/ CallStarts(t) \/ CallAttaches(t) \/ CallLate(t) \/ CallRefused(t)
    \/ DeliverLate(t)

RunnerStep(t) ==
    \/ Begin(t) \/ SkipRole(t) \/ EnterRole(t) \/ Canceled(t)
    \/ \E m \in Nodes : StartSource(t, m) \/ AwaitNext(t, m)
    \/ FrontierStarted(t) \/ SourceReady(t) \/ JoinSource(t) \/ SourceFailed(t)
    \/ SaveBatch(t) \/ CommitOutput(t)
    \/ DeliverReport(t) \/ ReportsDone(t) \/ Settle(t) \/ End(t)

Faulty(t) ==
    \/ DeliverLateFails(t) \/ RoleFails(t) \/ DeliverReportFails(t) \/ SettleFails(t)

Edit ==
    \/ \E m, n \in Nodes : Connect(m, n)
    \/ \E t \in Tasks : Enable(t) \/ Hold(t) \/ CancelTask(t) \/ CloseTask(t) \/ Continue(t)

Next ==
    \/ \E t \in Tasks : ManagerStep(t) \/ RunnerStep(t) \/ Faulty(t)
    \/ Edit \/ Crash

Spec == Init /\ [][Next]_vars

\* Every goroutine goes on; the manager looks for ready tasks again and again;
\* somebody enables a held task.
LiveSpec ==
    /\ Spec
    /\ \A t \in Tasks : WF_vars(ManagerStep(t)) /\ WF_vars(RunnerStep(t)) /\ WF_vars(Enable(t))

-----------------------------------------------------------------------------
(* Properties *)

\* A role works only on committed sources, and on exactly those its edges
\* name: no edit slips in while the sources are collected, and a consumer
\* never goes on without a source that failed.
WorksOnItsSources ==
    \A t \in Tasks : At(t, "work") =>
        /\ run[t].batch \subseteq outputs
        /\ run[t].batch = Incoming(NodeOf(t))

\* The sources recorded for a node stay its sources, also after a restart.
RecordedBatchComplete ==
    \A n \in saved \cup outputs : Incoming(n) \subseteq outputs

\* A committed role does not work again, whatever had to be run again.
CommittedRolesSkipped ==
    \A t \in Tasks : At(t, "work") => NodeOf(t) \notin outputs

\* Closing wins over everything that was under way.
ClosedForever ==
    [][\A t \in Tasks : outcome[t] = "closed" => outcome'[t] = "closed"]_vars

\* A runner with a report to deliver changes the outcome only once the
\* manager has it.
ReportedBeforeOutcome ==
    [][\A t \in Tasks :
        /\ At(t, "settle") /\ run[t].report # "none" /\ outcome'[t] # outcome[t]
        => <<t, run[t].act>> \in told \/ outcome'[t] = "closed"]_vars

\* A report that came too late reopens its own activation only.
NextActivationUntouched ==
    [][\A t \in Tasks :
        job[t] = "deliver" /\ act[t] # late[t] /\ outcome'[t] = "active"
        => outcome[t] = "active" \/ act'[t] # act[t]]_vars

\* Nobody waits for ever: waiting runners, sources that fail, tasks held again,
\* crashes and restarts included, every task leaves the active state, unless
\* saving failed or its launch was refused because it had just been held (then
\* only a consumer's runner, or the process opened anew, runs it).
EveryTaskSettles ==
    \A t \in Tasks : <>[](outcome[t] = "active" => faults > 0 \/ job[t] = "refused")

\* run.go:53-54: report delivery "must succeed before the task leaves active
\* state".
CallersReportedFirst ==
    \A t \in Tasks :
        job[t] \in {"late", "deliver"} /\ act[t] = late[t] /\ <<t, late[t]>> \notin told
        => outcome[t] \in {"active", "closed"}
=============================================================================
