# Threadmill in TLA+

Threadmill runs coding tasks with language-model agents. A *manager* conversation edits a
graph of tasks; every task takes three roles (planner, executor, verifier) through isolated
workspaces; an edge hands one role's committed files and memory on as another role's input.
This directory models the parts of the program that decide whether work is lost, repeated or
mixed up: how inputs are prepared, outputs exported, tasks that wait for each other run, files
and memory kept, commands admitted and answered from a cache, conversations resumed, and model
text shown. The models are checked with TLC on small instances; the safety properties of ten of
them are proved with TLAPS for every instance.

Paths below are relative to `internal/` unless they start with `docs/`.

## 1. Inventory

### Parts of the system

| Part | State it keeps | Operations | What makes it correct |
| --- | --- | --- | --- |
| Task graph (`coordination/graph.go`, `pending.go`, `graph_store.go`) | tasks with activation, outcome and run policy; nodes; edges; committed outputs; durable in one file, saved or restored as a whole | Connect, ReplacePending, Continue, CloseTask, commitOutput, recordOutcome | acyclic; outputs immutable; sources of a role that has begun never change; a closed task stays closed |
| Runner (`coordination/run.go`) | at most one per task, in memory; its reports; nodes it has started | RunWithReport, start, execute, runTask, runRole, waitOutput, export | a role works on exactly its committed sources; committed roles are not run again; a report precedes the outcome; nobody waits for ever |
| Input preparation (`coordination/input.go`, `input_tool.go`, `progress.go`) | durable phase, decisions and references per node; target workspace | prepareInput, the resolver's `input` tool, installInput, readyInput | one pair of files and memory, frozen once, equal to what was decided |
| Help (`coordination/help.go`) | requests; pause and resume nodes | request, provide, decline | a replayed call finds its pause; the resumed role gets the pair of its resume node |
| Project messages, real directory (`coordination/project*.go`, `vfs/project.go`, `vfs/publish.go`) | messages; the owner of the real directory | MessageTask, message tool, InstallProject, ArchiveProject | no accepted message is missed; one owner |
| Manager (`manager/manager.go`) | activations launched; queue of messages | Open, Send, runReady, runTask, Close | every active task is run once per activation; reports are queued in order |
| File environments (`vfs/`) | overlays in memory, live directories on disk, archives | CreateEnvironment, PrepareInput, ApplyInput, Materialize, Absorb, Release, Freeze, Archive, Restore, Discard | archives do not change; what was written is found again |
| Task memory (`context/`) | live graph per task; immutable snapshots; one file | Save, SaveSnapshot, Restore, PartitionInputs | snapshots immutable; differences between sources are not lost |
| Command admission (`exec/scheduler.go`, `heavylane.go`) | slots, heavy lane, memory in use, counters | Run, admit, release, Stats | limits hold; tokens come back once; no deadlock; counters agree |
| Processes of a workspace (`exec/scheduler.go`, sandboxes) | process groups, runtime directories | track, untrack, Reap | nothing of a reaped workspace goes on writing |
| Command cache (`cmdcache/`, `exec/cached.go`) | entries and blobs shared between processes | Lookup, Replay, Store, Invalidate, GC | a replay leaves what running would have left |
| Agent loop (`agent/`) | conversation, queue, checkpoint | Ask, Run, Enqueue, Preempt, compaction | a turn is committed once; a checkpoint can be resumed |
| Tools, provider, events, user interfaces, drivers (`tool/`, `provider/`, `event/`, `cli/`, `tui/`, `cmd/`, `web/`) | little or none of their own | | |

### How they interact

The manager starts a runner for every active, enabled task (`runReady`) and passes it a
report function. A runner that needs the output of another task starts that task's runner or
shares it (`startSource`, `waitOutput`). For each role the runner collects the committed
sources, prepares the input, installs it (live memory, workspace, Started mark), asks the
role, reaps the role's processes and exports its files, memory and report as one output.
Roles run commands through the scheduler and edit files and memory through the stores.
Runners, the manager's handlers and the tools share the graph under one lock; progress
records, memory, graph and environments are stores of their own, each saved atomically, none
together with another.

### What is hard

Steps between two stores with a stop in between; retries of a step whose effect is already
there; processes that outlive the command that started them; edits of the graph while it
runs; several callers of one runner; waiting on channels that are replaced when something
happens; tokens and counters under different locks. `PROJECT.json` lists these hazards at
their lines, each with the properties that would catch it.

## 2. Modules

| Module | Models | Abstract specification |
| --- | --- | --- |
| `EdgeInput` | one role's input: `prepareInput`, the `input` tool, target workspace, archive, snapshot | `FixedInput`: one pair, published once |
| `Activation` | one activation: three roles from input to output, `export`, `completeExport`, `installInput` | `PairedOutput`: one triple per role, in order, immutable |
| `TaskRuns` | several tasks: runners, waiting, reports, outcomes, edits, restart | |
| `Manager` | the manager's session: its two queues, turns, help requests, messages to a role | |
| `AgentLoop` | one conversation: queue, turns, tools, preemption, checkpoint, compaction | |
| `InputMemory` | memories of several sources: partition, draft, edits in batches, composition | |
| `Overlay` | operators: layers of files, rendering, absorbing, what an input adopts | |
| `Workspaces` | the file store: environments, archives, inputs, live directories, restart | a rendered directory against its layers |
| `Project` | the user's directory: publication of an input, displaced files, the floor | |
| `Scheduler` | admission of commands | |
| `CommandCache` | commands run or answered from a shared cache | one run of the whole list |
| `WebStream` | a model's stream with retries, the web gateway, a client's view | |
| `MCScheduler`, `MCWorkspaces`, `MCProject`, `MCInputMemory`, `MCCommandCache` | constants and symmetry of the runs | |
| `Inputs_proofs` | theorems about `EdgeInput` and `InputMemory` | |
| `Execution_proofs` | theorems about `Scheduler` and `Workspaces` | |
| `Activation_proofs`, `TaskRuns_proofs`, `Manager_proofs`, `AgentLoop_proofs`, `Project_proofs`, `WebStream_proofs` | theorems about these six | |

They form a tower. `Activation` uses of an input only what `FixedInput` says of it, and a role
of `TaskRuns` goes from collected sources to output in one step of the kind `PairedOutput`
allows. What `EdgeInput` calls a source's files and an organizer's answer are `Workspaces` and
`InputMemory` seen from outside; a task of `Manager` is one of `TaskRuns`; the conversation of
`Manager` is one of `AgentLoop`. So the detailed modules never run together; each is small
enough to check.

### EdgeInput

`phase`, `applied`, `discarded` are the durable `InputProgress`; `frozen` and `sealed` the archive
`input:files` and the snapshot `input:memory`; `content` and `kept` the target environment and
whether it was materialized on disk. `step` is that of the current attempt. `Collect`, `Resume`,
`PrepareTarget`, `SaveFiles`, `Reap`, `FreezeFiles`, `SaveMemoryPhase`, `KeepSealed`,
`OrganizeMemory`, `SealMemory`, `Publish`, `ReadyInput` are the steps of `prepareInput` in order;
`Apply`, `SaveCall`, `Discard`, `Edit`, `FinishFiles` the resolver's tools. `BackgroundWrite` is a
process the resolver's Bash left behind. `Fail` ends an attempt at any step that touches a store,
the resolver or the organizer; `Crash` stops the process, which takes everything volatile and
every target that was never materialized.

The files are reduced to the paths on which the sources differ, a content to who wrote it.
Sources that agree, a single source and no source are the instances with `Paths = {}`. The
organizer's answers are numbered, because two answers need not be equal.

### Activation

`input`, `inFiles`, `inMemory` are the role's published pair and Started mark; `work` its
workspace; `live` the task's live memory; `archive`, `snapshot`, `pending`, `output` the four
places an export goes through. Every write takes a stamp from `clock`, so two contents are
equal exactly when no write is between them. `JoinInputs` is a role with several sources,
whose pair is new; `InheritInput` a role with one. `outcome` is the graph's: `Settle` ends a run
and records `done` or `failed`, `SettleFails` leaves the activation active but in the manager's
table. `Start` is `runReady`, which launches an active activation once per process; `StartAgain`
is a consumer's `waitOutput`, which runs it for a missing output whatever its outcome.

### TaskRuns

`outcome`, `act`, `policy`, `edges`, `outputs` are the graph; `saved` the nodes whose input
batch is recorded; `told` the reports in the manager's memory. `run[t]` is the runner of a
task with its step, the sources it starts and waits for, and what happened since it last
looked (`watch`): a commit closes the channel `changed`, the end of the runner closes `done`,
and a waiter that finds both closed may take either. `job[t]` is the manager's call of
`RunWithReport`; it is `refused` when the task was held again between its launch and its start.
`Enable` and `Hold` are `ReplacePending`'s change of the run policy of a task that has not begun.

### Manager

`fifo` is the queue of the manager's loop, `meta` the manager's own queue of what to do with
each message, `pending` its counter; `turn`, `heard`, `file`, `final` are the turn under way,
the conversation, its checkpoint and whether it holds the committed answer. `request`,
`returns`, `outcome`, `outputs`, `pend`, `inbox` are what the graph and the progress record
keep, the rest of a role what its runner and its handler in the coordinator know. A turn goes
through `NextMessage`, `BeforeTurn`, `Hear`, `Compact`, `Answer`, `Commit`, `Discard`,
`TurnDone`, with `Recover`, `CutOff`, `Preempt` and `Fail` as its other ends. A role goes
through `Ask`, then either the help tool (`Freeze`, `SaveRequest`, `Notify`, `Sources`, `Wake`,
`ResumeHelp`) or its last answer (`More`, `Answers`, `ExportsRole`, `Ends`). `Provide`, `Decline`
and `MessageTask` are the manager's tools and handlers. Each task stands for its one asking role.

### AgentLoop

`loop` is the goroutine with the volatile fields of `Loop`: `Run` or `Ask`, `RunTurn`,
`Restore`, `Begin`, then for each request `Assemble`, `Generate` or `CompactBeforeRequest`,
`Replied`, `Execute` and `ToolResult` for each call, then `Commit`, `Mark`, `Discard`, `Finish`
and `KeepTail`. `checkpoint` is `react.json`; `memory` and `revision` the agent's memory graph;
`preempter` the cancel function a `Preempt` took under the lock and calls after it. `settled`
and `final` observe which calls have a saved result and what has been committed. The four
kinds differ in what they are configured with: who is run on a queue, who compacts when, who
resets the session instead.

### InputMemory

`sources` are the graphs of the inputs, `common` and `draft` what `PartitionInputs` and `Draft`
make of them, `view` what the organizing model works on, `batch` one call of `memory_apply`
while its operations are applied to a copy. `Create`, `Change`, `Describe` are its operations
with every guard, `MemoryApply` their common end (all or nothing), `AddToSubgraph` the other
tool, `Finish` the validation and composition. `Mapped` leads a source's subgraphs, edges and
successors to the identities they have in the draft. A node is its kind, what it says, its status,
subgraphs, references, author and heir; an identity is a sequence, a variant of it one with a
number behind. `cited` observes on which nodes the text now standing was accepted on evidence.

### Overlay, Workspaces, Project

`Overlay` has no variables: a layer maps a path to a file, a directory or a tombstone, and the
operators are the searches (`Found`, `Read`, `List`), rendering (`Rendered`, which may refuse),
absorbing (`Merged`) and adoption (`Planned`, `AppliedTo`) of `store.go`, `live.go` and
`input.go`, at the level of whole trees over nested paths.

In `Workspaces`, `chain` is each environment's own layer and the frozen ones under it, `disk`
and `live` its directory, `baseline`, `changed`, `since` what the fingerprint of the directory
can tell. A caller's operation goes through its sources one after the other (`RestoreLooks`,
`RestoreOpens`, `Scan`, `Walk`, `Merge`: opening, then absorbing without the lock), then copies
(`Create`, `RenderArchive`, `Prepare`) or adopts (`Apply`). `Touch` is a command that still
writes, `Restart` leaves the directories and loses the layers. The ghost `took` is the tree a
copy was promised, `spoiled` the environments a known disagreement (section 3, Files) has
touched. `Begin` gives a workspace to one caller at a time; archives are shared once they are
complete, as their identifiers are known to others only then, and one that an input was prepared
from (`Committed`) is not archived again, because a role with an output is skipped. An input
prepared from a spoiled source is spoiled, and what was decided on a spoiled target is not
followed over a restart.

In `Project`, `input` is what `lookupContent` answers at each path of the prepared input. It need
not be a tree: where the resolver rejected a directory and took a file in it, the layer has a
tombstone beside the file (`Holes`); `Filled` is what the environment shows, and what is left of
it once its workspace was absorbed. `dir` is the user's directory, `floor` and `meta` the store's
private copy and the state it stands for, `listed` and `published` the published paths, `plan` the
steps a publication has left, `kept` the saved displaced files. `Publish` plans, `Retain` saves,
`WriteStep`, `RemoveStep`, `RemoveDirStep` carry out `First`, the step the sorted plan has next,
`PruneReplaced`, `SavePublishedPaths`, `RecordDisplayState` end it; `Edits` is the user at any
time, `Failed` and `Restart` cut it off.

### Scheduler

`slots`, `lane` are the tokens in the two channels, `memory` is `memInUse`, `stats` the counters.
Taking a token, counting it, returning it and counting that are four steps, because they happen
under different locks. `Waits` says what a request waits for, `SomeoneGoesOn` that not all of them
wait, and `NobodyStuck` adds that what does not wait has a step. The names of its specification
have a prefix (`SchedulerSpec`), because one module of proofs extends it and `Workspaces`.

### CommandCache

A command is the list of its system calls; `Run` gives the tree it leaves, its output, exit code
and trace, and `Depends` what the cache keeps of the trace. A request (`job`) is split (`Plan`),
each part looked up (`Lookup`), replayed file by file (`ReplayTree`, `ReplayFile`, or `BreakOff`
when a blob is gone or a file in the way) or executed, captured and stored (`Execute`, `Capture`,
`WriteEntry`, `Reconcile`). `entries` and `blobs` are the shared directory; `Collect` removes a
blob between any two steps. `broken` observes that a replay broke off after it had changed the
tree.

### WebStream

`call` is each caller's call of the model with its attempts (`Request`, `Chunk`, `Break`,
`Retry`, `Complete`); `messages`, `stream`, `next` the project of the gateway; `subs` each
client's channel and the view it keeps. `Applied` is what a client does with one frame and
`Shown` what it shows once it has read them all. A chunk of text is named by the attempt that sent it,
so text of an attempt that was given up is recognised wherever it ends up.

## 3. Runs

| Run | Instance | Shows |
| --- | --- | --- |
| `EdgeInput` | 2 sources, 2 differing paths, an organizer, 2 changes by the resolver, 2 failures, 1 restart | decisions kept, one pair published, ready in the end except for the one dead end `DraftGone` names |
| `Activation` | 3 roles, 3 writes, 1 failure, 1 restart | outputs belong to the last answer, archives are quiescent, inputs are not mixed, unsupported facts disputed, answered once, outputs immutable and in order; verified in the end unless an error ends the activation, and also then if its consumers go on running it |
| `TaskRuns` | 2 tasks of one role, one persistent, 2 activations, 1 edge, 1 cancel, close or hold, 1 failure, 1 restart | roles work on exactly their sources, recorded sources stay complete, no committed role works again, closed stays closed, report before outcome, every task settles unless its settlement failed or its launch was refused |
| `Manager` | 1 asking role on the real directory, 1 user, 1 message to the role, 1 failure, 1 restart, 1 turn preempted or cut off | one verdict, remembered once, idle means done, accepted messages are seen, no request is stranded |
| `Manager_PassedIsCommitted` | 1 role, 1 failure | violation, see Finding |
| `AgentLoop` | each kind of agent, 2 queries, 2 requests a turn, 2 calls, 2 replies, 1 append, 2 mishaps | requests paired, only the turn meant is canceled, results final, nothing forgotten, every query served |
| `MCInputMemory` | 6 inputs of 1 to 3 sources, 16 edits, 2 batches of 2 operations | every version kept with its relations, what was agreed and asked kept, facts accepted on evidence |
| `MCWorkspaces` | 1 caller, 2 archives, 1 workspace, 3 nested paths, 2 contents, 2 floors, 2 trees left by earlier roles, 4 calls, 2 writes or restarts | layers agree with directories, copies are exact, adopted as asked |
| `MCProject` | d, d/x, d/y, 2 inputs, 1 edit by the user, 1 failure or restart, one publication's files kept | what is installed is the input, except in and around a rejected directory, what is displaced is kept |
| `MCScheduler` | 3 requests, 2 slots, 1 heavy lane, budget 3, estimates 0, 3 and 4, 2 segments | honest counters, nothing leaks, nobody stuck |
| `MCCommandCache` | 2 environments, 2 trees, 5 kinds of request, 3 requests, 1 collection | a replay that does not break off is a run |
| `WebStream` | 1 client, 1 retry, 2 frames and 2 messages kept, 2 calls of the manager, 1 of a worker, 1 post, 1 connection, 1 other event | text is shown once, a connected client is current |

Deadlock is checked in `EdgeInput`, where an attempt can always be started again. It is off in the
other runs, whose instances end: the activation and every task have settled, every request has
returned, every bound is used up. There `EventuallyVerified`, `EveryTaskSettles`, `NobodyStuck`
and `Served` say that nothing stops before that.

### Bounds

`MaxCalls`, `MaxWrites` bound the changes of a resolver or role: two changes are needed for
one to overwrite another, three stamps for an input, an edit and a later background write.
`MaxFaults`, `MaxCrashes`, `MaxStops`, `MaxBreaks` bound failures and restarts; two failures
(`EdgeInput`) let a retry of a failed step fail again. `MaxActivations = 2` is the least with
an old and a new activation. `MaxConnects` bounds edits of the graph, `MaxStops` of `TaskRuns`
cancel, close and hold. A larger instance of `TaskRuns` (two roles a task, one activation) was
checked by hand.

`Manager`: one role is enough because requests of different tasks meet only in the queue, where
the user's message is another entry; the theorems are for any number. `AgentLoop`: two queries let
a turn meet the leftovers of the one before, two calls let one have its result and the other not,
two mishaps a crash after a preemption. `MCInputMemory`: the inputs hold every way two versions
can collide (text, status, subgraph, successor, an earlier variant, three sources of which two
agree, a common node whose successor has two versions), a batch of two lets an operation undo the
other, two batches let the second meet what the first made. `MCWorkspaces`, `MCProject`: three
nested paths let a path be a file in one tree and a directory in the other; that two levels are
not enough for `InstalledIsInput` is why it is proved for every nesting (section 4).
`MCCommandCache`: three requests let one store an entry, another change the tree, and the third
find the entry. `WebStream`: a channel of two frames fills, two kept messages push one out.

Three requests over two slots and one lane are the least in which one runs, one holds the lane
and one waits; an estimate of 4 over a budget of 3 never fits. The initial states of `TaskRuns`
are tasks that have been created, each held or enabled, of `Scheduler` requests of every
number of segments, of `Workspaces` and `Project` every tree of the given sets.

### Fairness

`EdgeInput`: attempts at the input are made as long as there is none; every call returns; a
resolver that is asked decides every source (it can always discard) and finishes. That there are
such attempts is an assumption about the callers: after an error only a consumer's runner makes
another one. `Activation`: the process is opened again, its manager launches an active activation
once, every call returns, a role that is asked answers. Nobody has to run a settled activation
again: `EventuallyVerified` promises a verdict without an error, and with one only if consumers
run it over and over. The code bounds each call by timeouts. No fairness is assumed of failures,
edits, background writes and crashes. `TaskRuns`: each runner goroutine and each manager call goes
on, and somebody enables a held task: the code waits for that without a limit by design
(`waitOutput` on `changedGraph`); `EveryTaskSettles` leaves out a task whose settlement itself
failed and one whose launch was refused; both stay active until the process is opened again.
`AgentLoop`: the goroutine of the loop goes on, its calls of the model and of tools return, and
`Enqueue` reaches its signal. The other modules state no temporal property; `NobodyStuck` asks in
every state whether someone can go on without being canceled.

### Finding

`Manager_PassedIsCommitted`: `export` (`coordination/run.go:341-353`) finds a pending output of
any node in the activation's progress, completes that one and returns, without a look at the
node it was called for. A help checkpoint whose export failed after it was journaled comes back
to the role as a tool error; the role goes on, and the export of its final answer completes the
checkpoint instead: the task passes and the answer is lost.

### Known disagreements

Places where the code does something else than its comments or documents say, or where it can
get stuck. The models do what the code does; a property that a disagreement would break
excludes exactly that case, or the definition that states the promise stays in its module
without a run.

*Inputs and exports.*
- A role's input with one source reaches `files_resolved` while its target is only an overlay in
  memory. A restart before the files are frozen leaves a record no retry can complete, although
  `docs/unified-edge-design.md:228` promises recovery from there (`EventuallyReady`). `DraftGone`
  names this state, and `ReadyUnlessDraftGone` shows it is the only dead end.
- `input apply` persists the applied paths before their files reach the disk
  (`coordination/input_tool.go:346-352`). After a restart the target is rebuilt without them and
  `finish` accepts the record, against `vfs/input.go:162` (`AppliedFilesFrozen`).
  `DecisionsFrozen` excludes exactly the runs in which a stop lost such a target (`lostDraft`).

*Runners and admission.*
- `ReplacePending` may set an enabled task back to held while it has not begun
  (`coordination/pending.go:160-162`), also between its launch and its start. `start` then answers
  `ErrTaskHeld` (`run.go:110`), `runTask` keeps the activation in the manager's table without a
  runner (`manager/manager.go:572-579`), and once the task is enabled again `runReady` skips it
  (`manager.go:528`): it is active and, unless a consumer needs it, not run before the process is
  opened anew. `EveryTaskSettles` excludes exactly the tasks with such a refused launch.
- A caller that finds a runner whose reports were already taken reports after the outcome was
  recorded, against `coordination/run.go:53-54` (`CallersReportedFirst`). `ReportedBeforeOutcome`
  states what does hold: the runner's own reports.
- The heavy lane's token is returned before its counter goes down, so a snapshot can show more
  heavy commands than the lane has, against `exec/scheduler.go:117`
  (`HeavyStatsWithinCapacity`).

*Manager.* The ghost `orphans` marks the first two.
- After a preemption, or a compaction in the turn that drops the notice, plus a recoverable
  error, `AfterTurn` is given the wrong message (`agent/loop.go:312`, `checkpoint.go:149`) and
  `DeclineHelp` is not called: the role waits on.
- A provide whose event cannot be saved leaves the request configured without closing the
  channel, and a later decline returns without doing anything (`coordination/help.go:247-280`).
- A preempted turn's checkpoint stays on disk and is resumed after a restart.
- An error from a canceled context zeroes `pending` while the manager lives, so `WaitIdle`
  returns early.

*Agent loop.*
- A preemption inside an `AssembleRequest` hook or the compaction after a reply becomes a
  lifecycle error, `Run` returns and the session is dead, against `agent/loop.go:246`
  (`PreemptKeepsRun`).
- A stop between commit and discard makes `finishCommittedTurn` return an empty answer, against
  `agent/loop.go:213` (`AnswersQuery`).
- The projection reads the revision after it read the nodes, so it may call a stale text current,
  against `memory_hooks.go:28-31` (`ProjectionCurrent`).

*Files.*
- `Restore` checks under one lock and assigns under another, so a concurrent restore loses what
  the first caller did since, against `vfs/live.go:426-427` (`RestoreKeepsLayers`).
- A file removed by a command may come back when its directory was made again meanwhile;
  `Materialize` fails for ever with ENOTDIR where a tombstone lies below a file, as it does after
  an adoption under an adopted file in replace mode; `List` fails below a file of the floor and
  may show a directory that is not there; an adopted absence is no decision later safe adoptions
  respect.
- A path adopted into an overlay goes into its layer without the directories above it
  (`vfs/store.go:536-550`). Where an absence was adopted for these before, an input that is later
  prepared over the archived layer, from sources that differ on the path, does not see the
  directory which a rendered copy has. TLC finds this with 3 archives, 2 workspaces, the paths a
  and a/d and 4 calls. `spoiled` marks an overlay that holds something outside a directory
  (`Parented`) or cannot be rendered, and `LayersAgree` excludes it.
- `InstallProject` fails for ever when the directory has a file where an upstream source has a
  directory that the resolver rejected: the plan looks at a path below a file
  (`vfs/publish.go:231-240, 412-418`, `InputAccepted`).
- Where the resolver rejects a directory and takes a file in it, the archived layer keeps the
  tombstone of the directory beside the file (`vfs/input.go:119`, `store.go:536-550`), unless a
  later absorption records the directory (`live.go:231-242`). `planPublish` then finds the
  directory not visible and removes it with all that is in it (`publish.go:242-246`), while a file
  that was there already, equal to the input's, has no step that writes it again (252-255): the
  role starts without it, also when a publication is made again after an interrupted one.
  `InstalledIsInput` excepts exactly paths that are missing in or around such a directory (`Lost`).
- A file the user creates between plan and write is overwritten unsaved, and the removal of an
  empty directory may remove a file put there meanwhile (`vfs/publish.go:57-59`); removing a
  source's directory takes untracked files with it, which are saved (`publish.go:53-55`).
- `pruneEmptyDirs` (`vfs/publish.go:500-513`) removes a directory that the input keeps, if the
  input has no file in it: with d, d/x, d/x/y the removal of y takes x and d with it, although
  the input has both as directories. `Shown` in `InstalledIsInput` excludes exactly this.
- A restart in the middle of a publication may adopt the half rendered directory as the floor,
  and an interrupted publication does not save which paths it published.

*Command cache.*
- A replay that breaks off (`cmdcache/cache.go:572-600`: a blob collected after the lookup, a file
  where a directory belongs) leaves the files it had placed and what it had deleted, and the
  command is run on that tree (`exec/scheduler.go:396-397`). `ReplayedAsRun` leaves out the requests
  to which this happened after a change of the tree (`broken`), and no others.

The following cases are outside the instance's command set.
- A successful mkdir, unlink or symlink records only a write (`exec/trace.go:163-171`), so its
  replay succeeds where a run fails because the path is there; a write below a directory does not
  record the directory; a failed one records only the path itself.
- A list-then-truncate excludes the command's own old product from what it depends on; a
  background process that writes between a read and the state computation poisons the entry.

*Memory.*
- A version that some sources share, but not all, keeps only the superseding node of the last of
  them, and a common node names its superseding node and its subgraphs as before, whichever
  version has these names in the draft (`context/input.go:96-135`); `VersionsKept` claims exactly
  the rest. A common node in a subgraph described differently stays in the first variant only; an
  accepted hypothesis without evidence may supersede a common fact; a differing fact a common edge
  refers to can never be deleted.

*Web.*
- The stream's identity is not cleared between calls of a turn: the text of one shares a message
  with the next, and a retry of the next takes both back, against `cli/web.go:906`. A turn that
  ends between calls leaves it set, and the next turn's text goes on in the old message.
- Receipts survive closing while the queue does not: a repeated post is confirmed and never
  processed. An answer that begins with the mark of a task report is taken for one. The graph an
  event stream starts with is read before the subscription, so an event between them is missed.

## 4. Proofs

Every theorem is for all values of the constants that satisfy the module's assumptions; TLC
evaluates those on every run. Every inductive invariant below was first checked by TLC on the
instance of the module's run. `ReadyPairExists`, `OrganizedOnce`, `WithinLimits`,
`NextActivationUntouched` and the types are proved and not checked by a run any more.

### EdgeInput

`Inputs_proofs` proves, for all `Sources`, `Paths` and bounds that satisfy
`EdgeAssumption` and `NoneAssumption`:

| Theorem | Property |
| --- | --- |
| `TypeCorrect` | `TypeOK` |
| `ReadyPairCorrect` | `ReadyPairExists` |
| `DecisionsCorrect` | `DecisionsFrozen` |
| `OrganizedOnceCorrect` | `OrganizedOnce` |
| `PublishesOnePairCorrect` | `PublishesOnePair`, the refinement of `FixedInput` |

`ReadyPairExists` is not inductive: nothing in it says that an attempt which publishes comes
from a phase at which the files were frozen. The invariant `InputInv` adds three parts:

- `StepsOfPhase` ties the step of an attempt to the durable phase it resumed from;
- `SavedByPhase` says what is durable at each phase and step (files frozen from `memory` on,
  memory sealed at `publish` and `ready`);
- `DraftAsTold` says that until the files are frozen the draft is what the resolver was told,
  or a crash has lost it, and that no background process is left once the target was reaped.

`NextPhases`, `NextDraft` and `NextInput` show that every action keeps them, one case per
action. `ReadyPairExists` and `DecisionsFrozen` are consequences; `OrganizedOnce` follows
because `OrganizeMemory` is enabled only without a sealed snapshot; the refinement because a
step that sets `ready` finds both halves there (`SavedByPhase`) and no step after it touches
them (`ReadyStays`).

### Activation

`Activation_proofs` proves, for all bounds on writes, failures and restarts
(`BoundAssumption`, `NoneAssumption`):

| Theorem | Property |
| --- | --- |
| `TypeCorrect` | `TypeOK` |
| `NeverAskedAgain` | `AnsweredOnce` |
| `PairsMatch` | `PairMatchesAnswer` |
| `ExecutorQuiescent` | `ArchiveIsQuiescent` |
| `OwnInput` | `RoleOwnsInput` |
| `UnsupportedAreDisputed` | `UnsupportedFactsDisputed` |
| `ImplementsPairedOutput` | `CommitsTriples`, the refinement of `PairedOutput` |

Not even `TypeOK` is inductive: an inherited input is the predecessor's archive, which is
there only because outputs appear in order. `ChainInv` is `TypeOK` with `RunnerInv` (a runner
works for the first role without an output, never while an export is pending) and `OutputInv`
(an output has its archive and snapshot behind it, a pending export is the next one). The
other properties are proved in layers over `ChainInv`, one case per action each:

- `MatchInv` follows the last answer through the steps that hold, journal, seal and commit it;
- `StampInv` says that no stamp is ahead of the clock, so that a later write differs from the
  frozen input; `DisputeInv` uses it between answer and qualification;
- `QuietInv` says from when on the executor is reaped and its archive taken;
- `OwnInv` says that a started role without an output keeps its live memory and workspace.

A step of the refinement is a commit of the triple of the pending role, or it leaves the
outputs and everything behind them alone (`NextRefines`).

### Scheduler

`Execution_proofs` proves, for all `Requests`, `Slots`, `HeavySlots`, `MemBudget`, `Estimates`
and `MaxSegments` that satisfy `SchedulerAssumption`:

| Theorem | Property |
| --- | --- |
| `TypeCorrect` | `TypeOK` |
| `LimitsRespected` | `WithinLimits` |
| `StatsAreHonest` | `StatsHonest` |
| `NothingIsLeaked` | `NothingLeaks` |
| `SomebodyGoesOn` | `SomeoneGoesOn`, the first half of `NobodyStuck` |

The invariant `SchedulerInv` counts: every channel of tokens and every counter of Stats is the
number of the requests it stands for (`Accounts`), and the memory in use is the number of units
(`UnitsOf`) of the requests that hold a reservation (`Budgeted`). Whether a request holds
something is read off its step (`HasSlot`, `HasLane`, `IsActive`, ...), which `Path` ties to
its flags. A step moves one request (`StepAlone`), so each set changes in size by what becomes
of that one (`CountChange`, `UnitsChange`), and each action has to pay exactly that
(`StepAccounts`, `StepBudgeted`). `TypeOK` is a consequence and not the start: that a counter is
never negative is known only from what it counts. Sums are written as cardinalities because an
induction over a sum is outside the prover's reach.

### Workspaces

`Execution_proofs` also proves, for all `Paths`, `Contents`, `Callers`, `Archives`, `Workplaces`,
`Floors`, `Lefts`, `Typed` and bounds that satisfy `PathAssumption` (a path's ancestors are paths),
`ContentsAssumption`, `WorkspacesAssumption` and `NoneAssumption`:

| Theorem | Property |
| --- | --- |
| `WorkspacesInvariant` | `IInv` |
| `OpenDirectoryIsItsLayers` | `LayersAgree` |
| `CopiesAreExact` | `CopyIsExact` |

*Layers.* `Shown` is the tree a chain of layers stands for, path by path. The code never computes
it: it looks a path up through masks and tombstones (`Read`), merges listings (`List`), lists the
visible files (`Visible`), renders onto a directory (`Rendered`). These agree with `Shown`, and so
with each other, if a chain is `Tidy`: what each of its layers writes lies in directories. The lemmas
`VisibleShows`, `ReadsShow`, `ListShows` and `RenderedShows` say so for chains of any length and
paths of any depth; the ones about rendering go up the chain layer by layer, with a least
counterexample. `MergedShows` says that absorbing a directory gives a tidy chain that shows just this
directory, if no directory it makes uncovers what a layer below still has (`Resurfacing`, one of
the disagreements of section 3); `SomeDirectories` says what a merge that fails half-way leaves.

*Environments.* `IInv` is made of parts about a single environment or caller.

- `FilesSound(F, ch, dk, lv, bl, cg, sc, tk, bad)`, of an environment's values and not of the
  variables, so that an action is one application of a lemma (`MergeSound`, `FilesHalfMerged`,
  ...): outside what has moved since the fingerprint, directory and layers have the same files;
  they are the same tree when nothing has moved; what a copy owes is in the directory or, once
  that is gone, in the layers. The own layer of an open environment need not be tidy, what is
  under it always is.
- `ScanSound`: what a caller has read while it held no lock is the directory except where the
  directory has moved since, and the layers are still those it compared with, or another caller
  has absorbed the same archive in the meantime, with the same result.
- `CallOK` and `Apart`: a source that a caller is through with stays tidy, and two callers share
  nothing but archives that are complete.

Neither property implies these: `LayersAgree` says nothing of a directory that has moved, nor of
an absorption under way. `AdoptedAsAsked` is left to TLC. TLC checked `IInv` on the run's instance,
and on one with two callers.

### TaskRuns

`TaskRuns_proofs` proves, for all `Tasks`, `Persistent`, `NumRoles` and bounds that satisfy
`RunsAssumption`, and a `None` that is neither a runner nor a node (`NoneAssumption`):

| Theorem | Property |
| --- | --- |
| `TypeCorrect` | `TypeOK` |
| `SourcesRespected` | `WorksOnItsSources` |
| `BatchesComplete` | `RecordedBatchComplete` |
| `CommittedSkipped` | `CommittedRolesSkipped` |
| `ClosedStays` | `ClosedForever` |
| `NextUntouched` | `NextActivationUntouched` |
| `ReportedFirst` | `ReportedBeforeOutcome` |

The properties speak of a role at work, and what makes them true was established when its
sources were collected, many steps of other runners earlier. The invariant `RunsInv` keeps it
on the way:

- `RunInv` says of every runner (`RunOf`) that it runs the present activation, that from
  `start` to `work` its node has no output, its batch is what the edges name and what it no
  longer waits for is committed, that its node is recorded when it works, and where its report
  is;
- `GraphInv` is `RecordedBatchComplete` with `NotAhead`: no node of a later activation has a
  record or an output, which is why Continue opens an activation that is untouched;
- `LateInv` says that a late report is about an activation there was.

An action changes one or two runners; the others keep what `RunOf` says because the action is
`Kept` for them (`KeptRun`), and the actions that start a source share `StartsOrFails`. The
three action properties follow from one lemma, `OutcomeSteps`, that lists all the ways in which
a step may change an outcome.

### Manager

`Manager_proofs` proves, for all `Roles`, `Real`, `Users` and bounds that satisfy
`ManagerAssumption`:

| Theorem | Property |
| --- | --- |
| `TypeCorrect` | `Typing` (the module has no `TypeOK` of its own) |
| `Accepted` | `AcceptedSeen` |
| `Verdict` | `OneVerdict` |
| `Waited` | `IdleMeansDone` |
| `Attends` | `NoRequestStranded` |
| `Projects` | `ProjectedOnce` |

Each property has an invariant of its own over `Typing`, because each speaks of another part of
the state:

- `InboxInv`: an accepted message is in the saved inbox, and a role that stops taking messages
  has seen all of it, at every step between that look and the export;
- `HelpInv`: what the requester was told, the saved request, the help task and the journal
  agree at each step of the help tool, with failed saves and restarts in between;
- `PendingInv`: `pending` is the number of messages in the loop's queue and the turn, unless the
  loop ended in an error;
- `WaitInv`: a role that waits has its notice in the queue, in the turn or before the decision,
  or is an orphan;
- `SaidInv`: `meta` is `fifo` position by position (`StepInv`), and a message of the user is
  marked to be projected exactly when it has not been (`SaidFacts`), also when a turn is put
  back in front.

### AgentLoop

`AgentLoop_proofs` proves, for all `Kinds` and bounds that satisfy `LoopAssumption` and
`NoneAssumption`:

| Theorem | Property |
| --- | --- |
| `TypeCorrect` | `TypeOK` |
| `CancelsOwn` | `CancelsItsTurn` |
| `RequestsArePaired` | `RequestsPaired` |
| `ResultsAreFinal` | `ResultsFinal` |
| `ForgetsNothing` | `NothingForgotten` |

`TypeOK` is not inductive: that a list of open calls, a place to cut or a counter stays in range
depends on where they came from. `Typing` adds `Shape`, which says at each step where the open
calls are in the conversation, where a compaction cuts it, and that a `Preempt` belongs to a turn
that was begun.

- `CancelInv`: a `Preempt` that holds a cancel function has marked the turn it holds it of, and
  between turns nothing is active.
- `Sound(loop, checkpoint, settled)` is the invariant of pairing and of results. It is built on
  `All(ms, open)`, the conversation once the open calls are answered: appending a result leaves
  it unchanged (`NextResult`); cutting, resetting and asking keep it paired (`Cutting`,
  `Starting`, `Saying`, `Asking`); and the calls a resumed turn finds unanswered are exactly the
  open ones (`OpenFound`), whatever the checkpoint kept. The last is a real induction over the
  length of the conversation, because the search walks it: the induction is done with the least
  counterexample of a set (`WFMin`), the one form of it the installed provers can use.
- `Holds(loop, Saved, memory)`: what was saved is still said, or is in the memory; the snapshot a
  compaction read covers every node it will drop, and nodes appended meanwhile are managed ones
  that `SaveOverManaged` keeps.

Step lemmas speak of a value of `loop` and not of the variable (`Sound(l, cp, done)`), so that an
action is one application of the lemma for its kind of step.

### InputMemory

`Inputs_proofs` also proves, for all `Inputs`, `Edits` and bounds that satisfy `InputAssumption`
(the inputs are one to three finite source graphs, each of which holds together; an operation is
one of the seven there are):

| Theorem | Property |
| --- | --- |
| `ImagesDiffer` | (lemma about `Image`) versions that differ are placed under identities that differ, none of which another source uses |
| `InvHolds` | `Inv` |
| `KeepsVersions` | `VersionsKept` |
| `KeepsAgreed` | `AgreedKept` |
| `AcceptsOnEvidence` | `AcceptedOnEvidence` |

*Identities.* A variant is found by counting the free identities of a family from below. Which
number it ends in depends on what all sources use, so two variants of one version could meet. They
do not: the count tells which version it is (`CountTells`), and the prefix tells whose
(`VariantsDiffer`). From `ImagesDiffer` follow that the draft holds together (`DraftValid`) and
that every source is embedded in it (`DraftEmbeds`), which is `VersionsKept`: each version has a
node of its own, and its edges, its subgraphs and its successor are those of its source under the
identities they have in the draft. For a version that several differing sources share, the
successor is the one the last of them (`LastHolder`) gave it; common nodes are unchanged.

*Edits.* `AgreedKept` and `AcceptedOnEvidence` speak of the composed memory at the end, of the
first state's sources and of everything cited on the way. `Inv` carries them through the batches:

- `Good(g, draft, common, cited)` of the graph the model works on: a requirement of the draft is
  there word for word, its memberships and status kept where a user or the system made it, or it
  is a common one (`Kept`); none is new (`NoneNew`); an accepted fact that is not common was
  cited (`Evident`);
- `Named` and `Composable(common, view)`: it can be joined with the common memory without
  changing it, and what is accepted names the final files;
- `Batched`: a batch works on a copy that may be thrown away, so `Good` is said of the copy too,
  and what the batch created is under identities that neither the view nor the common memory has.
  That such an identity exists is the pigeonhole principle (`FreshIsNew`).

There is one lemma for what each kind of operation does to a graph (`ChangeKeeps`, `CreateKeeps`,
`AddKeeps`, `DescribeKeeps`, `CommitKeeps`), and one step of `Inv` for each action.

### Project

`Project_proofs` proves, for every `Order`, `Trees`, contents and bounds that satisfy
`ProjectAssumption`, `OrderAssumption` (the paths are listed once each, after their parents) and
`TreesAssumption` (what is below a path needs a directory there; a text that the resolver writes
for an input is in no tree of the start):

| Theorem | Property |
| --- | --- |
| `InvHolds` | `Inv` |
| `InputIsInstalled` | `InstalledIsInput` |
| `DisplacedAreKept` | `DisplacedIsKept` |

*The input.* It is not assumed to be a tree, only that nothing lies below a file (`Layered`): a
directory the resolver rejected is a hole above files of the input. `Want`, the tree the input
shows, is `Filled(input)`, and it is a tree (`WantIs`). A hole is always in a directory that one of
the sources has (`HolesAreSources`), so the plan looks at it.

*Trees.* What the operators on trees do to a tree of any nesting is stated once: `WrittenIs`,
`ClearedIs`, `RemovedIs` (a removal with the empty directories above it), and for a whole step of
a plan `Carried`, `StepIs`. `PlanOnce` says that a plan has one step for each path and kind,
`PlanReaches` that it has one for every candidate that is not as the input has it, or for
something above it.

*What is displaced.* `DisplacedIsKept` says nothing of a publication that is under way. A step
that saves nothing must find nothing it would displace, however the steps before it and the user
changed the directory (`NothingOld`), and a step that saves must have saved what is there when it
is carried out and not when it was planned (`OldIsKept`); `touched` is what the user changed
meanwhile. Old directories are dropped only by a publication that ends having saved something,
while one that is cut off leaves its own: `KeptInv` counts an unfinished publication as none
(`Complete`), because it may yet turn out to have saved nothing and be taken away.

*What is shown.* `ShownInv`: while a publication runs, each path that was asked for is as the
input has it, edited, missing in or around a hole (`Lost`, the disagreement of section 3), or
`Due`, by a step of its own or by a file that is written above or below it. That the plan has
these steps (`ShowsPublished`) depends on earlier publications and restarts: a path is looked at
only if it was published or differs from the floor, and a restart may adopt a half rendered
directory as the floor. `FloorInv` says that such a floor hides nothing: what it shares with the
input is in the directory too. It rests on `AgeInv`, which says that what the resolver writes is
found nowhere before its own input.

Neither theorem uses the order of the steps of a plan, only that each is carried out once.

`InstalledIsInput` had been stated with a directory missing only where the input shows nothing
below it. TLC had found no fault with two levels of directories; the proof failed at a third
(section 3, Known disagreements), which TLC confirms on d, d/x, d/x/y. It now says that the input
has no *file* below it.


### WebStream

`WebStream_proofs` proves, for all `Clients`, `Keep`, `Capacity`, `MaxRetries`, `MaxText` and
bounds that satisfy `StreamAssumption`:

| Theorem | Property |
| --- | --- |
| `TypeCorrect` | `TypeOK` |
| `ClientsShowTheProject` | `ClientCurrent` |
| `TextShownOnce` | `ShownOnce` |

*Clients.* `ClientCurrent` is about what a client shows at the end of a channel of any length.
`ClientInv` makes it local. `Shown` is the end of a reading (`Reads`): a frame added behind
applies `Applied` once to the end (`ShownMore`), and reading the first frame leaves the end as it
was. So it is enough that a step which changes the messages tells every client a frame that
brings any view agreeing with the old messages (`Agrees`) to one that agrees with the new
(`Told`). Every step of a call is shown to be such a step or to change nothing of the project
(`Moves`); a channel that is full is cut and no longer counts. What `ClientCurrent` alone does not
say, and the steps need:

- `Distinct`, in the project and in every view: a number is given to one message, so a frame finds
  the message it is about;
- `Placed`: the streaming message has its place until as many newer ones were numbered as the
  project keeps, and nothing is dropped before `Keep` messages were numbered. Otherwise a delta
  for a message the project dropped could make the message again at the end of a client's list
  while the two must still be equal.

*Text.* `TextInv` follows the text of each attempt. `CallsText`: what a call received is its
attempt's, nothing is passed on before a response began, and nothing of a worker before it is
complete. `GivenBefore`: an attempt that was given up is before the present one. `Texts`: a
message holds text of the manager's attempts only, none of them given up, and of the attempt under
way only if it is the streaming message; what was received of it is the end of that message. Then
taking back the streaming message takes back all of the attempt, and nothing else is needed:
whatever a worker's retry does to the same gateway leaves this as it is.

Both invariants were checked by TLC on the run's instance and on one with longer answers, one kept
message and two other events.
### Only model-checked

- `EventuallyVerified`, `EveryTaskSettles`, `Served`, `ReadyUnlessDraftGone`: liveness, which
  needs fairness and ENABLED, outside the prover's reach. `NobodyStuck` of `Scheduler` has
  ENABLED in its second half, that a request which waits for nothing can take a step; its first
  half is proved (`SomebodyGoesOn`).
- Nothing is said of how often a settled activation is run again: `EventuallyVerified` takes that
  as a hypothesis.
- `ReplayedAsRun` of `CommandCache` (requests whose replay broke off are left out) holds of the
  commands of the run's instance and not of every list of calls (section 3, Command cache), so
  there is no theorem for every `Requests`; it also rests on what folds over a list of calls
  compute for every input, an induction over data.
- `AdoptedAsAsked` of `Workspaces` needs, beyond `IInv`, that no later adoption uncovers what an
  earlier one decided at a path above or below; checked on nested paths, not proved.
- `InputAccepted` of `Project` and the other properties that section 3 names under the
  disagreements do not hold and have no run.

## 5. Not modelled

- Contents: file names and bytes, prompts, model answers, the text of command output.
- How a sandbox is set up (`exec/bwrap.go`, `docker.go`), reflinks, the driver that mounts an
  overlay file system (`vfs/overlay_linux.go`, which `store.go:252-277` never reaches in
  production): host mechanisms.
- Tracked process groups, runtime directories and `Reap` of the scheduler: a reaped workspace is
  an assumption of `Activation` and `EdgeInput`, not a result.
- The parser of the trace's text, the home directory's dependencies and the normalisation of
  environment variables of the command cache.
- Graph persistence and the JSON tools: `saveOrRestoreLocked` restores the graph, so a failed
  write is an error for the caller and changes nothing; where the code goes on after it, it is
  an action.
- `ReplacePending`'s removal of tasks and its exchange of edges as a whole; `Close` of the
  manager; `drop_context`, subscriptions and token accounting of an agent; explicit identities in
  `memory_apply`; modes and symbolic links of files as such.
- Configuration, logging, terminal front ends, reasoning traces and receipts of the web gateway,
  drivers and benchmarks: input and output around the parts above.

## 6. Plan

1. A proof of `AdoptedAsAsked` (`Workspaces`), over `IInv` and its lemmas about chains.
2. `Processes`: track, untrack, prune and Reap with runtime directories.
3. A weaker memory between `EdgeInput` and `Workspaces`: `EdgeInput`'s target as a refinement of
   an environment of `Workspaces`, which states when a restart may lose content.
4. `ReplacePending` with the removal of tasks in `TaskRuns`.
