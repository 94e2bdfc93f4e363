----------------------------- MODULE Activation -----------------------------
(***************************************************************************)
(* One activation of a task: its runner takes the roles planner, executor, *)
(* verifier in turn from input to committed output                         *)
(* (internal/coordination/run.go and installInput of input.go).  A role's  *)
(* input is prepared by EdgeInput; here it is the one step its abstract    *)
(* specification FixedInput allows.                                        *)
(*                                                                         *)
(* The stores are durable, each write atomic (a rename); the runner's own  *)
(* state is not.  Every I/O step may fail and end the run, the process may *)
(* stop between any two steps, and the task is then run again.             *)
(*                                                                         *)
(* Contents are abstracted to write stamps: every write of a workspace or  *)
(* of the task memory takes the next value of clock.                       *)
(***************************************************************************)
EXTENDS Naturals, FiniteSets

CONSTANTS None,
          MaxWrites, MaxFaults, MaxCrashes

ASSUME BoundAssumption ==
    MaxWrites \in Nat /\ MaxFaults \in Nat /\ MaxCrashes \in Nat

Roles == 1 .. 3
Planner == 1
Executor == 2
Verifier == 3

Stamps == Nat

\* A memory snapshot: its stamp, and whether the changed facts are disputed.
Memory == [at : Stamps, disputed : BOOLEAN]

Pending == [role : Roles, report : Nat, memory : Memory]

ASSUME NoneAssumption ==
    /\ None \notin Nat /\ None \notin Memory /\ None \notin Pending
    /\ None \notin Stamps \X Memory \X Nat

VARIABLES
    \* durable, per role: the InputProgress record and its frozen pair
    input, inFiles, inMemory,
    \* durable: the role's workspace (lost in a restart while it is untouched),
    \* and the live memory of the task
    work, live,
    \* durable: the outcome of the activation in the graph
    outcome,
    \* durable: the archive node:files, the snapshot node:memory, the Pending
    \* record, and the graph's outputs (the report of the committed answer)
    archive, snapshot, pending, output,
    \* volatile: the step and role of the runner (role 0 while it completes an
    \* export it found), the report and memory it holds, background processes
    pc, role, held, procs,
    \* observation: answers given by each role, its last answer, the clock when
    \* its input was installed; bounds
    asks, answer, begun, clock, faults, crashes

inputs   == <<input, inFiles, inMemory>>
exports  == <<archive, snapshot, pending, output>>
runner   == <<pc, role, held>>
observed == <<asks, answer, begun>>
bounds   == <<clock, faults, crashes>>
vars == <<inputs, work, live, outcome, exports, runner, procs, observed, bounds>>

Steps == {"down", "idle", "load", "pick", "input", "memory", "place", "start",
          "ask", "reap", "qualify", "archive", "journal",
          "restore", "snapshot", "commit", "clear", "discard", "cleanup",
          "unwind",            \* cleanup after an error
          "settle", "abort",   \* the run is over, without or with an error
          "rest"}              \* and nothing is left to do for the manager

IOSteps == Steps \ {"down", "idle", "cleanup", "unwind", "settle", "abort", "rest"}

\* Planner and verifier work in disposable workspaces: their files are the input's.
Disposable(r) == r # Executor

TypeOK ==
    /\ input \in [Roles -> {"none", "ready", "started"}]
    /\ inFiles \in [Roles -> Stamps] /\ inMemory \in [Roles -> Memory]
    /\ work \in [Roles -> Stamps \cup {None}] /\ live \in Memory
    /\ archive \in [Roles -> Stamps \cup {None}]
    /\ snapshot \in [Roles -> Memory \cup {None}]
    /\ pending \in Pending \cup {None}
    /\ output \in [Roles -> Nat \cup {None}]
    /\ outcome \in {"active", "done", "failed"}
    /\ pc \in Steps /\ role \in Roles \cup {0}
    /\ held \in Memory
    /\ procs \subseteq Roles
    /\ asks \in [Roles -> Nat]
    /\ answer \in [Roles -> Stamps \X Stamps]
    /\ begun \in [Roles -> Nat]
    /\ clock \in Nat /\ faults \in Nat /\ crashes \in Nat

Fresh == [at |-> 0, disputed |-> FALSE]

Init ==
    /\ input = [r \in Roles |-> "none"]
    /\ inFiles = [r \in Roles |-> 0] /\ inMemory = [r \in Roles |-> Fresh]
    /\ work = [r \in Roles |-> None] /\ live = Fresh
    /\ archive = [r \in Roles |-> None] /\ snapshot = [r \in Roles |-> None]
    /\ pending = None /\ output = [r \in Roles |-> None]
    /\ outcome = "active"
    /\ pc = "down" /\ role = 0 /\ held = Fresh /\ procs = {}
    /\ asks = [r \in Roles |-> 0] /\ answer = [r \in Roles |-> <<0, 0>>]
    /\ begun = [r \in Roles |-> 0]
    /\ clock = 0 /\ faults = 0 /\ crashes = 0

-----------------------------------------------------------------------------
\* The process starts.
Restart ==
    /\ pc = "down" /\ pc' = "idle"
    /\ UNCHANGED <<outcome, inputs, work, live, exports, role, held, procs, observed,
                   bounds>>

\* runReady: once per process, and only while the activation is active.
Start ==
    /\ pc = "idle" /\ outcome = "active"
    /\ pc' = "load" /\ role' = 0
    /\ UNCHANGED <<outcome, inputs, work, live, exports, held, procs, observed, bounds>>

\* A consumer's runner (waitOutput) starts it for a missing output whatever
\* came of the runs before.
StartAgain ==
    /\ pc \in {"idle", "rest"} /\ \E r \in Roles : output[r] = None
    /\ pc' = "load" /\ role' = 0
    /\ UNCHANGED <<outcome, inputs, work, live, exports, held, procs, observed, bounds>>

\* Mutant of Load: the pending export of an earlier run is not looked at.
LoadIgnoresPending ==
    /\ pc = "load"
    /\ pc' = IF output[Verifier] # None THEN "settle" ELSE "pick"
    /\ UNCHANGED <<outcome, inputs, work, live, exports, role, held, procs, observed,
                   bounds>>

\* runTask: an export found in the record is completed before anything else;
\* then the task is over if its verifier has an output.
Load ==
    /\ pc = "load"
    /\ pc' = CASE pending # None                              -> "restore"
               [] pending = None /\ output[Verifier] # None   -> "settle"
               [] pending = None /\ output[Verifier] = None   -> "pick"
    /\ UNCHANGED <<outcome, inputs, work, live, exports, role, held, procs, observed,
                   bounds>>

\* The loop over the roles skips those with an output.
PickRole(r) ==
    /\ pc = "pick"
    /\ output[r] = None /\ \A q \in 1 .. r - 1 : output[q] # None
    /\ role' = r /\ pc' = "input"
    /\ UNCHANGED <<outcome, inputs, work, live, exports, held, procs, observed, bounds>>

RolesDone ==
    /\ pc = "pick" /\ \A r \in Roles : output[r] # None
    /\ pc' = "cleanup"
    /\ UNCHANGED <<outcome, inputs, work, live, exports, role, held, procs, observed,
                   bounds>>

-----------------------------------------------------------------------------
(* From input to answer *)

PublishPair(files, memory) ==
    /\ input' = [input EXCEPT ![role] = "ready"]
    /\ inFiles' = [inFiles EXCEPT ![role] = files]
    /\ inMemory' = [inMemory EXCEPT ![role] = memory]

\* collectInputs, prepareInput: a single source is inherited; the planner of a
\* task without sources starts from the task's own state.
InheritInput ==
    /\ pc = "input" /\ input[role] = "none"
    /\ IF role = Planner THEN PublishPair(0, live)
                         ELSE PublishPair(archive[role - 1], snapshot[role - 1])
    /\ pc' = "memory"
    /\ UNCHANGED <<outcome, work, live, exports, role, held, procs, observed, bounds>>

\* Edges from other tasks join in: the pair is a new content.
JoinInputs ==
    /\ pc = "input" /\ input[role] = "none" /\ clock < MaxWrites
    /\ PublishPair(clock + 1, [at |-> clock + 1, disputed |-> FALSE])
    /\ clock' = clock + 1
    /\ pc' = "memory"
    /\ UNCHANGED <<outcome, work, live, exports, role, held, procs, observed, faults,
                   crashes>>

\* Mutant of ReadyAgain: the memory of a ready input is taken for restored.
ReadySkipsMemory ==
    /\ pc = "input" /\ input[role] = "ready"
    /\ pc' = "place"
    /\ UNCHANGED <<outcome, inputs, work, live, exports, role, held, procs, observed,
                   bounds>>

\* A ready pair that was never installed is installed from the start.
ReadyAgain ==
    /\ pc = "input" /\ input[role] = "ready"
    /\ pc' = "memory"
    /\ UNCHANGED <<outcome, inputs, work, live, exports, role, held, procs, observed,
                   bounds>>

\* installInput of a started role: its edits are retained; an untouched
\* workspace is made again from the frozen input.
ResumeWorkspace ==
    /\ pc = "input" /\ input[role] = "started"
    /\ work' = [work EXCEPT ![role] = IF @ = None THEN inFiles[role] ELSE @]
    /\ pc' = "ask"
    /\ UNCHANGED <<outcome, inputs, live, exports, role, held, procs, observed, bounds>>

\* installInput of a new role: memory, then workspace, then the Started mark.
RestoreMemory ==
    /\ pc = "memory"
    /\ live' = inMemory[role]
    /\ pc' = "place"
    /\ UNCHANGED <<outcome, inputs, work, exports, role, held, procs, observed, bounds>>

PlaceWorkspace ==
    /\ pc = "place"
    /\ procs' = procs \ {role}
    /\ work' = [work EXCEPT ![role] = inFiles[role]]
    /\ pc' = "start"
    /\ UNCHANGED <<outcome, inputs, live, exports, role, held, observed, bounds>>

MarkStarted ==
    /\ pc = "start"
    /\ input' = [input EXCEPT ![role] = "started"]
    /\ begun' = [begun EXCEPT ![role] = clock]
    /\ pc' = "ask"
    /\ UNCHANGED <<outcome, inFiles, inMemory, work, live, exports, role, held,
                   procs, asks, answer, bounds>>

\* While it is asked, the role edits files and memory and starts processes.
EditFiles ==
    /\ pc = "ask" /\ clock < MaxWrites
    /\ work' = [work EXCEPT ![role] = clock + 1]
    /\ clock' = clock + 1
    /\ UNCHANGED <<outcome, inputs, live, exports, runner, procs, observed, faults,
                   crashes>>

EditMemory ==
    /\ pc = "ask" /\ clock < MaxWrites
    /\ live' = [live EXCEPT !.at = clock + 1]
    /\ clock' = clock + 1
    /\ UNCHANGED <<outcome, inputs, work, exports, runner, procs, observed, faults,
                   crashes>>

Spawn ==
    /\ pc = "ask" /\ role \notin procs
    /\ procs' = procs \cup {role}
    /\ UNCHANGED <<outcome, inputs, work, live, exports, runner, observed, bounds>>

\* A background process outlives the command, even the answer, and goes on writing.
BackgroundWrite(r) ==
    /\ r \in procs /\ work[r] # None /\ clock < MaxWrites
    /\ work' = [work EXCEPT ![r] = clock + 1]
    /\ clock' = clock + 1
    /\ UNCHANGED <<outcome, inputs, live, exports, runner, procs, observed, faults,
                   crashes>>

Answer ==
    /\ pc = "ask"
    /\ asks' = [asks EXCEPT ![role] = @ + 1]
    /\ answer' = [answer EXCEPT ![role] = <<work[role], live.at>>]
    /\ pc' = "reap"
    /\ UNCHANGED <<outcome, inputs, work, live, exports, role, held, procs, begun,
                   bounds>>

-----------------------------------------------------------------------------
(* From answer to output: runRole, export, completeExport *)

\* Mutant of Reap: background processes of the role go on.
ReapNothing ==
    /\ pc = "reap"
    /\ pc' = "qualify"
    /\ UNCHANGED <<outcome, inputs, work, live, exports, role, held, procs, observed,
                   bounds>>

Reap ==
    /\ pc = "reap"
    /\ procs' = procs \ {role}
    /\ pc' = "qualify"
    /\ UNCHANGED <<outcome, inputs, work, live, exports, role, held, observed, bounds>>

\* Mutant of Qualify: the facts are taken as they are.
QualifyNothing ==
    /\ pc = "qualify"
    /\ held' = live
    /\ pc' = "archive"
    /\ UNCHANGED <<outcome, inputs, work, live, exports, role, procs, observed, bounds>>

\* qualifyDisposableMemory: the files behind the facts a planner or verifier
\* added are thrown away, so if it changed any the facts are disputed.
Qualify ==
    /\ pc = "qualify"
    /\ held' = IF Disposable(role) /\ work[role] # inFiles[role] /\ live # inMemory[role]
                 THEN [live EXCEPT !.disputed = TRUE]
                 ELSE live
    /\ pc' = "archive"
    /\ UNCHANGED <<outcome, inputs, work, live, exports, role, procs, observed, bounds>>

\* An archive of an earlier attempt was never journaled: it is replaced.
Archive ==
    /\ pc = "archive" /\ pending = None /\ output[role] = None
    /\ archive' = [archive EXCEPT ![role] =
                     IF Disposable(role) THEN inFiles[role] ELSE work[role]]
    /\ pc' = "journal"
    /\ UNCHANGED <<outcome, inputs, work, live, snapshot, pending, output, role,
                   held, procs, observed, bounds>>

\* Mutant of Journal: roles are counted from zero.
JournalFromZero ==
    /\ pc = "journal"
    /\ pending' = [role |-> role - 1, report |-> asks[role], memory |-> held]
    /\ pc' = "restore"
    /\ UNCHANGED <<outcome, inputs, work, live, archive, snapshot, output, role,
                   held, procs, observed, bounds>>

Journal ==
    /\ pc = "journal"
    /\ pending' = [role |-> role, report |-> asks[role], memory |-> held]
    /\ pc' = "restore"
    /\ UNCHANGED <<outcome, inputs, work, live, archive, snapshot, output, role,
                   held, procs, observed, bounds>>

\* Mutant of RestoreArchive: the output is committed before its memory is sealed.
RestoreThenCommit ==
    /\ pc = "restore" /\ archive[pending.role] # None
    /\ pc' = "commit"
    /\ UNCHANGED <<outcome, inputs, work, live, exports, role, held, procs, observed,
                   bounds>>

RestoreArchive ==
    /\ pc = "restore" /\ archive[pending.role] # None
    /\ pc' = "snapshot"
    /\ UNCHANGED <<outcome, inputs, work, live, exports, role, held, procs, observed,
                   bounds>>

\* Mutant of SaveSnapshot: what the runner holds is sealed, not what was journaled.
SaveHeld ==
    /\ pc = "snapshot"
    /\ snapshot[pending.role] \in {None, held}
    /\ snapshot' = [snapshot EXCEPT ![pending.role] = held]
    /\ pc' = "commit"
    /\ UNCHANGED <<outcome, inputs, work, live, archive, pending, output, role, held,
                   procs, observed, bounds>>

\* SaveSnapshot accepts only the same graph again under a sealed reference.
SaveSnapshot ==
    /\ pc = "snapshot"
    /\ snapshot[pending.role] \in {None, pending.memory}
    /\ snapshot' = [snapshot EXCEPT ![pending.role] = pending.memory]
    /\ pc' = "commit"
    /\ UNCHANGED <<outcome, inputs, work, live, archive, pending, output, role, held,
                   procs, observed, bounds>>

\* commitOutput accepts only the same output again.
CommitOutput ==
    /\ pc = "commit"
    /\ output[pending.role] \in {None, pending.report}
    /\ output' = [output EXCEPT ![pending.role] = pending.report]
    /\ pc' = "clear"
    /\ UNCHANGED <<outcome, inputs, work, live, archive, snapshot, pending, role,
                   held, procs, observed, bounds>>

\* Mutant of ClearPending: the record is left behind.
KeepPending ==
    /\ pc = "clear"
    /\ pc' = IF role = 0 THEN "load" ELSE "discard"
    /\ UNCHANGED <<outcome, inputs, work, live, exports, role, held, procs, observed,
                   bounds>>

ClearPending ==
    /\ pc = "clear"
    /\ pending' = None
    /\ pc' = IF role = 0 THEN "load" ELSE "discard"
    /\ UNCHANGED <<outcome, inputs, work, live, archive, snapshot, output, role,
                   held, procs, observed, bounds>>

DiscardWorkspace ==
    /\ pc = "discard"
    /\ work' = [work EXCEPT ![role] = IF Disposable(role) THEN None ELSE @]
    /\ procs' = IF Disposable(role) THEN procs \ {role} ELSE procs
    /\ pc' = "pick"
    /\ UNCHANGED <<outcome, inputs, live, exports, role, held, observed, bounds>>

-----------------------------------------------------------------------------
(* The end of a run, failures *)

\* The deferred Reap and Release of the three workspaces; Release keeps their content.
Cleanup ==
    /\ pc \in {"cleanup", "unwind"}
    /\ procs' = {}
    /\ pc' = IF pc = "cleanup" THEN "settle" ELSE "abort"
    /\ UNCHANGED <<outcome, inputs, work, live, exports, role, held, observed, bounds>>

\* A failed Reap leaves a process alive and is an error of the run, also of one
\* that has its verdict.
CleanupFails ==
    /\ pc \in {"cleanup", "unwind"}
    /\ \E r \in procs : procs' = {r}
    /\ pc' = "abort"
    /\ UNCHANGED <<outcome, inputs, work, live, exports, role, held, observed, bounds>>

\* execute, recordOutcome: an error, a cancellation too, ends the activation.
Settle ==
    /\ pc \in {"settle", "abort"}
    /\ outcome' = IF pc = "settle" THEN "done" ELSE "failed"
    /\ pc' = "rest"
    /\ UNCHANGED <<inputs, work, live, exports, role, held, procs, observed, bounds>>

\* The report is not delivered, or the graph not saved: the activation stays
\* active, and this process does not launch it again.
SettleFails ==
    /\ pc \in {"settle", "abort"} /\ faults < MaxFaults
    /\ faults' = faults + 1
    /\ pc' = "rest"
    /\ UNCHANGED <<outcome, inputs, work, live, exports, role, held, procs, observed,
                   clock, crashes>>

\* A store, the role or a cancellation ends the run with an error.
Fail ==
    /\ pc \in IOSteps /\ faults < MaxFaults
    /\ faults' = faults + 1
    /\ pc' = IF role = 0 THEN "abort" ELSE "unwind"
    /\ UNCHANGED <<outcome, inputs, work, live, exports, role, held, procs, observed,
                   clock, crashes>>

Untouched(r) == work[r] = inFiles[r]

\* The process stops and its sandboxed processes with it.  A workspace nobody
\* wrote may never have been materialized.
Crash ==
    /\ pc # "down" /\ crashes < MaxCrashes
    /\ crashes' = crashes + 1
    /\ pc' = "down" /\ role' = 0 /\ held' = Fresh /\ procs' = {}
    /\ \E onDisk \in BOOLEAN :
         work' = [r \in Roles |-> IF Untouched(r) /\ ~onDisk THEN None ELSE work[r]]
    /\ UNCHANGED <<outcome, inputs, live, exports, observed, clock, faults>>

Run ==
    \/ Start \/ Load \/ \E r \in Roles : PickRole(r) \/ RolesDone
    \/ InheritInput \/ ReadyAgain \/ ResumeWorkspace
    \/ RestoreMemory \/ PlaceWorkspace \/ MarkStarted
    \/ Answer \/ Reap \/ Qualify \/ Archive \/ Journal
    \/ RestoreArchive \/ SaveSnapshot \/ CommitOutput \/ ClearPending
    \/ DiscardWorkspace \/ Cleanup \/ Settle

Next ==
    \/ Restart \/ Run \/ StartAgain \/ JoinInputs
    \/ EditFiles \/ EditMemory \/ Spawn \/ \E r \in Roles : BackgroundWrite(r)
    \/ CleanupFails \/ SettleFails \/ Fail \/ Crash

Spec == Init /\ [][Next]_vars

\* The process is opened again, its manager launches an active activation, no
\* call blocks for ever, and a role that is asked answers.  Nobody has to run a
\* settled activation again.
LiveSpec == Spec /\ WF_vars(Restart) /\ WF_vars(Run)

-----------------------------------------------------------------------------
(* Properties *)

\* A committed triple is one answer's: the report and the memory are those of
\* the role's last answer, and a disposable role hands on the files it was given.
PairMatchesAnswer ==
    \A r \in Roles : output[r] # None =>
        /\ output[r] = asks[r]
        /\ snapshot[r] # None /\ snapshot[r].at = answer[r][2]
        /\ Disposable(r) => archive[r] = inFiles[r]

\* The executor's archive holds what its workspace holds: no process it left
\* behind wrote after the files were taken.
ArchiveIsQuiescent ==
    output[Executor] # None /\ work[Executor] # None =>
        archive[Executor] = work[Executor]

\* A role is asked from its own pair: live memory and workspace hold the
\* installed input or something written since.
RoleOwnsInput ==
    pc = "ask" =>
        /\ live.at = inMemory[role].at \/ live.at > begun[role]
        /\ work[role] = inFiles[role] \/ work[role] > begun[role]

\* Facts recorded by a role whose changed files are thrown away are disputed.
UnsupportedFactsDisputed ==
    \A r \in Roles :
        /\ output[r] # None /\ Disposable(r)
        /\ answer[r][1] # inFiles[r] /\ answer[r][2] # inMemory[r].at
        => snapshot[r].disputed

\* A role whose answer is journaled or committed is never asked again.
AnsweredOnce ==
    [][\A r \in Roles :
         output[r] # None \/ (pending # None /\ pending.role = r) => asks'[r] = asks[r]]_vars

\* The outputs appear one triple per role, in order, and never change.
Outputs == INSTANCE PairedOutput
    WITH NumRoles <- 3, Triples <- Stamps \X Memory \X Nat, NoOutput <- None,
         committed <- [r \in Roles |->
             IF output[r] = None THEN None ELSE <<archive[r], snapshot[r], output[r]>>]

CommitsTriples == Outputs!Spec

\* However often the process stops, an activation that no error ended reaches its
\* verdict; and one that failed does, when its consumers go on running it.
EventuallyVerified ==
    /\ <>(output[Verifier] # None \/ faults > 0)
    /\ []<>(pc \notin {"down", "idle", "rest"}) => <>(output[Verifier] # None)
=============================================================================
