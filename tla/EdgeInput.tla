----------------------------- MODULE EdgeInput -----------------------------
(***************************************************************************)
(* Preparing the input of one role (internal/coordination/input.go,        *)
(* input_tool.go, with the environments of internal/vfs they drive).       *)
(*                                                                         *)
(* The durable record walks none, collecting, files, files_resolved,       *)
(* memory, ready.  An attempt is one call of prepareInput: it resumes at   *)
(* the durable phase, and any I/O step may fail (faults) or the process    *)
(* may stop (crashes), after which another attempt is made.                *)
(*                                                                         *)
(* Paths are the paths the sources disagree on, so Paths = {} is a single  *)
(* source, no source, or sources that agree.  File contents are abstracted *)
(* to who wrote each such path; the memory pair to the number of the       *)
(* organizer's answer that was sealed.                                     *)
(***************************************************************************)
EXTENDS Naturals, FiniteSets

CONSTANTS Sources,    \* committed outputs on the incoming edges
          Paths,      \* paths whose content differs between the sources
          None,       \* no content, no call
          Hole,       \* a differing path nobody has chosen a content for
          Edited,     \* content written by the resolver's own tools
          Organized,  \* BOOLEAN: the memories differ, an organizer is asked
          MaxCalls, MaxFaults, MaxCrashes

ASSUME EdgeAssumption ==
    /\ Paths # {} => Sources # {}
    /\ Hole \notin Sources /\ Edited \notin Sources /\ Hole # Edited
    /\ Organized \in BOOLEAN
    /\ MaxCalls \in Nat /\ MaxFaults \in Nat /\ MaxCrashes \in Nat

Content == [Paths -> Sources \cup {Hole, Edited}]

ASSUME NoneAssumption == None \notin Content

VARIABLES
    \* durable: the InputProgress record of the node
    phase, applied, discarded,
    \* durable: the archive input:files and the snapshot input:memory
    frozen, sealed,
    \* the target environment: content, and whether it is materialized on disk
    content, kept,
    \* volatile: where the attempt is, the tool call being saved, a background
    \* process of the target workspace, the organizer's unsaved answer
    step, call, proc, answer,
    \* bounds and observation: answers given so far, the draft as the resolver
    \* last wrote it, whether a crash lost an acknowledged decision
    asked, told, lostDraft, calls, faults, crashes

progress == <<phase, applied, discarded>>
target   == <<content, kept>>
archive  == <<frozen, sealed>>
bounds   == <<calls, faults, crashes>>
seen     == <<told, lostDraft>>
edgeVars == <<progress, target, archive, step, call, proc, answer, asked, seen, bounds>>

Phases == {"none", "collecting", "files", "files_resolved", "memory", "ready"}
Steps  == {"down", "idle", "prepare", "savefiles", "resolve", "reap", "freeze",
           "savememory", "organize", "seal", "publish", "release"}

\* Every I/O step of an attempt: each may return an error and end the attempt.
IOSteps == Steps \ {"down", "idle"}

AfterReap == {"freeze", "savememory", "organize", "seal", "publish", "release"}

TypeOK ==
    /\ phase \in Phases
    /\ applied \in [Sources -> SUBSET Paths]
    /\ discarded \subseteq Sources
    /\ frozen \in Content \cup {None}
    /\ sealed \in Nat
    /\ content \in Content \cup {None}
    /\ kept \in BOOLEAN
    /\ step \in Steps
    /\ call \in [source : Sources, paths : SUBSET Paths] \cup {None}
    /\ proc \in BOOLEAN
    /\ answer \in Nat
    /\ asked \in Nat
    /\ told \in Content
    /\ lostDraft \in BOOLEAN
    /\ calls \in Nat /\ faults \in Nat /\ crashes \in Nat

Blank == [p \in Paths |-> Hole]

AppliedAll(s) == applied[s] = Paths

\* finishLocked: a source is decided when all its paths were applied or it was discarded.
Decided == \A s \in Sources : AppliedAll(s) \/ s \in discarded

-----------------------------------------------------------------------------
EdgeInit ==
    /\ phase = "none" /\ applied = [s \in Sources |-> {}] /\ discarded = {}
    /\ frozen = None /\ sealed = 0
    /\ content = None /\ kept = FALSE
    /\ step = "down" /\ call = None /\ proc = FALSE /\ answer = 0
    /\ asked = 0 /\ told = Blank /\ lostDraft = FALSE
    /\ calls = 0 /\ faults = 0 /\ crashes = 0

\* The process starts; the manager runs the task again.
Restart ==
    /\ step = "down"
    /\ step' = "idle"
    /\ UNCHANGED <<progress, target, archive, call, proc, answer, asked, seen, bounds>>

\* A new batch is recorded before anything else, fixing its sources.
Collect ==
    /\ step = "idle" /\ phase = "none"
    /\ phase' = "collecting"
    /\ step' = "prepare"
    /\ UNCHANGED <<applied, discarded, target, archive, call, proc, answer, asked, seen, bounds>>

\* Mutants of Resume: the phase is taken for the step; a recorded memory phase
\* is taken for sealed memory; a ready input is prepared again.
ResumeByPhase ==
    /\ step = "idle" /\ phase # "none"
    /\ step' = phase
    /\ UNCHANGED <<progress, target, archive, call, proc, answer, asked, seen, bounds>>

ResumePastSeal ==
    /\ step = "idle" /\ phase # "none"
    /\ step' = CASE phase \in {"collecting", "files"} -> "prepare"
                 [] phase = "files_resolved"          -> "reap"
                 [] phase = "memory"                  -> "publish"
                 [] phase = "ready"                   -> "release"
    /\ UNCHANGED <<progress, target, archive, call, proc, answer, asked, seen, bounds>>

ResumeReady ==
    /\ step = "idle" /\ phase # "none"
    /\ step' = CASE phase \in {"collecting", "files"} -> "prepare"
                 [] phase = "memory"                  -> "organize"
                 [] OTHER                             -> "reap"
    /\ UNCHANGED <<progress, target, archive, call, proc, answer, asked, seen, bounds>>

\* A later attempt goes on from the recorded phase.
Resume ==
    /\ step = "idle" /\ phase # "none"
    /\ step' = CASE phase \in {"collecting", "files"} -> "prepare"
                 [] phase = "files_resolved"          -> "reap"
                 [] phase = "memory"                  -> "organize"
                 [] phase = "ready"                   -> "release"
    /\ UNCHANGED <<progress, target, archive, call, proc, answer, asked, seen, bounds>>

\* PrepareInput (CreateEnvironment without a source): the target starts with
\* what the sources share; one that exists keeps its decisions.  It is an
\* overlay in memory: nothing is materialized.
PrepareTarget ==
    /\ step = "prepare"
    /\ content' = IF content = None THEN Blank ELSE content
    /\ step' = "savefiles"
    /\ UNCHANGED <<progress, kept, archive, call, proc, answer, asked, seen, bounds>>

SaveFiles ==
    /\ step = "savefiles"
    /\ IF Paths = {}
         THEN phase' = "files_resolved" /\ step' = "reap"
         ELSE phase' = "files" /\ step' = "resolve"
    /\ UNCHANGED <<applied, discarded, target, archive, call, proc, answer, asked, seen, bounds>>

-----------------------------------------------------------------------------
\* The resolver's tools.  A change to a target that is not materialized stays
\* in memory; Bash and the file tools materialize it first.

Calling == step = "resolve" /\ call = None /\ phase = "files" /\ content # None

\* inputPlanLocked: a path someone chose differently conflicts with a safe apply.
Conflicts(s, P) == {p \in P : content[p] \notin {Hole, s}}

Adopted(s, P) == [p \in Paths |-> IF p \in P THEN s ELSE content[p]]

\* input apply: ApplyInput changes the target, the record is saved by SaveCall.
Apply(s, P, replace) ==
    /\ Calling /\ calls < MaxCalls
    /\ P # {}
    /\ replace \/ Conflicts(s, P) = {}
    /\ content' = Adopted(s, P)
    /\ told' = Adopted(s, P)
    /\ call' = [source |-> s, paths |-> P]
    /\ calls' = calls + 1
    /\ UNCHANGED <<progress, kept, archive, step, proc, answer, asked, lostDraft, faults, crashes>>

SaveCall ==
    /\ step = "resolve" /\ call # None
    /\ applied' = [applied EXCEPT ![call.source] = @ \cup call.paths]
    /\ call' = None
    /\ UNCHANGED <<phase, discarded, target, archive, step, proc, answer, asked, seen, bounds>>

\* The record could not be saved: the tool reports an error, the target stays changed.
SaveCallFails ==
    /\ step = "resolve" /\ call # None /\ faults < MaxFaults
    /\ call' = None
    /\ faults' = faults + 1
    /\ UNCHANGED <<progress, target, archive, step, proc, answer, asked, seen, calls, crashes>>

Discard(s) ==
    /\ Calling /\ s \notin discarded
    /\ discarded' = discarded \cup {s}
    /\ UNCHANGED <<phase, applied, target, archive, step, call, proc, answer, asked, seen, bounds>>

\* The resolver edits the draft with the file tools or Bash; Bash may leave a
\* process behind that goes on writing.
Edit(p, background) ==
    /\ Calling /\ calls < MaxCalls
    /\ content' = [content EXCEPT ![p] = Edited]
    /\ told' = [content EXCEPT ![p] = Edited]
    /\ kept' = TRUE
    /\ proc' = (proc \/ background)
    /\ calls' = calls + 1
    /\ UNCHANGED <<progress, archive, step, call, answer, asked, lostDraft, faults, crashes>>

\* A write that lands before the target is reaped for its archive is part of
\* the draft; afterwards the draft is what the archive must hold.
BackgroundWrite(p) ==
    /\ proc /\ content # None /\ content[p] # Edited
    /\ content' = [content EXCEPT ![p] = Edited]
    /\ told' = IF step \in AfterReap THEN told ELSE content'
    /\ UNCHANGED <<progress, kept, archive, step, call, proc, answer, asked, lostDraft, bounds>>

FinishFiles ==
    /\ Calling /\ Decided
    /\ phase' = "files_resolved"
    /\ step' = "reap"
    /\ UNCHANGED <<applied, discarded, target, archive, call, proc, answer, asked, seen, bounds>>

-----------------------------------------------------------------------------
\* Mutant of Reap: background processes of the target go on.
ReapNothing ==
    /\ step = "reap"
    /\ step' = "freeze"
    /\ UNCHANGED <<progress, target, archive, call, proc, answer, asked, seen, bounds>>

Reap ==
    /\ step = "reap"
    /\ proc' = FALSE
    /\ step' = "freeze"
    /\ UNCHANGED <<progress, target, archive, call, answer, asked, seen, bounds>>

\* freezeFiles: an existing archive is reused; otherwise Archive copies the
\* target, which must exist in memory or on disk (vfs Restore).
FreezeFiles ==
    /\ step = "freeze"
    /\ frozen # None \/ content # None
    /\ frozen' = IF frozen # None THEN frozen ELSE content
    /\ step' = "savememory"
    /\ UNCHANGED <<progress, target, sealed, call, proc, answer, asked, seen, bounds>>

\* Mutant of FreezeUnknown: the target must exist though its archive does.
FreezeNeedsTarget ==
    /\ step = "freeze"
    /\ content = None
    /\ step' = "idle"
    /\ UNCHANGED <<progress, target, archive, call, proc, answer, asked, seen, bounds>>

\* Archive of a target that is neither in memory nor on disk: ErrUnknownEnvironment.
FreezeUnknown ==
    /\ step = "freeze"
    /\ frozen = None /\ content = None
    /\ step' = "idle"
    /\ UNCHANGED <<progress, target, archive, call, proc, answer, asked, seen, bounds>>

SaveMemoryPhase ==
    /\ step = "savememory"
    /\ phase' = "memory"
    /\ step' = "organize"
    /\ UNCHANGED <<applied, discarded, target, archive, call, proc, answer, asked, seen, bounds>>

\* Memory sealed by an earlier attempt is kept: nobody is asked again.
KeepSealed ==
    /\ step = "organize" /\ sealed # 0
    /\ step' = "publish"
    /\ UNCHANGED <<progress, target, archive, call, proc, answer, asked, seen, bounds>>

\* Mutant of OrganizeMemory: the sealed snapshot is not looked for.
OrganizeAgain ==
    /\ step = "organize"
    /\ asked' = IF Organized THEN asked + 1 ELSE asked
    /\ answer' = IF Organized THEN asked + 1 ELSE 1
    /\ step' = "seal"
    /\ UNCHANGED <<progress, target, archive, call, proc, seen, bounds>>

\* OrganizeMemory answers for memories that differ (every answer may be
\* another graph); the common graph is used as it is otherwise.
OrganizeMemory ==
    /\ step = "organize" /\ sealed = 0
    /\ asked' = IF Organized THEN asked + 1 ELSE asked
    /\ answer' = IF Organized THEN asked + 1 ELSE 1
    /\ step' = "seal"
    /\ UNCHANGED <<progress, target, archive, call, proc, seen, bounds>>

\* SaveSnapshot is immutable: only the same graph may be saved again.
SealMemory ==
    /\ step = "seal"
    /\ sealed \in {0, answer}
    /\ sealed' = answer
    /\ step' = "publish"
    /\ UNCHANGED <<progress, target, frozen, call, proc, answer, asked, seen, bounds>>

Publish ==
    /\ step = "publish"
    /\ phase' = "ready"
    /\ step' = "release"
    /\ UNCHANGED <<applied, discarded, target, archive, call, proc, answer, asked, seen, bounds>>

\* readyInput validates the pair and throws the target and candidates away.
ReadyInput ==
    /\ step = "release"
    /\ frozen # None /\ sealed # 0
    /\ content' = None /\ kept' = FALSE
    /\ proc' = FALSE
    /\ step' = "idle"
    /\ UNCHANGED <<progress, archive, call, answer, asked, seen, bounds>>

-----------------------------------------------------------------------------
\* Any I/O step, the resolver or a cancellation ends the attempt with an error.
\* releaseInputWorkspace reaps the target (which may fail too) and freezes it,
\* which keeps its content.
Fail ==
    /\ step \in IOSteps /\ faults < MaxFaults
    /\ faults' = faults + 1
    /\ step' = "idle" /\ call' = None
    /\ proc' \in {FALSE, proc}
    /\ UNCHANGED <<progress, target, archive, answer, asked, seen, calls, crashes>>

\* The process stops.  Sandboxed processes die with it; a target that was
\* never materialized is gone, and with it what the resolver put there.
Crash ==
    /\ step # "down" /\ crashes < MaxCrashes
    /\ crashes' = crashes + 1
    /\ step' = "down" /\ call' = None /\ proc' = FALSE /\ answer' = 0
    /\ content' = IF kept THEN content ELSE None
    /\ lostDraft' = (lostDraft \/ (~kept /\ frozen = None /\ told # Blank))
    /\ UNCHANGED <<progress, kept, archive, asked, told, calls, faults>>

ResolverStep ==
    \/ \E s \in Sources, P \in SUBSET Paths, replace \in BOOLEAN : Apply(s, P, replace)
    \/ \E s \in Sources : Discard(s)
    \/ \E p \in Paths, background \in BOOLEAN : Edit(p, background)

Attempt ==
    \/ Collect \/ Resume \/ PrepareTarget \/ SaveFiles
    \/ SaveCall \/ FinishFiles
    \/ Reap \/ FreezeFiles \/ FreezeUnknown \/ SaveMemoryPhase
    \/ KeepSealed \/ OrganizeMemory \/ SealMemory \/ Publish

EdgeNext ==
    \/ Restart \/ Attempt \/ ReadyInput \/ ResolverStep
    \/ \E p \in Paths : BackgroundWrite(p)
    \/ SaveCallFails \/ Fail \/ Crash

EdgeSpec == EdgeInit /\ [][EdgeNext]_edgeVars

\* The task is run again until its input is ready, every step of an attempt
\* returns, and the resolver, once asked, decides every source and finishes.
Fairness ==
    /\ WF_edgeVars(Restart) /\ WF_edgeVars(Attempt) /\ WF_edgeVars(ReadyInput)
    /\ \A s \in Sources : WF_edgeVars(Discard(s))

LiveSpec == EdgeSpec /\ Fairness

-----------------------------------------------------------------------------
(* Properties *)

\* The record says ready only when both halves of the pair were saved: the
\* comment on InputProgress (progress.go), across every failure and restart.
ReadyPairExists == phase = "ready" => frozen # None /\ sealed # 0

\* What the resolver left in the target is what the role will be given, unless
\* a crash took a target that had never been materialized: no retry, failed
\* save or background process changes a decision after the fact.
DecisionsFrozen == frozen # None /\ ~lostDraft => frozen = told

\* Once an organizer's answer is sealed no other answer is asked for, however
\* often the step is repeated.
OrganizedOnce == [][sealed # 0 => asked' = asked]_edgeVars

\* A role's input is one pair, published once and never replaced.
NoPairYet == <<None, None>>

Fixed == INSTANCE FixedInput
    WITH Files <- Content, Memories <- Nat \ {0}, NoPair <- NoPairYet,
         pair <- IF phase = "ready" THEN <<frozen, sealed>> ELSE NoPairYet

PublishesOnePair == Fixed!Spec

\* The one dead end: the record is past the files, the archive is not there
\* and the target is lost.
DraftGone == phase = "files_resolved" /\ frozen = None /\ content = None

\* Otherwise a task that is run again gets its input, whatever failed before.
ReadyUnlessDraftGone == <>(phase = "ready" \/ DraftGone)

\* docs/unified-edge-design.md:228 promises recovery of a saved input without
\* exception.
EventuallyReady == <>(phase = "ready")

\* vfs/input.go:162 says a resumed target keeps its file decisions: a source
\* recorded as applied has left no differing path without content.
AppliedFilesFrozen ==
    phase \in {"memory", "ready"} =>
        \A s \in Sources : AppliedAll(s) => \A p \in Paths : frozen[p] # Hole
=============================================================================
