------------------------------ MODULE AgentLoop ------------------------------
(***************************************************************************)
(* One agent's conversation (internal/agent): queued or asked queries, the *)
(* loop of model requests and tool calls, preemption, the checkpoint that  *)
(* survives a restart, and the organizing of old messages into memory.     *)
(*                                                                         *)
(* The four agents differ in what they are configured with: the manager is *)
(* run on a queue, the others are asked; manager and verifier put the rest *)
(* of a turn into memory when it ends, the executor only what overflows,   *)
(* and the organizer resets its session instead.                           *)
(***************************************************************************)
EXTENDS Naturals, Sequences, FiniteSets

CONSTANTS Kinds,                         \* which of the agents are looked at
          MaxQueries, MaxSteps, MaxCalls, MaxReplies, MaxAppends,
          MaxMishaps,                    \* preempts, stops, appends, failures, crashes
          None

ASSUME LoopAssumption ==
    /\ Kinds \subseteq {"manager", "executor", "verifier", "organizer"}
    /\ {MaxQueries, MaxSteps, MaxCalls, MaxReplies, MaxAppends, MaxMishaps} \subseteq Nat

Queued(k)    == k = "manager"
Overflows(k) == k # "organizer"
CommitsTail(k) == k \in {"manager", "verifier"}

VARIABLES
    kind,
    queue, wake, sender,     \* Run's queue; Enqueue between append and signal
    loop,                    \* the goroutine with the Loop's volatile fields
    stopping,                \* the context Run or Ask was called with is done
    preempter,               \* the turn whose cancel a Preempt call holds
    checkpoint,              \* durable: the unfinished turn
    memory, revision,        \* durable: the agent's memory graph
    asked, turns, settled, final,  \* what happened, for the properties
    replies, appends, mishaps

counters == <<replies, appends, mishaps>>
told     == <<asked, turns, settled, final>>
vars == <<kind, queue, wake, sender, loop, stopping, preempter, checkpoint,
          memory, revision, told, counters>>

Queries == 1 .. MaxQueries
CallIds == 1 .. MaxCalls

\* A message stands for its contents; "managed" are nodes the runtime appends.
User(q)       == [kind |-> "user", no |-> q, calls |-> <<>>]
Reply(n, ids) == [kind |-> "assistant", no |-> n, calls |-> ids]
Result(id)    == [kind |-> "result", no |-> id, calls |-> <<>>]
Managed(n)    == [kind |-> "managed", no |-> n, calls |-> <<>>]
Handoff       == User(0)

Ids == UNION {[1 .. n -> CallIds] : n \in 0 .. 2}
Messages == {User(q) : q \in 0 .. MaxQueries} \union {Result(id) : id \in CallIds}
              \union {Reply(n, ids) : n \in 1 .. MaxReplies, ids \in Ids}
Nodes == Messages \union {Managed(n) : n \in 1 .. MaxAppends}

Checkpoints == [messages : Seq(Messages), used : SUBSET CallIds, committed : BOOLEAN,
                query : 0 .. MaxQueries]

ASSUME NoneAssumption == None \notin Checkpoints

Steps == {"idle", "restore", "next", "wait", "begin", "step", "assemble", "peek",
          "request", "after", "replied", "tools", "result", "commit", "mark",
          "discard", "finish", "compact", "organize", "tail", "known", "returned", "stopped"}
Errors == {"none", "canceled", "lifecycle", "recoverable", "fatal"}

Loops == [pc : Steps, query : 0 .. MaxQueries, resume : BOOLEAN, messages : Seq(Messages),
          used : SUBSET CallIds, committed : BOOLEAN, active : BOOLEAN,
          canceled : BOOLEAN, preempted : BOOLEAN, steps : 0 .. MaxSteps,
          packed : BOOLEAN, todo : Ids, err : Errors, answer : 0 .. MaxReplies,
          back : Steps, drop : Nat, snap : SUBSET Nodes, snapRev : Nat,
          cacheRev : Nat \union {None}, cached : SUBSET Nodes]

Fresh == [pc |-> "idle", query |-> 0, resume |-> FALSE, messages |-> <<>>, used |-> {},
          committed |-> FALSE, active |-> FALSE, canceled |-> FALSE, preempted |-> FALSE,
          steps |-> 0, packed |-> FALSE, todo |-> <<>>, err |-> "none", answer |-> 0,
          back |-> "idle", drop |-> 0, snap |-> {}, snapRev |-> 0,
          cacheRev |-> None, cached |-> {}]

Range(s) == {s[i] : i \in DOMAIN s}
Mishap == mishaps < MaxMishaps /\ mishaps' = mishaps + 1
Goto(step)      == loop' = [loop EXCEPT !.pc = step]
Fail(why)       == loop' = [loop EXCEPT !.pc = "finish", !.err = why]
Saved == IF checkpoint = None THEN {} ELSE Range(checkpoint.messages)

-----------------------------------------------------------------------------
(* Conversation *)

\* lastAssistantText: 0 is the empty answer.
LastReply(ms) ==
    LET replied == {i \in DOMAIN ms : ms[i].kind = "assistant"}
    IN IF replied = {} THEN 0
       ELSE ms[CHOOSE i \in replied : \A j \in replied : j <= i].no

\* reactComplete
Complete(ms) == ms # <<>> /\ ms[Len(ms)].kind = "assistant" /\ ms[Len(ms)].calls = <<>>

UnpairedAll(ms) ==
    LET calling == {i \in DOMAIN ms : ms[i].calls # <<>>}
    IN IF calling = {} THEN <<>> ELSE ms[CHOOSE i \in calling : \A j \in calling : j <= i].calls

\* The members of ids in the order of s.
Keep(s, ids) ==
    LET kept[k \in 0 .. Len(s)] ==
            IF k = 0 THEN <<>>
            ELSE IF s[k] \in ids THEN Append(kept[k - 1], s[k]) ELSE kept[k - 1]
    IN kept[Len(s)]

\* unpairedToolCalls: of the last reply with calls, those without a result.
Unpaired(ms) ==
    LET calling == {i \in DOMAIN ms : ms[i].calls # <<>>}
        last == CHOOSE i \in calling : \A j \in calling : j <= i
    IN IF calling = {} THEN <<>>
       ELSE Keep(ms[last].calls, {id \in CallIds : \A j \in last + 1 .. Len(ms) : ms[j] # Result(id)})

\* keepRecentIndex: how many messages compaction takes, cut at a user message
\* or a reply; everything when nothing recent is kept.
Cuts(ms) == {0} \union {i - 1 : i \in {j \in DOMAIN ms : ms[j].kind \in {"user", "assistant"}}}

\* currentTurnStart
TurnStart(ms) ==
    LET users == {i \in DOMAIN ms : ms[i].kind = "user"}
    IN IF users = {} THEN 1 ELSE CHOOSE i \in users : \A j \in users : j <= i

From(ms, i) == SubSeq(ms, i, Len(ms))

-----------------------------------------------------------------------------
(* Checkpoint *)

SnapshotWithoutQuery(l) == [messages |-> l.messages, used |-> l.used, committed |-> l.committed]
Snapshot(l) == [messages |-> l.messages, used |-> l.used, committed |-> l.committed, query |-> l.query]

\* persistReact, after an assignment: l is saved, or writing fails the turn.
Persist(l) ==
    \/ /\ loop' = l
       /\ checkpoint' = Snapshot(l)
       /\ settled' = settled \union {m.no : m \in {n \in Range(l.messages) : n.kind = "result"}}
       /\ UNCHANGED mishaps
    \/ /\ Mishap
       /\ loop' = [l EXCEPT !.pc = "finish", !.err = "fatal"]
       /\ UNCHANGED <<checkpoint, settled>>

\* discardReact, with l for the loop when it succeeds.
DiscardReact(l, failed) ==
    \/ checkpoint' = None /\ loop' = l /\ settled' = {} /\ UNCHANGED mishaps
    \/ /\ Mishap
       /\ loop' = [loop EXCEPT !.pc = failed, !.err = "fatal"]
       /\ UNCHANGED <<checkpoint, settled>>

-----------------------------------------------------------------------------
(* Queue and run *)

Init ==
    /\ kind \in Kinds
    /\ queue = <<>> /\ wake = FALSE /\ sender = 0
    /\ loop = Fresh /\ stopping = FALSE /\ preempter = 0
    /\ checkpoint = None /\ memory = {} /\ revision = 0
    /\ asked = 0 /\ turns = 0
    /\ settled = {} /\ final = [q \in Queries |-> 0]
    /\ replies = 0 /\ appends = 0 /\ mishaps = 0

\* Enqueue appends under the lock and signals after it.
Enqueue ==
    /\ Queued(kind) /\ sender = 0 /\ asked < MaxQueries
    /\ asked' = asked + 1
    /\ queue' = Append(queue, asked + 1)
    /\ sender' = asked + 1
    /\ UNCHANGED <<kind, wake, loop, stopping, preempter, checkpoint, memory, revision,
                   turns, settled, final, counters>>

Signal ==
    /\ sender # 0
    /\ wake' = TRUE /\ sender' = 0
    /\ UNCHANGED <<kind, queue, loop, stopping, preempter, checkpoint, memory, revision,
                   told, counters>>

\* Run, once per process and again after a recoverable error.
Run ==
    /\ Queued(kind) /\ loop.pc = "idle"
    /\ Goto("restore")
    /\ UNCHANGED <<kind, queue, wake, sender, stopping, preempter, checkpoint, memory, revision,
                   told, counters>>

\* Ask: the next query, or the same one again after an error or a restart.
Ask(q) ==
    /\ ~Queued(kind)
    /\ \/ q = asked + 1 /\ (asked = 0 \/ (loop.pc = "returned" /\ loop.err = "none"))
       \/ q = asked /\ (loop.pc = "idle" \/ (loop.pc = "returned" /\ loop.err = "recoverable"))
       \/ kind = "organizer" /\ loop.pc = "returned" /\ q \in {asked, asked + 1}
    /\ loop.pc \in {"idle", "returned"}
    /\ asked' = q
    /\ loop' = [loop EXCEPT !.pc = "restore", !.query = q, !.err = "none", !.answer = 0]
    /\ stopping' = FALSE
    /\ UNCHANGED <<kind, queue, wake, sender, preempter, checkpoint, memory, revision,
                   turns, settled, final, counters>>

\* startTurn with the cancel function of a new context.
Begun(l, q, resume) ==
    [l EXCEPT !.pc = "begin", !.query = q, !.resume = resume, !.active = TRUE,
              !.canceled = stopping, !.preempted = FALSE, !.steps = 0, !.err = "none"]

RunTurn(q) ==
    /\ loop' = Begun([loop EXCEPT !.committed = FALSE], q, FALSE)
    /\ turns' = turns + 1
    /\ final' = [final EXCEPT ![q] = 0]

\* restoreCheckpoint, then continueTurn or, without one, the query.
Restore ==
    /\ loop.pc = "restore" /\ checkpoint = None
    /\ IF Queued(kind) THEN Goto("next") /\ UNCHANGED <<turns, final>> ELSE RunTurn(loop.query)
    /\ UNCHANGED <<kind, queue, wake, sender, stopping, preempter, checkpoint, memory, revision,
                   asked, settled, counters>>

ContinueTurn ==
    /\ loop.pc = "restore" /\ checkpoint # None
    /\ LET l == [loop EXCEPT !.messages = checkpoint.messages, !.used = checkpoint.used,
                             !.committed = checkpoint.committed, !.query = checkpoint.query]
       IN IF checkpoint.committed
          THEN loop' = [l EXCEPT !.pc = "known"] /\ UNCHANGED turns
          ELSE loop' = Begun(l, l.query, TRUE) /\ turns' = turns + 1
    /\ UNCHANGED <<kind, queue, wake, sender, stopping, preempter, checkpoint, memory, revision,
                   asked, settled, final, counters>>

\* finishCommittedTurn
FinishCommitted ==
    /\ loop.pc = "known"
    /\ LET to == IF Queued(kind) THEN "next" ELSE "returned"
       IN DiscardReact([loop EXCEPT !.pc = to, !.answer = LastReply(loop.messages)],
                       IF Queued(kind) THEN "stopped" ELSE "returned")
    /\ UNCHANGED <<kind, queue, wake, sender, stopping, preempter, memory, revision,
                   asked, turns, final, replies, appends>>

\* next: the head of the queue, else wait for the signal and look again.
Next1 ==
    /\ loop.pc = "next" /\ ~stopping
    /\ IF queue = <<>> THEN Goto("wait") /\ UNCHANGED <<queue, turns, final>>
       ELSE RunTurn(Head(queue)) /\ queue' = Tail(queue)
    /\ UNCHANGED <<kind, wake, sender, stopping, preempter, checkpoint, memory, revision,
                   asked, settled, counters>>

Woken ==
    /\ loop.pc = "wait" /\ wake
    /\ wake' = FALSE /\ Goto("next")
    /\ UNCHANGED <<kind, queue, sender, stopping, preempter, checkpoint, memory, revision,
                   told, counters>>

NextCanceled ==
    /\ loop.pc \in {"next", "wait"} /\ stopping
    /\ loop' = [loop EXCEPT !.pc = "stopped", !.err = "canceled"]
    /\ UNCHANGED <<kind, queue, wake, sender, stopping, preempter, checkpoint, memory, revision,
                   told, counters>>

-----------------------------------------------------------------------------
(* A turn: runReact *)

\* The user's message, or what the restored conversation still lacks.
Begin ==
    /\ loop.pc = "begin"
    /\ IF loop.resume
       THEN /\ LET open == Unpaired(loop.messages)
                   to == IF open # <<>> THEN "tools"
                         ELSE IF Complete(loop.messages) THEN "commit" ELSE "step"
               IN loop' = [loop EXCEPT !.pc = to, !.todo = open]
            /\ UNCHANGED <<checkpoint, settled, mishaps>>
       ELSE Persist([loop EXCEPT !.pc = "step",
                                 !.messages = Append(@, User(loop.query))])
    /\ UNCHANGED <<kind, queue, wake, sender, stopping, preempter, memory, revision,
                   asked, turns, final, replies, appends>>

Step ==
    /\ loop.pc = "step"
    /\ IF loop.steps >= MaxSteps THEN Fail("recoverable")       \* ErrMaxSteps
       ELSE IF loop.canceled THEN Fail("canceled")
       ELSE loop' = [loop EXCEPT !.pc = "assemble", !.packed = FALSE]
    /\ UNCHANGED <<kind, queue, wake, sender, stopping, preempter, checkpoint, memory, revision,
                   told, counters>>

\* injectSubscribedMemoryTool: what of the memory goes into a request.
Projection == memory

\* assembleRequest: the memory projection is read again unless the cached one
\* has the memory's revision (subscribedMemoryBlocks).
Assemble ==
    /\ loop.pc = "assemble"
    /\ IF loop.cacheRev = revision THEN Goto("request")
       ELSE IF loop.canceled THEN Fail("lifecycle")
       ELSE loop' = [loop EXCEPT !.pc = "peek", !.cached = Projection]
    /\ UNCHANGED <<kind, queue, wake, sender, stopping, preempter, checkpoint, memory, revision,
                   told, counters>>

\* The revision is taken after the projection was read.
Peek ==
    /\ loop.pc = "peek"
    /\ loop' = [loop EXCEPT !.pc = "request", !.cacheRev = revision]
    /\ UNCHANGED <<kind, queue, wake, sender, stopping, preempter, checkpoint, memory, revision,
                   told, counters>>

\* shouldCompactBeforeRequest, shouldResetBeforeRequest
CompactBeforeRequest ==
    /\ loop.pc = "request" /\ Overflows(kind) /\ ~loop.packed
    /\ \E drop \in Cuts(loop.messages) \ {0} :
          loop' = [loop EXCEPT !.pc = "compact", !.back = "assemble", !.packed = TRUE, !.drop = drop]
    /\ UNCHANGED <<kind, queue, wake, sender, stopping, preempter, checkpoint, memory, revision,
                   told, counters>>

\* resetSession: everything before the current turn gives way to a handoff.
ResetSession ==
    /\ loop.pc = "request" /\ ~Overflows(kind) /\ ~loop.packed
    /\ LET start == TurnStart(loop.messages)
       IN /\ start > 1 /\ ~(start = 2 /\ loop.messages[1] = Handoff)
          /\ Persist([loop EXCEPT !.pc = "assemble", !.packed = TRUE,
                                  !.messages = <<Handoff>> \o From(@, start)])
    /\ UNCHANGED <<kind, queue, wake, sender, stopping, preempter, memory, revision,
                   asked, turns, final, replies, appends>>

\* The ids a model may answer with: new ones, one twice, or one used before.
ModelCalls ==
    LET new == {id \in CallIds : \A u \in loop.used : u < id}
    IN {<<>>} \union {<<id>> : id \in loop.used}
         \union {s \in {<<id>> : id \in new} \union {<<id, id>> : id \in new}
                         \union {<<id, id + 1>> : id \in new \ {MaxCalls}} :
                    s[1] = Cardinality(CallIds \ new) + 1}

\* validateToolCallIDs: no id twice in one conversation.
Valid(ids) ==
    /\ \A i, j \in DOMAIN ids : i # j => ids[i] # ids[j]
    /\ Range(ids) \cap loop.used = {}

\* generate, and the reply recorded before its calls are carried out.
Generate(ids) ==
    /\ loop.pc = "request" /\ replies < MaxReplies
    /\ replies' = replies + 1
    /\ LET reply == Reply(replies + 1, ids)
           l == [loop EXCEPT !.steps = @ + 1]
       IN \/ /\ ~Valid(ids)
             /\ loop' = [l EXCEPT !.pc = "finish", !.err = "fatal"]
             /\ UNCHANGED <<checkpoint, settled, mishaps, final>>
          \/ /\ Valid(ids)
             /\ Persist([l EXCEPT !.pc = "after", !.used = @ \union Range(ids), !.todo = ids,
                                  !.messages = Append(@, reply)])
             /\ final' = IF ids = <<>> /\ checkpoint' # checkpoint /\ final[loop.query] = 0
                         THEN [final EXCEPT ![loop.query] = reply.no] ELSE final
    /\ UNCHANGED <<kind, queue, wake, sender, stopping, preempter, memory, revision,
                   asked, turns, appends>>

\* The provider fails; it does so too when the turn is canceled.
GenerateFails ==
    /\ loop.pc = "request"
    /\ \/ loop.canceled /\ Fail("canceled") /\ UNCHANGED mishaps
       \/ Mishap /\ Fail("fatal")
    /\ UNCHANGED <<kind, queue, wake, sender, stopping, preempter, checkpoint, memory, revision,
                   told, replies, appends>>

\* CompactOnOverflow
Overflow ==
    /\ loop.pc = "after" /\ Overflows(kind)
    /\ \E drop \in Cuts(loop.messages) :
          loop' = [loop EXCEPT !.pc = "compact", !.back = "replied", !.drop = drop]
    /\ UNCHANGED <<kind, queue, wake, sender, stopping, preempter, checkpoint, memory, revision,
                   told, counters>>

Replied ==
    /\ loop.pc \in {"after", "replied"}
    /\ Goto(IF loop.todo = <<>> THEN "commit" ELSE "tools")
    /\ UNCHANGED <<kind, queue, wake, sender, stopping, preempter, checkpoint, memory, revision,
                   told, counters>>

\* executeToolCalls: one after the other, each with its result before the next.
Execute ==
    /\ loop.pc = "tools" /\ loop.todo # <<>> /\ ~loop.canceled
    /\ Goto("result")
    /\ UNCHANGED <<kind, queue, wake, sender, stopping, preempter, checkpoint, memory, revision,
                   asked, turns, settled, final, counters>>

\* appendToolResult, or a canceled result for a call that is not carried out.
ToolResult ==
    /\ \/ loop.pc = "result"
       \/ loop.pc = "tools" /\ loop.todo # <<>> /\ loop.canceled
    /\ Persist([loop EXCEPT !.pc = "tools", !.todo = Tail(@),
                            !.messages = Append(@, Result(Head(loop.todo)))])
    /\ UNCHANGED <<kind, queue, wake, sender, stopping, preempter, memory, revision,
                   asked, turns, final, replies, appends>>

\* An AfterTool hook fails: the remaining calls stay without a result.
ToolHookFails ==
    /\ loop.pc = "tools" /\ Mishap
    /\ loop.messages[Len(loop.messages)].kind = "result"
    /\ Fail("fatal")
    /\ UNCHANGED <<kind, queue, wake, sender, stopping, preempter, checkpoint, memory, revision,
                   told, replies, appends>>

LeaveWhenCanceled ==
    /\ loop.pc = "tools" /\ (loop.todo = <<>> \/ loop.canceled)
    /\ IF loop.canceled THEN Fail("canceled") ELSE Goto("step")
    /\ UNCHANGED <<kind, queue, wake, sender, stopping, preempter, checkpoint, memory, revision,
                   told, counters>>

ToolsDone ==
    /\ loop.pc = "tools" /\ loop.todo = <<>>
    /\ IF loop.canceled THEN Fail("canceled") ELSE Goto("step")
    /\ UNCHANGED <<kind, queue, wake, sender, stopping, preempter, checkpoint, memory, revision,
                   told, counters>>

\* The turn is complete: the answer is read, then the tail goes into memory.
Commit ==
    /\ loop.pc = "commit"
    /\ LET l == [loop EXCEPT !.answer = LastReply(loop.messages)]
       IN loop' = IF CommitsTail(kind)
                  THEN [l EXCEPT !.pc = "compact", !.back = "mark", !.drop = Len(loop.messages)]
                  ELSE [l EXCEPT !.pc = "mark"]
    /\ UNCHANGED <<kind, queue, wake, sender, stopping, preempter, checkpoint, memory, revision,
                   told, counters>>

\* markReactCommitted
Mark ==
    /\ loop.pc = "mark"
    /\ Persist([loop EXCEPT !.pc = "discard", !.committed = TRUE])
    /\ UNCHANGED <<kind, queue, wake, sender, stopping, preempter, memory, revision,
                   asked, turns, final, replies, appends>>

Discard ==
    /\ loop.pc = "discard"
    /\ DiscardReact([loop EXCEPT !.pc = "finish"], "finish")
    /\ UNCHANGED <<kind, queue, wake, sender, stopping, preempter, memory, revision,
                   asked, turns, final, replies, appends>>

OneTurnPerSignal(err) ==
    IF ~Queued(kind) THEN "returned"
    ELSE IF err = "none" THEN "wait"
    ELSE IF err = "recoverable" THEN "restore" ELSE "stopped"

\* Where Run and Ask go after a turn.
After(err) ==
    IF ~Queued(kind) THEN "returned"
    ELSE IF err = "none" THEN "next"
    ELSE IF err = "recoverable" THEN "restore" ELSE "stopped"

\* finishTurn
TurnOver(l) == [l EXCEPT !.active = FALSE, !.canceled = FALSE, !.preempted = FALSE,
                         !.todo = <<>>, !.drop = 0, !.snap = {}]

\* What Run, Ask and their callers make of the result: only a
\* preempted turn that ended in nothing but its cancelation is forgiven.
Finish ==
    /\ loop.pc = "finish"
    /\ LET err == IF loop.preempted /\ loop.err = "canceled" THEN "none"
                  ELSE IF ~loop.preempted /\ stopping /\ loop.err = "none" THEN "canceled"
                  ELSE loop.err
       IN loop' = [TurnOver(loop) EXCEPT !.pc = After(err), !.err = err]
    /\ UNCHANGED <<kind, queue, wake, sender, stopping, preempter, checkpoint, memory, revision,
                   told, counters>>

-----------------------------------------------------------------------------
(* Compaction: compactMemoryTool, CompactHistory, applyCompactTail *)

\* The hook runs under the turn's context, the commit under Run's.
CompactCanceled == IF loop.back = "mark" THEN stopping ELSE loop.canceled
Interrupted == Fail(IF loop.back = "replied" THEN "lifecycle" ELSE "canceled")
Unmanaged(nodes) == {n \in nodes : n.kind # "managed"}

ReadMemory ==
    /\ loop.pc = "compact"
    /\ IF CompactCanceled THEN Interrupted
       ELSE loop' = [loop EXCEPT !.pc = "organize", !.snap = memory, !.snapRev = revision]
    /\ UNCHANGED <<kind, queue, wake, sender, stopping, preempter, checkpoint, memory, revision,
                   told, counters>>

SaveOverManaged(nodes, rev) ==
    /\ memory' = nodes
    /\ revision' = IF rev > revision THEN rev ELSE revision

\* preservingManaged: what the runtime appended meanwhile is kept.
SaveMemory(nodes, rev) ==
    /\ memory' = Unmanaged(nodes) \union (memory \ Unmanaged(memory))
    /\ revision' = IF rev > revision THEN rev ELSE revision

\* serializeConversation: what the organizing model is shown of old messages, and
\* is taken to write down.
Conversation(ms) == Range(ms)

\* compactMemoryTool commits what CompactHistory made of the memory it read.
Compacted(new) == SaveMemory(loop.snap \union new, loop.snapRev + (IF new = {} THEN 0 ELSE 1))

Organize ==
    /\ loop.pc = "organize"
    /\ Compacted(Conversation(SubSeq(loop.messages, 1, loop.drop)))
    /\ Goto("tail")
    /\ UNCHANGED <<kind, queue, wake, sender, stopping, preempter, checkpoint, told, counters>>

\* No attempt was in the right format, the request was canceled, or it failed.
OrganizeFails ==
    /\ loop.pc = "organize"
    /\ \/ CompactCanceled /\ Interrupted /\ UNCHANGED mishaps
       \/ /\ Mishap
          /\ \E why \in {"recoverable", "fatal"} : Fail(why)
    /\ UNCHANGED <<kind, queue, wake, sender, stopping, preempter, checkpoint, memory, revision,
                   told, replies, appends>>

\* applyCompactTail; a deep curation may follow before the turn goes on.
KeepTail ==
    /\ loop.pc = "tail"
    /\ Persist([loop EXCEPT !.pc = loop.back, !.messages = From(@, loop.drop + 1),
                            !.drop = 0, !.snap = {}, !.snapRev = 0])
    /\ UNCHANGED <<kind, queue, wake, sender, stopping, preempter, memory, revision,
                   asked, turns, final, replies, appends>>

-----------------------------------------------------------------------------
(* Around the loop *)

\* Preempt (of the manager only) takes the cancel function under the lock and
\* calls it after.
Preempt ==
    /\ Queued(kind) /\ loop.active /\ preempter = 0
    /\ Mishap
    /\ preempter' = turns
    /\ loop' = [loop EXCEPT !.preempted = TRUE]
    /\ UNCHANGED <<kind, queue, wake, sender, stopping, checkpoint, memory, revision, told,
                   replies, appends>>

CancelWhateverRuns ==
    /\ preempter # 0
    /\ preempter' = 0
    /\ loop' = [loop EXCEPT !.canceled = @ \/ loop.active]
    /\ UNCHANGED <<kind, queue, wake, sender, stopping, checkpoint, memory, revision, told,
                   counters>>

PreemptCancels ==
    /\ preempter # 0
    /\ preempter' = 0
    /\ loop' = [loop EXCEPT !.canceled = @ \/ (loop.active /\ turns = preempter)]
    /\ UNCHANGED <<kind, queue, wake, sender, stopping, checkpoint, memory, revision, told,
                   counters>>

\* The task is canceled or the session closed.
Stop ==
    /\ ~stopping /\ loop.pc \notin {"idle", "returned", "stopped"}
    /\ Mishap
    /\ stopping' = TRUE
    /\ loop' = [loop EXCEPT !.canceled = loop.active \/ @]
    /\ UNCHANGED <<kind, queue, wake, sender, preempter, checkpoint, memory, revision, told,
                   replies, appends>>

\* AppendNode: a report or a user message enters the same memory.
AppendNode ==
    /\ Queued(kind) /\ appends < MaxAppends
    /\ Mishap
    /\ appends' = appends + 1
    /\ memory' = memory \union {Managed(appends + 1)}
    /\ revision' = revision + 1
    /\ UNCHANGED <<kind, queue, wake, sender, loop, stopping, preempter, checkpoint, told,
                   replies>>

\* The process stops: the queue and the loop are gone.
Crash ==
    /\ loop.pc # "idle"
    /\ Mishap
    /\ loop' = Fresh /\ queue' = <<>> /\ wake' = FALSE /\ sender' = 0
    /\ stopping' = FALSE /\ preempter' = 0
    /\ UNCHANGED <<kind, checkpoint, memory, revision, told, replies, appends>>

Turn ==
    \/ Begin \/ Step \/ Assemble \/ Peek \/ CompactBeforeRequest \/ ResetSession
    \/ \E ids \in ModelCalls : Generate(ids)
    \/ GenerateFails \/ Overflow \/ Replied \/ Execute \/ ToolResult \/ ToolHookFails
    \/ ToolsDone \/ Commit \/ Mark \/ Discard \/ Finish
    \/ ReadMemory \/ Organize \/ OrganizeFails \/ KeepTail

Goes ==
    \/ Run \/ \E q \in Queries : Ask(q)
    \/ Restore \/ ContinueTurn \/ FinishCommitted \/ Next1 \/ Woken \/ NextCanceled
    \/ Turn

Next ==
    \/ Goes \/ Enqueue \/ Signal
    \/ Preempt \/ PreemptCancels \/ Stop \/ AppendNode \/ Crash

Spec == Init /\ [][Next]_vars /\ WF_vars(Goes) /\ WF_vars(Signal)

-----------------------------------------------------------------------------
(* Properties *)

\* Types of all variables.
TypeOK ==
    /\ kind \in Kinds
    /\ queue \in Seq(Queries) /\ wake \in BOOLEAN /\ sender \in 0 .. MaxQueries
    /\ loop \in Loops
    /\ stopping \in BOOLEAN /\ preempter \in Nat
    /\ checkpoint \in Checkpoints \union {None}
    /\ memory \subseteq Nodes /\ revision \in Nat
    /\ asked \in 0 .. MaxQueries /\ turns \in Nat
    /\ settled \subseteq CallIds
    /\ final \in [Queries -> 0 .. MaxReplies]
    /\ replies \in 0 .. MaxReplies /\ appends \in 0 .. MaxAppends /\ mishaps \in 0 .. MaxMishaps

\* What the model is sent can be answered: after every reply with calls come
\* exactly their results, before anything else is said - whatever was canceled,
\* failed, compacted, reset or resumed in between.
RequestsPaired ==
    loop.pc = "request" =>
        LET ms == loop.messages
        IN \A i \in DOMAIN ms :
              /\ \A k \in DOMAIN ms[i].calls :
                    i + k \in DOMAIN ms /\ ms[i + k].kind = "result"
              /\ {ms[i + k].no : k \in DOMAIN ms[i].calls} = Range(ms[i].calls)
              /\ ms[i].kind = "result" =>
                    \E j \in 1 .. i - 1 : ms[i].no \in Range(ms[j].calls)

\* A tool call whose result was saved is never carried out again.
ResultsFinal ==
    [][loop.pc = "tools" /\ loop'.pc = "result" => Head(loop.todo) \notin settled]_vars

\* Nothing said is forgotten: a saved message leaves the checkpoint only into
\* memory, with the turn that was committed, or by a session reset; and what is
\* in memory stays there, whoever wrote it while compaction was under way.
NothingForgotten ==
    [][/\ memory \subseteq memory'
       /\ \A m \in Saved :
             \/ m \in Saved' \union memory'
             \/ checkpoint' = None /\ checkpoint.committed
             \/ kind = "organizer" /\ checkpoint' # None]_vars

\* A turn is canceled only by a Preempt that was meant for it, or by the end of
\* the context it runs in: a slow Preempt never hits the turn after.
CancelsItsTurn == loop.active /\ loop.canceled => loop.preempted \/ stopping

\* A queued message is taken in the end, unless Run ends (or the model's
\* replies are used up): no wake-up is lost.
Served == queue # <<>> ~> (queue = <<>> \/ loop.pc = "stopped" \/ replies = MaxReplies)

\* What the comment of Ask promises: the answer is the reply that completed the
\* turn.  Not so after a restart between commit and discard.
AnswersQuery ==
    loop.pc = "returned" /\ loop.err = "none" /\ loop.query # 0 /\ kind # "manager" =>
        loop.answer = final[loop.query]

\* What the comment of Preempt promises: Run goes on.  Not so when the turn was
\* being compacted.
PreemptKeepsRun == loop.pc = "stopped" => stopping \/ loop.err = "fatal"

\* What subscribedMemoryBlocks promises: while the cached projection is used it
\* is the memory's.  Not so when a node was appended between read and revision.
ProjectionCurrent ==
    loop.pc = "request" /\ loop.cacheRev = revision => Unmanaged(loop.cached) = Unmanaged(memory)
        /\ loop.cached = memory
=============================================================================
