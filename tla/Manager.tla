------------------------------- MODULE Manager --------------------------------
(***************************************************************************)
(* The manager's session (internal/manager/manager.go) and the tasks whose *)
(* roles ask it for help or take its messages (internal/coordination,      *)
(* help.go and project_message.go).                                        *)
(*                                                                         *)
(* The manager's loop holds the messages, the manager a queue of what to   *)
(* do with each: the two are in step or a user's message is remembered     *)
(* twice or never.  A turn ends with an answer, in a recoverable error     *)
(* that resumes it from its checkpoint, preempted by the user, or in an    *)
(* error that ends the loop.  A role that asks for help freezes a pause,   *)
(* records the request, notifies the manager and waits for its verdict.    *)
(*                                                                         *)
(* Each task stands for the role of it that asks; its other roles, and     *)
(* what an input is made of, are in Activation and EdgeInput.              *)
(***************************************************************************)
EXTENDS Naturals, Sequences, FiniteSets, SequencesExt

CONSTANTS Roles,       \* one asking role of each task
          Real,        \* the role whose task owns the real directory, or none
          Users,       \* messages of the user
          MaxMessages, \* messages of the manager to the real directory's role
          MaxFaults,   \* failed saves and calls
          MaxStops,    \* restarts
          MaxTurnEnds  \* turns preempted or cut off by the step limit

ASSUME ManagerAssumption ==
    Real \subseteq Roles /\ {MaxMessages, MaxFaults, MaxStops, MaxTurnEnds} \subseteq Nat

Tasks    == Roles \X {"own", "help"}
Own(r)   == <<r, "own">>
Help(r)  == <<r, "help">>
Messages == ({"user"} \X Users) \union ({"notice", "report"} \X Roles) \union ({"helped"} \X Roles)
None     == <<"none">>

VARIABLES
    fifo, meta, pending, err,    \* the loop's queue; project the message?; counter
    turn, heard, file, final,    \* the turn; the conversation and its checkpoint
    request, returns, outcome, outputs, pend, inbox,   \* the saved graph and progress
    run, role, calling, verdict, closed, seen, helper, batch,
    projected, answered, orphans,                      \* for the properties
    faults, stops, ends, sent

queue    == <<fifo, meta, pending, err>>
loop     == <<turn, heard, file, final>>
graph    == <<request, returns, outcome, outputs, pend, inbox>>
running  == <<run, role, calling, verdict, closed, seen, helper, batch>>
ghosts   == <<projected, answered, orphans>>
limits   == <<faults, stops, ends, sent>>
vars     == <<queue, loop, graph, running, ghosts, limits>>

Idle     == [pc |-> "idle", msg |-> None, of |-> None, resumed |-> FALSE, dies |-> FALSE]
Fails    == faults < MaxFaults /\ faults' = faults + 1

Init ==
    /\ fifo = <<>> /\ meta = <<>> /\ pending = 0 /\ err = FALSE
    /\ turn = Idle /\ heard = <<>> /\ file = "none" /\ final = FALSE
    /\ request = [r \in Roles |-> "none"] /\ returns = [r \in Roles |-> FALSE]
    /\ outcome = [t \in Tasks |-> IF t[2] = "own" THEN "active" ELSE "none"]
    /\ outputs = [r \in Roles |-> {}] /\ pend = [r \in Roles |-> "none"]
    /\ inbox = [r \in Roles |-> 0]
    /\ run = [t \in Tasks |-> IF t[2] = "own" THEN "on" ELSE "off"]
    /\ role = [r \in Roles |-> "off"] /\ calling = [r \in Roles |-> FALSE]
    /\ verdict = [r \in Roles |-> "none"] /\ closed = [r \in Roles |-> FALSE]
    /\ seen = [r \in Roles |-> 0] /\ helper = [r \in Roles |-> "none"]
    /\ batch = [r \in Roles |-> {}]
    /\ projected = [u \in Users |-> 0] /\ answered = {} /\ orphans = {}
    /\ faults = 0 /\ stops = 0 /\ ends = 0 /\ sent = {}

-----------------------------------------------------------------------------
(* The queue *)

\* enqueueLocked: metadata, counter and message under one lock.
Enqueue(msg) ==
    /\ fifo' = Append(fifo, msg)
    /\ meta' = Append(meta, msg[1] = "user")
    /\ pending' = pending + 1

\* Send
UserSends(u) ==
    /\ u \notin sent /\ sent' = sent \union {u}
    /\ Enqueue(<<"user", u>>)
    /\ UNCHANGED <<err, loop, graph, running, ghosts, faults, stops, ends>>

\* setErr: whatever waits for the manager is let go.
Stopped == err' = TRUE /\ pending' = 0

\* runReady: active tasks whose activation was not started yet.
Ready(o) == [t \in Tasks |-> IF o[t] = "active" /\ run[t] = "off" THEN "on" ELSE run[t]]
Foreground == \E t \in Tasks : run[t] = "on"

-----------------------------------------------------------------------------
(* A turn *)

NextMessage ==
    /\ turn.pc = "idle" /\ fifo # <<>>
    /\ turn' = [Idle EXCEPT !.pc = "begin", !.msg = Head(fifo), !.of = Head(fifo)]
    /\ fifo' = Tail(fifo)
    /\ UNCHANGED <<meta, pending, err, heard, file, final, graph, running, ghosts, limits>>

\* Run finds a checkpoint: the turn goes on under the first user message that
\* is still in the conversation.
Resume ==
    /\ turn.pc = "resume"
    /\ turn' = [Idle EXCEPT !.pc = "begin", !.resumed = TRUE,
                    !.msg = IF heard = <<>> THEN None ELSE Head(heard),
                    !.of = turn.of]
    /\ UNCHANGED <<queue, heard, file, final, graph, running, ghosts, limits>>

\* finishCommittedTurn
FinishCommitted ==
    /\ turn.pc = "finish"
    /\ turn' = Idle /\ file' = "none"
    /\ UNCHANGED <<queue, heard, final, graph, running, ghosts, limits>>

\* The BeforeTurn hook takes the metadata and projects a user's message.
BeforeTurn ==
    /\ turn.pc = "begin"
    /\ IF meta = <<>>
       THEN Stopped /\ turn' = [turn EXCEPT !.pc = "dead"] /\ UNCHANGED <<meta, projected>>
       ELSE /\ meta' = Tail(meta)
            /\ projected' = [u \in Users |-> projected[u] +
                                IF Head(meta) /\ turn.msg = <<"user", u>> THEN 1 ELSE 0]
            /\ turn' = [turn EXCEPT !.pc = IF ~turn.resumed THEN "hear"
                                           ELSE IF final THEN "commit" ELSE "work"]
            /\ UNCHANGED <<pending, err>>
    /\ UNCHANGED <<fifo, heard, file, final, graph, running, answered, orphans, limits>>

Hear ==
    /\ turn.pc = "hear"
    /\ heard' = Append(heard, turn.msg) /\ file' = "open" /\ final' = FALSE
    /\ turn' = [turn EXCEPT !.pc = "work"]
    /\ UNCHANGED <<queue, graph, running, ghosts, limits>>

\* A long conversation loses its oldest message to the memory.
Compact ==
    /\ turn.pc = "work" /\ heard # <<>> /\ ends < MaxTurnEnds
    /\ heard' = Tail(heard)
    /\ UNCHANGED <<queue, turn, file, final, graph, running, ghosts, limits>>

\* The final answer, and the AfterAssistant hook.
Answer ==
    /\ turn.pc = "work"
    /\ final' = TRUE /\ run' = Ready(outcome)
    /\ turn' = [turn EXCEPT !.pc = "commit"]
    /\ UNCHANGED <<queue, heard, file, graph, role, calling, verdict, closed, seen, helper>>
    /\ UNCHANGED <<batch, ghosts, limits>>

\* Mutants of Recover: the resumed turn has no entry in the queue; or it counts
\* as done.
RecoverUnqueued ==
    /\ turn' = [turn EXCEPT !.pc = "resume"]
    /\ UNCHANGED <<meta, pending>>
RecoverDone ==
    /\ meta' = <<FALSE>> \o meta /\ pending' = pending - 1
    /\ turn' = [turn EXCEPT !.pc = "resume"]

\* The goroutine around Run puts the turn back in front of the queue.
Recover ==
    /\ meta' = <<FALSE>> \o meta
    /\ turn' = [turn EXCEPT !.pc = "resume"]
    /\ UNCHANGED pending

\* The step limit, or a memory the commit cannot parse.
CutOff ==
    /\ turn.pc \in {"work", "commit"} /\ ends < MaxTurnEnds /\ ends' = ends + 1
    /\ Recover
    /\ UNCHANGED <<fifo, err, heard, file, final, graph, running, ghosts, faults, stops, sent>>

\* Any other error ends the loop.
Fail ==
    /\ turn.pc \in {"work", "commit"} /\ Fails
    /\ Stopped /\ turn' = [turn EXCEPT !.pc = "dead"]
    /\ UNCHANGED <<fifo, meta, heard, file, final, graph, running, ghosts, stops, ends, sent>>

\* Cancel without a foreground task.  A cancellation inside a hook ends the loop.
Preempt ==
    /\ turn.pc = "work" /\ ~Foreground /\ ends < MaxTurnEnds /\ ends' = ends + 1
    /\ \E inHook \in BOOLEAN : turn' = [turn EXCEPT !.pc = "after", !.dies = inHook]
    /\ UNCHANGED <<queue, heard, file, final, graph, running, ghosts, faults, stops, sent>>

\* CommitTailOnTurnEnd and markReactCommitted
Commit ==
    /\ turn.pc = "commit"
    /\ heard' = <<>> /\ file' = "committed" /\ final' = FALSE
    /\ turn' = [turn EXCEPT !.pc = "discard"]
    /\ UNCHANGED <<queue, graph, running, ghosts, limits>>

Discard ==
    /\ turn.pc = "discard"
    /\ file' = "none" /\ turn' = [turn EXCEPT !.pc = "after"]
    /\ UNCHANGED <<queue, heard, final, graph, running, ghosts, limits>>

\* Mutant of Undecided: a decision is not looked for.
UndecidedAnyway(r) == request[r] # "none"

\* decline and provide decide under the coordinator's lock.
Undecided(r) == request[r] = "open"

\* The AfterTurn hook declines the request the turn's message was about.
Decline ==
    /\ turn.pc = "after"
    /\ LET about == {r \in Roles : turn.msg = <<"notice", r>> /\ Undecided(r)}
           meant == {r \in Roles : turn.of = <<"notice", r>> /\ Undecided(r)}
       IN /\ request' = [r \in Roles |-> IF r \in about THEN "declined" ELSE request[r]]
          /\ closed' = [r \in Roles |-> closed[r] \/ r \in about]
          /\ orphans' = orphans \union (meant \ about)
                                \union {r \in Roles : turn.of = <<"notice", r>> /\
                                            request[r] = "configured" /\ ~closed[r]}
    /\ answered' = answered \union {u \in Users : turn.of = <<"user", u>>}
    /\ turn' = [turn EXCEPT !.pc = "done"]
    /\ UNCHANGED <<queue, heard, file, final, returns, outcome, outputs, pend, inbox>>
    /\ UNCHANGED <<run, role, calling, verdict, seen, helper, batch, projected, limits>>

DeclineFails ==
    /\ turn.pc = "after" /\ Fails
    /\ \E r \in Roles : turn.msg = <<"notice", r>> /\ Undecided(r)
    /\ Stopped /\ turn' = [turn EXCEPT !.pc = "dead"]
    /\ UNCHANGED <<fifo, meta, heard, file, final, graph, running, ghosts, stops, ends, sent>>

\* runReady and turnDone
TurnDone ==
    /\ turn.pc = "done"
    /\ run' = Ready(outcome)
    /\ pending' = IF turn.dies \/ pending = 0 THEN 0 ELSE pending - 1
    /\ turn' = IF turn.dies THEN [Idle EXCEPT !.pc = "dead"] ELSE Idle
    /\ UNCHANGED <<fifo, meta, err, heard, file, final, graph>>
    /\ UNCHANGED <<role, calling, verdict, closed, seen, helper, batch, ghosts, limits>>

-----------------------------------------------------------------------------
(* What the manager does in a turn *)

\* provide_help: tasks and edges for a request, a return edge or none; the
\* tasks are projected and the requester is let go.
Provide(r, back) ==
    /\ turn.pc = "work" /\ request[r] \in {"open", "configured"}
    /\ IF Undecided(r)
       THEN /\ request' = [request EXCEPT ![r] = "configured"]
            /\ returns' = [returns EXCEPT ![r] = back]
            /\ outcome' = [outcome EXCEPT ![Help(r)] = "active"]
       ELSE ~closed[r] /\ UNCHANGED <<request, returns, outcome>>
    /\ \/ closed' = [closed EXCEPT ![r] = TRUE] /\ UNCHANGED faults
       \/ Fails /\ UNCHANGED closed
    /\ UNCHANGED <<queue, loop, outputs, pend, inbox, run, role, calling, verdict, seen, helper>>
    /\ UNCHANGED <<batch, ghosts, stops, ends, sent>>

\* projectNode is set from the first question to the role to the last look at
\* its inbox.
Delivering == {"ask", "model", "request", "save", "notify", "known", "waiting", "resume"}

\* message_task
MessageTask(r) ==
    /\ turn.pc = "work" /\ r \in Real /\ inbox[r] < MaxMessages
    /\ run[Own(r)] = "on" /\ role[r] \in Delivering
    /\ inbox' = [inbox EXCEPT ![r] = @ + 1]
    /\ UNCHANGED <<queue, loop, request, returns, outcome, outputs, pend, running, ghosts, limits>>

-----------------------------------------------------------------------------
(* A task's role *)

Goto(r, pc) == role' = [role EXCEPT ![r] = pc]

\* The run ends, and its report goes to the manager; or saving it fails.
Settle(t, how) ==
    \/ /\ outcome' = [outcome EXCEPT ![t] = how]
       /\ run' = [run EXCEPT ![t] = "ended"]
       /\ Enqueue(<<IF t[2] = "own" THEN "report" ELSE "helped", t[1]>>)
       /\ UNCHANGED <<err, faults>>
    \/ /\ Fails /\ Stopped
       /\ run' = [run EXCEPT ![t] = "ended"]
       /\ UNCHANGED <<outcome, fifo, meta>>

\* An export of what, or of the one that was journaled before and not finished.
\* It fails before the journal, after it, or when the journal is cleared.
Exports(r, what, then, orElse) ==
    LET e == IF pend[r] = "none" THEN what ELSE pend[r] IN
    \/ /\ IF what \in outputs[r] THEN UNCHANGED <<outputs, pend>>
          ELSE /\ outputs' = [outputs EXCEPT ![r] = @ \union {e}]
               /\ pend' = [pend EXCEPT ![r] = "none"]
       /\ Goto(r, then) /\ UNCHANGED <<calling, verdict, faults>>
    \/ /\ what \notin outputs[r] /\ Fails
       /\ \/ UNCHANGED <<outputs, pend>>
          \/ pend' = [pend EXCEPT ![r] = e] /\ UNCHANGED outputs
          \/ pend' = [pend EXCEPT ![r] = e] /\ outputs' = [outputs EXCEPT ![r] = @ \union {e}]
       /\ Goto(r, orElse)
       /\ IF orElse = "ask"
          THEN calling' = [calling EXCEPT ![r] = FALSE] /\ verdict' = [verdict EXCEPT ![r] = "error"]
          ELSE UNCHANGED <<calling, verdict>>

\* A tool that fails is a result like any other, and the role goes on.
ToolFails(r) ==
    /\ Fails /\ Goto(r, "ask")
    /\ calling' = [calling EXCEPT ![r] = FALSE] /\ verdict' = [verdict EXCEPT ![r] = "error"]

\* runTask: an interrupted export is completed first; a call without a result
\* is made again.
Enter(r) ==
    /\ role[r] = "off" /\ run[Own(r)] = "on"
    /\ outputs' = [outputs EXCEPT ![r] = @ \union ({pend[r]} \ {"none"})]
    /\ pend' = [pend EXCEPT ![r] = "none"]
    /\ Goto(r, IF "role" \in outputs'[r] THEN "over"
               ELSE IF calling[r] THEN "request" ELSE "ask")
    /\ seen' = [seen EXCEPT ![r] = 0]
    /\ UNCHANGED <<queue, loop, request, returns, outcome, inbox, run, calling, verdict, closed>>
    /\ UNCHANGED <<helper, batch, ghosts, limits>>

\* The AssembleRequest hook reads the inbox.
Ask(r) ==
    /\ role[r] = "ask" /\ run[Own(r)] = "on"
    /\ seen' = [seen EXCEPT ![r] = inbox[r]]
    /\ Goto(r, "model")
    /\ UNCHANGED <<queue, loop, graph, run, calling, verdict, closed, helper, batch, ghosts, limits>>

\* One call for help, or the final answer.
CallsHelp(r) ==
    /\ role[r] = "model" /\ verdict[r] = "none"
    /\ calling' = [calling EXCEPT ![r] = TRUE]
    /\ Goto(r, "request")
    /\ UNCHANGED <<queue, loop, graph, run, verdict, closed, seen, helper, batch, ghosts, limits>>

\* Mutant of More: what arrived during the answer is not looked for.
MoreNever(r) == FALSE
More(r) == r \in Real /\ inbox[r] > seen[r]

\* The final answer: the last look at the inbox closes delivery.
Answers(r) ==
    /\ role[r] = "model"
    /\ Goto(r, IF More(r) THEN "ask" ELSE "export")
    /\ UNCHANGED <<queue, loop, graph, run, calling, verdict, closed, seen, helper, batch>>
    /\ UNCHANGED <<ghosts, limits>>

ExportsRole(r) ==
    /\ role[r] = "export"
    /\ Exports(r, "role", "over", "failed")
    /\ UNCHANGED <<queue, loop, request, returns, outcome, inbox, run, closed, seen, helper>>
    /\ UNCHANGED <<batch, ghosts, stops, ends, sent>>

Ends(r) ==
    /\ role[r] \in {"over", "failed"} /\ run[Own(r)] = "on"
    /\ Settle(Own(r), IF role[r] = "over" THEN "done" ELSE "failed")
    /\ UNCHANGED <<loop, request, returns, outputs, pend, inbox, role, calling, verdict, closed>>
    /\ UNCHANGED <<seen, helper, batch, ghosts, stops, ends, sent>>

-----------------------------------------------------------------------------
(* A request for help *)

\* pauseHelp, unless the request is known.
Freeze(r) ==
    /\ role[r] = "request" /\ request[r] = "none"
    /\ \/ Exports(r, "pause", "save", "ask")
       \/ ToolFails(r) /\ UNCHANGED <<outputs, pend>>
    /\ UNCHANGED <<queue, loop, request, returns, outcome, inbox, run, closed, seen, helper>>
    /\ UNCHANGED <<batch, ghosts, stops, ends, sent>>

\* saveHelpRequest
SaveRequest(r) ==
    /\ role[r] = "save"
    /\ \/ /\ request' = [request EXCEPT ![r] = "open"]
          /\ Goto(r, "notify")
          /\ UNCHANGED <<calling, verdict, faults>>
       \/ ToolFails(r) /\ UNCHANGED request
    /\ UNCHANGED <<queue, loop, returns, outcome, outputs, pend, inbox, run, closed, seen, helper>>
    /\ UNCHANGED <<batch, ghosts, stops, ends, sent>>

\* Mutant of Known: a request that was saved is not notified again.
KnownSaved(r) == Goto(r, IF request[r] = "open" THEN "waiting" ELSE "known")

\* The replayed call reads the saved request.
Known(r) == Goto(r, IF request[r] = "open" THEN "notify" ELSE "known")

FindRequest(r) ==
    /\ role[r] = "request" /\ request[r] # "none"
    /\ Known(r)
    /\ UNCHANGED <<queue, loop, graph, run, calling, verdict, closed, seen, helper, batch>>
    /\ UNCHANGED <<ghosts, limits>>

\* An open request goes to the manager.
Notify(r) ==
    /\ role[r] = "notify"
    /\ Enqueue(<<"notice", r>>)
    /\ Goto(r, "waiting")
    /\ UNCHANGED <<err, loop, graph, run, calling, verdict, closed, seen, helper, batch>>
    /\ UNCHANGED <<ghosts, limits>>

\* A decided one is projected again and lets its requester go.
Decided(r) ==
    /\ role[r] = "known"
    /\ \/ /\ closed' = [closed EXCEPT ![r] = TRUE]
          /\ Goto(r, "waiting") /\ UNCHANGED <<calling, verdict, faults>>
       \/ request[r] = "configured" /\ ToolFails(r) /\ UNCHANGED closed
    /\ UNCHANGED <<queue, loop, graph, run, seen, helper, batch, ghosts, stops, ends, sent>>

\* collectInputs of the resume node: the batch that was recorded, or its sources.
Sources(r) == IF batch[r] # {} THEN batch[r]
              ELSE {"pause"} \union (IF returns[r] THEN {"help"} ELSE {})

\* The verdict is read again when the requester is let go.
Wake(r) ==
    /\ role[r] = "waiting" /\ closed[r]
    /\ verdict' = [verdict EXCEPT ![r] = request[r]]
    /\ Goto(r, "resume")
    /\ UNCHANGED <<queue, loop, graph, run, calling, closed, seen, helper, batch, ghosts, limits>>

\* resumeHelp: the sources are there and the input is recorded, installed and
\* exported.
ResumeHelp(r) ==
    /\ role[r] = "resume" /\ "pause" \in outputs[r]
    /\ "help" \in Sources(r) => helper[r] = "ok"
    /\ batch' = [batch EXCEPT ![r] = Sources(r)]
    /\ \/ Exports(r, "resume", "back", "ask")
       \/ ToolFails(r) /\ UNCHANGED <<outputs, pend>>
    /\ UNCHANGED <<queue, loop, request, returns, outcome, inbox, run, closed, seen, helper>>
    /\ UNCHANGED <<ghosts, stops, ends, sent>>

\* A source that failed, or a pause that never got its output, is an error.
ResumeRefused(r) ==
    /\ role[r] = "resume"
    /\ "pause" \notin outputs[r] \/ ("help" \in Sources(r) /\ helper[r] = "failed")
    /\ Goto(r, "ask")
    /\ calling' = [calling EXCEPT ![r] = FALSE] /\ verdict' = [verdict EXCEPT ![r] = "error"]
    /\ UNCHANGED <<queue, loop, graph, run, closed, seen, helper, batch, ghosts, limits>>

\* The result of the call is saved in the role's conversation.
Returns(r) ==
    /\ role[r] = "back"
    /\ calling' = [calling EXCEPT ![r] = FALSE]
    /\ Goto(r, "ask")
    /\ UNCHANGED <<queue, loop, graph, run, verdict, closed, seen, helper, batch, ghosts, limits>>

\* A helper works when the manager has started it or its requester waits for it.
HelperWorks(r) ==
    /\ helper[r] = "none" /\ outcome[Help(r)] = "active"
    /\ run[Help(r)] = "on" \/ (role[r] = "resume" /\ returns[r])
    /\ \E how \in {"ok", "failed"} : helper' = [helper EXCEPT ![r] = how]
    /\ UNCHANGED <<queue, loop, graph, run, role, calling, verdict, closed, seen, batch>>
    /\ UNCHANGED <<ghosts, limits>>

HelperEnds(r) ==
    /\ run[Help(r)] = "on" /\ helper[r] # "none"
    /\ Settle(Help(r), IF helper[r] = "ok" THEN "done" ELSE "failed")
    /\ UNCHANGED <<loop, request, returns, outputs, pend, inbox, role, calling, verdict, closed>>
    /\ UNCHANGED <<seen, helper, batch, ghosts, stops, ends, sent>>

-----------------------------------------------------------------------------
\* The process ends and Open reads what was saved: a turn whose checkpoint was
\* not committed is resumed before tasks are started.
Restart ==
    /\ stops < MaxStops /\ stops' = stops + 1
    /\ fifo' = <<>> /\ err' = FALSE
    /\ meta' = IF file = "open" THEN <<FALSE>> ELSE <<>>
    /\ pending' = Len(meta')
    /\ turn' = [Idle EXCEPT !.pc = CASE file = "open" -> "resume"
                                     [] file = "committed" -> "finish"
                                     [] OTHER -> "idle",
                            !.of = IF heard = <<>> THEN None ELSE Last(heard)]
    /\ run' = [t \in Tasks |-> IF outcome[t] = "active" /\ file # "open" THEN "on" ELSE "off"]
    /\ role' = [r \in Roles |-> "off"]
    /\ closed' = [r \in Roles |-> FALSE] /\ seen' = [r \in Roles |-> 0]
    /\ verdict' = [r \in Roles |-> IF calling[r] THEN "none" ELSE verdict[r]]
    /\ orphans' = {}
    /\ UNCHANGED <<heard, file, final, graph, calling, helper, batch, projected, answered>>
    /\ UNCHANGED <<faults, ends, sent>>

Works == \/ NextMessage \/ Resume \/ FinishCommitted \/ BeforeTurn \/ Hear \/ Answer
         \/ Commit \/ Discard \/ Decline \/ TurnDone

RoleWorks(r) ==
    \/ Enter(r) \/ Ask(r) \/ Answers(r) \/ ExportsRole(r) \/ Ends(r)
    \/ Freeze(r) \/ SaveRequest(r) \/ FindRequest(r) \/ Notify(r) \/ Decided(r)
    \/ Wake(r) \/ ResumeHelp(r) \/ ResumeRefused(r) \/ Returns(r)

Next ==
    \/ Works \/ Compact \/ CutOff \/ Fail \/ Preempt \/ DeclineFails \/ Restart
    \/ \E u \in Users : UserSends(u)
    \/ \E r \in Roles : \/ RoleWorks(r) \/ CallsHelp(r) \/ HelperWorks(r) \/ HelperEnds(r)
                        \/ MessageTask(r) \/ \E back \in BOOLEAN : Provide(r, back)

Spec == Init /\ [][Next]_vars

-----------------------------------------------------------------------------
(* Properties *)

\* A requester is told one verdict, the one the graph keeps: declined without
\* help tasks ever, or provided with every returned result in its input.
OneVerdict ==
    \A r \in Roles :
        /\ verdict[r] = "declined" => request[r] = "declined"
        /\ request[r] = "declined" => outcome[Help(r)] = "none"
        /\ "resume" \in outputs[r] =>
              (request[r] = "configured" /\ returns[r] => "help" \in batch[r] /\ helper[r] = "ok")

\* A user's message is remembered once and no later than its turn, whatever
\* turns are resumed before it; nothing else is remembered as the user's.
ProjectedOnce ==
    \A u \in Users : projected[u] <= 1 /\ (u \in answered => projected[u] = 1)

\* When nothing is pending and no task runs, a living manager has no message
\* left, no turn, and no task it should have started.
IdleMeansDone ==
    pending = 0 /\ ~err /\ ~Foreground /\ turn.pc # "dead" =>
        /\ fifo = <<>> /\ turn.pc \in {"idle", "finish"}
        /\ \A t \in Tasks : outcome[t] = "active" => run[t] # "off"

\* A message the manager was told is accepted was in a request of the role
\* before its answer was exported.
AcceptedSeen ==
    \A r \in Real : role[r] \in {"export", "over"} /\ run[Own(r)] = "on" /\ "role" \notin outputs[r]
                        => seen[r] = inbox[r]

\* help.go:141: a role that waits for help has not been forgotten: what it waits for is
\* the turn of its notice, queued or running, as long as the loop lives; unless that turn
\* was cut off and ended under another message (README, "Known disagreements").
NoRequestStranded ==
    \A r \in Roles : role[r] = "waiting" /\ ~closed[r] =>
        \/ <<"notice", r>> \in ToSet(fifo)
        \/ turn.of = <<"notice", r>> /\ turn.pc \notin {"idle", "done"}
        \/ turn.pc = "dead" \/ r \in orphans

\* run.go:285: a role that has passed has its output committed.
PassedIsCommitted == \A r \in Roles : role[r] = "over" => "role" \in outputs[r]
=============================================================================
