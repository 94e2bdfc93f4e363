------------------------------ MODULE WebStream ------------------------------
(***************************************************************************)
(* A model's answer on its way to a user: the provider's stream with its   *)
(* retries (internal/provider), the events of a call (agent/loop.go), the  *)
(* project of the web gateway that turns them into messages, the streams   *)
(* of its clients (internal/cli/web.go) and the view a client keeps        *)
(* (applyEvent, web/src/lib/project-events.ts).                            *)
(*                                                                         *)
(* The manager's text is shown while it streams; when the stream breaks    *)
(* the gateway takes it back and the provider asks again.  A front end     *)
(* without that ability gets an error once it has shown something.  Other  *)
(* agents' text is held back until the response is complete.               *)
(*                                                                         *)
(* Text is a sequence of chunks, each named by the attempt that sent it.   *)
(* Events without text are one kind of frame; the agents' states and       *)
(* reasoning traces a frame also carries are left out, and its number: a   *)
(* channel keeps the order, and a snapshot is of the moment it opens.      *)
(***************************************************************************)
EXTENDS Naturals, Sequences, SequencesExt

CONSTANTS Clients,     \* browsers with an event stream
          MaxRetries,  \* Config.MaxRetries
          Capacity,    \* frames a client's channel holds
          Keep,        \* messages a project keeps
          MaxText,     \* bound on the chunks of a response
          ManagerCalls, WorkerCalls, MaxPosts, MaxConnects,  \* bounds
          MaxOthers    \* bound on reports, cancellations and closings together

ASSUME StreamAssumption ==
    /\ Keep \in Nat \ {0} /\ MaxRetries \in Nat /\ Capacity \in Nat
    /\ {ManagerCalls, WorkerCalls, MaxPosts, MaxConnects, MaxOthers, MaxText} \subseteq Nat

Manager == "manager"
Worker  == "worker"    \* any agent of a task
Callers == {Manager, Worker}
MaxCalls == [w \in Callers |-> IF w = Manager THEN ManagerCalls ELSE WorkerCalls]

VARIABLES web,       \* the front end can take text back: it is the gateway
          open,      \* webProject.manager # nil
          messages, stream, next,   \* webProject.messages, streamID, nextMessage
          subs,      \* each client's channel, and what it shows
          queue,     \* user messages the manager has not begun
          call,      \* each caller's call of the model
          canceled,  \* callers whose context is canceled
          given,     \* for the properties: attempts given up for a retry
          used       \* how much of each bound is used

vars == <<web, open, messages, stream, next, subs, queue, call, canceled, given, used>>
project == <<open, messages, stream, next, subs>>

-----------------------------------------------------------------------------
(* Frames and clients *)

\* MUTANT of Sent: a full channel loses the frame.
SentOrDropped(sub, frame) ==
    IF sub.state = "on" /\ Len(sub.chan) < Capacity THEN [sub EXCEPT !.chan = Append(@, frame)] ELSE sub

\* publishLocked: every channel gets the frame; one that is full is closed, and
\* its client sees the end of it after the frames it holds.
Sent(sub, frame) ==
    IF sub.state # "on" THEN sub
    ELSE IF Len(sub.chan) < Capacity THEN [sub EXCEPT !.chan = Append(@, frame)]
    ELSE [sub EXCEPT !.state = "cut"]

Publish(frame) == subs' = [c \in Clients |-> Sent(subs[c], frame)]
PublishBoth(first, second) == subs' = [c \in Clients |-> Sent(Sent(subs[c], first), second)]

Kept(items) == IF Len(items) > Keep THEN SubSeq(items, Len(items) - Keep + 1, Len(items)) ELSE items

Tick          == [kind |-> "event"]
Delta(id, t)  == [kind |-> "delta", id |-> id, text |-> t]
Output(m)     == [kind |-> "output", message |-> m]
StreamReset(id) == [kind |-> "reset", id |-> id]

Has(items, id)    == \E i \in DOMAIN items : items[i].id = id
Updated(items, m) == [i \in DOMAIN items |-> IF items[i].id = m.id THEN m ELSE items[i]]
Upsert(items, m)  == IF Has(items, m.id) THEN Updated(items, m) ELSE Append(items, m)
Place(items, id)  == CHOOSE i \in DOMAIN items : items[i].id = id
Without(items, id) == IF Has(items, id) THEN RemoveAt(items, Place(items, id)) ELSE items
Said(id, t)       == [id |-> id, by |-> Manager, status |-> "streaming", text |-> t]
Extended(items, id, t) ==
    [i \in DOMAIN items |-> IF items[i].id = id THEN [items[i] EXCEPT !.text = @ \o t] ELSE items[i]]

\* applyEvent of the client.
Applied(view, frame) ==
    CASE frame.kind = "event"  -> view
      [] frame.kind = "output" -> Upsert(view, frame.message)
      [] frame.kind = "reset"  -> Without(view, frame.id)
      [] frame.kind = "delta"  ->
           IF Has(view, frame.id) THEN Extended(view, frame.id, frame.text)
           ELSE Append(view, Said(frame.id, frame.text))

\* What a client shows once it has read the frames.
Shown(view, frames) ==
    LET after[n \in 0 .. Len(frames)] ==
            IF n = 0 THEN view ELSE Applied(after[n - 1], frames[n])
    IN after[Len(frames)]

\* events: the snapshot and the subscription are one step under the project's lock.
Connect(c) ==
    /\ web /\ open /\ subs[c].state = "off" /\ used.connects < MaxConnects
    /\ subs' = [subs EXCEPT ![c] = [state |-> "on", chan |-> <<>>, view |-> messages]]
    /\ used' = [used EXCEPT !.connects = @ + 1]
    /\ UNCHANGED <<web, open, messages, stream, next, queue, call, canceled, given>>

Receive(c) ==
    /\ subs[c].state # "off" /\ subs[c].chan # <<>>
    /\ subs' = [subs EXCEPT ![c].chan = Tail(@), ![c].view = Applied(@, Head(subs[c].chan))]
    /\ UNCHANGED <<web, open, messages, stream, next, queue, call, canceled, given, used>>

\* The channel is closed and empty, or the connection is lost; what the client
\* still shows is replaced when it connects again.
Off == [state |-> "off", chan |-> <<>>, view |-> <<>>]

Disconnect(c) ==
    /\ subs[c].state # "off"
    /\ subs' = [subs EXCEPT ![c] = Off]
    /\ UNCHANGED <<web, open, messages, stream, next, queue, call, canceled, given, used>>

-----------------------------------------------------------------------------
(* The project of the gateway *)

\* send
Post ==
    /\ web /\ open /\ used.posts < MaxPosts
    /\ LET m == [id |-> next + 1, by |-> "user", status |-> "queued", text |-> <<>>]
       IN /\ next' = next + 1
          /\ messages' = Kept(Append(messages, m))
          /\ Publish(Output(m))
    /\ queue' = queue + 1
    /\ used' = [used EXCEPT !.posts = @ + 1]
    /\ UNCHANGED <<web, open, stream, call, canceled, given>>

\* onEvent of a frame without text for the messages.
Event == Publish(Tick) /\ UNCHANGED <<open, messages, stream, next>>

\* onEvent of a piece of the manager's text.
ShowDelta(t) ==
    LET id == IF stream = 0 THEN next + 1 ELSE stream
        items == IF stream = 0 THEN Append(messages, Said(id, t)) ELSE Extended(messages, id, t)
    IN /\ stream' = id
       /\ next' = IF stream = 0 THEN next + 1 ELSE next
       /\ messages' = Kept(items)
       /\ Publish(Delta(id, t))
       /\ UNCHANGED open

\* onEvent of the end of a call of the manager that failed.
ShowFailure ==
    /\ IF Has(messages, stream)
       THEN LET failed == [messages[Place(messages, stream)] EXCEPT !.status = "error"]
            IN messages' = Updated(messages, failed) /\ PublishBoth(Output(failed), Tick)
       ELSE messages' = messages /\ Publish(Tick)
    /\ stream' = 0
    /\ UNCHANGED <<open, next>>

\* resetStream, and the event of the retry that follows it.
TakeBack ==
    /\ messages' = IF Has(messages, stream) /\ messages[Place(messages, stream)].status = "streaming"
                   THEN Without(messages, stream) ELSE messages
    /\ stream' = 0
    /\ PublishBoth(StreamReset(stream), Tick)
    /\ UNCHANGED <<open, next>>

\* output: the manager's whole answer takes the place of what was streamed.
ShowAnswer(t) ==
    LET id == IF stream = 0 THEN next + 1 ELSE stream
        m == [id |-> id, by |-> Manager, status |-> "complete", text |-> t]
    IN /\ next' = IF stream = 0 THEN next + 1 ELSE next
       /\ messages' = Kept(Upsert(messages, m))
       /\ stream' = 0
       /\ Publish(Output(m))
       /\ UNCHANGED open

\* output of a task's report, from the task's runner.
Report ==
    /\ web /\ open /\ used.others < MaxOthers
    /\ LET m == [id |-> next + 1, by |-> "report", status |-> "complete", text |-> <<>>]
       IN /\ next' = next + 1
          /\ messages' = Kept(Append(messages, m))
          /\ Publish(Output(m))
    /\ used' = [used EXCEPT !.others = @ + 1]
    /\ UNCHANGED <<web, open, stream, queue, call, canceled, given>>

-----------------------------------------------------------------------------
(* Calls of a model *)

Idle == [pc |-> "idle", n |-> 0, retries |-> 0, delivered |-> FALSE, text |-> <<>>, got |-> <<>>]

\* The attempt a chunk comes from.
Attempt(w) == <<w, call[w].n, call[w].retries>>

\* Generate publishes to the gateway where there is one.
Tell(what) == IF web THEN what ELSE UNCHANGED project

\* MUTANT of Replayable: every agent's text is passed on as it comes.
NobodyReplays(w) == FALSE

\* WithReplayableDeltas
Replayable(w) == w # Manager

Started(w) == [call EXCEPT ![w] = [Idle EXCEPT !.pc = "send", !.n = call[w].n + 1]]

\* The manager takes the next message; a role goes on with its task.
Begin(w) ==
    /\ open /\ call[w].pc = "idle" /\ call[w].n < MaxCalls[w]
    /\ w = Manager => queue > 0
    /\ call' = Started(w)
    /\ canceled' = canceled \ {w}
    /\ queue' = IF w = Manager THEN queue - 1 ELSE queue
    /\ Tell(Event)
    /\ UNCHANGED <<web, given, used>>

\* The end of the call with an error; the turn is over.
Fail(w) ==
    /\ call' = [call EXCEPT ![w].pc = "idle"]
    /\ Tell(IF w = Manager THEN ShowFailure ELSE Event)
    /\ UNCHANGED <<web, queue, canceled, given, used>>

\* One more attempt, from the budget the request and the stream share.
Retry(w, reset) ==
    /\ call' = [call EXCEPT ![w].retries = @ + 1, ![w].pc = "wait",
                            ![w].got = IF reset THEN <<>> ELSE @]
    /\ given' = given \union {Attempt(w)}
    /\ Tell(IF reset THEN TakeBack ELSE Event)
    /\ UNCHANGED <<web, queue, canceled, used>>

Budget(w) == call[w].retries < MaxRetries

\* do: refusals that may pass are tried again, others end the call.
Request(w) ==
    /\ call[w].pc = "send"
    /\ \/ /\ w \notin canceled
          /\ call' = [call EXCEPT ![w].pc = "read", ![w].delivered = FALSE, ![w].text = <<>>]
          /\ UNCHANGED <<web, project, queue, canceled, given, used>>
       \/ w \notin canceled /\ Budget(w) /\ Retry(w, FALSE)
       \/ Fail(w)

\* waitRetry
Wait(w) ==
    /\ call[w].pc = "wait"
    /\ IF w \in canceled THEN Fail(w)
       ELSE /\ call' = [call EXCEPT ![w].pc = "send"]
            /\ UNCHANGED <<web, project, queue, canceled, given, used>>

\* A piece goes on at once: not held back, and not dropped after a cancellation.
Forwarded(w) == w \notin canceled /\ ~Replayable(w)

\* A piece of text arrives.
Chunk(w) ==
    /\ call[w].pc = "read" /\ Len(call[w].text) < MaxText
    /\ LET t == <<Attempt(w)>> IN
       IF Forwarded(w)
       THEN /\ call' = [call EXCEPT ![w].text = @ \o t, ![w].delivered = TRUE, ![w].got = @ \o t]
            /\ Tell(IF w = Manager THEN ShowDelta(t) ELSE Event)
       ELSE /\ call' = [call EXCEPT ![w].text = @ \o t]
            /\ UNCHANGED project
    /\ UNCHANGED <<web, queue, canceled, given, used>>

\* A piece of reasoning arrives; it is text that is not part of a message.
Thought(w) ==
    /\ call[w].pc = "read" /\ Forwarded(w) /\ ~call[w].delivered
    /\ call' = [call EXCEPT ![w].delivered = TRUE]
    /\ Tell(Event)
    /\ UNCHANGED <<web, queue, canceled, given, used>>

\* The response is complete; what was held back is delivered now.
Complete(w) ==
    /\ call[w].pc = "read"
    /\ IF w \in canceled THEN Fail(w)
       ELSE /\ call' = [call EXCEPT ![w].pc = "said", ![w].got = IF Replayable(w) THEN call[w].text ELSE @]
            /\ Tell(Event)
            /\ UNCHANGED <<web, queue, canceled, given, used>>

\* assistantMessage: a response that ended early or says nothing is an error of the
\* call, and is not asked for again.
Unusable(w) == call[w].pc = "read" /\ Fail(w)

\* How a stream ends without a response, and what may pass: everything but an error
\* that a request made again would meet again.
Errors == {"read", "ended", "rate limit", "overloaded", "refused"}
Retryable(e) == e # "refused"

\* The stream breaks: with the budget spent, after a cancellation, or when text was
\* shown that cannot be taken back, the call fails.
Break(w) ==
    /\ call[w].pc = "read"
    /\ \E e \in Errors :
          IF w \notin canceled /\ Budget(w) /\ (call[w].delivered => web) /\ Retryable(e)
          THEN Retry(w, call[w].delivered)
          ELSE Fail(w)

\* The loop asks again after tool calls, unless the turn was cut off meanwhile.
NextCall(w) ==
    /\ call[w].pc = "said"
    /\ \/ /\ w \notin canceled /\ call[w].n < MaxCalls[w]
          /\ call' = Started(w)
          /\ Tell(Event)
       \/ /\ call' = [call EXCEPT ![w].pc = "idle"]
          /\ UNCHANGED project
    /\ UNCHANGED <<web, queue, canceled, given, used>>

\* The last response of a turn has no tool calls: it goes to the front end as a
\* whole (afterAssistant does not look at the context).
Answer(w) ==
    /\ call[w].pc = "said" /\ call[w].text # <<>>
    /\ call' = [call EXCEPT ![w].pc = "idle"]
    /\ IF w = Manager THEN Tell(ShowAnswer(call[w].text)) ELSE UNCHANGED project
    /\ UNCHANGED <<web, queue, canceled, given, used>>

\* A turn is preempted or a user cancels; a turn that ends clears it.
Cancel(w) ==
    /\ call[w].pc # "idle" /\ w \notin canceled /\ used.others < MaxOthers
    /\ canceled' = canceled \union {w}
    /\ used' = [used EXCEPT !.others = @ + 1]
    /\ UNCHANGED <<web, project, queue, call, given>>

\* closeManager, after the manager and its tasks have stopped; the queue is lost.
Close ==
    /\ web /\ open /\ used.others < MaxOthers
    /\ \A w \in Callers : call[w].pc = "idle"
    /\ open' = FALSE /\ stream' = 0 /\ queue' = 0
    /\ subs' = [c \in Clients |-> IF subs[c].state = "on" THEN [subs[c] EXCEPT !.state = "cut"] ELSE subs[c]]
    /\ used' = [used EXCEPT !.others = @ + 1]
    /\ UNCHANGED <<web, messages, next, call, canceled, given>>

\* openProject of a project that was closed.
Open ==
    /\ ~open /\ open' = TRUE
    /\ UNCHANGED <<web, messages, stream, next, subs, queue, call, canceled, given, used>>

-----------------------------------------------------------------------------
Init ==
    /\ web \in BOOLEAN /\ open = TRUE
    /\ messages = <<>> /\ stream = 0 /\ next = 0
    /\ subs = [c \in Clients |-> Off]
    /\ queue = IF web THEN 0 ELSE MaxPosts
    /\ call = [w \in Callers |-> Idle]
    /\ canceled = {} /\ given = {}
    /\ used = [posts |-> 0, connects |-> 0, others |-> 0]

Next ==
    \/ Post \/ Report \/ Close \/ Open
    \/ \E c \in Clients : Connect(c) \/ Receive(c) \/ Disconnect(c)
    \/ \E w \in Callers :
          \/ Begin(w) \/ Request(w) \/ Wait(w) \/ Chunk(w) \/ Thought(w) \/ Complete(w) \/ Unusable(w) \/ Break(w)
          \/ NextCall(w) \/ Answer(w) \/ Cancel(w)

Spec == Init /\ [][Next]_vars

-----------------------------------------------------------------------------
Attempts == Callers \X Nat \X Nat
Messages == [id : Nat \ {0}, by : {"user", "report", Manager}, text : Seq(Attempts),
             status : {"queued", "streaming", "complete", "error"}]
Frames   == {Tick} \union [kind : {"delta"}, id : Nat \ {0}, text : Seq(Attempts)]
            \union [kind : {"output"}, message : Messages] \union [kind : {"reset"}, id : Nat]
Channels == [state : {"off", "on", "cut"}, chan : Seq(Frames), view : Seq(Messages)]
Calls    == [pc : {"idle", "send", "wait", "read", "said"}, n : Nat, retries : 0 .. MaxRetries,
             delivered : BOOLEAN, text : Seq(Attempts), got : Seq(Attempts)]

TypeOK ==
    /\ web \in BOOLEAN /\ open \in BOOLEAN
    /\ next \in Nat /\ stream \in 0 .. next /\ queue \in Nat
    /\ messages \in Seq(Messages) /\ Len(messages) <= Keep
    /\ subs \in [Clients -> Channels] /\ \A c \in Clients : Len(subs[c].chan) <= Capacity
    /\ call \in [Callers -> Calls]
    /\ canceled \subseteq Callers /\ given \subseteq Attempts
    /\ used \in [posts : Nat, connects : Nat, others : Nat]

\* What a front end was given of a call, and was not asked to take back, comes
\* from one attempt; no message holds text of an attempt that was made again; and
\* the manager's streaming message ends with all the text of the attempt that is
\* under way, unless newer messages pushed it out - whatever another agent's
\* retries do to the gateway (stream.go:79-84, web.go:907, event.go:342).
ShownOnce ==
    /\ \A w \in Callers : ToSet(call[w].got) \subseteq {Attempt(w)}
    /\ \A i \in DOMAIN messages : ToSet(messages[i].text) \intersect given = {}
    /\ web /\ call[Manager].pc = "read" /\ call[Manager].got # <<>> =>
          /\ stream # 0
          /\ Has(messages, stream) \/ next - stream >= Keep
          /\ \A i \in DOMAIN messages :
                messages[i].id = stream => IsSuffix(call[Manager].got, messages[i].text)

\* A client that is connected shows, once it has read its frames, what the project
\* holds: exactly, until the project drops its oldest messages, and at least that
\* afterwards.  A frame a full channel could not take must end the stream.
ClientCurrent ==
    \A c \in Clients : subs[c].state = "on" =>
        LET view == Shown(subs[c].view, subs[c].chan)
        IN /\ next <= Keep => view = messages
           /\ ToSet(messages) \subseteq ToSet(view)

=============================================================================
