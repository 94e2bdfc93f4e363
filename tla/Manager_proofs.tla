--------------------------- MODULE Manager_proofs ---------------------------
(***************************************************************************)
(* The manager's queues, its requests for help and its messages, for any   *)
(* tasks, users, failures, restarts and turns cut off.  Each property has  *)
(* an inductive invariant of its own over the types: InboxInv, HelpInv,    *)
(* PendingInv, WaitInv and SaidInv, with one step per action.              *)
(***************************************************************************)
EXTENDS Manager, TLAPS

(* Sequences *)

LEMMA Appended ==
    ASSUME NEW S, NEW s \in Seq(S), NEW e \in S
    PROVE  /\ Append(s, e) \in Seq(S) /\ Len(Append(s, e)) = Len(s) + 1
           /\ ToSet(Append(s, e)) = ToSet(s) \union {e}
           /\ \A i \in 1..Len(s) : Append(s, e)[i] = s[i]
           /\ Append(s, e)[Len(s) + 1] = e
BY DEF ToSet

LEMMA Shortened ==
    ASSUME NEW S, NEW s \in Seq(S), s # <<>>
    PROVE  /\ Tail(s) \in Seq(S) /\ Len(s) \in Nat \ {0} /\ Len(Tail(s)) = Len(s) - 1
           /\ Head(s) \in S /\ Head(s) = s[1]
           /\ ToSet(s) = ToSet(Tail(s)) \union {Head(s)}
           /\ \A i \in 1..Len(Tail(s)) : Tail(s)[i] = s[i + 1]
<1>1. /\ Tail(s) \in Seq(S) /\ Len(s) \in Nat \ {0} /\ Len(Tail(s)) = Len(s) - 1
      /\ Head(s) \in S /\ Head(s) = s[1]
      /\ \A i \in 1..Len(Tail(s)) : Tail(s)[i] = s[i + 1]
  OBVIOUS
<1>2. ToSet(s) = ToSet(Tail(s)) \union {Head(s)}
  <2>1. ASSUME NEW x \in ToSet(s) PROVE x \in ToSet(Tail(s)) \union {Head(s)}
    <3>1. PICK i \in 1..Len(s) : x = s[i]
      BY DEF ToSet
    <3>2. i \in Nat /\ (i = 1 \/ i - 1 \in 1..Len(Tail(s)))
      BY <1>1, <3>1
    <3>3. CASE i = 1
      <4>1. x = Head(s)
        BY <1>1, <3>1, <3>3
      <4> QED  BY <4>1
    <3>4. CASE i - 1 \in 1..Len(Tail(s))
      <4>1. Tail(s)[i - 1] = s[(i - 1) + 1]
        BY <1>1, <3>4
      <4>. (i - 1) + 1 = i
        BY <3>2
      <4>2. Tail(s)[i - 1] = x
        BY <3>1, <4>1
      <4>3. DOMAIN Tail(s) = 1..Len(Tail(s))
        BY <1>1
      <4> QED  BY <3>4, <4>2, <4>3 DEF ToSet
    <3> QED  BY <3>2, <3>3, <3>4
  <2>2. ASSUME NEW x \in ToSet(Tail(s)) PROVE x \in ToSet(s)
    <3>1. PICK i \in 1..Len(Tail(s)) : x = Tail(s)[i]
      BY <1>1 DEF ToSet
    <3>2. i + 1 \in 1..Len(s) /\ x = s[i + 1]
      BY <1>1, <3>1
    <3> QED  BY <3>2 DEF ToSet
  <2>3. Head(s) \in ToSet(s)
    BY <1>1 DEF ToSet
  <2> QED  BY <2>1, <2>2, <2>3
<1> QED  BY <1>1, <1>2

\* Putting the entry of a turn back in front.
LEMMA PutInFront ==
    ASSUME NEW S, NEW s \in Seq(S), NEW e \in S
    PROVE  /\ <<e>> \o s \in Seq(S) /\ Len(<<e>> \o s) = Len(s) + 1
           /\ (<<e>> \o s)[1] = e
           /\ \A i \in 1..Len(s) : (<<e>> \o s)[i + 1] = s[i]
OBVIOUS

-----------------------------------------------------------------------------
(* Types *)

TurnSteps == {"idle", "resume", "finish", "begin", "hear", "work", "commit", "discard",
              "after", "done", "dead"}
RoleSteps == {"off", "ask", "model", "request", "save", "notify", "known", "waiting",
              "resume", "back", "export", "over", "failed"}
Kinds     == {"pause", "resume", "role"}
Verdicts  == {"none", "open", "configured", "declined"}

Turns == [pc : TurnSteps, msg : Messages \union {None}, of : Messages \union {None},
          resumed : BOOLEAN, dies : BOOLEAN]

QueueTypes ==
    /\ fifo \in Seq(Messages) /\ meta \in Seq(BOOLEAN) /\ pending \in Nat /\ err \in BOOLEAN
    /\ heard \in Seq(Messages \union {None}) /\ file \in {"none", "open", "committed"}
    /\ turn \in Turns
    /\ final \in BOOLEAN

GraphTypes ==
    /\ request \in [Roles -> Verdicts] /\ returns \in [Roles -> BOOLEAN]
    /\ outcome \in [Tasks -> {"none", "active", "done", "failed"}]
    /\ outputs \in [Roles -> SUBSET Kinds] /\ pend \in [Roles -> Kinds \union {"none"}]
    /\ inbox \in [Roles -> Nat]

RunTypes ==
    /\ run \in [Tasks -> {"off", "on", "ended"}] /\ role \in [Roles -> RoleSteps]
    /\ calling \in [Roles -> BOOLEAN] /\ verdict \in [Roles -> Verdicts \union {"error"}]
    /\ closed \in [Roles -> BOOLEAN] /\ seen \in [Roles -> Nat]
    /\ helper \in [Roles -> {"none", "ok", "failed"}]
    /\ batch \in [Roles -> SUBSET {"pause", "help"}]

GhostTypes ==
    /\ projected \in [Users -> Nat] /\ answered \subseteq Users /\ orphans \subseteq Roles
    /\ sent \subseteq Users

Typing == QueueTypes /\ GraphTypes /\ RunTypes /\ GhostTypes

LEMMA Tuples ==
    /\ \A t \in Tasks : t[1] \in Roles /\ t \in {Own(t[1]), Help(t[1])}
    /\ \A r \in Roles : Own(r) \in Tasks /\ Help(r) \in Tasks /\ Own(r) # Help(r)
    /\ \A r, q \in Roles : Own(r) # Help(q) /\ (Own(r) = Own(q) => r = q) /\ (Help(r) = Help(q) => r = q)
    /\ \A r \in Roles : Help(r)[2] = "help" /\ Own(r)[2] = "own" /\ Help(r)[1] = r /\ Own(r)[1] = r
BY DEF Tasks, Own, Help

LEMMA MessageKinds ==
    /\ \A u \in Users : <<"user", u>> \in Messages
    /\ \A r \in Roles : {<<"notice", r>>, <<"report", r>>, <<"helped", r>>} \subseteq Messages
BY DEF Messages

LEMMA TurnGoesOn ==
    ASSUME turn \in Turns
    PROVE  /\ \A pc \in TurnSteps : [turn EXCEPT !.pc = pc] \in Turns
           /\ \A pc \in TurnSteps, b \in BOOLEAN : [turn EXCEPT !.pc = pc, !.dies = b] \in Turns
           /\ Idle \in Turns /\ [Idle EXCEPT !.pc = "dead"] \in Turns
BY DEF Turns, Idle, TurnSteps

LEMMA NoMessages == \A S : <<>> \in Seq(S)
OBVIOUS

(* What the parts of an action do *)

LEMMA GotoEffect ==
    ASSUME RunTypes, NEW r \in Roles, NEW pc \in RoleSteps, Goto(r, pc)
    PROVE  /\ role' \in [Roles -> RoleSteps] /\ role'[r] = pc
           /\ \A q \in Roles : q # r => role'[q] = role[q]
BY DEF Goto, RunTypes

LEMMA ToolFailsEffect ==
    ASSUME RunTypes, NEW r \in Roles, ToolFails(r)
    PROVE  /\ role' \in [Roles -> RoleSteps] /\ role'[r] = "ask"
           /\ calling' \in [Roles -> BOOLEAN]
           /\ verdict' \in [Roles -> Verdicts \union {"error"}] /\ verdict'[r] = "error"
           /\ \A q \in Roles : q # r => role'[q] = role[q] /\ verdict'[q] = verdict[q]
BY DEF ToolFails, Goto, RunTypes, RoleSteps

\* An export adds its own output or the one that was journaled, in either place.
LEMMA ExportsEffect ==
    ASSUME RunTypes, GraphTypes, NEW r \in Roles, NEW what \in Kinds, NEW then \in RoleSteps,
           NEW orElse \in RoleSteps, Exports(r, what, then, orElse)
    PROVE  /\ outputs' \in [Roles -> SUBSET Kinds] /\ pend' \in [Roles -> Kinds \union {"none"}]
           /\ role' \in [Roles -> RoleSteps] /\ calling' \in [Roles -> BOOLEAN]
           /\ verdict' \in [Roles -> Verdicts \union {"error"}]
           /\ outputs'[r] \union {pend'[r]} \subseteq outputs[r] \union {pend[r], what, "none"}
           /\ outputs[r] \subseteq outputs'[r]
           /\ role'[r] \in {then, orElse} /\ verdict'[r] \in {verdict[r], "error"}
           /\ \A q \in Roles : q # r =>
                 /\ outputs'[q] = outputs[q] /\ pend'[q] = pend[q]
                 /\ role'[q] = role[q] /\ verdict'[q] = verdict[q]
<1> DEFINE e == IF pend[r] = "none" THEN what ELSE pend[r]
<1>1. e \in Kinds
  BY DEF GraphTypes, Kinds
<1>2. CASE /\ IF what \in outputs[r] THEN UNCHANGED <<outputs, pend>>
              ELSE /\ outputs' = [outputs EXCEPT ![r] = @ \union {e}]
                   /\ pend' = [pend EXCEPT ![r] = "none"]
           /\ Goto(r, then) /\ UNCHANGED <<calling, verdict, faults>>
  <2>1. /\ role' \in [Roles -> RoleSteps] /\ role'[r] = then
        /\ \A q \in Roles : q # r => role'[q] = role[q]
    BY <1>2, GotoEffect
  <2> QED  BY <1>1, <1>2, <2>1 DEF RunTypes, GraphTypes
<1>3. CASE /\ \/ UNCHANGED <<outputs, pend>>
              \/ pend' = [pend EXCEPT ![r] = e] /\ UNCHANGED outputs
              \/ pend' = [pend EXCEPT ![r] = e] /\ outputs' = [outputs EXCEPT ![r] = @ \union {e}]
           /\ Goto(r, orElse)
           /\ IF orElse = "ask"
              THEN calling' = [calling EXCEPT ![r] = FALSE] /\ verdict' = [verdict EXCEPT ![r] = "error"]
              ELSE UNCHANGED <<calling, verdict>>
  <2>1. /\ role' \in [Roles -> RoleSteps] /\ role'[r] = orElse
        /\ \A q \in Roles : q # r => role'[q] = role[q]
    BY <1>3, GotoEffect
  <2>2. /\ outputs' \in [Roles -> SUBSET Kinds] /\ pend' \in [Roles -> Kinds \union {"none"}]
        /\ outputs'[r] \union {pend'[r]} \subseteq outputs[r] \union {pend[r], what, "none"}
        /\ outputs[r] \subseteq outputs'[r]
        /\ \A q \in Roles : q # r => outputs'[q] = outputs[q] /\ pend'[q] = pend[q]
    BY <1>1, <1>3 DEF GraphTypes
  <2>3. /\ calling' \in [Roles -> BOOLEAN] /\ verdict' \in [Roles -> Verdicts \union {"error"}]
        /\ verdict'[r] \in {verdict[r], "error"}
        /\ \A q \in Roles : q # r => verdict'[q] = verdict[q]
    BY <1>3 DEF RunTypes
  <2> QED  BY <2>1, <2>2, <2>3
<1> QED  BY <1>2, <1>3 DEF Exports

LEMMA EnqueueEffect ==
    ASSUME QueueTypes, NEW msg \in Messages, Enqueue(msg)
    PROVE  /\ fifo' \in Seq(Messages) /\ meta' \in Seq(BOOLEAN) /\ pending' = pending + 1
           /\ Len(fifo') = Len(fifo) + 1 /\ Len(meta') = Len(meta) + 1
           /\ ToSet(fifo') = ToSet(fifo) \union {msg}
           /\ \A i \in 1..Len(fifo) : fifo'[i] = fifo[i]
           /\ \A i \in 1..Len(meta) : meta'[i] = meta[i]
           /\ fifo'[Len(fifo) + 1] = msg /\ meta'[Len(meta) + 1] = (msg[1] = "user")
<1>1. (msg[1] = "user") \in BOOLEAN
  OBVIOUS
<1> QED  BY <1>1, Appended DEF Enqueue, QueueTypes

\* A run that ends reports to the manager, or stops it.
LEMMA SettleEffect ==
    ASSUME QueueTypes, GraphTypes, RunTypes, NEW t \in Tasks, NEW how \in {"done", "failed"},
           Settle(t, how)
    PROVE  /\ run' = [run EXCEPT ![t] = "ended"] /\ run' \in [Tasks -> {"off", "on", "ended"}]
           /\ outcome' \in {outcome, [outcome EXCEPT ![t] = how]}
           /\ outcome' \in [Tasks -> {"none", "active", "done", "failed"}]
           /\ \/ \E msg \in Messages : Enqueue(msg) /\ msg[1] # "user" /\ UNCHANGED err
              \/ Stopped /\ UNCHANGED <<fifo, meta>>
<1>1. run' \in [Tasks -> {"off", "on", "ended"}] /\ run' = [run EXCEPT ![t] = "ended"]
  BY DEF Settle, RunTypes
<1>2. outcome' \in {outcome, [outcome EXCEPT ![t] = how]}
      /\ outcome' \in [Tasks -> {"none", "active", "done", "failed"}]
  BY DEF Settle, GraphTypes
<1>3. ASSUME Enqueue(<<IF t[2] = "own" THEN "report" ELSE "helped", t[1]>>), UNCHANGED err
      PROVE  \E msg \in Messages : Enqueue(msg) /\ msg[1] # "user" /\ UNCHANGED err
  <2> DEFINE msg == <<IF t[2] = "own" THEN "report" ELSE "helped", t[1]>>
  <2>1. msg \in Messages /\ msg[1] # "user"
    BY Tuples, MessageKinds
  <2> QED  BY <1>3, <2>1
<1> QED  BY <1>1, <1>2, <1>3 DEF Settle

(* One verdict for a request *)

Provided(r) == request[r] = "configured" /\ returns[r]

\* What the graph says of a request, and what its requester got, grow together.
HelpFacts(r) ==
    /\ verdict[r] = "declined" => request[r] = "declined"
    /\ outcome[Help(r)] # "none" \/ run[Help(r)] = "on" => request[r] = "configured"
    /\ role[r] = "save" => request[r] = "none"
    /\ role[r] \in {"known", "resume"} \/ closed[r] => request[r] \in {"configured", "declined"}
    /\ batch[r] # {} => /\ request[r] \in {"configured", "declined"}
                        /\ Provided(r) => "help" \in batch[r]
    /\ "resume" \in outputs[r] \union {pend[r]} =>
          /\ request[r] \in {"configured", "declined"}
          /\ Provided(r) => "help" \in batch[r] /\ helper[r] = "ok"
HelpInv == \A r \in Roles : HelpFacts(r)

(* No request is forgotten *)

Attended(r) == \/ <<"notice", r>> \in ToSet(fifo)
               \/ (turn.of = <<"notice", r>> /\ turn.pc \notin {"idle", "done", "finish"})
               \/ turn.pc = "dead" \/ r \in orphans

\* A role whose notice is out has a request, and somebody attends to it.
WaitFacts(r) ==
    /\ role[r] \in {"notify", "waiting"} /\ ~closed[r] => request[r] \in {"open", "configured"}
    /\ role[r] = "waiting" /\ ~closed[r] => Attended(r)
WaitInv == \A r \in Roles : WaitFacts(r)

(* The counter of what is pending *)

\* A living manager counts its queue and its turn.
PendingInv ==
    ~err /\ turn.pc # "dead" =>
        /\ pending = Len(fifo) + (IF turn.pc \in {"idle", "finish"} THEN 0 ELSE 1)
        /\ turn.pc \in {"idle", "finish"} => \A t \in Tasks : outcome[t] = "active" => run[t] # "off"

(* The messages of the manager *)

\* Once a role's answer is accepted nothing more is.
InboxFacts(r) ==
    /\ seen[r] <= inbox[r]
    /\ r \in Real /\ (role[r] = "export" \/ (role[r] = "over" /\ "role" \notin outputs[r]))
          => seen[r] = inbox[r]
InboxInv == \A r \in Roles : InboxFacts(r)

(* The two queues, and what is remembered as the user's *)

Said(u) == <<"user", u>>
Fresh   == turn.pc = "begin" /\ ~turn.resumed
Again   == turn.pc = "resume" \/ (turn.pc = "begin" /\ turn.resumed)
Ahead   == IF Fresh \/ Again THEN 1 ELSE 0
Begun   == turn.pc \in {"hear", "work", "commit", "discard", "after", "done"} \/ Again

\* While the loop lives every message has its entry, and so has a turn that has not begun.
StepInv ==
    /\ turn.pc # "dead" => /\ Len(meta) = Len(fifo) + Ahead
                           /\ \A i \in 1..Len(fifo) : meta[i + Ahead] <=> fifo[i][1] = "user"
    /\ Fresh => (meta[1] <=> turn.msg[1] = "user")
    /\ Again => ~meta[1]
    /\ Fresh \/ turn.pc = "hear" => turn.msg = turn.of

SaidFacts(u) ==
    /\ \A i, j \in 1..Len(fifo) : fifo[i] = Said(u) /\ fifo[j] = Said(u) => i = j
    /\ Said(u) \in ToSet(fifo) => u \in sent /\ projected[u] = 0 /\ ~(Fresh /\ turn.msg = Said(u))
    /\ Fresh /\ turn.msg = Said(u) => u \in sent /\ projected[u] = 0
    /\ u \notin sent => projected[u] = 0
    /\ projected[u] <= 1
    /\ Begun /\ turn.of = Said(u) => projected[u] = 1
    /\ Said(u) \in ToSet(heard) => projected[u] = 1
    /\ u \in answered => projected[u] = 1
SaidInv == StepInv /\ \A u \in Users : SaidFacts(u)

LEMMA TypingStep == Typing /\ [Next]_vars => Typing'
<1> SUFFICES ASSUME Typing, [Next]_vars PROVE Typing'
  OBVIOUS
<1>1. CASE NextMessage
  <2>1. QueueTypes'
    BY <1>1, Shortened DEF NextMessage, Idle, Turns, TurnSteps, Typing, QueueTypes, graph,
         running, ghosts, limits
  <2>2. GraphTypes'
    BY <1>1 DEF NextMessage, Typing, GraphTypes, graph, running, ghosts, limits
  <2>3. RunTypes'
    BY <1>1 DEF NextMessage, Typing, RunTypes, graph, running, ghosts, limits
  <2>4. GhostTypes'
    BY <1>1 DEF NextMessage, Typing, GhostTypes, graph, running, ghosts, limits
  <2> QED  BY <2>1, <2>2, <2>3, <2>4 DEF Typing
<1>2. CASE Resume
  <2>1. QueueTypes'
    BY <1>2, Shortened DEF Resume, Idle, Turns, TurnSteps, Typing, QueueTypes, queue, graph,
         running, ghosts, limits
  <2>2. GraphTypes'
    BY <1>2 DEF Resume, Typing, GraphTypes, queue, graph, running, ghosts, limits
  <2>3. RunTypes'
    BY <1>2 DEF Resume, Typing, RunTypes, queue, graph, running, ghosts, limits
  <2>4. GhostTypes'
    BY <1>2 DEF Resume, Typing, GhostTypes, queue, graph, running, ghosts, limits
  <2> QED  BY <2>1, <2>2, <2>3, <2>4 DEF Typing
<1>3. CASE FinishCommitted
  <2>1. QueueTypes'
    BY <1>3, TurnGoesOn DEF FinishCommitted, TurnSteps, Typing, QueueTypes, queue, graph,
         running, ghosts, limits
  <2>2. GraphTypes'
    BY <1>3 DEF FinishCommitted, Typing, GraphTypes, queue, graph, running, ghosts, limits
  <2>3. RunTypes'
    BY <1>3 DEF FinishCommitted, Typing, RunTypes, queue, graph, running, ghosts, limits
  <2>4. GhostTypes'
    BY <1>3 DEF FinishCommitted, Typing, GhostTypes, queue, graph, running, ghosts, limits
  <2> QED  BY <2>1, <2>2, <2>3, <2>4 DEF Typing
<1>4. CASE BeforeTurn
  <2>1. QueueTypes'
    <3>1. CASE meta = <<>>
      <4>1. Stopped /\ turn' = [turn EXCEPT !.pc = "dead"] /\ UNCHANGED <<meta, fifo, heard, file, final>>
        BY <1>4, <3>1, Zenon DEF BeforeTurn
      <4> QED  BY <4>1, TurnGoesOn DEF Stopped, TurnSteps, Typing, QueueTypes
    <3>2. CASE meta # <<>>
      <4>0. meta' = Tail(meta) /\ UNCHANGED <<fifo, pending, err, heard, file, final>>
        BY <1>4, <3>2, Zenon DEF BeforeTurn
      <4>1. meta' \in Seq(BOOLEAN) /\ UNCHANGED <<fifo, pending, err, heard, file, final>>
        BY <3>2, <4>0, Shortened DEF Typing, QueueTypes
      <4>2. turn' \in Turns
        BY <1>4, <3>2, TurnGoesOn DEF BeforeTurn, TurnSteps, Typing, QueueTypes
      <4> QED  BY <4>1, <4>2 DEF Typing, QueueTypes
    <3> QED  BY <3>1, <3>2
  <2>2. GraphTypes'
    BY <1>4 DEF BeforeTurn, Typing, GraphTypes, graph, running, limits
  <2>3. RunTypes'
    BY <1>4 DEF BeforeTurn, Typing, RunTypes, graph, running, limits
  <2>4. GhostTypes'
    <3>1. projected' \in [Users -> Nat]
      <4>1. CASE meta = <<>>
        BY <1>4, <4>1 DEF BeforeTurn, Typing, GhostTypes, graph, running, limits
      <4>2. CASE meta # <<>>
        <5> DEFINE by(u) == IF Head(meta) /\ turn.msg = <<"user", u>> THEN 1 ELSE 0
        <5>1. projected' = [u \in Users |-> projected[u] + by(u)]
          BY <1>4, <4>2 DEF BeforeTurn
        <5>2. \A u \in Users : by(u) \in Nat
          OBVIOUS
        <5> HIDE DEF by
        <5> QED  BY <5>1, <5>2 DEF Typing, GhostTypes
      <4> QED  BY <4>1, <4>2
    <3> QED  BY <1>4, <3>1 DEF BeforeTurn, Typing, GhostTypes, graph, running, limits
  <2> QED  BY <2>1, <2>2, <2>3, <2>4 DEF Typing
<1>5. CASE Hear
  <2>1. QueueTypes'
    <3>1. turn.msg \in Messages \union {None}
      BY DEF Turns, Typing, QueueTypes
    <3> QED  BY <1>5, <3>1, TurnGoesOn, Appended DEF Hear, TurnSteps, Typing, QueueTypes, queue,
         graph, running, ghosts, limits
  <2>2. GraphTypes'
    BY <1>5 DEF Hear, Typing, GraphTypes, queue, graph, running, ghosts, limits
  <2>3. RunTypes'
    BY <1>5 DEF Hear, Typing, RunTypes, queue, graph, running, ghosts, limits
  <2>4. GhostTypes'
    BY <1>5 DEF Hear, Typing, GhostTypes, queue, graph, running, ghosts, limits
  <2> QED  BY <2>1, <2>2, <2>3, <2>4 DEF Typing
<1>6. CASE Answer
  <2>1. QueueTypes'
    BY <1>6, TurnGoesOn DEF Answer, TurnSteps, Typing, QueueTypes, queue, graph, running,
         ghosts, limits
  <2>2. GraphTypes'
    BY <1>6 DEF Answer, Typing, GraphTypes, queue, graph, running, ghosts, limits
  <2>3. RunTypes'
    BY <1>6 DEF Answer, Typing, RunTypes, Ready, queue, graph, running, ghosts, limits
  <2>4. GhostTypes'
    BY <1>6 DEF Answer, Typing, GhostTypes, queue, graph, running, ghosts, limits
  <2> QED  BY <2>1, <2>2, <2>3, <2>4 DEF Typing
<1>7. CASE Commit
  <2>1. QueueTypes'
    BY <1>7, TurnGoesOn, NoMessages DEF Commit, TurnSteps, Typing, QueueTypes, queue, graph,
         running, ghosts, limits
  <2>2. GraphTypes'
    BY <1>7 DEF Commit, Typing, GraphTypes, queue, graph, running, ghosts, limits
  <2>3. RunTypes'
    BY <1>7 DEF Commit, Typing, RunTypes, queue, graph, running, ghosts, limits
  <2>4. GhostTypes'
    BY <1>7 DEF Commit, Typing, GhostTypes, queue, graph, running, ghosts, limits
  <2> QED  BY <2>1, <2>2, <2>3, <2>4 DEF Typing
<1>8. CASE Discard
  <2>1. QueueTypes'
    BY <1>8, TurnGoesOn DEF Discard, TurnSteps, Typing, QueueTypes, queue, graph, running,
         ghosts, limits
  <2>2. GraphTypes'
    BY <1>8 DEF Discard, Typing, GraphTypes, queue, graph, running, ghosts, limits
  <2>3. RunTypes'
    BY <1>8 DEF Discard, Typing, RunTypes, queue, graph, running, ghosts, limits
  <2>4. GhostTypes'
    BY <1>8 DEF Discard, Typing, GhostTypes, queue, graph, running, ghosts, limits
  <2> QED  BY <2>1, <2>2, <2>3, <2>4 DEF Typing
<1>9. CASE Decline
  <2>1. QueueTypes'
    BY <1>9, TurnGoesOn DEF Decline, TurnSteps, Typing, QueueTypes, queue, graph, running,
         ghosts, limits
  <2>2. GraphTypes'
    BY <1>9 DEF Decline, Typing, GraphTypes, Undecided, Verdicts, queue, graph, running, ghosts,
         limits
  <2>3. RunTypes'
    BY <1>9 DEF Decline, Typing, RunTypes, Undecided, queue, graph, running, ghosts, limits
  <2>4. GhostTypes'
    BY <1>9 DEF Decline, Typing, GhostTypes, Undecided, queue, graph, running, ghosts, limits
  <2> QED  BY <2>1, <2>2, <2>3, <2>4 DEF Typing
<1>10. CASE TurnDone
  <2>1. QueueTypes'
    <3>1. pending' \in Nat
      BY <1>10 DEF TurnDone, Typing, QueueTypes
    <3>2. turn' \in Turns
      BY <1>10, TurnGoesOn DEF TurnDone, Typing, QueueTypes
    <3> QED  BY <1>10, <3>1, <3>2 DEF TurnDone, Typing, QueueTypes, queue, graph, running,
         ghosts, limits
  <2>2. GraphTypes'
    BY <1>10 DEF TurnDone, Typing, GraphTypes, queue, graph, running, ghosts, limits
  <2>3. RunTypes'
    BY <1>10 DEF TurnDone, Typing, RunTypes, Ready, queue, graph, running, ghosts, limits
  <2>4. GhostTypes'
    BY <1>10 DEF TurnDone, Typing, GhostTypes, queue, graph, running, ghosts, limits
  <2> QED  BY <2>1, <2>2, <2>3, <2>4 DEF Typing
<1>11. CASE Compact
  BY <1>11, Tuples, MessageKinds, Appended, Shortened, PutInFront DEF Compact, Typing,
       QueueTypes, GraphTypes, RunTypes, GhostTypes, queue, graph, running, ghosts, limits,
       TurnSteps, RoleSteps, Kinds, Verdicts
<1>12. CASE CutOff
  <2>1. QueueTypes'
    <3>1. meta' \in Seq(BOOLEAN)
      BY <1>12, PutInFront DEF CutOff, Recover, Typing, QueueTypes
    <3> QED  BY <1>12, <3>1, TurnGoesOn DEF CutOff, Recover, TurnSteps, Typing, QueueTypes,
         queue, graph, running, ghosts, limits
  <2>2. GraphTypes'
    BY <1>12 DEF CutOff, Typing, GraphTypes, queue, graph, running, ghosts, limits
  <2>3. RunTypes'
    BY <1>12 DEF CutOff, Typing, RunTypes, queue, graph, running, ghosts, limits
  <2>4. GhostTypes'
    BY <1>12 DEF CutOff, Typing, GhostTypes, queue, graph, running, ghosts, limits
  <2> QED  BY <2>1, <2>2, <2>3, <2>4 DEF Typing
<1>13. CASE Fail
  <2>1. QueueTypes'
    BY <1>13, TurnGoesOn DEF Fail, Stopped, TurnSteps, Typing, QueueTypes, queue, graph,
         running, ghosts, limits
  <2>2. GraphTypes'
    BY <1>13 DEF Fail, Typing, GraphTypes, queue, graph, running, ghosts, limits
  <2>3. RunTypes'
    BY <1>13 DEF Fail, Typing, RunTypes, queue, graph, running, ghosts, limits
  <2>4. GhostTypes'
    BY <1>13 DEF Fail, Typing, GhostTypes, queue, graph, running, ghosts, limits
  <2> QED  BY <2>1, <2>2, <2>3, <2>4 DEF Typing
<1>14. CASE Preempt
  <2>1. QueueTypes'
    <3>1. PICK inHook \in BOOLEAN : turn' = [turn EXCEPT !.pc = "after", !.dies = inHook]
      BY <1>14 DEF Preempt
    <3>2. turn' \in Turns
      BY <3>1, TurnGoesOn DEF TurnSteps, Typing, QueueTypes
    <3> QED  BY <1>14, <3>2 DEF Preempt, Typing, QueueTypes, queue, graph, running, ghosts,
         limits
  <2>2. GraphTypes'
    BY <1>14 DEF Preempt, Typing, GraphTypes, queue, graph, running, ghosts, limits
  <2>3. RunTypes'
    BY <1>14 DEF Preempt, Typing, RunTypes, queue, graph, running, ghosts, limits
  <2>4. GhostTypes'
    BY <1>14 DEF Preempt, Typing, GhostTypes, queue, graph, running, ghosts, limits
  <2> QED  BY <2>1, <2>2, <2>3, <2>4 DEF Typing
<1>15. CASE DeclineFails
  <2>1. QueueTypes'
    BY <1>15, TurnGoesOn DEF DeclineFails, Stopped, TurnSteps, Typing, QueueTypes, queue, graph,
         running, ghosts, limits
  <2>2. GraphTypes'
    BY <1>15 DEF DeclineFails, Typing, GraphTypes, queue, graph, running, ghosts, limits
  <2>3. RunTypes'
    BY <1>15 DEF DeclineFails, Typing, RunTypes, queue, graph, running, ghosts, limits
  <2>4. GhostTypes'
    BY <1>15 DEF DeclineFails, Typing, GhostTypes, queue, graph, running, ghosts, limits
  <2> QED  BY <2>1, <2>2, <2>3, <2>4 DEF Typing
<1>16. CASE Restart
  <2>1. QueueTypes'
    <3>1. turn' \in Turns
      <4>1. heard # <<>> => Last(heard) \in Messages \union {None}
        BY DEF Last, Typing, QueueTypes
      <4> QED  BY <1>16, <4>1, ZenonT(60) DEF Restart, Idle, Turns, TurnSteps, Typing, QueueTypes
    <3>2. meta' \in Seq(BOOLEAN) /\ Len(meta') \in Nat
      <4>1. <<FALSE>> \in Seq(BOOLEAN) /\ Len(<<FALSE>>) = 1
        OBVIOUS
      <4>2. meta' \in {<<>>, <<FALSE>>}
        BY <1>16 DEF Restart
      <4> QED  BY <4>1, <4>2, NoMessages
    <3> QED  BY <1>16, <3>1, <3>2, NoMessages DEF Restart, Typing, QueueTypes, graph
  <2>2. GraphTypes'
    BY <1>16 DEF Restart, Typing, GraphTypes, graph
  <2>3. RunTypes'
    BY <1>16 DEF Restart, Typing, RunTypes, RoleSteps, Verdicts, graph
  <2>4. GhostTypes'
    BY <1>16 DEF Restart, Typing, GhostTypes, graph
  <2> QED  BY <2>1, <2>2, <2>3, <2>4 DEF Typing
<1>17. ASSUME NEW u \in Users, UserSends(u) PROVE Typing'
  BY <1>17, Tuples, MessageKinds, Appended, Shortened, PutInFront DEF UserSends, Enqueue,
       Typing, QueueTypes, GraphTypes, RunTypes, GhostTypes, loop, graph, running, ghosts,
       TurnSteps, RoleSteps, Kinds, Verdicts
<1>18. ASSUME NEW r \in Roles, Enter(r) PROVE Typing'
  BY <1>18, Tuples, MessageKinds, Appended, Shortened, PutInFront DEF Enter, Goto, Typing,
       QueueTypes, GraphTypes, RunTypes, GhostTypes, queue, loop, graph, running, ghosts,
       limits, TurnSteps, RoleSteps, Kinds, Verdicts
<1>19. ASSUME NEW r \in Roles, Ask(r) PROVE Typing'
  BY <1>19, Tuples, MessageKinds, Appended, Shortened, PutInFront DEF Ask, Goto, Typing,
       QueueTypes, GraphTypes, RunTypes, GhostTypes, queue, loop, graph, running, ghosts,
       limits, TurnSteps, RoleSteps, Kinds, Verdicts
<1>20. ASSUME NEW r \in Roles, Answers(r) PROVE Typing'
  BY <1>20, Tuples, MessageKinds, Appended, Shortened, PutInFront DEF Answers, Goto, Typing,
       QueueTypes, GraphTypes, RunTypes, GhostTypes, queue, loop, graph, running, ghosts,
       limits, TurnSteps, RoleSteps, Kinds, Verdicts
<1>21. ASSUME NEW r \in Roles, ExportsRole(r) PROVE Typing'
  <2>1. QueueTypes'
    BY <1>21 DEF ExportsRole, Typing, QueueTypes, queue, loop, graph, running, ghosts, limits
  <2>2. GraphTypes'
    <3>1. CASE Exports(r, "role", "over", "failed")
      BY <1>21, <3>1, ExportsEffect DEF ExportsRole, Typing, RunTypes, GraphTypes, Kinds,
           RoleSteps, queue, loop, graph, running, ghosts, limits
    <3> QED  BY <1>21, <3>1 DEF ExportsRole
  <2>3. RunTypes'
    <3>1. CASE Exports(r, "role", "over", "failed")
      BY <1>21, <3>1, ExportsEffect, ZenonT(60) DEF ExportsRole, Typing, RunTypes, GraphTypes, Kinds,
           RoleSteps, queue, loop, graph, running, ghosts, limits
    <3> QED  BY <1>21, <3>1 DEF ExportsRole
  <2>4. GhostTypes'
    BY <1>21 DEF ExportsRole, Typing, GhostTypes, queue, loop, graph, running, ghosts, limits
  <2> QED  BY <2>1, <2>2, <2>3, <2>4 DEF Typing
<1>22. ASSUME NEW r \in Roles, Ends(r) PROVE Typing'
  <2>0. PICK how \in {"done", "failed"} : Settle(Own(r), how)
    BY <1>22 DEF Ends
  <2>1. QueueTypes'
    <3>1. CASE \E msg \in Messages : Enqueue(msg) /\ UNCHANGED err
      BY <1>22, <3>1, EnqueueEffect DEF Ends, Typing, QueueTypes, queue, loop, graph, running,
           ghosts, limits
    <3>2. CASE Stopped /\ UNCHANGED <<fifo, meta>>
      BY <1>22, <3>2 DEF Ends, Stopped, Typing, QueueTypes, queue, loop, graph, running, ghosts,
           limits
    <3> QED  BY <2>0, <3>1, <3>2, SettleEffect, Tuples DEF Typing
  <2>2. GraphTypes'
    BY <1>22, <2>0, SettleEffect, Tuples DEF Ends, Typing, GraphTypes, queue, loop, graph,
         running, ghosts, limits
  <2>3. RunTypes'
    BY <1>22, <2>0, SettleEffect, Tuples DEF Ends, Typing, RunTypes, queue, loop, graph,
         running, ghosts, limits
  <2>4. GhostTypes'
    BY <1>22 DEF Ends, Typing, GhostTypes, queue, loop, graph, running, ghosts, limits
  <2> QED  BY <2>1, <2>2, <2>3, <2>4 DEF Typing
<1>23. ASSUME NEW r \in Roles, Freeze(r) PROVE Typing'
  <2>1. QueueTypes'
    BY <1>23 DEF Freeze, Typing, QueueTypes, queue, loop, graph, running, ghosts, limits
  <2>2. GraphTypes'
    <3>1. CASE Exports(r, "pause", "save", "ask")
      BY <1>23, <3>1, ExportsEffect, ZenonT(60)
         DEF Freeze, Typing, RunTypes, GraphTypes, Kinds, RoleSteps,
           queue, loop, graph, running, ghosts, limits
    <3>2. CASE ToolFails(r) /\ UNCHANGED <<outputs, pend>>
      BY <1>23, <3>2, ToolFailsEffect DEF Freeze, Typing, RunTypes, GraphTypes, queue, loop,
           graph, running, ghosts, limits
    <3> QED  BY <1>23, <3>1, <3>2 DEF Freeze
  <2>3. RunTypes'
    <3>1. CASE Exports(r, "pause", "save", "ask")
      BY <1>23, <3>1, ExportsEffect, ZenonT(60)
         DEF Freeze, Typing, RunTypes, GraphTypes, Kinds, RoleSteps,
           queue, loop, graph, running, ghosts, limits
    <3>2. CASE ToolFails(r) /\ UNCHANGED <<outputs, pend>>
      BY <1>23, <3>2, ToolFailsEffect DEF Freeze, Typing, RunTypes, queue, loop, graph, running,
           ghosts, limits
    <3> QED  BY <1>23, <3>1, <3>2 DEF Freeze
  <2>4. GhostTypes'
    BY <1>23 DEF Freeze, Typing, GhostTypes, queue, loop, graph, running, ghosts, limits
  <2> QED  BY <2>1, <2>2, <2>3, <2>4 DEF Typing
<1>24. ASSUME NEW r \in Roles, SaveRequest(r) PROVE Typing'
  <2>1. QueueTypes'
    BY <1>24 DEF SaveRequest, Typing, QueueTypes, queue, loop, graph, running, ghosts, limits
  <2>2. GraphTypes'
    BY <1>24 DEF SaveRequest, Typing, GraphTypes, Verdicts, queue, loop, graph, running, ghosts,
         limits
  <2>3. RunTypes'
    <3>1. CASE Goto(r, "notify") /\ UNCHANGED <<calling, verdict>>
      BY <1>24, <3>1, GotoEffect DEF SaveRequest, RoleSteps, Typing, RunTypes, queue, loop,
           graph, running, ghosts, limits
    <3>2. CASE ToolFails(r)
      BY <1>24, <3>2, ToolFailsEffect DEF SaveRequest, Typing, RunTypes, queue, loop, graph,
           running, ghosts, limits
    <3> QED  BY <1>24, <3>1, <3>2 DEF SaveRequest
  <2>4. GhostTypes'
    BY <1>24 DEF SaveRequest, Typing, GhostTypes, queue, loop, graph, running, ghosts, limits
  <2> QED  BY <2>1, <2>2, <2>3, <2>4 DEF Typing
<1>25. ASSUME NEW r \in Roles, FindRequest(r) PROVE Typing'
  BY <1>25, Tuples, MessageKinds, Appended, Shortened, PutInFront DEF FindRequest, Known, Goto,
       Typing, QueueTypes, GraphTypes, RunTypes, GhostTypes, queue, loop, graph, running,
       ghosts, limits, TurnSteps, RoleSteps, Kinds, Verdicts
<1>26. ASSUME NEW r \in Roles, Notify(r) PROVE Typing'
  <2>1. QueueTypes'
    <3>1. Enqueue(<<"notice", r>>) /\ UNCHANGED <<err, loop>>
      BY <1>26 DEF Notify
    <3>2. <<"notice", r>> \in Messages /\ QueueTypes
      BY MessageKinds DEF Typing
    <3>3. fifo' \in Seq(Messages) /\ meta' \in Seq(BOOLEAN) /\ pending' = pending + 1
      BY <3>1, <3>2, EnqueueEffect
    <3> QED  BY <3>1, <3>2, <3>3 DEF QueueTypes, loop
  <2>2. GraphTypes'
    BY <1>26 DEF Notify, Typing, GraphTypes, loop, graph, ghosts, limits
  <2>3. RunTypes'
    <3>1. Goto(r, "waiting")
      BY <1>26 DEF Notify
    <3>2. role' \in [Roles -> RoleSteps]
      BY <3>1, GotoEffect DEF RoleSteps, Typing
    <3> QED  BY <1>26, <3>2 DEF Notify, Typing, RunTypes, loop, graph, ghosts, limits
  <2>4. GhostTypes'
    BY <1>26 DEF Notify, Typing, GhostTypes, loop, graph, ghosts, limits
  <2> QED  BY <2>1, <2>2, <2>3, <2>4 DEF Typing
<1>27. ASSUME NEW r \in Roles, Decided(r) PROVE Typing'
  <2>1. QueueTypes'
    BY <1>27 DEF Decided, Typing, QueueTypes, queue, loop, graph, ghosts, limits
  <2>2. GraphTypes'
    BY <1>27 DEF Decided, Typing, GraphTypes, queue, loop, graph, ghosts, limits
  <2>3. RunTypes'
    <3>1. CASE closed' = [closed EXCEPT ![r] = TRUE] /\ Goto(r, "waiting") /\ UNCHANGED <<calling, verdict>>
      BY <1>27, <3>1, GotoEffect DEF Decided, RoleSteps, Typing, RunTypes, queue, loop, graph,
           ghosts, limits
    <3>2. CASE ToolFails(r) /\ UNCHANGED closed
      BY <1>27, <3>2, ToolFailsEffect DEF Decided, Typing, RunTypes, queue, loop, graph, ghosts,
           limits
    <3> QED  BY <1>27, <3>1, <3>2 DEF Decided
  <2>4. GhostTypes'
    BY <1>27 DEF Decided, Typing, GhostTypes, queue, loop, graph, ghosts, limits
  <2> QED  BY <2>1, <2>2, <2>3, <2>4 DEF Typing
<1>28. ASSUME NEW r \in Roles, Wake(r) PROVE Typing'
  BY <1>28, Tuples, MessageKinds, Appended, Shortened, PutInFront DEF Wake, Goto, Typing,
       QueueTypes, GraphTypes, RunTypes, GhostTypes, queue, loop, graph, ghosts, limits,
       TurnSteps, RoleSteps, Kinds, Verdicts
<1>29. ASSUME NEW r \in Roles, ResumeHelp(r) PROVE Typing'
  <2>1. QueueTypes'
    BY <1>29 DEF ResumeHelp, Typing, QueueTypes, queue, loop, graph, ghosts, limits
  <2>2. GraphTypes'
    <3>1. CASE Exports(r, "resume", "back", "ask")
      BY <1>29, <3>1, ExportsEffect, ZenonT(60) DEF ResumeHelp, Typing, RunTypes, GraphTypes, Kinds,
           RoleSteps, queue, loop, graph, ghosts, limits
    <3>2. CASE ToolFails(r) /\ UNCHANGED <<outputs, pend>>
      BY <1>29, <3>2, ToolFailsEffect DEF ResumeHelp, Typing, RunTypes, GraphTypes, queue, loop,
           graph, ghosts, limits
    <3> QED  BY <1>29, <3>1, <3>2 DEF ResumeHelp
  <2>3. RunTypes'
    <3>0. batch' \in [Roles -> SUBSET {"pause", "help"}]
      <4>1. Sources(r) \subseteq {"pause", "help"}
        BY DEF Sources, Typing, RunTypes
      <4> QED  BY <1>29, <4>1 DEF ResumeHelp, Typing, RunTypes
    <3>1. CASE Exports(r, "resume", "back", "ask")
      BY <1>29, <3>0, <3>1, ExportsEffect, ZenonT(60)
         DEF ResumeHelp, Typing, RunTypes, GraphTypes, Kinds, RoleSteps, queue, loop, graph,
             ghosts, limits
    <3>2. CASE ToolFails(r) /\ UNCHANGED <<outputs, pend>>
      BY <1>29, <3>0, <3>2, ToolFailsEffect DEF ResumeHelp, Typing, RunTypes, queue, loop,
           graph, ghosts, limits
    <3> QED  BY <1>29, <3>1, <3>2 DEF ResumeHelp
  <2>4. GhostTypes'
    BY <1>29 DEF ResumeHelp, Typing, GhostTypes, queue, loop, graph, ghosts, limits
  <2> QED  BY <2>1, <2>2, <2>3, <2>4 DEF Typing
<1>30. ASSUME NEW r \in Roles, ResumeRefused(r) PROVE Typing'
  BY <1>30, Tuples, MessageKinds, Appended, Shortened, PutInFront DEF ResumeRefused, Goto,
       Sources, Typing, QueueTypes, GraphTypes, RunTypes, GhostTypes, queue, loop, graph,
       ghosts, limits, TurnSteps, RoleSteps, Kinds, Verdicts
<1>31. ASSUME NEW r \in Roles, Returns(r) PROVE Typing'
  BY <1>31, Tuples, MessageKinds, Appended, Shortened, PutInFront DEF Returns, Goto, Typing,
       QueueTypes, GraphTypes, RunTypes, GhostTypes, queue, loop, graph, ghosts, limits,
       TurnSteps, RoleSteps, Kinds, Verdicts
<1>32. ASSUME NEW r \in Roles, CallsHelp(r) PROVE Typing'
  BY <1>32, Tuples, MessageKinds, Appended, Shortened, PutInFront DEF CallsHelp, Goto, Typing,
       QueueTypes, GraphTypes, RunTypes, GhostTypes, queue, loop, graph, ghosts, limits,
       TurnSteps, RoleSteps, Kinds, Verdicts
<1>33. ASSUME NEW r \in Roles, HelperWorks(r) PROVE Typing'
  BY <1>33, Tuples, MessageKinds, Appended, Shortened, PutInFront DEF HelperWorks, Typing,
       QueueTypes, GraphTypes, RunTypes, GhostTypes, queue, loop, graph, ghosts, limits,
       TurnSteps, RoleSteps, Kinds, Verdicts
<1>34. ASSUME NEW r \in Roles, HelperEnds(r) PROVE Typing'
  <2>0. PICK how \in {"done", "failed"} : Settle(Help(r), how)
    BY <1>34 DEF HelperEnds
  <2>1. QueueTypes'
    <3>1. CASE \E msg \in Messages : Enqueue(msg) /\ UNCHANGED err
      BY <1>34, <3>1, EnqueueEffect DEF HelperEnds, Typing, QueueTypes, queue, loop, graph,
           ghosts, limits
    <3>2. CASE Stopped /\ UNCHANGED <<fifo, meta>>
      BY <1>34, <3>2 DEF HelperEnds, Stopped, Typing, QueueTypes, queue, loop, graph, ghosts,
           limits
    <3> QED  BY <2>0, <3>1, <3>2, SettleEffect, Tuples DEF Typing
  <2>2. GraphTypes'
    BY <1>34, <2>0, SettleEffect, Tuples DEF HelperEnds, Typing, GraphTypes, queue, loop, graph,
         ghosts, limits
  <2>3. RunTypes'
    BY <1>34, <2>0, SettleEffect, Tuples DEF HelperEnds, Typing, RunTypes, queue, loop, graph,
         ghosts, limits
  <2>4. GhostTypes'
    BY <1>34 DEF HelperEnds, Typing, GhostTypes, queue, loop, graph, ghosts, limits
  <2> QED  BY <2>1, <2>2, <2>3, <2>4 DEF Typing
<1>35. ASSUME NEW r \in Roles, MessageTask(r) PROVE Typing'
  BY <1>35, Tuples, MessageKinds, Appended, Shortened, PutInFront DEF MessageTask, Typing,
       QueueTypes, GraphTypes, RunTypes, GhostTypes, queue, loop, graph, running, ghosts,
       limits, TurnSteps, RoleSteps, Kinds, Verdicts
<1>36. ASSUME NEW r \in Roles, NEW back \in BOOLEAN, Provide(r, back) PROVE Typing'
  <2>1. QueueTypes'
    BY <1>36 DEF Provide, Typing, QueueTypes, queue, loop, graph, running, ghosts, limits
  <2>2. GraphTypes'
    BY <1>36, Tuples DEF Provide, Undecided, Verdicts, Typing, GraphTypes, queue, loop, graph,
         running, ghosts, limits
  <2>3. RunTypes'
    BY <1>36 DEF Provide, Typing, RunTypes, queue, loop, graph, running, ghosts, limits
  <2>4. GhostTypes'
    BY <1>36 DEF Provide, Typing, GhostTypes, queue, loop, graph, running, ghosts, limits
  <2> QED  BY <2>1, <2>2, <2>3, <2>4 DEF Typing
<1>37. CASE UNCHANGED vars
  BY <1>37 DEF vars, queue, loop, graph, running, ghosts, limits, Typing, QueueTypes,
       GraphTypes, RunTypes, GhostTypes
<1> QED
  BY <1>1, <1>2, <1>3, <1>4, <1>5, <1>6, <1>7, <1>8, <1>9, <1>10, <1>11, <1>12, <1>13,
     <1>14, <1>15, <1>16, <1>17, <1>18, <1>19, <1>20, <1>21, <1>22, <1>23, <1>24,
     <1>25, <1>26, <1>27, <1>28, <1>29, <1>30, <1>31, <1>32, <1>33, <1>34, <1>35,
     <1>36, <1>37 DEF Next, Works, RoleWorks

LEMMA TypingInit == Init => Typing
<1> SUFFICES ASSUME Init PROVE Typing
  OBVIOUS
<1>1. QueueTypes
  BY NoMessages DEF Init, QueueTypes, Turns, Idle, TurnSteps
<1>2. GraphTypes
  BY DEF Init, GraphTypes, Verdicts, Kinds
<1>3. RunTypes
  BY DEF Init, RunTypes, Verdicts, RoleSteps
<1>4. GhostTypes
  BY DEF Init, GhostTypes
<1> QED  BY <1>1, <1>2, <1>3, <1>4 DEF Typing

\* Every variable keeps its type, for any tasks, users and bounds.
THEOREM TypeCorrect == Spec => []Typing
BY TypingInit, TypingStep, PTL DEF Spec

-----------------------------------------------------------------------------
(* The messages of the manager *)

LEMMA InboxStep == Typing /\ InboxInv /\ [Next]_vars => InboxInv'
<1> SUFFICES ASSUME Typing, InboxInv, [Next]_vars PROVE InboxInv'
  OBVIOUS
<1>1. CASE NextMessage
  BY <1>1 DEF NextMessage, Idle, InboxInv, InboxFacts, Typing, RunTypes, GraphTypes, graph,
       running, ghosts, limits
<1>2. CASE Resume
  BY <1>2 DEF Resume, Idle, InboxInv, InboxFacts, Typing, RunTypes, GraphTypes, queue, graph,
       running, ghosts, limits
<1>3. CASE FinishCommitted
  BY <1>3 DEF FinishCommitted, Idle, InboxInv, InboxFacts, Typing, RunTypes, GraphTypes, queue,
       graph, running, ghosts, limits
<1>4. CASE BeforeTurn
  BY <1>4 DEF BeforeTurn, Stopped, InboxInv, InboxFacts, Typing, RunTypes, GraphTypes, queue,
       graph, running, ghosts, limits
<1>5. CASE Hear
  BY <1>5 DEF Hear, InboxInv, InboxFacts, Typing, RunTypes, GraphTypes, queue, graph, running,
       ghosts, limits
<1>6. CASE Answer
  BY <1>6 DEF Answer, Ready, InboxInv, InboxFacts, Typing, RunTypes, GraphTypes, queue, graph,
       running, ghosts, limits
<1>7. CASE Commit
  BY <1>7 DEF Commit, InboxInv, InboxFacts, Typing, RunTypes, GraphTypes, queue, graph, running,
       ghosts, limits
<1>8. CASE Discard
  BY <1>8 DEF Discard, InboxInv, InboxFacts, Typing, RunTypes, GraphTypes, queue, graph,
       running, ghosts, limits
<1>9. CASE Decline
  BY <1>9 DEF Decline, Undecided, InboxInv, InboxFacts, Typing, RunTypes, GraphTypes, queue,
       graph, running, ghosts, limits
<1>10. CASE TurnDone
  BY <1>10 DEF TurnDone, Ready, Idle, InboxInv, InboxFacts, Typing, RunTypes, GraphTypes, queue,
       graph, running, ghosts, limits
<1>11. CASE Compact
  BY <1>11 DEF Compact, InboxInv, InboxFacts, Typing, RunTypes, GraphTypes, queue, graph,
       running, ghosts, limits
<1>12. CASE CutOff
  BY <1>12 DEF CutOff, Recover, InboxInv, InboxFacts, Typing, RunTypes, GraphTypes, queue,
       graph, running, ghosts, limits
<1>13. CASE Fail
  BY <1>13 DEF Fail, Stopped, Fails, InboxInv, InboxFacts, Typing, RunTypes, GraphTypes, queue,
       graph, running, ghosts, limits
<1>14. CASE Preempt
  BY <1>14 DEF Preempt, InboxInv, InboxFacts, Typing, RunTypes, GraphTypes, queue, graph,
       running, ghosts, limits
<1>15. CASE DeclineFails
  BY <1>15 DEF DeclineFails, Stopped, Fails, InboxInv, InboxFacts, Typing, RunTypes, GraphTypes,
       queue, graph, running, ghosts, limits
<1>16. CASE Restart
  BY <1>16 DEF Restart, Idle, InboxInv, InboxFacts, Typing, RunTypes, GraphTypes, queue, graph,
       running, ghosts, limits
<1>17. ASSUME NEW u \in Users, UserSends(u) PROVE InboxInv'
  BY <1>17 DEF UserSends, Enqueue, InboxInv, InboxFacts, Typing, RunTypes, GraphTypes, queue,
       loop, graph, running, ghosts, limits
<1>18. ASSUME NEW r \in Roles, Enter(r) PROVE InboxInv'
  BY <1>18 DEF Enter, Goto, InboxInv, InboxFacts, Typing, RunTypes, GraphTypes, queue, loop,
       graph, running, ghosts, limits
<1>19. ASSUME NEW r \in Roles, Ask(r) PROVE InboxInv'
  BY <1>19 DEF Ask, Goto, InboxInv, InboxFacts, Typing, RunTypes, GraphTypes, queue, loop,
       graph, running, ghosts, limits
<1>20. ASSUME NEW r \in Roles, Answers(r) PROVE InboxInv'
  BY <1>20 DEF Answers, Goto, More, InboxInv, InboxFacts, Typing, RunTypes, GraphTypes, queue,
       loop, graph, running, ghosts, limits
<1>21. ASSUME NEW r \in Roles, ExportsRole(r) PROVE InboxInv'
  <2>0. UNCHANGED <<seen, inbox>> /\ role[r] = "export"
    BY <1>21 DEF ExportsRole
  <2>1. CASE Exports(r, "role", "over", "failed")
    <3>0. "role" \in Kinds /\ "over" \in RoleSteps /\ "failed" \in RoleSteps /\ RunTypes /\ GraphTypes
      BY DEF Kinds, RoleSteps, Typing
    <3>1. /\ role' \in [Roles -> RoleSteps] /\ role'[r] \in {"over", "failed"} /\ outputs[r] \subseteq outputs'[r]
          /\ \A q \in Roles : q # r => role'[q] = role[q] /\ outputs'[q] = outputs[q]
      BY <2>1, <3>0, ExportsEffect
    <3> QED  BY <2>0, <3>1 DEF InboxInv, InboxFacts
  <2> QED  BY <1>21, <2>1 DEF ExportsRole
<1>22. ASSUME NEW r \in Roles, Ends(r) PROVE InboxInv'
  BY <1>22 DEF Ends, Settle, Enqueue, Fails, Stopped, InboxInv, InboxFacts, Typing, RunTypes,
       GraphTypes, loop, ghosts
<1>23. ASSUME NEW r \in Roles, Freeze(r) PROVE InboxInv'
  <2>0. UNCHANGED <<seen, inbox>> /\ role[r] # "export"
    BY <1>23 DEF Freeze
  <2>1. CASE Exports(r, "pause", "save", "ask")
    <3>0. "pause" \in Kinds /\ "save" \in RoleSteps /\ "ask" \in RoleSteps /\ RunTypes /\ GraphTypes
      BY DEF Kinds, RoleSteps, Typing
    <3>1. /\ role' \in [Roles -> RoleSteps] /\ role'[r] \in {"save", "ask"} /\ outputs[r] \subseteq outputs'[r]
          /\ \A q \in Roles : q # r => role'[q] = role[q] /\ outputs'[q] = outputs[q]
      BY <2>1, <3>0, ExportsEffect
    <3> QED  BY <2>0, <3>1 DEF InboxInv, InboxFacts
  <2>2. CASE ToolFails(r) /\ UNCHANGED <<outputs, pend>>
    BY <1>23, <2>2, ToolFailsEffect DEF Freeze, InboxInv, InboxFacts, Typing, RunTypes,
         GraphTypes
  <2> QED  BY <1>23, <2>1, <2>2 DEF Freeze
<1>24. ASSUME NEW r \in Roles, SaveRequest(r) PROVE InboxInv'
  <2>1. role' \in [Roles -> RoleSteps] /\ role'[r] \in {"notify", "ask"}
        /\ \A q \in Roles : q # r => role'[q] = role[q]
    BY <1>24, GotoEffect, ToolFailsEffect DEF SaveRequest, Typing, RoleSteps
  <2> QED  BY <1>24, <2>1 DEF SaveRequest, InboxInv, InboxFacts, Typing, RunTypes, GraphTypes
<1>25. ASSUME NEW r \in Roles, FindRequest(r) PROVE InboxInv'
  BY <1>25 DEF FindRequest, Known, Goto, InboxInv, InboxFacts, Typing, RunTypes, GraphTypes,
       queue, loop, graph, ghosts, limits
<1>26. ASSUME NEW r \in Roles, Notify(r) PROVE InboxInv'
  BY <1>26 DEF Notify, Enqueue, Goto, InboxInv, InboxFacts, Typing, RunTypes, GraphTypes, queue,
       loop, graph, ghosts, limits
<1>27. ASSUME NEW r \in Roles, Decided(r) PROVE InboxInv'
  <2>1. role' \in [Roles -> RoleSteps] /\ role'[r] \in {"waiting", "ask"}
        /\ \A q \in Roles : q # r => role'[q] = role[q]
    BY <1>27, GotoEffect, ToolFailsEffect DEF Decided, Typing, RoleSteps
  <2>2. UNCHANGED <<seen, inbox, outputs>>
    BY <1>27 DEF Decided, graph
  <2> QED  BY <2>1, <2>2 DEF InboxInv, InboxFacts, Typing, RunTypes, GraphTypes
<1>28. ASSUME NEW r \in Roles, Wake(r) PROVE InboxInv'
  BY <1>28 DEF Wake, Goto, InboxInv, InboxFacts, Typing, RunTypes, GraphTypes, queue, loop,
       graph, ghosts, limits
<1>29. ASSUME NEW r \in Roles, ResumeHelp(r) PROVE InboxInv'
  <2>0. UNCHANGED <<seen, inbox>> /\ role[r] # "export"
    BY <1>29 DEF ResumeHelp
  <2>1. CASE Exports(r, "resume", "back", "ask")
    <3>0. "resume" \in Kinds /\ "back" \in RoleSteps /\ "ask" \in RoleSteps /\ RunTypes /\ GraphTypes
      BY DEF Kinds, RoleSteps, Typing
    <3>1. /\ role' \in [Roles -> RoleSteps] /\ role'[r] \in {"back", "ask"} /\ outputs[r] \subseteq outputs'[r]
          /\ \A q \in Roles : q # r => role'[q] = role[q] /\ outputs'[q] = outputs[q]
      BY <2>1, <3>0, ExportsEffect
    <3> QED  BY <2>0, <3>1 DEF InboxInv, InboxFacts
  <2>2. CASE ToolFails(r) /\ UNCHANGED <<outputs, pend>>
    BY <1>29, <2>2, ToolFailsEffect DEF ResumeHelp, InboxInv, InboxFacts, Typing, RunTypes,
         GraphTypes
  <2> QED  BY <1>29, <2>1, <2>2 DEF ResumeHelp
<1>30. ASSUME NEW r \in Roles, ResumeRefused(r) PROVE InboxInv'
  BY <1>30 DEF ResumeRefused, Goto, Sources, InboxInv, InboxFacts, Typing, RunTypes, GraphTypes,
       queue, loop, graph, ghosts, limits
<1>31. ASSUME NEW r \in Roles, Returns(r) PROVE InboxInv'
  BY <1>31 DEF Returns, Goto, InboxInv, InboxFacts, Typing, RunTypes, GraphTypes, queue, loop,
       graph, ghosts, limits
<1>32. ASSUME NEW r \in Roles, CallsHelp(r) PROVE InboxInv'
  BY <1>32 DEF CallsHelp, Goto, InboxInv, InboxFacts, Typing, RunTypes, GraphTypes, queue, loop,
       graph, ghosts, limits
<1>33. ASSUME NEW r \in Roles, HelperWorks(r) PROVE InboxInv'
  BY <1>33 DEF HelperWorks, InboxInv, InboxFacts, Typing, RunTypes, GraphTypes, queue, loop,
       graph, ghosts, limits
<1>34. ASSUME NEW r \in Roles, HelperEnds(r) PROVE InboxInv'
  BY <1>34 DEF HelperEnds, Settle, Enqueue, Fails, Stopped, InboxInv, InboxFacts, Typing,
       RunTypes, GraphTypes, queue, loop, graph, ghosts, limits
<1>35. ASSUME NEW r \in Roles, MessageTask(r) PROVE InboxInv'
  BY <1>35 DEF MessageTask, Delivering, InboxInv, InboxFacts, Typing, RunTypes, GraphTypes,
       queue, loop, graph, running, ghosts, limits
<1>36. ASSUME NEW r \in Roles, NEW back \in BOOLEAN, Provide(r, back) PROVE InboxInv'
  BY <1>36 DEF Provide, InboxInv, InboxFacts, Typing, RunTypes, GraphTypes, queue, loop, graph,
       running, ghosts, limits
<1>37. CASE UNCHANGED vars
  BY <1>37 DEF vars, InboxInv, InboxFacts, queue, loop, graph, running, ghosts, limits
<1> QED
  BY <1>1, <1>2, <1>3, <1>4, <1>5, <1>6, <1>7, <1>8, <1>9, <1>10, <1>11, <1>12, <1>13,
     <1>14, <1>15, <1>16, <1>17, <1>18, <1>19, <1>20, <1>21, <1>22, <1>23, <1>24,
     <1>25, <1>26, <1>27, <1>28, <1>29, <1>30, <1>31, <1>32, <1>33, <1>34, <1>35,
     <1>36, <1>37 DEF Next, Works, RoleWorks

\* message_task: what the manager was told is accepted was in a request of the role before
\* its answer is exported, for any number of messages and roles.
THEOREM Accepted == Spec => []AcceptedSeen
<1>1. Init => InboxInv
  BY DEF Init, InboxInv, InboxFacts
<1>2. InboxInv => AcceptedSeen
  BY ManagerAssumption DEF InboxInv, InboxFacts, AcceptedSeen
<1> QED  BY <1>1, <1>2, TypeCorrect, InboxStep, PTL DEF Spec

-----------------------------------------------------------------------------
(* One verdict for a request *)

LEMMA HelpStep == Typing /\ HelpInv /\ [Next]_vars => HelpInv'
<1> SUFFICES ASSUME Typing, HelpInv, [Next]_vars PROVE HelpInv'
  OBVIOUS
<1>1. CASE NextMessage
  BY <1>1, Tuples DEF NextMessage, Idle, HelpInv, HelpFacts, Provided, Typing, RunTypes,
       GraphTypes, graph, running, ghosts, limits
<1>2. CASE Resume
  BY <1>2, Tuples DEF Resume, Idle, HelpInv, HelpFacts, Provided, Typing, RunTypes, GraphTypes,
       queue, graph, running, ghosts, limits
<1>3. CASE FinishCommitted
  BY <1>3, Tuples DEF FinishCommitted, Idle, HelpInv, HelpFacts, Provided, Typing, RunTypes,
       GraphTypes, queue, graph, running, ghosts, limits
<1>4. CASE BeforeTurn
  BY <1>4, Tuples DEF BeforeTurn, Stopped, HelpInv, HelpFacts, Provided, Typing, RunTypes,
       GraphTypes, queue, graph, running, ghosts, limits
<1>5. CASE Hear
  BY <1>5, Tuples DEF Hear, HelpInv, HelpFacts, Provided, Typing, RunTypes, GraphTypes, queue,
       graph, running, ghosts, limits
<1>6. CASE Answer
  BY <1>6, Tuples DEF Answer, Ready, HelpInv, HelpFacts, Provided, Typing, RunTypes, GraphTypes,
       queue, graph, running, ghosts, limits
<1>7. CASE Commit
  BY <1>7, Tuples DEF Commit, HelpInv, HelpFacts, Provided, Typing, RunTypes, GraphTypes, queue,
       graph, running, ghosts, limits
<1>8. CASE Discard
  BY <1>8, Tuples DEF Discard, HelpInv, HelpFacts, Provided, Typing, RunTypes, GraphTypes,
       queue, graph, running, ghosts, limits
<1>9. CASE Decline
  BY <1>9, Tuples DEF Decline, Undecided, HelpInv, HelpFacts, Provided, Typing, RunTypes,
       GraphTypes, queue, graph, running, ghosts, limits
<1>10. CASE TurnDone
  BY <1>10, Tuples DEF TurnDone, Ready, Idle, HelpInv, HelpFacts, Provided, Typing, RunTypes,
       GraphTypes, queue, graph, running, ghosts, limits
<1>11. CASE Compact
  BY <1>11, Tuples DEF Compact, HelpInv, HelpFacts, Provided, Typing, RunTypes, GraphTypes,
       queue, graph, running, ghosts, limits
<1>12. CASE CutOff
  BY <1>12, Tuples DEF CutOff, Recover, HelpInv, HelpFacts, Provided, Typing, RunTypes,
       GraphTypes, queue, graph, running, ghosts, limits
<1>13. CASE Fail
  BY <1>13, Tuples DEF Fail, Stopped, Fails, HelpInv, HelpFacts, Provided, Typing, RunTypes,
       GraphTypes, queue, graph, running, ghosts, limits
<1>14. CASE Preempt
  BY <1>14, Tuples DEF Preempt, HelpInv, HelpFacts, Provided, Typing, RunTypes, GraphTypes,
       queue, graph, running, ghosts, limits
<1>15. CASE DeclineFails
  BY <1>15, Tuples DEF DeclineFails, Stopped, Fails, HelpInv, HelpFacts, Provided, Typing,
       RunTypes, GraphTypes, queue, graph, running, ghosts, limits
<1>16. CASE Restart
  BY <1>16, Tuples DEF Restart, Idle, HelpInv, HelpFacts, Provided, Typing, RunTypes,
       GraphTypes, queue, graph, running, ghosts, limits
<1>17. ASSUME NEW u \in Users, UserSends(u) PROVE HelpInv'
  BY <1>17, Tuples DEF UserSends, Enqueue, HelpInv, HelpFacts, Provided, Typing, RunTypes,
       GraphTypes, queue, loop, graph, running, ghosts, limits
<1>18. ASSUME NEW r \in Roles, Enter(r) PROVE HelpInv'
  BY <1>18, Tuples DEF Enter, Goto, HelpInv, HelpFacts, Provided, Typing, RunTypes, GraphTypes,
       queue, loop, graph, running, ghosts, limits
<1>19. ASSUME NEW r \in Roles, Ask(r) PROVE HelpInv'
  BY <1>19, Tuples DEF Ask, Goto, HelpInv, HelpFacts, Provided, Typing, RunTypes, GraphTypes,
       queue, loop, graph, running, ghosts, limits
<1>20. ASSUME NEW r \in Roles, Answers(r) PROVE HelpInv'
  BY <1>20, Tuples DEF Answers, Goto, HelpInv, HelpFacts, Provided, Typing, RunTypes,
       GraphTypes, queue, loop, graph, running, ghosts, limits
<1>21. ASSUME NEW r \in Roles, ExportsRole(r) PROVE HelpInv'
  <2>0. UNCHANGED <<request, returns, outcome, run, closed, helper, batch>>
    BY <1>21 DEF ExportsRole
  <2>1. CASE Exports(r, "role", "over", "failed")
    <3>0. "role" \in Kinds /\ "over" \in RoleSteps /\ "failed" \in RoleSteps /\ RunTypes /\ GraphTypes
      BY DEF Kinds, RoleSteps, Typing
    <3>1. /\ role' \in [Roles -> RoleSteps] /\ role'[r] \in {"over", "failed"} /\ outputs[r] \subseteq outputs'[r]
          /\ outputs'[r] \union {pend'[r]} \subseteq outputs[r] \union {pend[r], "role", "none"}
          /\ verdict'[r] \in {verdict[r], "error"}
          /\ \A q \in Roles : q # r => /\ role'[q] = role[q] /\ outputs'[q] = outputs[q]
                                     /\ pend'[q] = pend[q] /\ verdict'[q] = verdict[q]
      BY <2>1, <3>0, ExportsEffect
    <3> QED  BY <2>0, <3>1 DEF HelpInv, HelpFacts, Provided
  <2> QED  BY <1>21, <2>1 DEF ExportsRole
<1>22. ASSUME NEW r \in Roles, Ends(r) PROVE HelpInv'
  <2>1. /\ run' = [run EXCEPT ![Own(r)] = "ended"]
        /\ \A t \in Tasks : t # Own(r) => outcome'[t] = outcome[t]
    <3>1. PICK how \in {"done", "failed"} : Settle(Own(r), how)
      BY <1>22 DEF Ends
    <3> QED  BY <3>1, SettleEffect, Tuples DEF Typing, RunTypes, GraphTypes
  <2>2. UNCHANGED <<request, returns, outputs, pend, role, verdict, closed, helper, batch>> /\ run[Own(r)] = "on"
    BY <1>22 DEF Ends
  <2> QED  BY <2>1, <2>2, Tuples DEF HelpInv, HelpFacts, Provided, Typing, RunTypes, GraphTypes
<1>23. ASSUME NEW r \in Roles, Freeze(r) PROVE HelpInv'
  <2>0. UNCHANGED <<request, returns, outcome, run, closed, helper, batch>> /\ request[r] = "none"
    BY <1>23 DEF Freeze
  <2>1. CASE Exports(r, "pause", "save", "ask")
    <3>0. "pause" \in Kinds /\ "save" \in RoleSteps /\ "ask" \in RoleSteps /\ RunTypes /\ GraphTypes
      BY DEF Kinds, RoleSteps, Typing
    <3>1. /\ role' \in [Roles -> RoleSteps] /\ role'[r] \in {"save", "ask"} /\ outputs[r] \subseteq outputs'[r]
          /\ outputs'[r] \union {pend'[r]} \subseteq outputs[r] \union {pend[r], "pause", "none"}
          /\ verdict'[r] \in {verdict[r], "error"}
          /\ \A q \in Roles : q # r => /\ role'[q] = role[q] /\ outputs'[q] = outputs[q]
                                     /\ pend'[q] = pend[q] /\ verdict'[q] = verdict[q]
      BY <2>1, <3>0, ExportsEffect
    <3> QED  BY <2>0, <3>1 DEF HelpInv, HelpFacts, Provided
  <2>2. CASE ToolFails(r) /\ UNCHANGED <<outputs, pend>>
    BY <2>0, <2>2, ToolFailsEffect DEF HelpInv, HelpFacts, Provided, Typing, RunTypes,
         GraphTypes
  <2> QED  BY <1>23, <2>1, <2>2 DEF Freeze
<1>24. ASSUME NEW r \in Roles, SaveRequest(r) PROVE HelpInv'
  <2>0. UNCHANGED <<returns, outcome, outputs, pend, run, closed, helper, batch>> /\ role[r] = "save"
    BY <1>24 DEF SaveRequest
  <2>1. CASE request' = [request EXCEPT ![r] = "open"] /\ Goto(r, "notify") /\ UNCHANGED verdict
    BY <2>0, <2>1 DEF Goto, HelpInv, HelpFacts, Provided, Typing, RunTypes, GraphTypes
  <2>2. CASE ToolFails(r) /\ UNCHANGED request
    BY <2>0, <2>2, ToolFailsEffect DEF HelpInv, HelpFacts, Provided, Typing, RunTypes,
         GraphTypes
  <2> QED  BY <1>24, <2>1, <2>2 DEF SaveRequest
<1>25. ASSUME NEW r \in Roles, FindRequest(r) PROVE HelpInv'
  BY <1>25 DEF FindRequest, Known, Goto, HelpInv, HelpFacts, Provided, Typing, RunTypes,
       GraphTypes, Verdicts, queue, loop, graph, ghosts, limits
<1>26. ASSUME NEW r \in Roles, Notify(r) PROVE HelpInv'
  BY <1>26, Tuples DEF Notify, Enqueue, Goto, HelpInv, HelpFacts, Provided, Typing, RunTypes,
       GraphTypes, queue, loop, graph, ghosts, limits
<1>27. ASSUME NEW r \in Roles, Decided(r) PROVE HelpInv'
  <2>0. UNCHANGED <<graph, run, helper, batch>> /\ role[r] = "known"
    BY <1>27 DEF Decided
  <2>1. CASE closed' = [closed EXCEPT ![r] = TRUE] /\ Goto(r, "waiting") /\ UNCHANGED verdict
    BY <2>0, <2>1 DEF Goto, graph, HelpInv, HelpFacts, Provided, Typing, RunTypes, GraphTypes
  <2>2. CASE ToolFails(r) /\ UNCHANGED closed
    BY <2>0, <2>2, ToolFailsEffect DEF graph, HelpInv, HelpFacts, Provided, Typing, RunTypes,
         GraphTypes
  <2> QED  BY <1>27, <2>1, <2>2 DEF Decided
<1>28. ASSUME NEW r \in Roles, Wake(r) PROVE HelpInv'
  BY <1>28, Tuples DEF Wake, Goto, HelpInv, HelpFacts, Provided, Typing, RunTypes, GraphTypes,
       queue, loop, graph, ghosts, limits
<1>29. ASSUME NEW r \in Roles, ResumeHelp(r) PROVE HelpInv'
  <2>0. UNCHANGED <<request, returns, outcome, run, closed, helper>> /\ role[r] = "resume" /\ batch' = [batch EXCEPT ![r] = Sources(r)]
        /\ ("help" \in Sources(r) => helper[r] = "ok")
    BY <1>29 DEF ResumeHelp
  <2>3. batch'[r] = Sources(r) /\ (Provided(r) => "help" \in Sources(r)) /\ \A q \in Roles : q # r => batch'[q] = batch[q]
    BY <2>0 DEF HelpInv, HelpFacts, Provided, Sources, Typing, RunTypes
  <2>1. CASE Exports(r, "resume", "back", "ask")
    <3>0. "resume" \in Kinds /\ "back" \in RoleSteps /\ "ask" \in RoleSteps /\ RunTypes /\ GraphTypes
      BY DEF Kinds, RoleSteps, Typing
    <3>1. /\ role' \in [Roles -> RoleSteps] /\ role'[r] \in {"back", "ask"} /\ outputs[r] \subseteq outputs'[r]
          /\ outputs'[r] \union {pend'[r]} \subseteq outputs[r] \union {pend[r], "resume", "none"}
          /\ verdict'[r] \in {verdict[r], "error"}
          /\ \A q \in Roles : q # r => /\ role'[q] = role[q] /\ outputs'[q] = outputs[q]
                                     /\ pend'[q] = pend[q] /\ verdict'[q] = verdict[q]
      BY <2>1, <3>0, ExportsEffect
    <3> QED  BY <2>0, <3>1, <2>3 DEF HelpInv, HelpFacts, Provided
  <2>2. CASE ToolFails(r) /\ UNCHANGED <<outputs, pend>>
    BY <2>0, <2>2, <2>3, ToolFailsEffect DEF HelpInv, HelpFacts, Provided, Typing, RunTypes,
         GraphTypes
  <2> QED  BY <1>29, <2>1, <2>2 DEF ResumeHelp
<1>30. ASSUME NEW r \in Roles, ResumeRefused(r) PROVE HelpInv'
  BY <1>30, Tuples DEF ResumeRefused, Goto, Sources, HelpInv, HelpFacts, Provided, Typing,
       RunTypes, GraphTypes, queue, loop, graph, ghosts, limits
<1>31. ASSUME NEW r \in Roles, Returns(r) PROVE HelpInv'
  BY <1>31, Tuples DEF Returns, Goto, HelpInv, HelpFacts, Provided, Typing, RunTypes,
       GraphTypes, queue, loop, graph, ghosts, limits
<1>32. ASSUME NEW r \in Roles, CallsHelp(r) PROVE HelpInv'
  BY <1>32, Tuples DEF CallsHelp, Goto, HelpInv, HelpFacts, Provided, Typing, RunTypes,
       GraphTypes, queue, loop, graph, ghosts, limits
<1>33. ASSUME NEW r \in Roles, HelperWorks(r) PROVE HelpInv'
  BY <1>33, Tuples DEF HelperWorks, HelpInv, HelpFacts, Provided, Typing, RunTypes, GraphTypes,
       queue, loop, graph, ghosts, limits
<1>34. ASSUME NEW r \in Roles, HelperEnds(r) PROVE HelpInv'
  <2>1. /\ run' = [run EXCEPT ![Help(r)] = "ended"]
        /\ \A t \in Tasks : t # Help(r) => outcome'[t] = outcome[t]
    <3>1. PICK how \in {"done", "failed"} : Settle(Help(r), how)
      BY <1>34 DEF HelperEnds
    <3> QED  BY <3>1, SettleEffect, Tuples DEF Typing, RunTypes, GraphTypes
  <2>2. UNCHANGED <<request, returns, outputs, pend, role, verdict, closed, helper, batch>> /\ run[Help(r)] = "on"
    BY <1>34 DEF HelperEnds
  <2> QED  BY <2>1, <2>2, Tuples DEF HelpInv, HelpFacts, Provided, Typing, RunTypes, GraphTypes
<1>35. ASSUME NEW r \in Roles, MessageTask(r) PROVE HelpInv'
  BY <1>35, Tuples DEF MessageTask, HelpInv, HelpFacts, Provided, Typing, RunTypes, GraphTypes,
       queue, loop, running, ghosts, limits
<1>36. ASSUME NEW r \in Roles, NEW back \in BOOLEAN, Provide(r, back) PROVE HelpInv'
  BY <1>36, Tuples DEF Provide, Undecided, Fails, HelpInv, HelpFacts, Provided, Typing,
       RunTypes, GraphTypes, queue, loop, running, ghosts, limits
<1>37. CASE UNCHANGED vars
  BY <1>37 DEF vars, HelpInv, HelpFacts, Provided, queue, loop, graph, running, ghosts, limits
<1> QED
  BY <1>1, <1>2, <1>3, <1>4, <1>5, <1>6, <1>7, <1>8, <1>9, <1>10, <1>11, <1>12, <1>13,
     <1>14, <1>15, <1>16, <1>17, <1>18, <1>19, <1>20, <1>21, <1>22, <1>23, <1>24,
     <1>25, <1>26, <1>27, <1>28, <1>29, <1>30, <1>31, <1>32, <1>33, <1>34, <1>35,
     <1>36, <1>37 DEF Next, Works, RoleWorks

\* A requester is told the one verdict the graph keeps, and every returned result is in
\* its input: provide and decline race, roles are restarted and calls are made again.
THEOREM Verdict == Spec => []OneVerdict
<1>1. Init => HelpInv
  BY Tuples DEF Init, HelpInv, HelpFacts, Provided
<1>2. HelpInv => OneVerdict
  BY DEF HelpInv, HelpFacts, Provided, OneVerdict
<1> QED  BY <1>1, <1>2, TypeCorrect, HelpStep, PTL DEF Spec

-----------------------------------------------------------------------------
(* What is pending *)

LEMMA PendingStep == Typing /\ PendingInv /\ [Next]_vars => PendingInv'
<1> SUFFICES ASSUME Typing, PendingInv, [Next]_vars PROVE PendingInv'
  OBVIOUS
<1>1. CASE NextMessage
  BY <1>1, Shortened DEF NextMessage, Idle, PendingInv, Typing, QueueTypes, Turns, graph,
       running, ghosts, limits
<1>2. CASE Resume
  BY <1>2 DEF Resume, Idle, PendingInv, Typing, QueueTypes, Turns, queue, graph, running,
       ghosts, limits
<1>3. CASE FinishCommitted
  BY <1>3 DEF FinishCommitted, Idle, PendingInv, Typing, QueueTypes, Turns, queue, graph,
       running, ghosts, limits
<1>4. CASE BeforeTurn
  <2>1. CASE meta = <<>>
    BY <1>4, <2>1 DEF BeforeTurn, Stopped, PendingInv
  <2>2. CASE meta # <<>>
    <3>1. turn.pc = "begin" /\ UNCHANGED <<fifo, pending, err>> /\ turn'.pc \in {"hear", "commit", "work"}
      BY <1>4, <2>2 DEF BeforeTurn, Typing, QueueTypes, Turns
    <3> QED  BY <3>1 DEF PendingInv
  <2> QED  BY <2>1, <2>2
<1>5. CASE Hear
  BY <1>5 DEF Hear, PendingInv, Typing, QueueTypes, Turns, queue, graph, running, ghosts, limits
<1>6. CASE Answer
  BY <1>6 DEF Answer, Ready, PendingInv, Typing, QueueTypes, Turns, queue, graph, running,
       ghosts, limits
<1>7. CASE Commit
  BY <1>7 DEF Commit, PendingInv, Typing, QueueTypes, Turns, queue, graph, running, ghosts,
       limits
<1>8. CASE Discard
  BY <1>8 DEF Discard, PendingInv, Typing, QueueTypes, Turns, queue, graph, running, ghosts,
       limits
<1>9. CASE Decline
  BY <1>9 DEF Decline, Undecided, PendingInv, Typing, QueueTypes, Turns, queue, graph, running,
       ghosts, limits
<1>10. CASE TurnDone
  <2>1. CASE turn'.pc = "dead"
    BY <2>1 DEF PendingInv
  <2>2. CASE turn'.pc # "dead"
    <3>1. turn' = Idle /\ ~turn.dies /\ turn.pc = "done" /\ UNCHANGED <<fifo, err, outcome>>
      BY <1>10, <2>2 DEF TurnDone, graph
    <3>2. run' = Ready(outcome) /\ pending' = IF pending = 0 THEN 0 ELSE pending - 1
      BY <1>10, <3>1 DEF TurnDone
    <3>3. \A t \in Tasks : outcome'[t] = "active" => run'[t] # "off"
      BY <3>1, <3>2 DEF Ready, Typing, RunTypes
    <3> QED  BY <3>1, <3>2, <3>3 DEF PendingInv, Idle, Typing, QueueTypes
  <2> QED  BY <2>1, <2>2
<1>11. CASE Compact
  BY <1>11 DEF Compact, PendingInv, Typing, QueueTypes, Turns, queue, graph, running, ghosts,
       limits
<1>12. CASE CutOff
  BY <1>12 DEF CutOff, Recover, PendingInv, Typing, QueueTypes, Turns, queue, graph, running,
       ghosts, limits
<1>13. CASE Fail
  BY <1>13 DEF Fail, Stopped, Fails, PendingInv, Typing, QueueTypes, Turns, queue, graph,
       running, ghosts, limits
<1>14. CASE Preempt
  BY <1>14 DEF Preempt, PendingInv, Typing, QueueTypes, Turns, queue, graph, running, ghosts,
       limits
<1>15. CASE DeclineFails
  BY <1>15 DEF DeclineFails, Stopped, Fails, PendingInv, Typing, QueueTypes, Turns, queue,
       graph, running, ghosts, limits
<1>16. CASE Restart
  <2>1. fifo' = <<>> /\ pending' = Len(meta') /\ UNCHANGED outcome
    BY <1>16 DEF Restart, graph
  <2>2. turn'.pc \in {"resume", "finish", "idle"} /\ (turn'.pc = "resume" <=> file = "open")
    BY <1>16 DEF Restart, Idle
  <2>3. Len(meta') = IF file = "open" THEN 1 ELSE 0
    BY <1>16 DEF Restart
  <2>4. \A t \in Tasks : file # "open" /\ outcome[t] = "active" => run'[t] = "on"
    BY <1>16 DEF Restart
  <2> QED  BY <2>1, <2>2, <2>3, <2>4 DEF PendingInv
<1>17. ASSUME NEW u \in Users, UserSends(u) PROVE PendingInv'
  <2>1. Enqueue(<<"user", u>>) /\ UNCHANGED <<err, turn, outcome, run>>
    BY <1>17 DEF UserSends, loop, graph, running
  <2>2. <<"user", u>> \in Messages /\ QueueTypes
    BY MessageKinds DEF Typing
  <2>3. pending' = pending + 1 /\ Len(fifo') = Len(fifo) + 1 /\ Len(fifo) \in Nat /\ pending \in Nat
    BY <2>1, <2>2, EnqueueEffect DEF QueueTypes
  <2> QED  BY <2>1, <2>3 DEF PendingInv
<1>18. ASSUME NEW r \in Roles, Enter(r) PROVE PendingInv'
  BY <1>18 DEF Enter, PendingInv, queue, loop, graph, running, ghosts, limits
<1>19. ASSUME NEW r \in Roles, Ask(r) PROVE PendingInv'
  BY <1>19 DEF Ask, PendingInv, queue, loop, graph, running, ghosts, limits
<1>20. ASSUME NEW r \in Roles, Answers(r) PROVE PendingInv'
  BY <1>20 DEF Answers, PendingInv, queue, loop, graph, running, ghosts, limits
<1>21. ASSUME NEW r \in Roles, ExportsRole(r) PROVE PendingInv'
  BY <1>21 DEF ExportsRole, PendingInv, queue, loop, graph, running, ghosts, limits
<1>22. ASSUME NEW r \in Roles, Ends(r) PROVE PendingInv'
  <2>1. PICK how \in {"done", "failed"} : Settle(Own(r), how)
    BY <1>22 DEF Ends
  <2>2. UNCHANGED turn
    BY <1>22 DEF Ends, loop
  <2>3. \A t \in Tasks : outcome'[t] = "active" => outcome[t] = "active" /\ (run'[t] = run[t] \/ run'[t] = "ended")
    BY <2>1, SettleEffect, Tuples, SMTT(30) DEF Typing, GraphTypes, RunTypes
  <2>4. CASE \E msg \in Messages : Enqueue(msg) /\ UNCHANGED err
    <3>1. pending' = pending + 1 /\ Len(fifo') = Len(fifo) + 1 /\ Len(fifo) \in Nat /\ pending \in Nat
      BY <2>4, EnqueueEffect DEF Typing, QueueTypes
    <3> QED  BY <2>2, <2>3, <2>4, <3>1 DEF PendingInv
  <2>5. CASE Stopped
    BY <2>5 DEF PendingInv, Stopped
  <2> QED  BY <2>1, <2>4, <2>5, SettleEffect, Tuples DEF Typing
<1>23. ASSUME NEW r \in Roles, Freeze(r) PROVE PendingInv'
  BY <1>23 DEF Freeze, PendingInv, queue, loop, ghosts
<1>24. ASSUME NEW r \in Roles, SaveRequest(r) PROVE PendingInv'
  BY <1>24 DEF SaveRequest, PendingInv, queue, loop, ghosts
<1>25. ASSUME NEW r \in Roles, FindRequest(r) PROVE PendingInv'
  BY <1>25 DEF FindRequest, PendingInv, queue, loop, graph, ghosts, limits
<1>26. ASSUME NEW r \in Roles, Notify(r) PROVE PendingInv'
  <2>1. Enqueue(<<"notice", r>>) /\ UNCHANGED <<err, turn, outcome, run>>
    BY <1>26 DEF Notify, loop, graph
  <2>2. <<"notice", r>> \in Messages /\ QueueTypes
    BY MessageKinds DEF Typing
  <2>3. pending' = pending + 1 /\ Len(fifo') = Len(fifo) + 1 /\ Len(fifo) \in Nat /\ pending \in Nat
    BY <2>1, <2>2, EnqueueEffect DEF QueueTypes
  <2> QED  BY <2>1, <2>3 DEF PendingInv
<1>27. ASSUME NEW r \in Roles, Decided(r) PROVE PendingInv'
  BY <1>27 DEF Decided, PendingInv, queue, loop, graph, ghosts
<1>28. ASSUME NEW r \in Roles, Wake(r) PROVE PendingInv'
  BY <1>28 DEF Wake, PendingInv, queue, loop, graph, ghosts, limits
<1>29. ASSUME NEW r \in Roles, ResumeHelp(r) PROVE PendingInv'
  BY <1>29 DEF ResumeHelp, PendingInv, queue, loop, graph, ghosts, limits
<1>30. ASSUME NEW r \in Roles, ResumeRefused(r) PROVE PendingInv'
  BY <1>30 DEF ResumeRefused, PendingInv, queue, loop, graph, ghosts, limits
<1>31. ASSUME NEW r \in Roles, Returns(r) PROVE PendingInv'
  BY <1>31 DEF Returns, PendingInv, queue, loop, graph, ghosts, limits
<1>32. ASSUME NEW r \in Roles, CallsHelp(r) PROVE PendingInv'
  BY <1>32 DEF CallsHelp, PendingInv, queue, loop, graph, ghosts, limits
<1>33. ASSUME NEW r \in Roles, HelperWorks(r) PROVE PendingInv'
  BY <1>33 DEF HelperWorks, PendingInv, queue, loop, graph, ghosts, limits
<1>34. ASSUME NEW r \in Roles, HelperEnds(r) PROVE PendingInv'
  <2>1. PICK how \in {"done", "failed"} : Settle(Help(r), how)
    BY <1>34 DEF HelperEnds
  <2>2. UNCHANGED turn
    BY <1>34 DEF HelperEnds, loop
  <2>3. \A t \in Tasks : outcome'[t] = "active" => outcome[t] = "active" /\ (run'[t] = run[t] \/ run'[t] = "ended")
    BY <2>1, SettleEffect, Tuples DEF Typing, GraphTypes, RunTypes
  <2>4. CASE \E msg \in Messages : Enqueue(msg) /\ UNCHANGED err
    <3>1. pending' = pending + 1 /\ Len(fifo') = Len(fifo) + 1 /\ Len(fifo) \in Nat /\ pending \in Nat
      BY <2>4, EnqueueEffect DEF Typing, QueueTypes
    <3> QED  BY <2>2, <2>3, <2>4, <3>1 DEF PendingInv
  <2>5. CASE Stopped
    BY <2>5 DEF PendingInv, Stopped
  <2> QED  BY <2>1, <2>4, <2>5, SettleEffect, Tuples DEF Typing
<1>35. ASSUME NEW r \in Roles, MessageTask(r) PROVE PendingInv'
  BY <1>35 DEF MessageTask, PendingInv, queue, loop, running, ghosts, limits
<1>36. ASSUME NEW r \in Roles, NEW back \in BOOLEAN, Provide(r, back) PROVE PendingInv'
  <2>1. UNCHANGED <<queue, loop>> /\ turn.pc = "work"
    BY <1>36 DEF Provide
  <2> QED  BY <2>1 DEF PendingInv, queue, loop
<1>37. CASE UNCHANGED vars
  BY <1>37 DEF vars, PendingInv, queue, loop, graph, running, ghosts, limits
<1> QED
  BY <1>1, <1>2, <1>3, <1>4, <1>5, <1>6, <1>7, <1>8, <1>9, <1>10, <1>11, <1>12, <1>13,
     <1>14, <1>15, <1>16, <1>17, <1>18, <1>19, <1>20, <1>21, <1>22, <1>23, <1>24,
     <1>25, <1>26, <1>27, <1>28, <1>29, <1>30, <1>31, <1>32, <1>33, <1>34, <1>35,
     <1>36, <1>37 DEF Next, Works, RoleWorks

\* A manager that has nothing pending and runs no task has nothing left to do, for any number of
\* tasks, messages and failures that leave it alive.
THEOREM Waited == Spec => []IdleMeansDone
<1>1. Init => PendingInv
  BY DEF Init, Idle, PendingInv
<1>2. Typing /\ PendingInv => IdleMeansDone
  BY DEF PendingInv, IdleMeansDone, Typing, QueueTypes
<1> QED  BY <1>1, <1>2, TypeCorrect, PendingStep, PTL DEF Spec

-----------------------------------------------------------------------------
(* No request is forgotten *)

LEMMA WaitStep == Typing /\ WaitInv /\ [Next]_vars => WaitInv'
<1> SUFFICES ASSUME Typing, WaitInv, [Next]_vars PROVE WaitInv'
  OBVIOUS
<1>1. CASE NextMessage
  <2>1. fifo # <<>> /\ fifo' = Tail(fifo) /\ turn'.of = Head(fifo) /\ turn'.pc = "begin" /\ turn.pc = "idle"
    BY <1>1 DEF NextMessage, Idle
  <2>2. ToSet(fifo) = ToSet(fifo') \union {turn'.of}
    BY <2>1, Shortened DEF Typing, QueueTypes
  <2>3. UNCHANGED <<role, closed, request, orphans>>
    BY <1>1 DEF NextMessage, graph, running, ghosts, limits
  <2> QED  BY <2>1, <2>2, <2>3 DEF WaitInv, WaitFacts, Attended
<1>2. CASE Resume
  <2>1. /\ turn'.of = turn.of /\ turn.pc = "resume" /\ turn'.pc = "begin"
        /\ UNCHANGED <<fifo, role, closed, request, orphans>>
    BY <1>2 DEF Resume, Idle, queue, graph, running, ghosts, limits
  <2> QED  BY <2>1 DEF WaitInv, WaitFacts, Attended
<1>3. CASE FinishCommitted
  BY <1>3 DEF FinishCommitted, Idle, WaitInv, WaitFacts, Attended, Typing, RunTypes, GraphTypes,
       QueueTypes, Turns, queue, graph, running, ghosts, limits
<1>4. CASE BeforeTurn
  <2>1. /\ turn'.of = turn.of /\ turn'.pc \in {"dead", "hear", "commit", "work"} /\ turn.pc # "dead"
        /\ UNCHANGED <<fifo, role, closed, request, orphans>>
    BY <1>4 DEF BeforeTurn, queue, graph, running, ghosts, limits, Typing, QueueTypes, Turns
  <2> QED  BY <2>1 DEF WaitInv, WaitFacts, Attended
<1>5. CASE Hear
  BY <1>5 DEF Hear, WaitInv, WaitFacts, Attended, Typing, RunTypes, GraphTypes, QueueTypes,
       Turns, queue, graph, running, ghosts, limits
<1>6. CASE Answer
  BY <1>6 DEF Answer, Ready, WaitInv, WaitFacts, Attended, Typing, RunTypes, GraphTypes,
       QueueTypes, Turns, queue, graph, running, ghosts, limits
<1>7. CASE Commit
  BY <1>7 DEF Commit, WaitInv, WaitFacts, Attended, Typing, RunTypes, GraphTypes, QueueTypes,
       Turns, queue, graph, running, ghosts, limits
<1>8. CASE Discard
  BY <1>8 DEF Discard, WaitInv, WaitFacts, Attended, Typing, RunTypes, GraphTypes, QueueTypes,
       Turns, queue, graph, running, ghosts, limits
<1>9. CASE Decline
  <2>1. /\ turn'.of = turn.of /\ turn.pc = "after" /\ turn'.pc = "done"
        /\ UNCHANGED <<fifo, role>> /\ orphans \subseteq orphans'
    BY <1>9 DEF Decline, Typing, QueueTypes, Turns, queue, running
  <2>2. ASSUME NEW r \in Roles PROVE
           /\ closed[r] => closed'[r]
           /\ ~closed'[r] => request'[r] = request[r]
           /\ turn.of = <<"notice", r>> /\ ~closed'[r] /\ request[r] \in {"open", "configured"} => r \in orphans'
    BY <1>9 DEF Decline, Undecided, Typing, RunTypes, GraphTypes
  <2> QED  BY <2>1, <2>2 DEF WaitInv, WaitFacts, Attended
<1>10. CASE TurnDone
  <2>1. turn.pc = "done" /\ UNCHANGED <<fifo, role, closed, request, orphans>>
    BY <1>10 DEF TurnDone, queue, graph, running, ghosts, limits
  <2> QED  BY <2>1 DEF WaitInv, WaitFacts, Attended
<1>11. CASE Compact
  BY <1>11 DEF Compact, WaitInv, WaitFacts, Attended, Typing, RunTypes, GraphTypes, QueueTypes,
       Turns, queue, graph, running, ghosts, limits
<1>12. CASE CutOff
  BY <1>12 DEF CutOff, Recover, WaitInv, WaitFacts, Attended, Typing, RunTypes, GraphTypes,
       QueueTypes, Turns, queue, graph, running, ghosts, limits
<1>13. CASE Fail
  BY <1>13 DEF Fail, Stopped, Fails, WaitInv, WaitFacts, Attended, Typing, RunTypes, GraphTypes,
       QueueTypes, Turns, queue, graph, running, ghosts, limits
<1>14. CASE Preempt
  <2>1. UNCHANGED <<fifo, role, orphans, closed, request>> /\ turn.pc = "work"
    BY <1>14 DEF Preempt, queue, graph, running, ghosts, limits
  <2>2. turn'.pc = "after" /\ turn'.of = turn.of
    BY <1>14 DEF Preempt, Typing, QueueTypes, Turns
  <2> QED  BY <2>1, <2>2 DEF WaitInv, WaitFacts, Attended
<1>15. CASE DeclineFails
  BY <1>15 DEF DeclineFails, Stopped, Fails, WaitInv, WaitFacts, Attended, Typing, RunTypes,
       GraphTypes, QueueTypes, Turns, queue, graph, running, ghosts, limits
<1>16. CASE Restart
  <2>1. role' = [r \in Roles |-> "off"]
    BY <1>16 DEF Restart
  <2> QED  BY <2>1 DEF WaitInv, WaitFacts, Attended
<1>17. ASSUME NEW u \in Users, UserSends(u) PROVE WaitInv'
  <2>2. ToSet(fifo) \subseteq ToSet(fifo')
    BY <1>17, EnqueueEffect, MessageKinds DEF UserSends, Typing
  <2>3. UNCHANGED <<turn, role, closed, request, orphans>>
    BY <1>17 DEF UserSends, queue, loop, graph, running, ghosts, limits
  <2> QED  BY <2>2, <2>3 DEF WaitInv, WaitFacts, Attended
<1>18. ASSUME NEW r \in Roles, Enter(r) PROVE WaitInv'
  <2>1. UNCHANGED <<fifo, turn, orphans, closed, request>>
    BY <1>18 DEF Enter, queue, loop, graph, running, ghosts, limits
  <2>2. \E pc \in RoleSteps \ {"notify", "waiting"} : role' = [role EXCEPT ![r] = pc]
    BY <1>18 DEF Enter, Goto, RoleSteps
  <2> QED  BY <2>1, <2>2, ZenonT(60) DEF WaitInv, WaitFacts, Attended, Typing, RunTypes
<1>19. ASSUME NEW r \in Roles, Ask(r) PROVE WaitInv'
  <2>1. UNCHANGED <<fifo, turn, orphans, closed, request>>
    BY <1>19 DEF Ask, queue, loop, graph, running, ghosts, limits
  <2>2. \E pc \in RoleSteps \ {"notify", "waiting"} : role' = [role EXCEPT ![r] = pc]
    BY <1>19 DEF Ask, Goto, RoleSteps
  <2> QED  BY <2>1, <2>2, ZenonT(60) DEF WaitInv, WaitFacts, Attended, Typing, RunTypes
<1>20. ASSUME NEW r \in Roles, Answers(r) PROVE WaitInv'
  <2>1. UNCHANGED <<fifo, turn, orphans, closed, request>>
    BY <1>20 DEF Answers, queue, loop, graph, running, ghosts, limits
  <2>2. \E pc \in RoleSteps \ {"notify", "waiting"} : role' = [role EXCEPT ![r] = pc]
    BY <1>20 DEF Answers, Goto, RoleSteps
  <2> QED  BY <2>1, <2>2, ZenonT(60) DEF WaitInv, WaitFacts, Attended, Typing, RunTypes
<1>21. ASSUME NEW r \in Roles, ExportsRole(r) PROVE WaitInv'
  <2>0. UNCHANGED <<fifo, turn, orphans, closed, request>>
    BY <1>21 DEF ExportsRole, queue, loop, ghosts
  <2>1. CASE Exports(r, "role", "over", "failed")
    <3>0. "role" \in Kinds /\ "over" \in RoleSteps /\ "failed" \in RoleSteps /\ RunTypes /\ GraphTypes
      BY DEF Kinds, RoleSteps, Typing
    <3>1. role'[r] \in {"over", "failed"} /\ \A q \in Roles : q # r => role'[q] = role[q]
      BY <2>1, <3>0, ExportsEffect
    <3> QED  BY <2>0, <3>1 DEF WaitInv, WaitFacts, Attended
  <2> QED  BY <1>21, <2>1 DEF ExportsRole
<1>22. ASSUME NEW r \in Roles, Ends(r) PROVE WaitInv'
  <2>1. PICK how \in {"done", "failed"} : Settle(Own(r), how)
    BY <1>22 DEF Ends
  <2>2. ToSet(fifo) \subseteq ToSet(fifo')
    BY <2>1, SettleEffect, EnqueueEffect, Tuples DEF Typing
  <2>3. UNCHANGED <<turn, role, closed, request, orphans>>
    BY <1>22 DEF Ends, loop, ghosts
  <2> QED  BY <2>2, <2>3 DEF WaitInv, WaitFacts, Attended
<1>23. ASSUME NEW r \in Roles, Freeze(r) PROVE WaitInv'
  <2>0. UNCHANGED <<fifo, turn, orphans, closed, request>>
    BY <1>23 DEF Freeze, queue, loop, ghosts
  <2>1. CASE Exports(r, "pause", "save", "ask")
    <3>0. "pause" \in Kinds /\ "save" \in RoleSteps /\ "ask" \in RoleSteps /\ RunTypes /\ GraphTypes
      BY DEF Kinds, RoleSteps, Typing
    <3>1. role'[r] \in {"save", "ask"} /\ \A q \in Roles : q # r => role'[q] = role[q]
      BY <2>1, <3>0, ExportsEffect
    <3> QED  BY <2>0, <3>1 DEF WaitInv, WaitFacts, Attended
  <2>2. CASE ToolFails(r)
    BY <2>0, <2>2, ToolFailsEffect DEF WaitInv, WaitFacts, Attended, Typing
  <2> QED  BY <1>23, <2>1, <2>2 DEF Freeze
<1>24. ASSUME NEW r \in Roles, SaveRequest(r) PROVE WaitInv'
  <2>0. UNCHANGED <<fifo, turn, orphans, closed>>
    BY <1>24 DEF SaveRequest, queue, loop, ghosts
  <2>1. CASE request' = [request EXCEPT ![r] = "open"] /\ Goto(r, "notify")
    BY <2>0, <2>1, ZenonT(60) DEF Goto, WaitInv, WaitFacts, Attended, Typing, RunTypes, GraphTypes
  <2>2. CASE ToolFails(r) /\ UNCHANGED request
    BY <2>0, <2>2, ToolFailsEffect DEF WaitInv, WaitFacts, Attended, Typing
  <2> QED  BY <1>24, <2>1, <2>2 DEF SaveRequest
<1>25. ASSUME NEW r \in Roles, FindRequest(r) PROVE WaitInv'
  BY <1>25, ZenonT(60) DEF FindRequest, Known, Goto, WaitInv, WaitFacts, Attended, Typing, RunTypes,
       GraphTypes, Verdicts, queue, loop, graph, ghosts, limits
<1>26. ASSUME NEW r \in Roles, Notify(r) PROVE WaitInv'
  <2>1. Enqueue(<<"notice", r>>) /\ Goto(r, "waiting") /\ role[r] = "notify"
    BY <1>26 DEF Notify
  <2>2. UNCHANGED <<turn, closed, request, orphans>>
    BY <1>26 DEF Notify, queue, loop, graph, ghosts, limits
  <2>3. <<"notice", r>> \in Messages /\ QueueTypes
    BY MessageKinds DEF Typing
  <2>4. ToSet(fifo') = ToSet(fifo) \union {<<"notice", r>>}
    BY <2>1, <2>3, EnqueueEffect
  <2> QED  BY <2>1, <2>2, <2>4, ZenonT(60) DEF WaitInv, WaitFacts, Attended, Goto, Typing, RunTypes,
       GraphTypes
<1>27. ASSUME NEW r \in Roles, Decided(r) PROVE WaitInv'
  <2>0. UNCHANGED <<fifo, turn, orphans, request>>
    BY <1>27 DEF Decided, queue, loop, graph, ghosts, limits
  <2>1. CASE closed' = [closed EXCEPT ![r] = TRUE] /\ Goto(r, "waiting")
    BY <2>0, <2>1, ZenonT(60) DEF Goto, WaitInv, WaitFacts, Attended, Typing, RunTypes, GraphTypes
  <2>2. CASE ToolFails(r) /\ UNCHANGED closed
    BY <2>0, <2>2, ToolFailsEffect DEF WaitInv, WaitFacts, Attended, Typing
  <2> QED  BY <1>27, <2>1, <2>2 DEF Decided
<1>28. ASSUME NEW r \in Roles, Wake(r) PROVE WaitInv'
  <2>1. UNCHANGED <<fifo, turn, orphans, closed, request>>
    BY <1>28 DEF Wake, queue, loop, graph, ghosts, limits
  <2>2. \E pc \in RoleSteps \ {"notify", "waiting"} : role' = [role EXCEPT ![r] = pc]
    BY <1>28 DEF Wake, Goto, RoleSteps
  <2> QED  BY <2>1, <2>2, ZenonT(60) DEF WaitInv, WaitFacts, Attended, Typing, RunTypes
<1>29. ASSUME NEW r \in Roles, ResumeHelp(r) PROVE WaitInv'
  <2>0. UNCHANGED <<fifo, turn, orphans, closed, request>>
    BY <1>29 DEF ResumeHelp, queue, loop, ghosts
  <2>1. CASE Exports(r, "resume", "back", "ask")
    <3>0. "resume" \in Kinds /\ "back" \in RoleSteps /\ "ask" \in RoleSteps /\ RunTypes /\ GraphTypes
      BY DEF Kinds, RoleSteps, Typing
    <3>1. role'[r] \in {"back", "ask"} /\ \A q \in Roles : q # r => role'[q] = role[q]
      BY <2>1, <3>0, ExportsEffect
    <3> QED  BY <2>0, <3>1 DEF WaitInv, WaitFacts, Attended
  <2>2. CASE ToolFails(r)
    BY <2>0, <2>2, ToolFailsEffect DEF WaitInv, WaitFacts, Attended, Typing
  <2> QED  BY <1>29, <2>1, <2>2 DEF ResumeHelp
<1>30. ASSUME NEW r \in Roles, ResumeRefused(r) PROVE WaitInv'
  <2>1. UNCHANGED <<fifo, turn, orphans, closed, request>>
    BY <1>30 DEF ResumeRefused, queue, loop, graph, ghosts, limits
  <2>2. \E pc \in RoleSteps \ {"notify", "waiting"} : role' = [role EXCEPT ![r] = pc]
    BY <1>30 DEF ResumeRefused, Goto, RoleSteps
  <2> QED  BY <2>1, <2>2, ZenonT(60) DEF WaitInv, WaitFacts, Attended, Typing, RunTypes
<1>31. ASSUME NEW r \in Roles, Returns(r) PROVE WaitInv'
  <2>1. UNCHANGED <<fifo, turn, orphans, closed, request>>
    BY <1>31 DEF Returns, queue, loop, graph, ghosts, limits
  <2>2. \E pc \in RoleSteps \ {"notify", "waiting"} : role' = [role EXCEPT ![r] = pc]
    BY <1>31 DEF Returns, Goto, RoleSteps
  <2> QED  BY <2>1, <2>2, ZenonT(60) DEF WaitInv, WaitFacts, Attended, Typing, RunTypes
<1>32. ASSUME NEW r \in Roles, CallsHelp(r) PROVE WaitInv'
  <2>1. UNCHANGED <<fifo, turn, orphans, closed, request>>
    BY <1>32 DEF CallsHelp, queue, loop, graph, ghosts, limits
  <2>2. \E pc \in RoleSteps \ {"notify", "waiting"} : role' = [role EXCEPT ![r] = pc]
    BY <1>32 DEF CallsHelp, Goto, RoleSteps
  <2> QED  BY <2>1, <2>2, ZenonT(60) DEF WaitInv, WaitFacts, Attended, Typing, RunTypes
<1>33. ASSUME NEW r \in Roles, HelperWorks(r) PROVE WaitInv'
  BY <1>33 DEF HelperWorks, WaitInv, WaitFacts, Attended, Typing, RunTypes, GraphTypes,
       QueueTypes, Turns, queue, loop, graph, ghosts, limits
<1>34. ASSUME NEW r \in Roles, HelperEnds(r) PROVE WaitInv'
  <2>1. PICK how \in {"done", "failed"} : Settle(Help(r), how)
    BY <1>34 DEF HelperEnds
  <2>2. ToSet(fifo) \subseteq ToSet(fifo')
    BY <2>1, SettleEffect, EnqueueEffect, Tuples DEF Typing
  <2>3. UNCHANGED <<turn, role, closed, request, orphans>>
    BY <1>34 DEF HelperEnds, queue, loop, graph, ghosts, limits
  <2> QED  BY <2>2, <2>3 DEF WaitInv, WaitFacts, Attended
<1>35. ASSUME NEW r \in Roles, MessageTask(r) PROVE WaitInv'
  BY <1>35 DEF MessageTask, WaitInv, WaitFacts, Attended, Typing, RunTypes, GraphTypes,
       QueueTypes, Turns, queue, loop, graph, running, ghosts, limits
<1>36. ASSUME NEW r \in Roles, NEW back \in BOOLEAN, Provide(r, back) PROVE WaitInv'
  <2>1. UNCHANGED <<fifo, turn, role, orphans>>
    BY <1>36 DEF Provide, queue, loop, graph, running, ghosts, limits
  <2>2. \A q \in Roles : (closed[q] => closed'[q]) /\ request'[q] \in {request[q], "configured"}
    BY <1>36 DEF Provide, Undecided, Typing, RunTypes, GraphTypes
  <2> QED  BY <2>1, <2>2 DEF WaitInv, WaitFacts, Attended
<1>37. CASE UNCHANGED vars
  BY <1>37 DEF vars, WaitInv, WaitFacts, Attended, queue, loop, graph, running, ghosts, limits
<1> QED
  BY <1>1, <1>2, <1>3, <1>4, <1>5, <1>6, <1>7, <1>8, <1>9, <1>10, <1>11, <1>12, <1>13,
     <1>14, <1>15, <1>16, <1>17, <1>18, <1>19, <1>20, <1>21, <1>22, <1>23, <1>24,
     <1>25, <1>26, <1>27, <1>28, <1>29, <1>30, <1>31, <1>32, <1>33, <1>34, <1>35,
     <1>36, <1>37 DEF Next, Works, RoleWorks

\* A role that waits for help is attended to, for any requests, failures and restarts; what was
\* cut off under another message is counted apart.
THEOREM Attends == Spec => []NoRequestStranded
<1>1. Init => WaitInv
  BY DEF Init, WaitInv, WaitFacts
<1>2. WaitInv => NoRequestStranded
  BY DEF WaitInv, WaitFacts, Attended, NoRequestStranded
<1> QED  BY <1>1, <1>2, TypeCorrect, WaitStep, PTL DEF Spec

-----------------------------------------------------------------------------
(* The two queues *)

LEMMA SaidIsMessage ==
    /\ \A u \in Users : Said(u) \in Messages /\ Said(u)[1] = "user" /\ Said(u) # None
    /\ \A u, v \in Users : Said(u) = Said(v) => u = v
BY MessageKinds DEF Said, None

\* A step between the beginning of a turn and its end.
LEMMA SaidGoesOn ==
    ASSUME Typing, SaidInv, UNCHANGED <<fifo, meta, projected, sent>>, turn.pc # "dead",
           ~Fresh, ~Again, ~Fresh', ~Again', turn'.pc # "hear",
           Begun' => Begun /\ turn'.of = turn.of,
           \A u \in Users : Said(u) \in ToSet(heard') =>
                               Said(u) \in ToSet(heard) \/ (Begun /\ turn.of = Said(u)),
           \A u \in Users : u \in answered' => u \in answered \/ (Begun /\ turn.of = Said(u))
    PROVE  SaidInv'
<1>1. StepInv'
  BY DEF SaidInv, StepInv, Ahead
<1>2. ASSUME NEW u \in Users PROVE SaidFacts(u)'
  <2>1. SaidFacts(u) /\ Said(u)' = Said(u)
    BY DEF SaidInv, Said
  <2>2. /\ \A i, j \in 1..Len(fifo') : fifo'[i] = Said(u)' /\ fifo'[j] = Said(u)' => i = j
        /\ Said(u)' \in ToSet(fifo)' => u \in sent' /\ projected'[u] = 0 /\ ~(Fresh /\ turn.msg = Said(u))'
        /\ (Fresh /\ turn.msg = Said(u))' => u \in sent' /\ projected'[u] = 0
        /\ u \notin sent' => projected'[u] = 0
        /\ projected'[u] <= 1
    BY <2>1 DEF SaidFacts
  <2>3. /\ (Begun /\ turn.of = Said(u))' => projected'[u] = 1
        /\ Said(u)' \in ToSet(heard)' => projected'[u] = 1
        /\ u \in answered' => projected'[u] = 1
    BY <2>1 DEF SaidFacts
  <2> QED  BY <2>2, <2>3 DEF SaidFacts
<1> QED  BY <1>1, <1>2 DEF SaidInv

\* A loop that has ended, and a step that has nothing to do with the manager.
LEMMA SaidDies ==
    ASSUME SaidInv, UNCHANGED <<fifo, heard, projected, sent, answered>>, turn'.pc = "dead"
    PROVE  SaidInv'
<1>1. StepInv'
  BY DEF StepInv, Fresh, Again
<1>2. ASSUME NEW u \in Users PROVE SaidFacts(u)'
  BY DEF SaidInv, SaidFacts, Said, Fresh, Again, Begun
<1> QED  BY <1>1, <1>2 DEF SaidInv

LEMMA SaidUntouched ==
    ASSUME SaidInv, UNCHANGED <<fifo, meta, turn, heard, projected, sent, answered>>
    PROVE  SaidInv'
BY DEF SaidInv, StepInv, SaidFacts, Said, Fresh, Again, Ahead, Begun

\* A message that arrives while a turn goes on: of a task, or one that a user had not sent.
LEMMA SaidArrives ==
    ASSUME Typing, SaidInv, NEW msg \in Messages, Enqueue(msg),
           UNCHANGED <<turn, heard, projected, answered>>, sent \subseteq sent',
           \A u \in Users : msg = Said(u) => u \notin sent /\ u \in sent'
    PROVE  SaidInv'
<1>1. UNCHANGED <<Fresh, Again, Ahead, Begun>> /\ Ahead \in {0, 1}
  BY DEF Fresh, Again, Ahead, Begun
<1>2. /\ Len(fifo) \in Nat /\ Len(meta) \in Nat
      /\ Len(fifo') = Len(fifo) + 1 /\ Len(meta') = Len(meta) + 1
      /\ ToSet(fifo') = ToSet(fifo) \union {msg}
      /\ \A i \in 1..Len(fifo) : fifo'[i] = fifo[i]
      /\ \A i \in 1..Len(meta) : meta'[i] = meta[i]
      /\ fifo'[Len(fifo) + 1] = msg /\ (meta'[Len(meta) + 1] <=> msg[1] = "user")
  BY EnqueueEffect DEF Typing, QueueTypes
<1>3. StepInv'
  <2>1. ASSUME turn.pc # "dead"
        PROVE  /\ Len(meta') = Len(fifo') + Ahead
               /\ \A i \in 1..Len(fifo') : meta'[i + Ahead] <=> fifo'[i][1] = "user"
               /\ Fresh \/ Again => meta'[1] = meta[1]
    <3>1. /\ Len(meta) = Len(fifo) + Ahead
          /\ \A i \in 1..Len(fifo) : meta[i + Ahead] <=> fifo[i][1] = "user"
      BY <2>1 DEF SaidInv, StepInv
    <3>2. Len(meta') = Len(fifo') + Ahead
      BY <1>1, <1>2, <3>1
    <3>3. ASSUME NEW i \in 1..Len(fifo') PROVE meta'[i + Ahead] <=> fifo'[i][1] = "user"
      <4>1. CASE i \in 1..Len(fifo)
        <5>1. i + Ahead \in 1..Len(meta)
          BY <1>1, <1>2, <3>1, <4>1
        <5>2. meta'[i + Ahead] = meta[i + Ahead] /\ fifo'[i] = fifo[i]
          BY <1>2, <4>1, <5>1
        <5> QED  BY <3>1, <4>1, <5>2
      <4>2. CASE i = Len(fifo) + 1
        <5>1. i + Ahead = Len(meta) + 1
          BY <1>1, <1>2, <3>1, <4>2
        <5> QED  BY <1>2, <4>2, <5>1
      <4> QED  BY <1>2, <4>1, <4>2
    <3>4. Fresh \/ Again => meta'[1] = meta[1]
      <4>1. Fresh \/ Again => 1 \in 1..Len(meta)
        BY <1>2, <3>1 DEF Ahead
      <4> QED  BY <1>2, <4>1
    <3> QED  BY <3>2, <3>3, <3>4
  <2>2. Fresh \/ Again => turn.pc # "dead"
    BY DEF Fresh, Again
  <2> QED  BY <1>1, <2>1, <2>2 DEF SaidInv, StepInv
<1>4. ASSUME NEW u \in Users PROVE SaidFacts(u)'
  <2>1. SaidFacts(u) /\ Said(u)' = Said(u)
    BY DEF SaidInv, Said
  <2>2. \A i, j \in 1..Len(fifo') : fifo'[i] = Said(u) /\ fifo'[j] = Said(u) => i = j
    <3>1. \A i \in 1..Len(fifo) : fifo[i] = Said(u) => u \in sent
      BY <2>1 DEF SaidFacts, ToSet
    <3>2. \A i, j \in 1..Len(fifo) : fifo[i] = Said(u) /\ fifo[j] = Said(u) => i = j
      BY <2>1 DEF SaidFacts
    <3> QED  BY <1>2, <3>1, <3>2, SMTT(30)
  <2>3. Said(u) \in ToSet(fifo') => u \in sent' /\ projected'[u] = 0 /\ ~(Fresh /\ turn.msg = Said(u))
    BY <1>2, <2>1 DEF SaidFacts
  <2>4. /\ Fresh /\ turn.msg = Said(u) => u \in sent' /\ projected'[u] = 0
        /\ u \notin sent' => projected'[u] = 0
        /\ projected'[u] <= 1
        /\ Begun /\ turn.of = Said(u) => projected'[u] = 1
        /\ Said(u) \in ToSet(heard') => projected'[u] = 1
        /\ u \in answered' => projected'[u] = 1
    BY <2>1 DEF SaidFacts
  <2> QED  BY <1>1, <2>1, <2>2, <2>3, <2>4 DEF SaidFacts
<1> QED  BY <1>3, <1>4 DEF SaidInv

LEMMA SaidStep == Typing /\ SaidInv /\ [Next]_vars => SaidInv'
<1> SUFFICES ASSUME Typing, SaidInv, [Next]_vars PROVE SaidInv'
  OBVIOUS
<1>1. CASE NextMessage
  <2>1. /\ turn.pc = "idle" /\ turn'.pc = "begin" /\ ~turn'.resumed /\ turn'.of = turn'.msg
        /\ fifo # <<>> /\ turn'.msg = Head(fifo) /\ fifo' = Tail(fifo)
    BY <1>1 DEF NextMessage, Idle
  <2>2. UNCHANGED <<meta, heard, projected, sent, answered>>
    BY <1>1 DEF NextMessage, ghosts, limits
  <2>3. ~Again /\ ~Again' /\ ~Fresh /\ Fresh' /\ Ahead' = 1 /\ Ahead = 0 /\ ~Begun /\ ~Begun'
    BY <2>1 DEF Again, Fresh, Ahead, Begun
  <2>4. /\ Len(fifo) \in Nat \ {0} /\ Len(fifo') = Len(fifo) - 1 /\ turn'.msg = fifo[1]
        /\ ToSet(fifo) = ToSet(fifo') \union {turn'.msg}
        /\ \A i \in 1..Len(fifo') : fifo'[i] = fifo[i + 1]
    BY <2>1, Shortened DEF Typing, QueueTypes
  <2>5. StepInv'
    <3>1. Len(meta) = Len(fifo) /\ \A i \in 1..Len(fifo) : meta[i] <=> fifo[i][1] = "user"
      <4>1. Len(meta) = Len(fifo) + 0 /\ \A i \in 1..Len(fifo) : meta[i + 0] <=> fifo[i][1] = "user"
        BY <2>1, <2>3 DEF SaidInv, StepInv
      <4> QED  BY <2>4, <4>1
    <3>2. \A i \in 1..Len(fifo') : i + 1 \in 1..Len(fifo)
      BY <2>4
    <3>3. 1 \in 1..Len(fifo)
      BY <2>4
    <3>4. meta[1] <=> turn'.msg[1] = "user"
      BY <2>4, <3>1, <3>3
    <3>5. \A i \in 1..Len(fifo') : meta[i + 1] <=> fifo'[i][1] = "user"
      BY <2>4, <3>1, <3>2
    <3> QED  BY <2>1, <2>2, <2>3, <2>4, <3>1, <3>4, <3>5 DEF StepInv
  <2>6. ASSUME NEW u \in Users PROVE SaidFacts(u)'
    <3>1. SaidFacts(u) /\ Said(u)' = Said(u)
      BY DEF SaidInv, Said
    <3>2. \A i, j \in 1..Len(fifo) : fifo[i] = Said(u) /\ fifo[j] = Said(u) => i = j
      BY <3>1 DEF SaidFacts
    <3>3. \A i, j \in 1..Len(fifo') : fifo'[i] = Said(u) /\ fifo'[j] = Said(u) => i = j
      <4> TAKE i, j \in 1..Len(fifo')
      <4> HAVE fifo'[i] = Said(u) /\ fifo'[j] = Said(u)
      <4>1. i + 1 \in 1..Len(fifo) /\ j + 1 \in 1..Len(fifo) /\ fifo[i + 1] = Said(u) /\ fifo[j + 1] = Said(u)
        BY <2>4
      <4>2. i + 1 = j + 1
        BY <3>2, <4>1
      <4> QED  BY <4>2
    <3>4. Said(u) \in ToSet(fifo') => turn'.msg # Said(u)
      <4> HAVE Said(u) \in ToSet(fifo')
      <4>1. PICK i \in 1..Len(fifo') : fifo'[i] = Said(u)
        <5>1. fifo' \in Seq(Messages)
          BY <2>1, Shortened DEF Typing, QueueTypes
        <5> QED  BY <5>1 DEF ToSet
      <4>2. i + 1 \in 1..Len(fifo) /\ fifo[i + 1] = Said(u) /\ i + 1 # 1 /\ 1 \in 1..Len(fifo)
        BY <2>4, <4>1
      <4> QED  BY <2>4, <3>2, <4>2
    <3>5. Said(u) \in ToSet(fifo) => u \in sent /\ projected[u] = 0
      BY <3>1 DEF SaidFacts
    <3>6. /\ u \notin sent => projected[u] = 0
          /\ projected[u] <= 1
          /\ Said(u) \in ToSet(heard) => projected[u] = 1
          /\ u \in answered => projected[u] = 1
      BY <3>1 DEF SaidFacts
    <3> QED  BY <2>2, <2>3, <2>4, <3>1, <3>3, <3>4, <3>5, <3>6 DEF SaidFacts
  <2> QED  BY <2>5, <2>6 DEF SaidInv
<1>2. CASE Resume
  <2>1. turn.pc = "resume" /\ turn'.pc = "begin" /\ turn'.resumed /\ turn'.of = turn.of
    BY <1>2 DEF Resume, Idle
  <2>2. UNCHANGED <<fifo, meta, heard, projected, sent, answered>>
    BY <1>2 DEF Resume, queue, ghosts, limits
  <2>3. Again /\ Again' /\ ~Fresh /\ ~Fresh' /\ Ahead' = Ahead /\ Begun /\ Begun' /\ turn'.pc # "hear" /\ turn.pc # "dead"
    BY <2>1 DEF Again, Fresh, Ahead, Begun
  <2>4. StepInv'
    BY <2>2, <2>3 DEF SaidInv, StepInv
  <2>5. ASSUME NEW u \in Users PROVE SaidFacts(u)'
    BY <2>1, <2>2, <2>3 DEF SaidInv, SaidFacts, Said
  <2> QED  BY <2>4, <2>5 DEF SaidInv
<1>3. CASE FinishCommitted
  <2>1. turn.pc = "finish" /\ turn'.pc = "idle"
    BY <1>3 DEF FinishCommitted, Idle, Typing, QueueTypes, Turns
  <2>2. UNCHANGED <<fifo, meta, projected, sent>>
    BY <1>3 DEF FinishCommitted, queue, ghosts, limits
  <2>3. UNCHANGED heard
    BY <1>3 DEF FinishCommitted
  <2>4. UNCHANGED answered
    BY <1>3 DEF FinishCommitted, ghosts
  <2> QED  BY <2>1, <2>2, <2>3, <2>4, SaidGoesOn DEF Fresh, Again, Begun
<1>4. CASE BeforeTurn
  <2>0. turn.pc = "begin" /\ UNCHANGED <<fifo, heard, sent, answered>>
    BY <1>4 DEF BeforeTurn, queue, ghosts, limits
  <2>1. CASE meta = <<>>
    <3>0. turn' = [turn EXCEPT !.pc = "dead"] /\ UNCHANGED projected
      BY <1>4, <2>1, Zenon DEF BeforeTurn
    <3>1. turn'.pc = "dead" /\ UNCHANGED projected
      BY <3>0 DEF Typing, QueueTypes, Turns
    <3> QED  BY <2>0, <3>1, SaidDies
  <2>2. CASE meta # <<>>
    <3>1. meta' = Tail(meta) /\ projected' = [u \in Users |-> projected[u] +
                                         IF Head(meta) /\ turn.msg = <<"user", u>> THEN 1 ELSE 0]
      BY <1>4, <2>2, Zenon DEF BeforeTurn
    <3>2. /\ turn'.pc \in {"hear", "commit", "work"} /\ turn'.of = turn.of /\ turn'.msg = turn.msg
          /\ turn'.pc = "hear" => Fresh
      BY <1>4, <2>0, <2>2 DEF BeforeTurn, Fresh, Typing, QueueTypes, Turns
    <3>3. /\ (Fresh \/ Again) /\ ~(Fresh /\ Again) /\ ~Fresh' /\ ~Again'
          /\ Ahead = 1 /\ Ahead' = 0 /\ turn.pc # "dead"
          /\ Begun' /\ (Again <=> Begun)
      BY <2>0, <3>2 DEF Fresh, Again, Ahead, Begun
    <3>4. /\ Len(meta) \in Nat \ {0} /\ Len(meta') = Len(meta) - 1 /\ Head(meta) = meta[1] /\ Len(fifo) \in Nat
          /\ \A i \in 1..Len(meta') : meta'[i] = meta[i + 1]
      <4>1. meta \in Seq(BOOLEAN) /\ Len(fifo) \in Nat
        BY DEF Typing, QueueTypes
      <4>2. /\ Len(meta) \in Nat \ {0} /\ Len(Tail(meta)) = Len(meta) - 1 /\ Head(meta) = meta[1]
            /\ \A i \in 1..Len(Tail(meta)) : Tail(meta)[i] = meta[i + 1]
        BY <2>2, <4>1, Shortened, Zenon
      <4> QED  BY <3>1, <4>1, <4>2
    <3>5. StepInv'
      <4>1. /\ Len(meta) = Len(fifo) + 1
            /\ \A i \in 1..Len(fifo) : meta[i + 1] <=> fifo[i][1] = "user"
            /\ Fresh => turn.msg = turn.of
        BY <3>3 DEF SaidInv, StepInv
      <4>2. Len(meta') = Len(fifo') + 0
        BY <2>0, <3>4, <4>1
      <4>3. ASSUME NEW i \in 1..Len(fifo') PROVE meta'[i + 0] <=> fifo'[i][1] = "user"
        <5>1. i + 0 = i /\ i \in 1..Len(meta') /\ i \in 1..Len(fifo)
          BY <2>0, <3>4, <4>2
        <5> QED  BY <2>0, <3>4, <4>1, <5>1
      <4> QED  BY <3>2, <3>3, <4>1, <4>2, <4>3 DEF StepInv
    <3>6. ASSUME NEW u \in Users PROVE SaidFacts(u)'
      <4>1. SaidFacts(u) /\ Said(u)' = Said(u) /\ projected[u] \in Nat
        BY DEF SaidInv, Said, Typing, GhostTypes
      <4>2. projected'[u] = IF Fresh /\ turn.msg = Said(u) THEN projected[u] + 1 ELSE projected[u]
        <5>1. Head(meta) /\ turn.msg = <<"user", u>> <=> Fresh /\ turn.msg = Said(u)
          BY <3>3, <3>4, SaidIsMessage DEF SaidInv, StepInv, Said
        <5>2. projected'[u] = projected[u] + IF Head(meta) /\ turn.msg = <<"user", u>> THEN 1 ELSE 0
          BY <3>1
        <5>3. CASE Fresh /\ turn.msg = Said(u)
          BY <4>1, <5>1, <5>2, <5>3
        <5>4. CASE ~(Fresh /\ turn.msg = Said(u))
          <6>1. ~(Head(meta) /\ turn.msg = <<"user", u>>)
            BY <5>1, <5>4
          <6>2. projected'[u] = projected[u] + 0
            BY <5>2, <6>1, Zenon
          <6> QED  BY <4>1, <5>4, <6>2
        <5> QED  BY <5>3, <5>4
      <4>3. Fresh => turn.msg = turn.of
        BY DEF SaidInv, StepInv
      <4>4. CASE Fresh /\ turn.msg = Said(u)
        BY <2>0, <3>2, <3>3, <4>1, <4>2, <4>3, <4>4 DEF SaidFacts
      <4>5. CASE ~(Fresh /\ turn.msg = Said(u))
        <5>1. projected'[u] = projected[u]
          BY <4>2, <4>5
        <5>2. Begun' /\ turn'.of = Said(u) => projected'[u] = 1
          BY <3>2, <3>3, <4>1, <4>3, <4>5, <5>1 DEF SaidFacts
        <5> QED  BY <2>0, <3>2, <3>3, <4>1, <5>1, <5>2 DEF SaidFacts
      <4> QED  BY <4>4, <4>5
    <3> QED  BY <3>5, <3>6 DEF SaidInv
  <2> QED  BY <2>1, <2>2
<1>5. CASE Hear
  <2>1. turn.pc = "hear" /\ turn'.pc = "work" /\ turn'.of = turn.of
    BY <1>5 DEF Hear, Typing, QueueTypes, Turns
  <2>2. UNCHANGED <<fifo, meta, projected, sent>>
    BY <1>5 DEF Hear, queue, ghosts, limits
  <2>3. \A u \in Users : Said(u) \in ToSet(heard') => Said(u) \in ToSet(heard) \/ turn.of = Said(u)
    <3>1. turn.msg = turn.of /\ turn.msg \in Messages \union {None}
      BY <2>1 DEF SaidInv, StepInv, Typing, QueueTypes, Turns
    <3> QED  BY <1>5, <3>1, Appended DEF Hear, Typing, QueueTypes
  <2>4. UNCHANGED answered
    BY <1>5 DEF Hear, ghosts
  <2> QED  BY <2>1, <2>2, <2>3, <2>4, SaidGoesOn DEF Fresh, Again, Begun
<1>6. CASE Answer
  <2>1. turn.pc = "work" /\ turn'.pc = "commit" /\ turn'.of = turn.of
    BY <1>6 DEF Answer, Typing, QueueTypes, Turns
  <2>2. UNCHANGED <<fifo, meta, projected, sent>>
    BY <1>6 DEF Answer, queue, ghosts, limits
  <2>3. UNCHANGED heard
    BY <1>6 DEF Answer
  <2>4. UNCHANGED answered
    BY <1>6 DEF Answer, ghosts
  <2> QED  BY <2>1, <2>2, <2>3, <2>4, SaidGoesOn DEF Fresh, Again, Begun
<1>7. CASE Commit
  <2>1. turn.pc = "commit" /\ turn'.pc = "discard" /\ turn'.of = turn.of
    BY <1>7 DEF Commit, Typing, QueueTypes, Turns
  <2>2. UNCHANGED <<fifo, meta, projected, sent>>
    BY <1>7 DEF Commit, queue, ghosts, limits
  <2>3. ToSet(heard') = {}
    BY <1>7 DEF Commit, ToSet
  <2>4. UNCHANGED answered
    BY <1>7 DEF Commit, ghosts
  <2> QED  BY <2>1, <2>2, <2>3, <2>4, SaidGoesOn DEF Fresh, Again, Begun
<1>8. CASE Discard
  <2>1. turn.pc = "discard" /\ turn'.pc = "after" /\ turn'.of = turn.of
    BY <1>8 DEF Discard, Typing, QueueTypes, Turns
  <2>2. UNCHANGED <<fifo, meta, projected, sent>>
    BY <1>8 DEF Discard, queue, ghosts, limits
  <2>3. UNCHANGED heard
    BY <1>8 DEF Discard
  <2>4. UNCHANGED answered
    BY <1>8 DEF Discard, ghosts
  <2> QED  BY <2>1, <2>2, <2>3, <2>4, SaidGoesOn DEF Fresh, Again, Begun
<1>9. CASE Decline
  <2>1. turn.pc = "after" /\ turn'.pc = "done" /\ turn'.of = turn.of
    BY <1>9 DEF Decline, Typing, QueueTypes, Turns
  <2>2. UNCHANGED <<fifo, meta, projected, sent>>
    BY <1>9 DEF Decline, queue, ghosts, limits
  <2>3. UNCHANGED heard
    BY <1>9 DEF Decline
  <2>4. answered' = answered \union {u \in Users : turn.of = Said(u)}
    BY <1>9 DEF Decline, Said
  <2> QED  BY <2>1, <2>2, <2>3, <2>4, SaidGoesOn DEF Fresh, Again, Begun
<1>10. CASE TurnDone
  <2>1. turn.pc = "done" /\ turn' \in {Idle, [Idle EXCEPT !.pc = "dead"]}
    BY <1>10 DEF TurnDone
  <2>2. UNCHANGED <<fifo, meta, heard, projected, sent, answered>>
    BY <1>10 DEF TurnDone, ghosts, limits
  <2> QED  BY <2>1, <2>2, SaidDies, SaidGoesOn DEF Idle, Fresh, Again, Begun
<1>11. CASE Compact
  <2>1. turn.pc = "work" /\ turn'.pc = "work" /\ turn'.of = turn.of
    BY <1>11 DEF Compact, Typing, QueueTypes, Turns
  <2>2. UNCHANGED <<fifo, meta, projected, sent>>
    BY <1>11 DEF Compact, queue, ghosts, limits
  <2>3. ToSet(heard') \subseteq ToSet(heard)
    BY <1>11, Shortened DEF Compact, Typing, QueueTypes
  <2>4. UNCHANGED answered
    BY <1>11 DEF Compact, ghosts
  <2> QED  BY <2>1, <2>2, <2>3, <2>4, SaidGoesOn DEF Fresh, Again, Begun
<1>12. CASE CutOff
  <2>1. /\ turn.pc \in {"work", "commit"} /\ turn'.pc = "resume" /\ turn'.of = turn.of
        /\ meta' = <<FALSE>> \o meta
    BY <1>12 DEF CutOff, Recover, Typing, QueueTypes, Turns
  <2>2. UNCHANGED <<fifo, heard, projected, sent, answered>>
    BY <1>12 DEF CutOff, ghosts
  <2>3. ~Again /\ Again' /\ ~Fresh /\ ~Fresh' /\ Ahead' = 1 /\ Ahead = 0 /\ Begun /\ Begun'
    BY <2>1 DEF Again, Fresh, Ahead, Begun
  <2>4. /\ Len(meta') = Len(meta) + 1 /\ ~meta'[1]
        /\ \A i \in 1..Len(meta) : meta'[i + 1] = meta[i]
    BY <2>1, PutInFront DEF Typing, QueueTypes
  <2>5. StepInv'
    <3>1. Len(meta) = Len(fifo) /\ Len(fifo) \in Nat /\ \A i \in 1..Len(fifo) : meta[i] <=> fifo[i][1] = "user"
      <4>1. Len(fifo) \in Nat /\ turn.pc # "dead"
        BY <2>1 DEF Typing, QueueTypes
      <4>2. Len(meta) = Len(fifo) + 0 /\ \A i \in 1..Len(fifo) : meta[i + 0] <=> fifo[i][1] = "user"
        BY <2>3, <4>1 DEF SaidInv, StepInv
      <4> QED  BY <4>1, <4>2
    <3> QED  BY <2>1, <2>2, <2>3, <2>4, <3>1 DEF StepInv
  <2>6. ASSUME NEW u \in Users PROVE SaidFacts(u)'
    BY <2>1, <2>2, <2>3 DEF SaidInv, SaidFacts, Said
  <2> QED  BY <2>5, <2>6 DEF SaidInv
<1>13. CASE Fail
  <2>1. turn'.pc = "dead"
    BY <1>13 DEF Fail, Typing, QueueTypes, Turns
  <2> QED  BY <1>13, <2>1, SaidDies DEF Fail, ghosts
<1>14. CASE Preempt
  <2>1. turn.pc = "work" /\ turn'.pc = "after" /\ turn'.of = turn.of
    BY <1>14 DEF Preempt, Typing, QueueTypes, Turns
  <2>2. UNCHANGED <<fifo, meta, projected, sent>>
    BY <1>14 DEF Preempt, queue, ghosts
  <2>3. UNCHANGED heard
    BY <1>14 DEF Preempt
  <2>4. UNCHANGED answered
    BY <1>14 DEF Preempt, ghosts
  <2> QED  BY <2>1, <2>2, <2>3, <2>4, SaidGoesOn DEF Fresh, Again, Begun
<1>15. CASE DeclineFails
  <2>1. turn'.pc = "dead"
    BY <1>15 DEF DeclineFails, Typing, QueueTypes, Turns
  <2> QED  BY <1>15, <2>1, SaidDies DEF DeclineFails, queue, ghosts
<1>16. CASE Restart
  <2>1. /\ fifo' = <<>> /\ UNCHANGED <<heard, projected, sent, answered>>
        /\ meta' = IF file = "open" THEN <<FALSE>> ELSE <<>>
    BY <1>16 DEF Restart
  <2>2. /\ turn'.pc \in {"resume", "finish", "idle"} /\ (turn'.pc = "resume" <=> file = "open")
        /\ turn'.of = IF heard = <<>> THEN None ELSE Last(heard)
    BY <1>16 DEF Restart, Idle
  <2>3. ~Fresh' /\ (Again' <=> file = "open") /\ (Begun' <=> file = "open") /\ Ahead' = IF file = "open" THEN 1 ELSE 0
    BY <2>2 DEF Fresh, Again, Ahead, Begun
  <2>4. StepInv'
    <3>1. Len(meta') = Ahead' /\ (file = "open" => ~meta'[1]) /\ Len(fifo') = 0
      BY <2>1, <2>3
    <3> QED  BY <2>2, <2>3, <3>1 DEF StepInv
  <2>5. turn'.of = None \/ turn'.of \in ToSet(heard)
    BY <2>2 DEF Last, ToSet, Typing, QueueTypes
  <2>6. ASSUME NEW u \in Users PROVE SaidFacts(u)'
    <3>1. SaidFacts(u) /\ Said(u)' = Said(u) /\ Said(u) # None
      BY SaidIsMessage DEF SaidInv, Said
    <3>2. ToSet(fifo') = {} /\ Len(fifo') = 0
      BY <2>1 DEF ToSet
    <3> QED  BY <2>1, <2>3, <2>5, <3>1, <3>2 DEF SaidFacts
  <2> QED  BY <2>4, <2>6 DEF SaidInv
<1>17. ASSUME NEW u \in Users, UserSends(u) PROVE SaidInv'
  <2>1. /\ Enqueue(Said(u)) /\ UNCHANGED <<turn, heard, projected, answered>>
        /\ u \notin sent /\ sent' = sent \union {u}
    BY <1>17 DEF UserSends, Said, loop, ghosts
  <2> QED  BY <2>1, SaidIsMessage, SaidArrives
<1>18. ASSUME NEW r \in Roles, Enter(r) PROVE SaidInv'
  BY <1>18, SaidUntouched DEF Enter, queue, loop, ghosts, limits
<1>19. ASSUME NEW r \in Roles, Ask(r) PROVE SaidInv'
  BY <1>19, SaidUntouched DEF Ask, queue, loop, ghosts, limits
<1>20. ASSUME NEW r \in Roles, Answers(r) PROVE SaidInv'
  BY <1>20, SaidUntouched DEF Answers, queue, loop, ghosts, limits
<1>21. ASSUME NEW r \in Roles, ExportsRole(r) PROVE SaidInv'
  BY <1>21, SaidUntouched DEF ExportsRole, queue, loop, ghosts, limits
<1>22. ASSUME NEW r \in Roles, Ends(r) PROVE SaidInv'
  <2>1. PICK how \in {"done", "failed"} : Settle(Own(r), how)
    BY <1>22 DEF Ends
  <2>2. UNCHANGED <<turn, heard, projected, answered, sent>>
    BY <1>22 DEF Ends, queue, loop, ghosts, limits
  <2>3. CASE \E msg \in Messages : Enqueue(msg) /\ msg[1] # "user"
    <3>1. PICK msg \in Messages : Enqueue(msg) /\ msg[1] # "user"
      BY <2>3
    <3>2. \A u \in Users : msg # Said(u)
      BY <3>1, SaidIsMessage
    <3> QED  BY <2>2, <3>1, <3>2, SaidArrives
  <2>4. CASE Stopped /\ UNCHANGED <<fifo, meta>>
    BY <2>2, <2>4, SaidUntouched
  <2> QED  BY <2>1, <2>3, <2>4, SettleEffect, Tuples DEF Typing
<1>23. ASSUME NEW r \in Roles, Freeze(r) PROVE SaidInv'
  BY <1>23, SaidUntouched DEF Freeze, queue, loop, ghosts
<1>24. ASSUME NEW r \in Roles, SaveRequest(r) PROVE SaidInv'
  BY <1>24, SaidUntouched DEF SaveRequest, queue, loop, ghosts
<1>25. ASSUME NEW r \in Roles, FindRequest(r) PROVE SaidInv'
  BY <1>25, SaidUntouched DEF FindRequest, queue, loop, ghosts, limits
<1>26. ASSUME NEW r \in Roles, Notify(r) PROVE SaidInv'
  <2>1. Enqueue(<<"notice", r>>) /\ UNCHANGED <<turn, heard, projected, answered, sent>>
    BY <1>26 DEF Notify, queue, loop, ghosts, limits
  <2>2. <<"notice", r>> \in Messages /\ \A u \in Users : <<"notice", r>> # Said(u)
    BY MessageKinds DEF Said
  <2> QED  BY <2>1, <2>2, SaidArrives
<1>27. ASSUME NEW r \in Roles, Decided(r) PROVE SaidInv'
  BY <1>27, SaidUntouched DEF Decided, queue, loop, ghosts, limits
<1>28. ASSUME NEW r \in Roles, Wake(r) PROVE SaidInv'
  BY <1>28, SaidUntouched DEF Wake, queue, loop, ghosts, limits
<1>29. ASSUME NEW r \in Roles, ResumeHelp(r) PROVE SaidInv'
  BY <1>29, SaidUntouched DEF ResumeHelp, queue, loop, ghosts, limits
<1>30. ASSUME NEW r \in Roles, ResumeRefused(r) PROVE SaidInv'
  BY <1>30, SaidUntouched DEF ResumeRefused, queue, loop, ghosts, limits
<1>31. ASSUME NEW r \in Roles, Returns(r) PROVE SaidInv'
  BY <1>31, SaidUntouched DEF Returns, queue, loop, ghosts, limits
<1>32. ASSUME NEW r \in Roles, CallsHelp(r) PROVE SaidInv'
  BY <1>32, SaidUntouched DEF CallsHelp, queue, loop, ghosts, limits
<1>33. ASSUME NEW r \in Roles, HelperWorks(r) PROVE SaidInv'
  BY <1>33, SaidUntouched DEF HelperWorks, queue, loop, ghosts, limits
<1>34. ASSUME NEW r \in Roles, HelperEnds(r) PROVE SaidInv'
  <2>1. PICK how \in {"done", "failed"} : Settle(Help(r), how)
    BY <1>34 DEF HelperEnds
  <2>2. UNCHANGED <<turn, heard, projected, answered, sent>>
    BY <1>34 DEF HelperEnds, queue, loop, ghosts, limits
  <2>3. CASE \E msg \in Messages : Enqueue(msg) /\ msg[1] # "user"
    <3>1. PICK msg \in Messages : Enqueue(msg) /\ msg[1] # "user"
      BY <2>3
    <3>2. \A u \in Users : msg # Said(u)
      BY <3>1, SaidIsMessage
    <3> QED  BY <2>2, <3>1, <3>2, SaidArrives
  <2>4. CASE Stopped /\ UNCHANGED <<fifo, meta>>
    BY <2>2, <2>4, SaidUntouched
  <2> QED  BY <2>1, <2>3, <2>4, SettleEffect, Tuples DEF Typing
<1>35. ASSUME NEW r \in Roles, MessageTask(r) PROVE SaidInv'
  BY <1>35, SaidUntouched DEF MessageTask, queue, loop, ghosts, limits
<1>36. ASSUME NEW r \in Roles, NEW back \in BOOLEAN, Provide(r, back) PROVE SaidInv'
  BY <1>36, SaidUntouched DEF Provide, queue, loop, ghosts, limits
<1>37. CASE UNCHANGED vars
  BY <1>37, SaidUntouched DEF vars, queue, loop, ghosts, limits
<1> QED
  BY <1>1, <1>2, <1>3, <1>4, <1>5, <1>6, <1>7, <1>8, <1>9, <1>10, <1>11, <1>12, <1>13,
     <1>14, <1>15, <1>16, <1>17, <1>18, <1>19, <1>20, <1>21, <1>22, <1>23, <1>24,
     <1>25, <1>26, <1>27, <1>28, <1>29, <1>30, <1>31, <1>32, <1>33, <1>34, <1>35,
     <1>36, <1>37 DEF Next, Works, RoleWorks

\* A user's message is remembered once and no later than its turn: the loop's queue and the
\* manager's keep in step through resumed, interrupted and restarted turns.
THEOREM Projects == Spec => []ProjectedOnce
<1>1. Init => SaidInv
  <2> SUFFICES ASSUME Init PROVE SaidInv
    OBVIOUS
  <2>1. StepInv
    BY DEF Init, Idle, StepInv, Fresh, Again, Ahead
  <2>2. \A u \in Users : SaidFacts(u)
    BY DEF Init, Idle, SaidFacts, Said, Fresh, Again, Begun, ToSet
  <2> QED  BY <2>1, <2>2 DEF SaidInv
<1>2. SaidInv => ProjectedOnce
  BY DEF SaidInv, SaidFacts, ProjectedOnce
<1> QED  BY <1>1, <1>2, TypeCorrect, SaidStep, PTL DEF Spec
=============================================================================
