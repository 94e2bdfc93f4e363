----------------------------- MODULE CommandCache -----------------------------
(***************************************************************************)
(* The cache of command results that all environments and processes share  *)
(* (internal/cmdcache), as the scheduler uses it (internal/exec).          *)
(*                                                                         *)
(* A command is the system calls it makes: the trace of a run gives the    *)
(* paths whose state it depends on and those it wrote.  The state of the   *)
(* first is taken after the run, with what it wrote: an entry answers for  *)
(* the command wherever that state holds, and replays the writes.  Blobs   *)
(* of written files are kept apart and may be collected at any time.       *)
(*                                                                         *)
(* A request is a list of commands, each run or answered on its own unless *)
(* one depends on the state of the shell.  The tool calls of one           *)
(* environment are made one after the other.                               *)
(***************************************************************************)
EXTENDS Naturals, Sequences, FiniteSets, SequencesExt

CONSTANTS Environments,
          Parent,        \* of each path; "" is the root of the tree
          Trees,         \* what an environment may start with
          Requests,      \* lists of [calls, when, asks, shell]
          CacheFailures, \* are failed commands kept?
          MaxRequests, MaxCollections

Paths == DOMAIN Parent
None  == <<"none">>
Dir   == <<"dir">>
File(content) == <<"file", content>>
Inside(p) == {q \in Paths : q = p \/ Parent[q] = p}

ASSUME CacheAssumption ==
    /\ "" \notin Paths /\ \A p \in Paths : Parent[p] \in Paths \union {""}
    /\ \A t \in Trees : DOMAIN t = Paths
    /\ CacheFailures \in BOOLEAN /\ {MaxRequests, MaxCollections} \subseteq Nat

VARIABLES tree,    \* the live tree of each environment
          job,     \* the request each environment has under way
          entries, \* the index
          blobs,   \* the contents of written files
          found,   \* for the property: the tree a request found
          asked, collected

vars == <<tree, job, entries, blobs, found, asked, collected>>

-----------------------------------------------------------------------------
(* The state of a path *)

Exists(t, p)   == t[p] # None
HasParent(t, p) == Parent[p] = "" \/ t[Parent[p]] = Dir

\* pathTypeState
TypeOf(t, p) == IF Exists(t, p) THEN <<"type", t[p][1]>> ELSE <<"absent">>

\* A directory is the names and types in it, less those the command manages.
Listing(t, p, managed) ==
    {<<q, t[q][1]>> : q \in {q \in Paths \ managed : Parent[q] = p /\ Exists(t, q)}}

\* pathStateExcluding
StateOf(t, p, managed) ==
    IF t[p] = Dir THEN <<"listing", Listing(t, p, managed)>>
    ELSE IF Exists(t, p) THEN t[p] ELSE <<"absent">>

\* readState
Recorded(t, p, kind, managed) ==
    CASE kind = "absent" -> <<"absent">>
      [] kind = "stat"   -> TypeOf(t, p)
      [] OTHER           -> StateOf(t, p, managed)

\* verifyState: the form of what was recorded says how to look.
Verified(t, p, want, managed) ==
    IF want[1] \in {"absent", "type"} THEN TypeOf(t, p) ELSE StateOf(t, p, managed)

-----------------------------------------------------------------------------
(* A run of a command, and what its trace shows *)

\* How a call ends: "gone" stands for ENOENT and ENOTDIR.
Errno(t, c) ==
    CASE c.do \in {"read", "stat"} -> IF Exists(t, c.at) THEN "ok" ELSE "gone"
      [] c.do = "list"   -> IF t[c.at] = Dir THEN "ok" ELSE "gone"
      [] c.do \in {"write", "append"} ->
            IF ~HasParent(t, c.at) THEN "gone" ELSE IF t[c.at] = Dir THEN "other" ELSE "ok"
      [] c.do \in {"create", "mkdir"} ->
            IF ~HasParent(t, c.at) THEN "gone" ELSE IF Exists(t, c.at) THEN "other" ELSE "ok"
      [] c.do = "unlink" ->
            IF ~Exists(t, c.at) THEN "gone" ELSE IF t[c.at] = Dir THEN "other" ELSE "ok"
      [] c.do = "rename" ->
            IF ~Exists(t, c.at) \/ ~HasParent(t, c.to) THEN "gone"
            ELSE IF t[c.to] = Dir \/ t[c.at] = Dir THEN "other" ELSE "ok"
      [] OTHER -> "ok"

Effect(t, c, seen) ==
    CASE c.do \in {"write", "create"} -> [t EXCEPT ![c.at] = File(<<"made", seen>>)]
      [] c.do = "append" -> [t EXCEPT ![c.at] = File(<<"added", t[c.at], seen>>)]
      [] c.do = "mkdir"  -> [t EXCEPT ![c.at] = Dir]
      [] c.do = "unlink" -> [t EXCEPT ![c.at] = None]
      [] c.do = "rename" -> [t EXCEPT ![c.at] = None, ![c.to] = t[c.at]]
      [] OTHER -> t

Seen(t, c, errno) ==
    CASE errno # "ok"    -> <<<<"errno", errno>>>>
      [] c.do = "read"   -> <<t[c.at]>>
      [] c.do = "stat"   -> <<TypeOf(t, c.at)>>
      [] c.do = "list"   -> <<<<"listing", Listing(t, c.at, {})>>>>
      [] OTHER -> <<>>

\* openRole and the call tables: the paths a call depends on and changes.
Reads(c) == IF c.do \in {"read", "stat", "list", "append", "create", "rename"}
            THEN {c.at} ELSE {}
Writes(c) == CASE c.do \in {"write", "append", "create", "mkdir", "unlink"} -> {c.at}
               [] c.do = "rename" -> {c.at, c.to}
               [] OTHER -> {}

\* resolvePaths
Names(c) == CASE c.do = "net" -> {} [] c.do = "rename" -> {c.at, c.to} [] OTHER -> {c.at}

\* recordDependency
Kind(c, errno) ==
    CASE errno = "ok" /\ c.do = "create" -> "absent"
      [] errno = "gone"                  -> "absent"
      [] c.do = "stat" \/ errno = "other" -> "stat"
      [] c.do = "list"                   -> "dir"
      [] OTHER                           -> "file"

Strength(kind) == CASE kind = "stat" -> 1 [] kind = "file" -> 2 [] kind = "dir" -> 3 [] OTHER -> 0

\* A path the command wrote first is its own; a path that was absent stays so;
\* stronger evidence replaces weaker.
Depends(reads, writes, p, kind) ==
    CASE p \in writes -> reads
      [] p \notin writes /\ p \notin DOMAIN reads ->
            [q \in DOMAIN reads \union {p} |-> IF q = p THEN kind ELSE reads[q]]
      [] p \notin writes /\ p \in DOMAIN reads ->
            IF reads[p] # "absent" /\ Strength(kind) > Strength(reads[p])
            THEN [reads EXCEPT ![p] = kind] ELSE reads

\* record: a call that failed has only looked.
Record(r, c, errno) ==
    LET looked == IF errno = "ok" THEN Reads(c) ELSE Names(c)
    IN [r EXCEPT !.reads = FoldLeft(LAMBDA d, p : Depends(d, r.writes, p, Kind(c, errno)),
                                    @, SetToSeq(looked)),
                 !.writes = IF errno = "ok" THEN @ \union Writes(c) ELSE @,
                 !.net = @ \/ c.do = "net"]

\* One line of the trace.  A command ends at the first failure of a call it needs.
Call(r, c) ==
    LET errno == Errno(r.tree, c)
        news  == Seen(r.tree, c, errno)
    IN IF r.exit # 0 THEN r
       ELSE [Record(r, c, errno) EXCEPT
                !.tree = IF errno = "ok" THEN Effect(@, c, r.seen \o news) ELSE @,
                !.out  = @ \o news, !.seen = @ \o news,
                !.exit = IF errno # "ok" /\ c.must THEN 1 ELSE 0]

\* commandSegment.runnable
Runnable(s, exit) == CASE s.when = "success" -> exit = 0
                       [] s.when = "failure" -> exit # 0
                       [] OTHER -> TRUE

\* A command of a list: it prints the last status and the variable of the shell
\* where its text asks for them.
Command(r, s) ==
    LET told == (IF s.asks THEN <<<<"status", r.exit>>>> ELSE <<>>)
             \o (IF s.shell = "use" THEN <<<<"variable", r.set>>>> ELSE <<>>)
    IN IF ~Runnable(s, r.exit) THEN r
       ELSE FoldLeft(Call, [r EXCEPT !.out = @ \o told, !.seen = told, !.exit = 0,
                                     !.set = @ \/ s.shell = "set"], s.calls)

\* A shell that is given a list, and the trace of it.
Run(list, exit, t) ==
    FoldLeft(Command, [tree |-> t, out |-> <<>>, seen |-> <<>>, exit |-> exit, set |-> FALSE,
                       reads |-> <<>>, writes |-> {}, net |-> FALSE], list)

\* A timeout or a cancel: the shell gets no further than some call.
CutOff(list) ==
    {SubSeq(list, 1, i - 1) \o <<[list[i] EXCEPT !.calls = SubSeq(@, 1, n)]>> :
        <<i, n>> \in UNION {{i} \X (0 .. Len(list[i].calls) - 1) : i \in DOMAIN list}}

\* safeToSegment
Safe(list) == \A i \in DOMAIN list : list[i].shell = "none"

\* splitCacheFile: what goes to a shell of its own.
Plan(list) == IF Safe(list) THEN [i \in DOMAIN list |-> <<list[i]>>] ELSE <<list>>

-----------------------------------------------------------------------------
(* An entry *)

\* Mutant of Cacheable: a path that is read and rewritten is taken as it is left.
CacheableAnyway(r) == ~r.net

\* rejectionReason
Cacheable(r) ==
    /\ ~r.net
    /\ \A p \in r.writes \intersect DOMAIN r.reads : r.reads[p] = "absent"

\* storeTrace and Store: a run that was cut off says nothing about the command.
Kept(r, cut) == ~cut /\ Cacheable(r) /\ (r.exit = 0 \/ CacheFailures)

\* cacheCommand: the text of a single command that asks names the last status.
Key(list, exit) == <<list, IF Len(list) = 1 /\ list[1].asks THEN exit ELSE 0>>

Entry(key, r) ==
    [key    |-> key,
     reads  |-> [p \in DOMAIN r.reads |-> Recorded(r.tree, p, r.reads[p], r.writes)],
     writes |-> [p \in r.writes |-> r.tree[p]],
     exit   |-> r.exit, out |-> r.out]
NoEntry == [key |-> <<>>, reads |-> <<>>, writes |-> <<>>, exit |-> 0, out |-> <<>>]

Files(x) == {p \in DOMAIN x.writes : x.writes[p][1] = "file"}
Present(x) == \A p \in Files(x) : x.writes[p] \in blobs

\* Entry.matches
Matches(x, t) ==
    \A p \in DOMAIN x.reads : Verified(t, p, x.reads[p], DOMAIN x.writes) = x.reads[p]

-----------------------------------------------------------------------------
(* A request *)

Idle == [pc |-> "idle", todo |-> <<>>, list |-> <<>>, exit |-> 0, out |-> <<>>,
         hit |-> NoEntry, verify |-> FALSE, left |-> {}, run |-> NoEntry, kept |-> FALSE, cut |-> FALSE,
         before |-> [p \in Paths |-> None], broken |-> FALSE]

Init ==
    /\ tree \in [Environments -> Trees] /\ found = tree
    /\ job = [e \in Environments |-> Idle]
    /\ entries = {} /\ blobs = {} /\ asked = 0 /\ collected = 0

Goto(e, pc) == job' = [job EXCEPT ![e].pc = pc]

Start(e) ==
    /\ job[e].pc \in {"idle", "end", "failed"} /\ asked < MaxRequests
    /\ asked' = asked + 1
    /\ \E list \in Requests :
          job' = [job EXCEPT ![e] = [Idle EXCEPT !.pc = "next", !.todo = Plan(list), !.list = list]]
    /\ found' = [found EXCEPT ![e] = tree[e]]
    /\ UNCHANGED <<tree, entries, blobs, collected>>

Part(e)  == Head(job[e].todo)
First(e) == Head(Part(e))

Skip(e) ==
    /\ job[e].pc = "next" /\ job[e].todo # <<>> /\ ~Runnable(First(e), job[e].exit)
    /\ job' = [job EXCEPT ![e].todo = Tail(@)]
    /\ UNCHANGED <<tree, entries, blobs, found, asked, collected>>

End(e) ==
    /\ job[e].pc = "next" /\ job[e].todo = <<>>
    /\ Goto(e, "end")
    /\ UNCHANGED <<tree, entries, blobs, found, asked, collected>>

\* Lookup drops the entries it meets whose blobs are gone, up to the one that
\* matches; which of them comes first is a matter of times.
Lookup(e) ==
    /\ job[e].pc = "next" /\ job[e].todo # <<>> /\ Runnable(First(e), job[e].exit)
    /\ LET here == {x \in entries : x.key = Key(Part(e), job[e].exit)}
           gone == {x \in here : ~Present(x)}
           hits == {x \in here \ gone : Matches(x, tree[e])}
       IN \/ /\ hits = {} /\ entries' = entries \ gone
             /\ job' = [job EXCEPT ![e].pc = "run", ![e].hit = NoEntry, ![e].verify = FALSE]
          \/ \E x \in hits, met \in SUBSET gone, verify \in BOOLEAN :
                /\ entries' = entries \ met
                /\ job' = [job EXCEPT ![e].pc = IF verify THEN "run" ELSE "replay",
                                      ![e].hit = x, ![e].verify = verify, ![e].before = IF verify THEN @ ELSE tree[e]]
    /\ UNCHANGED <<tree, blobs, found, asked, collected>>

\* An error of Replay: the command is run after all, on what the replay left.
BreakOff(e) ==
    job' = [job EXCEPT ![e].pc = "run", ![e].hit = NoEntry,
                       ![e].before = Idle.before,
                       ![e].broken = @ \/ tree'[e] # job[e].before]

\* replay: deletions, then directories with their parents.
ReplayTree(e) ==
    /\ job[e].pc = "replay"
    /\ LET w    == job[e].hit.writes
           cut  == UNION {Inside(p) : p \in {p \in DOMAIN w : w[p] = None}}
           dirs == {p \in DOMAIN w : w[p] = Dir}
           t    == [p \in Paths |-> IF p \in cut THEN None ELSE tree[e][p]]
           made == dirs \union {Parent[p] : p \in {p \in dirs : Parent[p] # ""}}
       IN IF \E p \in made : t[p][1] = "file"
          THEN tree' = [tree EXCEPT ![e] = t] /\ BreakOff(e)
          ELSE /\ tree' = [tree EXCEPT ![e] =
                              [p \in Paths |-> IF p \in made THEN Dir ELSE t[p]]]
               /\ job' = [job EXCEPT ![e].pc = "files", ![e].left = Files(job[e].hit)]
    /\ UNCHANGED <<entries, blobs, found, asked, collected>>

\* replayFile: makes the parent, opens the blob, clears a directory in the way.
ReplayFile(e, p) ==
    /\ job[e].pc = "files" /\ p \in job[e].left
    /\ LET v == job[e].hit.writes[p]
           up == {Parent[p]} \ {""}
           t == [q \in Paths |-> IF q \in up THEN Dir ELSE tree[e][q]]
       IN IF \E q \in up : tree[e][q][1] = "file"
          THEN UNCHANGED tree /\ BreakOff(e)
          ELSE IF v \notin blobs
          THEN tree' = [tree EXCEPT ![e] = t] /\ BreakOff(e)
          ELSE /\ tree' = [tree EXCEPT ![e] =
                      [q \in Paths |-> IF q = p THEN v ELSE IF q \in Inside(p) THEN None ELSE t[q]]]
               /\ job' = [job EXCEPT ![e].left = @ \ {p}]
    /\ UNCHANGED <<entries, blobs, found, asked, collected>>

Answer(e, exit, out) ==
    job' = [job EXCEPT ![e] =
              [Idle EXCEPT !.pc = "next", !.list = job[e].list, !.todo = Tail(job[e].todo),
                           !.exit = exit, !.out = job[e].out \o out, !.broken = job[e].broken]]

Replayed(e) ==
    /\ job[e].pc = "files" /\ job[e].left = {}
    /\ Answer(e, job[e].hit.exit, job[e].hit.out)
    /\ UNCHANGED <<tree, entries, blobs, found, asked, collected>>

\* runSandboxed
Execute(e) ==
    /\ job[e].pc = "run"
    /\ \E part \in {Part(e)} \union CutOff(Part(e)) :
          LET r    == Run(part, job[e].exit, tree[e])
              cut  == part # Part(e)
              keep == Kept(r, cut)
          IN /\ tree' = [tree EXCEPT ![e] = r.tree]
             /\ job' = [job EXCEPT ![e].pc = IF keep THEN "capture" ELSE "check",
                            ![e].run = Entry(Key(Part(e), job[e].exit), r),
                            ![e].kept = keep, ![e].cut = cut]
    /\ UNCHANGED <<entries, blobs, found, asked, collected>>

\* captureArtifacts, then writeEntry: one file for each state of the dependencies.
Capture(e) ==
    /\ job[e].pc = "capture"
    /\ blobs' = blobs \union {job[e].run.writes[p] : p \in Files(job[e].run)}
    /\ Goto(e, "index")
    /\ UNCHANGED <<tree, entries, found, asked, collected>>

SameId(x, y) == x.key = y.key /\ x.reads = y.reads

WriteEntry(e) ==
    /\ job[e].pc = "index"
    /\ entries' = {x \in entries : ~SameId(x, job[e].run)} \union {job[e].run}
    /\ Goto(e, "check")
    /\ UNCHANGED <<tree, blobs, found, asked, collected>>

\* reconcileVerification: a candidate that is not what the run gave is removed.
Reconcile(e) ==
    /\ job[e].pc = "check"
    /\ LET x == job[e].hit
           y == job[e].run
           differs == ~job[e].kept \/ <<x.exit, x.writes, x.out>> # <<y.exit, y.writes, y.out>>
       IN entries' = IF job[e].verify /\ differs THEN {z \in entries : ~SameId(z, x)} ELSE entries
    /\ IF job[e].cut THEN job' = [job EXCEPT ![e] = [Idle EXCEPT !.pc = "failed"]]
       ELSE Answer(e, job[e].run.exit, job[e].run.out)
    /\ UNCHANGED <<tree, blobs, found, asked, collected>>

\* GC, here or in another process: which blobs are oldest is a matter of times.
Collect ==
    /\ collected < MaxCollections /\ collected' = collected + 1
    /\ \E kept \in SUBSET blobs : kept # blobs /\ blobs' = kept
    /\ UNCHANGED <<tree, job, entries, found, asked>>

Next ==
    \/ Collect
    \/ \E e \in Environments :
          \/ Start(e) \/ Skip(e) \/ End(e) \/ Lookup(e) \/ ReplayTree(e)
          \/ \E p \in Paths : ReplayFile(e, p)
          \/ Replayed(e) \/ Execute(e) \/ Capture(e) \/ WriteEntry(e) \/ Reconcile(e)

Spec == Init /\ [][Next]_vars

-----------------------------------------------------------------------------
(* Properties *)

\* Cache.Replay: a replay is the same as a run.  A request leaves, prints and
\* answers what one shell given the whole list would have on the tree the request
\* found, whichever of its commands were answered from the cache, wherever their
\* entries came from, whatever was cut off, and whatever was collected before a
\* replay or between two of them.  Excepted are the requests with a replay that
\* broke off after it had changed the tree (a blob collected after the lookup, a
\* file where a directory belongs): the command is then run on the changed tree.
ReplayedAsRun ==
    \A e \in Environments : job[e].pc = "end" /\ ~job[e].broken =>
        LET r == Run(job[e].list, 0, found[e])
        IN tree[e] = r.tree /\ job[e].exit = r.exit /\ job[e].out = r.out
===============================================================================
