------------------------------ MODULE Workspaces ------------------------------
(***************************************************************************)
(* Environments of a persistent file store (internal/vfs): archives taken  *)
(* from workspaces, workspaces and inputs made from archives, directories  *)
(* rendered for commands and absorbed again while commands still write,    *)
(* and restarts that leave the directories and lose the layers.            *)
(*                                                                         *)
(* Callers are the runners of tasks; several of them may read one archive. *)
(***************************************************************************)
EXTENDS Overlay

CONSTANTS Callers, Archives, Workplaces,
          Floors, Lefts,      \* what the project and earlier roles may have left
          Typed,              \* what commands write
          MaxCalls,
          MaxMoves,           \* writes by commands and restarts
          None

ASSUME WorkspacesAssumption ==
    /\ Archives \cap Workplaces = {}
    /\ Floors \subseteq Trees /\ Lefts \subseteq Trees /\ Typed \subseteq Contents
    /\ {MaxCalls, MaxMoves} \subseteq Nat

Envs == Archives \union Workplaces

ASSUME NoneAssumption == None \notin Trees \union Envs

VARIABLES
    floor,              \* the read floor of this session
    chain,              \* known environments: own layer, then the frozen ones
    disk, live,         \* durable directories, and which of them are open
    baseline, changed, since,  \* fingerprint: whether there is one, what moved after
                               \* it, what moved after a scan that is under way
    input, manifest,    \* prepared inputs, and the durable record of their sources
    call,               \* what each caller is doing
    took, adopted, spoiled,    \* for the properties: the tree a copy was promised,
                               \* which candidate each path was adopted from, and
                               \* environments a known defect has touched
    moves, calls

files  == <<chain, disk, live, baseline, changed, since>>
ghosts == <<took, adopted, spoiled>>
limits == <<moves, calls>>
vars   == <<floor, files, input, manifest, call, ghosts, limits>>

Known(e)   == chain[e] # <<>>
Undone     == [p \in Paths |-> 0]
Idle       == [pc |-> "idle", kind |-> "none", srcs |-> <<>>, at |-> 1, dst |-> None,
               before |-> Empty, same |-> {}, seen |-> Empty]
Source(c)  == call[c].srcs[call[c].at]
Uses(c)    == {call[c].srcs[i] : i \in DOMAIN call[c].srcs} \union {call[c].dst}
Goto(c, pc) == call' = [call EXCEPT ![c].pc = pc]
GiveUp(c)   == call' = [call EXCEPT ![c] = Idle]
Set(f, e, v) == f' = [f EXCEPT ![e] = v]

\* An archive the role before it left: one absorbed layer, rendered.
Layered(tree, over) == Merged(<<Empty>>, over, over, tree)

Init ==
    /\ floor \in Floors
    /\ disk \in {d \in [Envs -> Lefts \union {None}] :
                    \A e \in Envs : (d[e] = None) <=> (e \in Workplaces)}
    /\ chain = [e \in Envs |-> IF e \in Archives THEN <<Empty, Layered(disk[e], floor)>> ELSE <<>>]
    /\ live = [e \in Envs |-> e \in Archives] /\ baseline = live
    /\ changed = [e \in Envs |-> {}] /\ since = changed
    /\ input = [e \in Workplaces |-> None] /\ manifest = input
    /\ call = [c \in Callers |-> Idle]
    /\ took = [e \in Envs |-> None] /\ spoiled = {}
    /\ adopted = [e \in Workplaces |-> Undone]
    /\ moves = 0 /\ calls = 0

-----------------------------------------------------------------------------
(* A caller's operation: its sources one after the other, then the copy *)

\* A workspace belongs to one caller at a time; archives are shared, once they
\* are complete.
Begin(c, kind, srcs, dst) ==
    /\ call[c] = Idle /\ calls < MaxCalls
    /\ LET own == ({dst} \ {None}) \union ({srcs[i] : i \in DOMAIN srcs} \ Archives)
       IN \A d \in Callers : Uses(d) \cap own = {} /\ \A i \in DOMAIN srcs : srcs[i] # call[d].dst
    /\ calls' = calls + 1
    /\ call' = [call EXCEPT ![c] = [Idle EXCEPT !.kind = kind, !.srcs = srcs, !.dst = dst,
                    !.pc = IF kind \in {"apply", "release"} THEN "scan" ELSE "restore"]]
    /\ UNCHANGED <<floor, files, input, manifest, ghosts, moves>>

\* What an input was prepared from is a committed output: it is not archived again.
Committed(a) == \E t \in Workplaces :
                   manifest[t] # None /\ \E i \in DOMAIN manifest[t] : manifest[t][i] = a

\* Archive of a workspace, a workspace made from an archive, an input prepared
\* from one or two, files adopted into it, and the absorbing at an attempt's end.
BeginSome ==
    \E c \in Callers :
        \/ \E w \in Workplaces, a \in Archives : ~Committed(a) /\ Begin(c, "archive", <<w>>, a)
        \/ \E w \in Workplaces, a \in Archives : Begin(c, "create", <<a>>, w)
        \/ \E w \in Workplaces, a \in Archives : Begin(c, "prepare", <<a>>, w)
        \/ \E w \in Workplaces, a, b \in Archives : a # b /\ Begin(c, "prepare", <<a, b>>, w)
        \/ \E w \in Workplaces : input[w] # None /\ Begin(c, "apply", <<w>>, None)
        \/ \E w \in Workplaces : Begin(c, "release", <<w>>, None)

\* Restore looks under the lock and opens the directory under another.
RestoreLooks(c) ==
    /\ call[c].pc = "restore"
    /\ LET found == IF call[c].kind = "prepare" THEN "scan" ELSE "clear"
       IN IF Known(Source(c)) THEN Goto(c, found)
          ELSE IF disk[Source(c)] # None THEN Goto(c, "open")
          ELSE GiveUp(c)
    /\ UNCHANGED <<floor, files, input, manifest, ghosts, limits>>

RestoreOpens(c) ==
    /\ call[c].pc = "open"
    /\ Set(chain, Source(c), <<Empty>>)
    /\ Set(live, Source(c), TRUE)
    /\ spoiled' = IF Known(Source(c)) THEN spoiled \union {Source(c)} ELSE spoiled
    /\ Goto(c, IF call[c].kind = "prepare" THEN "scan" ELSE "clear")
    /\ UNCHANGED <<floor, disk, baseline, changed, since, input, manifest, took, adopted, limits>>

\* Discard
Forget(e) ==
    /\ Set(chain, e, <<>>) /\ Set(disk, e, None) /\ Set(live, e, FALSE)
    /\ Set(baseline, e, FALSE) /\ Set(changed, e, {}) /\ Set(since, e, {})
    /\ Set(took, e, None) /\ spoiled' = spoiled \ {e}
    /\ IF e \in Workplaces
       THEN Set(input, e, None) /\ Set(manifest, e, None) /\ Set(adopted, e, Undone)
       ELSE UNCHANGED <<input, manifest, adopted>>

Discard(c) ==
    /\ call[c].pc = "clear"
    /\ Forget(call[c].dst)
    /\ Goto(c, "scan")
    /\ UNCHANGED <<floor, limits>>

\* The next source, or the operation itself.
Onward(c) ==
    IF call[c].at < Len(call[c].srcs)
    THEN call' = [call EXCEPT ![c].at = @ + 1, ![c].pc = "restore", ![c].before = Empty,
                              ![c].same = {}, ![c].seen = Empty]
    ELSE IF call[c].kind = "release" THEN GiveUp(c)
    ELSE call' = [call EXCEPT ![c].pc = "commit", ![c].before = Empty, ![c].same = {},
                              ![c].seen = Empty]

\* Absorb up to the walk: nothing to do, or what was visible before.
Scan(c) ==
    LET e == Source(c)
    IN /\ call[c].pc = "scan"
       /\ IF ~live[e] \/ (baseline[e] /\ changed[e] = {})
          THEN Onward(c) /\ UNCHANGED since
          ELSE /\ call' = [call EXCEPT ![c].pc = "walk",
                              ![c].before = Visible(chain[e], floor),
                              ![c].same = IF baseline[e] THEN Paths \ changed[e] ELSE {}]
               /\ Set(since, e, {})
       /\ UNCHANGED <<floor, chain, disk, live, baseline, changed, input, manifest, ghosts, limits>>

\* walkRegularFiles: files whose fingerprint has not moved are not read.
Walked(c) ==
    LET e == Source(c) IN
    [p \in Paths |-> IF p \in call[c].same /\ IsFile(call[c].before[p]) /\ IsFile(disk[e][p])
                     THEN call[c].before[p] ELSE disk[e][p]]

Walk(c) ==
    /\ call[c].pc = "walk"
    /\ call' = [call EXCEPT ![c].pc = "merge", ![c].seen = Walked(c)]
    /\ UNCHANGED <<floor, files, input, manifest, ghosts, limits>>

\* Recreating a directory that the layer had masked lets lower files show again.
Resurfaces(e, dirs) ==
    \E p \in dirs : /\ Masks(Head(chain[e])[p])
                   /\ \E q \in Below(p) : Content(Tail(chain[e]), floor, q) # "absent"

Vanished(c) == {p \in Paths : call[c].seen[p] = "dir" /\ disk[Source(c)][p] = "absent"}

\* Mutant of Moved: the fingerprint is taken again after the walk.
MovedNothing(c) == {}

\* The fingerprint kept is the one taken before the walk.
Moved(c) == since[Source(c)]

\* The rest of Absorb.
Merge(c) ==
    LET e == Source(c) seen == call[c].seen
    IN /\ call[c].pc = "merge" /\ Vanished(c) = {}
       /\ Set(chain, e, <<Merged(chain[e], floor, call[c].before, seen)>> \o Tail(chain[e]))
       /\ Set(baseline, e, TRUE) /\ Set(changed, e, Moved(c))
       /\ spoiled' = spoiled \union
              {x \in {e} : Resurfaces(e, NewDirectories(chain[e], floor, seen))}
       /\ Onward(c)
       /\ UNCHANGED <<floor, disk, live, since, input, manifest, took, adopted, limits>>

\* A directory of the walk vanishes before it is looked at again: some of the
\* others are in the layer by then, and the operation fails.
MergeFails(c) ==
    LET e == Source(c) IN
    /\ call[c].pc = "merge" /\ Vanished(c) # {}
    /\ \E done \in SUBSET (NewDirectories(chain[e], floor, call[c].seen) \ Vanished(c)) :
          /\ Set(chain, e, <<[p \in Paths |-> IF p \in done THEN "dir" ELSE Head(chain[e])[p]]>>
                              \o Tail(chain[e]))
          /\ spoiled' = spoiled \union {x \in {e} : Resurfaces(e, done)}
    /\ GiveUp(c)
    /\ UNCHANGED <<floor, disk, live, baseline, changed, since, input, manifest, took, adopted, limits>>

-----------------------------------------------------------------------------
(* Copies *)

Snapshot(e) == <<Empty>> \o chain[e]

\* What a copy of e is owed: the directory if it is as absorbed, else what e was owed.
Owed(e) == IF e \in spoiled THEN None
           ELSE IF ~live[e] THEN took[e]
           ELSE IF baseline[e] /\ changed[e] = {} THEN disk[e] ELSE None

\* CreateEnvironment: a layer over the frozen layers, and no directory yet.
Create(c) ==
    LET src == Source(c) dst == call[c].dst
    IN /\ call[c].pc = "commit" /\ call[c].kind \in {"create", "archive"}
       /\ Set(chain, dst, Snapshot(src))
       /\ Set(took, dst, Owed(src))
       /\ spoiled' = IF src \in spoiled THEN spoiled \union {dst} ELSE spoiled
       /\ IF call[c].kind = "archive" THEN Goto(c, "copy") ELSE GiveUp(c)
       /\ UNCHANGED <<floor, disk, live, baseline, changed, since>>
       /\ UNCHANGED <<input, manifest, adopted, limits>>

\* Materialize: the directory on disk, or the layers rendered over the floor.
Opened(e) ==
    /\ IF disk[e] # None THEN UNCHANGED <<disk, baseline, changed, since>>
       ELSE /\ Renders(chain[e], floor)
            /\ Set(disk, e, Rendered(chain[e], floor))
            /\ Set(baseline, e, TRUE) /\ Set(changed, e, {}) /\ Set(since, e, {})
    /\ Set(live, e, TRUE)

Materialize(e) ==
    /\ e \in Workplaces /\ Known(e) /\ ~live[e] /\ \A c \in Callers : e \notin Uses(c)
    /\ Opened(e)
    /\ UNCHANGED <<floor, chain, input, manifest, call, ghosts, limits>>

\* The end of Archive.
RenderArchive(c) ==
    /\ call[c].pc = "copy"
    /\ Opened(call[c].dst)
    /\ GiveUp(c)
    /\ UNCHANGED <<floor, chain, input, manifest, ghosts, limits>>

RenderFails(c) ==
    /\ call[c].pc = "copy" /\ Refused(chain[call[c].dst], floor)
    /\ Forget(call[c].dst)
    /\ GiveUp(c)
    /\ UNCHANGED <<floor, limits>>

-----------------------------------------------------------------------------
(* Inputs *)

Prepared(c) ==
    LET views == [i \in DOMAIN call[c].srcs |-> Visible(chain[call[c].srcs[i]], floor)]
        paths == Differing({views[i] : i \in DOMAIN views})
        base  == <<Undecided(paths)>> \o chain[call[c].srcs[1]]
    IN [views |-> views, paths |-> paths,
        from |-> [i \in DOMAIN views |-> <<Candidate(views[i], paths)>> \o base]]

\* PrepareInput after its sources.  A target on disk keeps its decisions.
Prepare(c) ==
    LET t == call[c].dst
        prepared == Prepared(c)
        several == Len(call[c].srcs) > 1
        tainted == IF \E i \in DOMAIN call[c].srcs : call[c].srcs[i] \in spoiled
                   THEN spoiled \union {t} ELSE spoiled
    IN /\ call[c].pc = "commit" /\ call[c].kind = "prepare"
       /\ IF Known(t) \/ disk[t] # None \/ manifest[t] \notin {None, call[c].srcs}
          THEN IF input[t] # None \/ manifest[t] # call[c].srcs
               THEN UNCHANGED <<chain, live, input, manifest, took, spoiled>>
               ELSE /\ Set(chain, t, IF Known(t) THEN chain[t] ELSE <<Empty>>)
                    /\ Set(live, t, live[t] \/ ~Known(t))
                    /\ Set(input, t, prepared)
                    /\ spoiled' = tainted
                    /\ UNCHANGED <<manifest, took>>
          ELSE /\ Set(chain, t, Tail(prepared.from[1]))
               /\ Set(input, t, prepared)
               /\ Set(manifest, t, call[c].srcs)
               /\ Set(took, t, IF several THEN None ELSE Owed(Source(c)))
               /\ spoiled' = tainted
               /\ UNCHANGED live
       /\ GiveUp(c)
       /\ UNCHANGED <<floor, disk, baseline, changed, since, adopted, limits>>

\* ApplyInput of some paths of candidate i after the target is absorbed.
Selected(t, i, paths) ==
    [p \in Paths |-> IF p \in paths THEN Head(input[t].from[i])[p] ELSE "absent"]

Rejected(t, i, paths) ==
    \E q \in Conflicts(input[t].from[i], chain[t], floor) : \E p \in paths : Overlaps(p, q)

Items(t, i, paths, replace) ==
    Selected(t, i, IF replace THEN paths
                   ELSE paths \cap Planned(input[t].from[i], chain[t], floor))

Reaches(tree, items) ==
    TombMayPass(tree, items) /\ ~WriteFails(TombsApplied(tree, items), items)

\* Taking an absence is no decision a later safe adoption would respect.
Adopted(t, p) == adopted[t][p] # 0 /\ input[t].views[adopted[t][p]][p] # "absent"

Recorded(t, i, paths, replace) ==
    [p \in Paths |-> IF p \in paths /\ (replace \/ ~Adopted(t, p)) THEN i
                     ELSE IF replace /\ \E q \in paths : Overlaps(p, q) THEN 0
                     ELSE adopted[t][p]]

\* A live directory that refuses an item leaves the layer changed and the call failed.
Apply(c) ==
    LET t == Source(c) IN
    /\ call[c].pc = "commit" /\ call[c].kind = "apply"
    /\ \E i \in DOMAIN input[t].from, paths \in SUBSET input[t].paths \ {{}}, replace \in BOOLEAN :
          LET items == Items(t, i, paths, replace)
              inDir == live[t] /\ items # Empty
              fails == inDir /\ ~Reaches(disk[t], items)
          IN IF ~replace /\ Rejected(t, i, paths)
             THEN UNCHANGED <<chain, disk, changed, since, took, adopted, spoiled>>
             ELSE /\ Set(chain, t, <<AppliedTo(Head(chain[t]), items)>> \o Tail(chain[t]))
                  /\ IF inDir /\ ~fails
                     THEN /\ Set(disk, t, WritesApplied(TombsApplied(disk[t], items), items))
                          /\ Set(changed, t, Paths) /\ Set(since, t, Paths)
                     ELSE UNCHANGED <<disk, changed, since>>
                  /\ spoiled' = IF fails \/ (~live[t] /\ ~(Renders(chain'[t], floor) /\ Parented(chain'[t], floor)))
                                THEN spoiled \union {t} ELSE spoiled
                  /\ Set(adopted, t, IF fails \/ changed[t] # {} THEN Undone
                                     ELSE Recorded(t, i, paths, replace))
                  /\ Set(took, t, None)
    /\ GiveUp(c)
    /\ UNCHANGED <<floor, live, baseline, input, manifest, limits>>

-----------------------------------------------------------------------------
(* Commands and restarts *)

\* Commands, and processes they left behind, in an open workspace.
Touch(e) ==
    /\ e \in Workplaces /\ live[e] /\ moves < MaxMoves
    /\ \E p \in Paths : \E tree \in {Removed(disk[e], p)}
             \union {Written(disk[e], p, v) : v \in Typed}
             \union (IF disk[e][p] = "absent" THEN {Written(disk[e], p, "dir")} ELSE {}) :
          LET moved == {p} \union {q \in Paths : tree[q] # disk[e][q]} IN
          /\ Reachable(disk[e], p) /\ tree # disk[e]
          /\ Set(disk, e, tree)
          /\ Set(changed, e, changed[e] \union moved)
          /\ Set(since, e, since[e] \union moved)
    /\ moves' = moves + 1
    /\ Set(took, e, None) /\ Set(adopted, e, Undone)
    /\ UNCHANGED <<floor, chain, live, baseline, input, manifest, call, spoiled, calls>>

\* The process ends and comes back, perhaps to a project somebody has edited.
Restart ==
    /\ moves < MaxMoves /\ moves' = moves + 1
    /\ floor' \in Floors
    /\ chain' = [e \in Envs |-> <<>>]
    /\ live' = [e \in Envs |-> FALSE] /\ baseline' = live'
    /\ changed' = [e \in Envs |-> {}] /\ since' = changed'
    /\ input' = [e \in Workplaces |-> None]
    /\ call' = [c \in Callers |-> Idle]
    /\ took' = [e \in Envs |-> IF disk[e] = None THEN None ELSE took[e]]
    /\ adopted' = [e \in Workplaces |-> IF disk[e] = None \/ e \in spoiled THEN Undone ELSE adopted[e]]
    /\ spoiled' = {}
    /\ UNCHANGED <<disk, manifest, calls>>

Next ==
    \/ BeginSome
    \/ \E c \in Callers : RestoreLooks(c) \/ RestoreOpens(c) \/ Discard(c) \/ Scan(c)
                          \/ Walk(c) \/ Merge(c) \/ MergeFails(c) \/ Create(c) \/ RenderArchive(c)
                          \/ RenderFails(c) \/ Prepare(c) \/ Apply(c)
    \/ \E e \in Workplaces : Materialize(e) \/ Touch(e)
    \/ Restart

Spec == Init /\ [][Next]_vars

-----------------------------------------------------------------------------
(* Properties *)

\* The same files, and no directory missing.
Agrees(view, tree) ==
    \A p \in Paths : IF IsFile(view[p]) \/ IsFile(tree[p]) THEN view[p] = tree[p]
                     ELSE tree[p] = "dir" => view[p] = "dir"

\* Reading through the layers file by file and directory by directory.
ReadsAs(e, tree) ==
    /\ Agrees([p \in Paths |-> Read(chain[e], floor, p)], tree)
    /\ \A p \in Paths : tree[p] = "dir" /\ ~ListFails(chain[e], floor, p) =>
           {c \in Children(p) : tree[c] # "absent"} \subseteq List(chain[e], floor, p)

\* An open directory that has not moved since its last fingerprint is what the
\* layers show: no write is lost between a scan, the walk after it and the merge,
\* and reading through layers agrees with the rendered directory.
LayersAgree ==
    \A e \in Envs : live[e] /\ baseline[e] /\ changed[e] = {} /\ e \notin spoiled =>
                        Agrees(Visible(chain[e], floor), disk[e]) /\ ReadsAs(e, disk[e])

\* A copy of an environment is exactly the tree its source had, whether it is
\* read through layers, rendered, rendered from a rendered copy, or found on
\* disk by a later session over another floor.
CopyIsExact ==
    \A e \in Envs : took[e] # None =>
        IF disk[e] # None THEN disk[e] = took[e]
        ELSE Known(e) => ReadsAs(e, took[e])

\* A path adopted from a candidate stays what that candidate's source had until
\* it is replaced: no safe adoption of it or of another path changes it, nor a
\* restart.
AdoptedAsAsked ==
    \A t \in Workplaces : t \notin spoiled /\ input[t] # None =>
        \A p \in Paths : adopted[t][p] # 0 =>
            LET want == input[t].views[adopted[t][p]][p]
                have == IF disk[t] # None THEN disk[t][p] ELSE Visible(chain[t], floor)[p]
            IN IF IsFile(want) \/ IsFile(have) THEN have = want
               ELSE want = "dir" => have = "dir"

\* live.go:426: Restore opens an environment without silently creating an empty one.
RestoreKeepsLayers ==
    [][\A e \in Envs : Known(e) /\ Known(e)' => chain'[e] # <<Empty>> \/ chain[e] = <<Empty>>]_chain
=============================================================================
