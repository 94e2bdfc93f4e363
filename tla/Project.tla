-------------------------------- MODULE Project -------------------------------
(***************************************************************************)
(* The real directory of a task (internal/vfs/publish.go, project.go,      *)
(* floor.go, internal/coordination/project.go).                            *)
(*                                                                         *)
(* A role of the task that owns the project works in the user's own        *)
(* directory.  Its prepared input is rendered onto it by a publication: a  *)
(* plan of the paths that differ, carried out one by one while the user    *)
(* may edit the same files.  What it displaces is saved first.  It has no  *)
(* transaction: a publication that fails or is cut off is repaired by the  *)
(* next one.  A store that is opened on a directory it does not recognise  *)
(* adopts it as its new floor.                                             *)
(*                                                                         *)
(* A tree maps every path to None, Dir or a content; modes and links are   *)
(* left out, an entry that differs in one of them is another content.      *)
(***************************************************************************)
EXTENDS Naturals, Sequences, FiniteSets, SequencesExt, FiniteSetsExt

CONSTANTS Order,      \* all paths, sorted
          Trees,      \* what the directory and an upstream task may hold
          None, Dir,
          Mine,       \* the content the user writes
          Retained,   \* publications whose displaced files are kept
          MaxEdits, MaxInputs,
          MaxBreaks    \* failed calls and restarts

ASSUME ProjectAssumption ==
    /\ {Retained, MaxEdits, MaxBreaks, MaxInputs} \subseteq Nat /\ Retained > 0
    /\ None # Dir

\* Each path is there once, after its parents.
ASSUME OrderAssumption ==
    /\ Order \in Seq(Seq(UNION {ToSet(p) : p \in ToSet(Order)}))
    /\ \A i, j \in DOMAIN Order :
          /\ Order[i] = Order[j] => i = j
          /\ IsStrictPrefix(Order[i], Order[j]) => i < j

Paths == ToSet(Order)
Ancestors   == [p \in Paths |-> {q \in Paths : IsStrictPrefix(q, p)}]
Descendants == [p \in Paths |-> {q \in Paths : IsStrictPrefix(p, q)}]

Above(p) == Ancestors[p]
Below(p) == Descendants[p]
At(p)    == {p} \union Below(p)

IsFile(entry) == entry \notin {None, Dir}
IsTree(t)     == \A p \in Paths : t[p] # None => \A q \in Above(p) : t[q] = Dir

\* A text the resolver writes for input n is in no other tree.
New(n) == <<"new", n>>

ASSUME TreesAssumption ==
    /\ \A t \in Trees : DOMAIN t = Paths /\ t = [p \in Paths |-> t[p]] /\ IsTree(t)
    /\ \A n \in 1 .. MaxInputs :
          /\ New(n) \notin {None, Dir, Mine}
          /\ \A t \in Trees : \A p \in Paths : t[p] # New(n)

VARIABLES
    pc,
    dir,        \* the project directory
    floor,      \* the store's private copy
    meta,       \* .floor.json: the state of the directory it stands for
    sources,    \* the trees the input was made of
    input,      \* the prepared input: what lookupContent answers at each path
    listed,     \* .published.json
    published,  \* ... as the running publication has it
    plan,       \* the steps still to do
    retained,
    kept,       \* the replaced directories
    owed, touched, asked, edited,      \* for the properties
    edits, breaks, inputs       \* bounds

store    == <<floor, meta, listed>>
prepared == <<sources, input>>
running  == <<published, plan, retained>>
ghosts   == <<owed, touched, asked, edited>>
limits   == <<edits, breaks, inputs>>
vars     == <<pc, dir, store, prepared, running, kept, ghosts, limits>>

-----------------------------------------------------------------------------
(* The tree *)

Blank == [p \in Paths |-> None]
Visible(t) == {p \in Paths : t[p] # None}

\* A layer may hold a tombstone at a directory and files below it.
Holes(t) == {p \in Paths : t[p] = None /\ \E q \in Below(p) : t[q] # None}

\* What an environment shows, and what its workspace is made of: there is a directory.
Filled(t) == [p \in Paths |-> IF t[p] = None /\ p \in Holes(t) THEN Dir ELSE t[p]]

\* os.RemoveAll
Cleared(t, p) == [q \in Paths |-> IF q \in At(p) THEN None ELSE t[q]]

\* writeDisplayFile: missing parents are made, what is there goes.
Written(t, p, entry) ==
    [q \in Paths |-> CASE q = p -> entry
                       [] q \in Above(p) -> Dir
                       [] q \in Below(p) /\ ~(entry = Dir /\ t[p] = Dir) -> None
                       [] OTHER -> t[q]]

\* pruneEmptyDirs, from the parent of p upwards.
Pruned(t, p) ==
    LET Holds(q) == \E r \in Below(q) : t[r] # None /\ (IsFile(t[r]) \/ r \notin Above(p))
    IN [q \in Paths |-> IF q \in Above(p) /\ ~Holds(q) THEN None ELSE t[q]]

\* A path below a file cannot be looked at.
Blocked(t, p) == \E q \in Above(p) : IsFile(t[q])

-----------------------------------------------------------------------------
(* planPublish *)

\* overlayBlobs: what an environment holds of its own; a tombstone stands for all below
\* that is not there beside it.
Overlay(t) ==
    LET holes == Holes(t)
    IN holes \union {p \in Paths : t[p] # None /\ Above(p) \intersect holes # {}}
       \union {p \in Paths : t[p] # floor[p] /\ \A q \in Above(p) : ~(t[q] # Dir /\ floor[q] = Dir)}

\* Mutant of Listed: what the resolver rejected is not looked at.
ListedBefore(ss) == listed

\* Everything the sources show counts as published, rejected or not.
Listed(ss) == listed \union UNION {Visible(t) : t \in ss}

Tracked(pub) == pub \union {p \in Paths : IsFile(floor[p])}
Candidates(pub) == Overlay(input) \union pub

\* expandPublishCandidates
Files(pub) ==
    LET cs == Candidates(pub)
    IN cs \union {q \in Tracked(pub) : \E p \in cs : dir[p] = Dir /\ p \in Above(q)}
Directories(pub) ==
    {p \in Candidates(pub) : dir[p] = Dir /\ (floor[p] = Dir \/ p \in Tracked(pub))}

\* A file that is to take the place of something replaces all below it; a directory
\* that is to take the place of a file starts empty.
Replaced(pub) == {p \in Files(pub) : IsFile(input[p]) /\ dir[p] # input[p]}
Reset(pub)    == {p \in Files(pub) : input[p] = Dir /\ dir[p] # Dir}
Looked(pub)   == LET gone == Replaced(pub)
                 IN {p \in Files(pub) : Above(p) \intersect gone = {}}
Have(pub, p)  == IF Above(p) \intersect Reset(pub) # {} THEN None ELSE dir[p]

\* publish inspect fails below a file of the directory.
Refused(pub) ==
    \E p \in Looked(pub) : Above(p) \intersect Reset(pub) = {} /\ Blocked(dir, p)

Step(p, do, existed) == [path |-> p, do |-> do, existed |-> existed]

FileSteps(pub) ==
    LET Goes   == {p \in Looked(pub) : input[p] = None /\ Have(pub, p) # None /\ p \in Tracked(pub)}
        Comes  == {p \in Looked(pub) : input[p] # None /\ Have(pub, p) # input[p]}
    IN {Step(p, "remove", TRUE) : p \in Goes}
       \union {Step(p, "write", Have(pub, p) # None) : p \in Comes}

DirSteps(pub) ==
    {Step(p, "rmdir", FALSE) : p \in {p \in Directories(pub) :
        input[p] # Dir /\ (Above(p) \union {p}) \intersect Replaced(pub) = {}}}

Plan(pub) == FileSteps(pub) \union DirSteps(pub)

\* Files first to last, then directories, deepest first.
Rank(s) ==
    LET n == CHOOSE i \in DOMAIN Order : Order[i] = s.path
    IN IF s.do = "rmdir" THEN 2 * Len(Order) + 1 - n ELSE n

First == CHOOSE s \in plan : \A t \in plan : Rank(s) <= Rank(t)

-----------------------------------------------------------------------------

Init ==
    /\ pc = "idle" /\ dir \in Trees
    /\ floor = dir /\ meta = [seen |-> dir, floor |-> dir]
    /\ sources = {} /\ input = Blank
    /\ listed = {} /\ published = {} /\ plan = {} /\ retained = FALSE /\ kept = <<>>
    /\ owed = {} /\ touched = {} /\ asked = {} /\ edited = {}
    /\ edits = 0 /\ breaks = 0 /\ inputs = 0

\* The user, or a process of the role.
Edits ==
    /\ edits < MaxEdits /\ edits' = edits + 1
    /\ \E p \in Paths :
          /\ \A q \in Above(p) : dir[q] = Dir
          /\ \E entry \in {None, Mine, Dir} \ {dir[p]} :
                dir' = IF entry = None THEN Cleared(dir, p) ELSE Written(dir, p, entry)
          /\ touched' = IF plan = {} THEN {} ELSE touched \union At(p) \union Above(p)
          /\ edited' = IF asked = {} THEN {} ELSE edited \union At(p) \union Above(p)
    /\ UNCHANGED <<pc, store, prepared, running, kept, owed, asked, breaks, inputs>>

\* projectSource: what the directory holds is one of the sources, fixed by an archive;
\* a role of the same task has its predecessor's archive instead.
CollectInputs ==
    /\ pc = "idle" /\ inputs < MaxInputs /\ inputs' = inputs + 1
    /\ \E upstream \in SUBSET Trees : Cardinality(upstream) <= 1 /\ sources' = {dir} \union upstream
    /\ pc' = "sources"
    /\ UNCHANGED <<dir, store, input, running, kept, ghosts, edits, breaks>>

\* What the resolver leaves at a path: the entry of some source, nothing, or a text that is
\* new (one that the floor held there and no source has is not rendered again).
Resolved(p) == {s[p] : s \in sources} \union {None, New(inputs)}

\* A single source is taken as it is.  Where the sources differ on a directory and in it,
\* the resolver may take what is in it and leave the directory rejected.  A text of its
\* own is absorbed from its workspace, and with it every directory.
PrepareInput ==
    /\ pc = "sources"
    /\ IF Cardinality(sources) = 1
       THEN input' \in sources
       ELSE \E t \in [Paths -> UNION {Resolved(p) : p \in Paths}] :
                /\ \A p \in Paths : t[p] \in Resolved(p)
                /\ \A p \in Visible(t) : \A q \in Above(p) : ~IsFile(t[q])
                /\ Holes(t) # {} => \A p \in Paths : t[p] # New(inputs)
                /\ input' = t
    /\ pc' = "ready"
    /\ UNCHANGED <<dir, store, sources, running, kept, ghosts, limits>>

Gone(t, u, p) == {<<Len(kept), q, t[q]>> : q \in {q \in At(p) : IsFile(t[q]) /\ u[q] # t[q]}}

\* The displaced files a publication that was planned with them owes.
Displaces(t) ==
    /\ dir' = t
    /\ owed' = owed \union UNION {Gone(dir, t, p) : p \in Paths \ touched}

\* InstallProject: the sources are listed and the plan is made.
Publish ==
    /\ pc = "ready"
    /\ LET pub   == Listed(sources)
           steps == IF Refused(pub) THEN {} ELSE Plan(pub)
       IN /\ plan' = steps
          /\ IF steps = {}
             THEN /\ pc' = IF Refused(pub) THEN "refused" ELSE "installed"
                  /\ UNCHANGED <<published, kept>>
             ELSE pc' = "retain" /\ published' = pub /\ kept' = Append(kept, {})
    /\ asked' = Visible(input) \union UNION {Visible(t) : t \in sources}
    /\ touched' = {}
    /\ UNCHANGED <<dir, store, prepared, retained, owed, edited, limits>>

Failed == pc' = "ready" /\ plan' = {} /\ published' = {} /\ retained' = FALSE

\* Mutant of Copied: a directory that goes is not copied.
CopiedFile(p) == {<<p, dir[p]>>} \ {<<p, None>>, <<p, Dir>>}

\* retainReplaced
Copied(p) == {<<q, dir[q]>> : q \in {q \in At(p) : IsFile(dir[q])}}

Retain ==
    /\ pc = "retain" /\ plan # {}
    /\ LET s == First IN
       IF s.existed
       THEN IF Blocked(dir, s.path)
            THEN Failed /\ UNCHANGED kept
            ELSE /\ kept' = [kept EXCEPT ![Len(kept)] = @ \union Copied(s.path)]
                 /\ retained' = (retained \/ dir[s.path] # None)
                 /\ pc' = "apply" /\ UNCHANGED <<plan, published>>
       ELSE pc' = "apply" /\ UNCHANGED <<kept, retained, plan, published>>
    /\ UNCHANGED <<dir, store, prepared, ghosts, limits>>

Applied(pub) ==
    pc' = "retain" /\ plan' = plan \ {First} /\ published' = pub /\ UNCHANGED retained

WriteStep ==
    /\ pc = "apply" /\ First.do = "write"
    /\ LET p == First.path IN
       IF Blocked(dir, p) THEN Failed /\ UNCHANGED <<dir, owed>>
       ELSE Displaces(Written(dir, p, input[p])) /\ Applied(published \union {p})
    /\ UNCHANGED <<store, prepared, kept, touched, asked, edited, limits>>

RemoveStep ==
    /\ pc = "apply" /\ First.do = "remove"
    /\ LET p == First.path IN
       IF Blocked(dir, p) THEN Failed /\ UNCHANGED <<dir, owed>>
       ELSE Displaces(Pruned(Cleared(dir, p), p)) /\ Applied(published \ {p})
    /\ UNCHANGED <<store, prepared, kept, touched, asked, edited, limits>>

\* A directory that still holds anything stays, and so does its entry.
RemoveDirStep ==
    /\ pc = "apply" /\ First.do = "rmdir"
    /\ LET p == First.path IN
       IF dir[p] # None /\ \A q \in Below(p) : dir[q] = None
       THEN Displaces(Pruned(Cleared(dir, p), p)) /\ Applied(published \ {p})
       ELSE Applied(published) /\ UNCHANGED <<dir, owed>>
    /\ UNCHANGED <<store, prepared, kept, touched, asked, edited, limits>>

\* pruneReplaced; an empty replaced directory is taken away again.
PruneReplaced ==
    /\ pc = "retain" /\ plan = {}
    /\ kept' = IF retained
               THEN [i \in DOMAIN kept |-> IF i <= Len(kept) - Retained THEN {} ELSE kept[i]]
               ELSE Front(kept)
    /\ pc' = "save"
    /\ UNCHANGED <<dir, store, prepared, running, ghosts, limits>>

SavePublishedPaths ==
    /\ pc = "save"
    /\ listed' = published /\ pc' = "record"
    /\ UNCHANGED <<dir, floor, meta, prepared, running, kept, ghosts, limits>>

RecordDisplayState ==
    /\ pc = "record"
    /\ meta' = [seen |-> dir, floor |-> floor] /\ pc' = "installed"
    /\ published' = {} /\ retained' = FALSE
    /\ UNCHANGED <<dir, floor, listed, prepared, plan, kept, ghosts, limits>>

\* Any of these calls may fail; the role is tried again.
InstallFails ==
    /\ pc \in {"retain", "apply", "save", "record", "installed"}
    /\ breaks < MaxBreaks /\ breaks' = breaks + 1
    /\ Failed
    /\ UNCHANGED <<dir, store, prepared, kept, ghosts, edits, inputs>>

\* The input is marked as started: from now on the directory is the role's workspace,
\* and it is not rendered again.
Start ==
    /\ pc = "installed" /\ pc' = "started"
    /\ UNCHANGED <<dir, store, prepared, running, kept, ghosts, limits>>

\* The role's answer is archived and the directory left as it is.
Release ==
    /\ pc = "started" /\ pc' = "idle"
    /\ sources' = {} /\ input' = Blank /\ asked' = {} /\ edited' = {} /\ touched' = {}
    /\ UNCHANGED <<dir, store, running, kept, owed, limits>>

\* prepareFloor; an archive is restored from its workspace.
Restart ==
    /\ breaks < MaxBreaks /\ breaks' = breaks + 1
    /\ floor' = IF meta.seen = dir THEN meta.floor ELSE dir
    /\ meta' = [seen |-> dir, floor |-> floor']
    /\ pc' = IF pc \in {"idle", "sources", "started"} THEN pc ELSE "ready"
    /\ input' = Filled(input)
    /\ plan' = {} /\ published' = {} /\ retained' = FALSE
    /\ UNCHANGED <<dir, listed, sources, kept, ghosts, edits, inputs>>

Next ==
    \/ Edits \/ CollectInputs \/ PrepareInput \/ Publish \/ Retain
    \/ WriteStep \/ RemoveStep \/ RemoveDirStep \/ PruneReplaced
    \/ SavePublishedPaths \/ RecordDisplayState \/ InstallFails \/ Start \/ Release \/ Restart

Spec == Init /\ [][Next]_vars

-----------------------------------------------------------------------------
(* Properties *)

Bare(p)  == \A q \in Below(p) : ~IsFile(input[q])
Shown(p) == dir[p] = Filled(input)[p] \/ (Filled(input)[p] = Dir /\ dir[p] = None /\ Bare(p))

\* What is in a rejected directory, or around it, went with it.
Lost(p) == dir[p] = None /\ \E q \in Holes(input) : q \in At(p) \union Above(p)

\* vfs/publish.go:64: a role starts in the input that was prepared for it: wherever the
\* input or one of its sources has something, the directory shows the input, unless it was
\* edited since it was first published; whatever failed or was cut off before.  (A directory
\* in which the input has no file may be missing: pruneEmptyDirs takes it for one left by a
\* removal.)  The exception is what the code gets wrong: a tombstone beside files in its
\* directory removes the directory (publish.go:242), and a file in it that was there already
\* has no step that writes it again (252).  Such files are missing; nothing else is shown.
InstalledIsInput == pc = "installed" => \A p \in asked \ edited : Shown(p) \/ Lost(p)

\* vfs/publish.go:57: a file that was in the directory when a publication was planned, and
\* that the publication overwrote or removed, is among the files it saved, until as many
\* later ones as are retained.
DisplacedIsKept ==
    \A o \in owed : <<o[2], o[3]>> \in kept[o[1]] \/ o[1] <= Len(kept) - Retained

\* vfs/publish.go:52, 64: an input that was prepared can be rendered onto the directory.
InputAccepted == pc # "refused"
===============================================================================
