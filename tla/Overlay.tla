------------------------------- MODULE Overlay -------------------------------
(***************************************************************************)
(* File environments as layers (internal/vfs, store.go and live.go).       *)
(*                                                                         *)
(* An environment's files are a layer of its own over the frozen layers of *)
(* the environment it was made from, over a read-only floor.  A layer maps *)
(* a path to a file, a directory or a tombstone; whatever is no directory  *)
(* masks everything below its path.  The same files are also rendered into *)
(* a real directory for commands, and what commands did there is absorbed  *)
(* into the layer.                                                         *)
(***************************************************************************)
EXTENDS Naturals, Sequences, FiniteSets

CONSTANTS Paths,       \* the paths looked at, each a sequence of names
          Contents     \* what a file may hold, its permissions included

ASSUME PathAssumption ==
    \A p \in Paths : /\ p \in Seq(STRING) /\ p # <<>>
                     /\ \A i \in 1 .. Len(p) - 1 : SubSeq(p, 1, i) \in Paths
ASSUME ContentsAssumption == {"dir", "absent", "tomb"} \cap Contents = {}

above == [p \in Paths |-> {SubSeq(p, 1, i) : i \in 1 .. Len(p) - 1}]
below == [p \in Paths |-> {q \in Paths : p \in above[q]}]

Ancestors(p) == above[p]
Below(p)     == below[p]
Children(p)  == {c \in Below(p) : Len(c) = Len(p) + 1}

Trees  == {t \in [Paths -> Contents \union {"dir", "absent"}] :
              \A p \in Paths : t[p] # "absent" => \A a \in Ancestors(p) : t[a] = "dir"}

IsFile(entry) == entry \in Contents
Masks(entry)  == entry \in Contents \union {"tomb"}
Empty         == [p \in Paths |-> "absent"]

-----------------------------------------------------------------------------
(* Looking up: chain[1] is the environment's own layer *)

\* Mutant of Masked: a file masks nothing.
MaskedByTombs(files, p) == \E a \in Ancestors(p) : files[a] = "tomb"

\* filesMask
Masked(files, p) == \E a \in Ancestors(p) : Masks(files[a])

\* overlayMaps searched by lookupFrozen and lookupBlobValue; "absent" when no
\* layer says anything.
Found(chain, p) ==
    LET hits == {i \in DOMAIN chain : chain[i][p] # "absent" \/ Masked(chain[i], p)}
        top  == chain[CHOOSE i \in hits : \A j \in hits : i <= j]
    IN IF hits = {} THEN "absent"
       ELSE IF top[p] = "absent" THEN "tomb" ELSE top[p]

\* applyOverlayList: child c of p is listed if a layer has something at c or
\* below and no layer above it cleared p or removed c.
Listed(chain, p, c) ==
    \E i \in DOMAIN chain :
        /\ \E q \in {c} \union Below(c) : chain[i][q] \in Contents \union {"dir"}
        /\ \A j \in 1 .. i - 1 : ~Masks(chain[j][p]) /\ chain[j][c] # "tomb"

\* hasOverlayChildren
HasChildren(chain, p) == \E c \in Children(p) : Listed(chain, p, c)

\* regularFileSnapshot, visibleRegularFiles
VisibleFile(chain, floor, p) ==
    LET f == Found(chain, p)
    IN IF f # "absent" THEN (IF IsFile(f) THEN f ELSE "absent")
       ELSE IF IsFile(floor[p]) /\ ~HasChildren(chain, p) THEN floor[p] ELSE "absent"

\* lookupStat, visibleDirectories
VisibleDirectory(chain, floor, p) ==
    LET f == Found(chain, p)
    IN \/ f = "dir"
       \/ f \in {"tomb", "absent"} /\ HasChildren(chain, p)
       \/ f = "absent" /\ floor[p] = "dir"

\* What Read, Stat and List show of an environment without a live directory,
\* and what visibleInputFiles compares.
Visible(chain, floor) ==
    [p \in Paths |-> IF VisibleDirectory(chain, floor, p) THEN "dir"
                     ELSE VisibleFile(chain, floor, p)]

\* View.Read of an environment without a live directory; "absent" when it fails.
Read(chain, floor, p) ==
    LET f == Found(chain, p)
    IN IF f = "dir" \/ (f \in {"tomb", "absent"} /\ HasChildren(chain, p)) THEN "dir"
       ELSE IF f = "tomb" THEN "absent" ELSE IF f = "absent" THEN floor[p] ELSE f

\* View.List asks the floor about a directory that no layer removed: it fails
\* where the floor has a file above it.
ListFails(chain, floor, p) ==
    IsFile(Found(chain, p)) \/ (Found(chain, p) # "tomb" /\ \E a \in Ancestors(p) : IsFile(floor[a]))

\* View.List: names of the floor that no layer cleared or removed, and the layers'.
List(chain, floor, p) ==
    LET kept == {c \in Children(p) : floor[c] # "absent" /\
                    \A i \in DOMAIN chain : ~Masks(chain[i][p]) /\ chain[i][c] # "tomb"}
    IN {c \in Children(p) : Listed(chain, p, c)}
         \union (IF Found(chain, p) = "tomb" THEN {} ELSE kept)

-----------------------------------------------------------------------------
(* The live directory *)

\* The system calls refuse a path one of whose parents is a file.
Reachable(tree, p) == \A a \in Ancestors(p) : ~IsFile(tree[a])

\* deleteLive
Removed(tree, p) == [q \in Paths |-> IF q = p \/ q \in Below(p) THEN "absent" ELSE tree[q]]

\* writeLiveModeAt, and applyLive of a directory: missing parents are made.
Written(tree, p, entry) ==
    [q \in Paths |-> IF q = p THEN entry
                     ELSE IF q \in Ancestors(p) THEN "dir"
                     ELSE IF q \in Below(p) /\ (IsFile(entry) \/ IsFile(tree[p])) THEN "absent"
                     ELSE tree[q]]

\* One layer applied to a tree as overlayBlobs orders it: tombstones, then
\* writes with parents before children.  No step of the writes can fail once
\* every directory the layer names is made.
Tombs(files)  == {p \in Paths : files[p] = "tomb"}
Writes(files) == {p \in Paths : files[p] \in Contents \union {"dir"}}

TombsApplied(tree, files) ==
    [q \in Paths |-> IF \E p \in Tombs(files) : q = p \/ q \in Below(p) THEN "absent" ELSE tree[q]]

WritesApplied(tree, files) ==
    [q \in Paths |->
        IF q \in Writes(files) THEN files[q]
        ELSE IF \E p \in Writes(files) : q \in Ancestors(p) THEN "dir"
        ELSE IF \E a \in Ancestors(q) : a \in Writes(files) /\ (IsFile(files[a]) \/ IsFile(tree[a]))
             THEN "absent" ELSE tree[q]]

\* A tombstone below a file fails (tombstones are in no order: it may be
\* removed before, if the file has a tombstone too), as does a write below one.
TombFails(tree, files) == \E p \in Tombs(files) : ~Reachable(tree, p)
TombMayPass(tree, files) ==
    \A p \in Tombs(files) : \A a \in Ancestors(p) : IsFile(tree[a]) =>
        \E b \in Tombs(files) : b = a \/ b \in Ancestors(a)
WriteFails(tree, files) ==
    \E p \in Writes(files) : \E a \in Ancestors(p) :
        (IsFile(tree[a]) /\ a \notin Writes(files)) \/ IsFile(files[a])

\* What the layers below layer i leave of the floor; the whole chain for i = 0.
Stage(chain, floor) ==
    LET n == Len(chain)
        up[i \in 0 .. n] ==
            IF i = n THEN floor
            ELSE WritesApplied(TombsApplied(up[i + 1], chain[i + 1]), chain[i + 1])
    IN up
Rendered(chain, floor) == Stage(chain, floor)[0]

Refused(chain, floor) ==
    \E i \in DOMAIN chain :
        LET tree == Stage(chain, floor)[i]
        IN TombFails(tree, chain[i]) \/ WriteFails(TombsApplied(tree, chain[i]), chain[i])
Renders(chain, floor) ==
    \A i \in DOMAIN chain :
        LET tree == Stage(chain, floor)[i]
        IN TombMayPass(tree, chain[i]) /\ ~WriteFails(TombsApplied(tree, chain[i]), chain[i])

-----------------------------------------------------------------------------
(* Changing a layer *)

\* lookupContent without its masks
Content(chain, floor, p) == LET f == Found(chain, p) IN IF f = "absent" THEN floor[p] ELSE f

\* What the own layer writes lies in directories.
Parented(chain, floor) ==
    \A p \in Writes(Head(chain)) : \A a \in Ancestors(p) : Content(chain, floor, a) = "dir"

\* Absorb, after the walk: what the directory holds and the layers do not show.
\* Missing directories are written before anything else, whatever masks them.
NewDirectories(chain, floor, seen) ==
    {p \in Paths : seen[p] = "dir" /\ Content(chain, floor, p) # "dir"}
LostDirectories(before, seen) ==
    LET lost == {p \in Paths : before[p] = "dir" /\ seen[p] # "dir"}
    IN {p \in lost : Ancestors(p) \cap lost = {}}
LostFiles(before, seen) ==
    {p \in Paths : /\ IsFile(before[p]) /\ seen[p] = "absent"
                   /\ Ancestors(p) \cap LostDirectories(before, seen) = {}}
NewFiles(before, seen) == {p \in Paths : IsFile(seen[p]) /\ seen[p] # before[p]}

Merged(chain, floor, before, seen) ==
    LET dirs    == NewDirectories(chain, floor, seen)
        files   == NewFiles(before, seen)
        removed == LostDirectories(before, seen) \union LostFiles(before, seen)
    IN [p \in Paths |->
           IF p \in files THEN seen[p]
           ELSE IF Ancestors(p) \cap (files \union removed) # {} THEN "absent"
           ELSE IF p \in removed THEN "tomb"
           ELSE IF p \in dirs THEN "dir"
           ELSE Head(chain)[p]]

-----------------------------------------------------------------------------
(* Inputs of several sources *)

Differing(views) == {p \in Paths : \E v, w \in views : v[p] # w[p]}
Undecided(paths)        == [p \in Paths |-> IF p \in paths THEN "tomb" ELSE "absent"]
Candidate(view, paths)  ==
    [p \in Paths |-> IF p \notin paths THEN "absent"
                     ELSE IF view[p] = "absent" THEN "tomb" ELSE view[p]]

\* lookupFrozen with its masks, made comparable as contentEqual compares them.
Look(chain, floor, p) ==
    LET said == {i \in DOMAIN chain : chain[i][p] # "absent" \/ Masked(chain[i], p)}
        top  == chain[CHOOSE i \in said : \A j \in said : i <= j]
        at   == CHOOSE a \in Ancestors(p) : Masks(top[a]) /\
                   \A b \in Ancestors(p) : Masks(top[b]) => Len(b) <= Len(a)
    IN IF said = {} THEN <<floor[p]>>
       ELSE IF top[p] # "absent" THEN <<IF top[p] = "tomb" THEN "absent" ELSE top[p]>>
       ELSE <<top[at], at>>

\* inputPlanLocked, for a candidate (which is complete): what may be applied
\* and what would overwrite a decision.
KnownBelow(chain, base, p) ==
    {q \in Below(p) : \E i \in DOMAIN chain : chain[i][q] # "absent"}
      \union {q \in Below(p) : \E i \in DOMAIN base : base[i][q] # "absent"}
Overlaps(p, q) == p = q \/ p \in Ancestors(q) \/ q \in Ancestors(p)
FileAbove(chain, floor, p) ==
    \E a \in Ancestors(p) : LET c == Look(chain, floor, a) IN Len(c) = 1 /\ IsFile(c[1])

Same(from, into, floor, p)  == Look(into, floor, p) = Look(from, floor, p)
\* Mutant of Decided: a decision is what differs from the floor.
DecidedOverFloor(from, into, floor, p) ==
    ~Same(from, into, floor, p) /\ Look(into, floor, p) # Look(<<>>, floor, p)

Decided(from, into, floor, p) ==
    ~Same(from, into, floor, p) /\ Look(into, floor, p) # Look(Tail(from), floor, p)
Refuted(from, into, floor, p) ==
    \E q \in {p} \union KnownBelow(into, Tail(from), p) : Decided(from, into, floor, q)
Wanted(from, into, floor) ==
    {p \in Paths : /\ Head(from)[p] # "absent"
                   /\ ~Refuted(from, into, floor, p)
                   /\ \E q \in {p} \union KnownBelow(into, Tail(from), p) :
                          ~Same(from, into, floor, q)}

Conflicts(from, into, floor) ==
    LET offered == {p \in Paths : Head(from)[p] # "absent"}
        written == {p \in offered : Head(from)[p] # "tomb"}
    IN {p \in written : \E f \in Ancestors(p) : IsFile(Head(from)[f])}
       \union UNION {{q \in {p} \union KnownBelow(into, Tail(from), p) :
                         Decided(from, into, floor, q)} : p \in offered}
       \union {p \in written \cap Wanted(from, into, floor) : FileAbove(into, floor, p)}

Planned(from, into, floor) ==
    {p \in Wanted(from, into, floor) :
        \A c \in Conflicts(from, into, floor) : ~Overlaps(p, c)}

\* applyPendingLocked: tombstones, then writes, into the layer and, if there is
\* one, into the directory.
AppliedTo(files, items) ==
    LET tombs  == {p \in Paths : items[p] = "tomb"}
        writes == {p \in Paths : items[p] \in Contents \union {"dir"}}
    IN [q \in Paths |->
           IF q \in writes THEN items[q]
           ELSE IF \E p \in writes : p \in Ancestors(q) /\ IsFile(items[p]) THEN "absent"
           ELSE IF q \in tombs THEN "tomb"
           ELSE IF \E p \in tombs : p \in Ancestors(q) THEN "absent" ELSE files[q]]
=============================================================================
