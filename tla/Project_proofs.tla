-------------------------- MODULE Project_proofs --------------------------
(***************************************************************************)
(* Publications of an input onto the user's directory, for any trees, any  *)
(* edits at the same time, and failures and restarts at any step: what is  *)
(* displaced was saved (DisplacedInv), and what is to be shown is shown or *)
(* due (InstalledInv).                                                     *)
(***************************************************************************)
EXTENDS Project, NaturalsInduction, WellFoundedInduction, TLAPS

-----------------------------------------------------------------------------
(* The invariant *)

IsMap(t) == t = [p \in Paths |-> t[p]]
IsList(s) == Len(s) \in Nat /\ s = [i \in 1 .. Len(s) |-> s[i]]

Publishing == pc \in {"retain", "apply"}

\* Nothing is below a file; a hole is no file.
Layered(t) == \A p \in Paths : t[p] # None => \A q \in Above(p) : ~IsFile(t[q])

\* What the environment shows.
Want == Filled(input)

\* A set of paths that holds with a path all above it.
Closed(set) == \A p \in Paths : \A q \in At(p) : q \in set => p \in set

Shape ==
    /\ pc \in {"idle", "sources", "ready", "refused", "retain", "apply", "save", "record",
               "installed", "started"}
    /\ IsMap(dir) /\ IsTree(dir) /\ IsMap(input) /\ Layered(input)
    /\ IsMap(floor) /\ IsMap(meta.floor)
    /\ \A s \in sources : IsMap(s) /\ IsTree(s)
    /\ inputs \in 0 .. MaxInputs /\ (pc # "idle" => inputs > 0)
    /\ listed \union published \subseteq Paths
    /\ Closed(touched) /\ Closed(edited)
    /\ Publishing \/ plan = {}
    /\ pc = "apply" => plan # {}

\* One step for each thing to be done to a path.
StepOk(s) ==
    /\ s = Step(s.path, s.do, s.existed) /\ s.path \in Paths
    /\ s.do \in {"write", "remove", "rmdir"}
    /\ s.do = "write" <=> input[s.path] # None
    /\ s.do = "remove" => s.existed
PlanInv ==
    /\ \A s \in plan : StepOk(s)
    /\ \A s, t \in plan : s.path = t.path /\ s.do = t.do => s = t

-----------------------------------------------------------------------------
(* What is displaced *)

\* The files at and below p that were there when the plan was made.
Old(p) == {q \in At(p) \ touched : IsFile(dir[q])}

\* A step that saves nothing finds none that it would displace ...
NothingOld(s) ==
    /\ s.do = "write" /\ ~s.existed => \A q \in Old(s.path) : q # s.path /\ input[s.path] = Dir
    /\ s.do = "rmdir" => s.path \notin Old(s.path)
\* ... and one that saves has saved them.
OldIsKept ==
    pc = "apply" /\ First.existed =>
        \A q \in Old(First.path) : <<q, dir[q]>> \in kept[Len(kept)] /\ retained

\* An unfinished publication counts as none until it is known whether it saved anything.
Complete == IF Publishing THEN Len(kept) - 1 ELSE Len(kept)

\* The publication that owes o, and whether directories k hold it.
Number(o)   == o[1]
Saved(k, o) == <<o[2], o[3]>> \in k[Number(o)]

KeptInv ==
    /\ IsList(kept)
    /\ \A o \in owed : /\ Number(o) \in 1 .. Len(kept)
                       /\ Saved(kept, o) \/ Number(o) <= Complete - Retained
    /\ Publishing => Len(kept) > 0 /\ (retained \/ \A o \in owed : Number(o) # Len(kept))

DisplacedInv == KeptInv /\ OldIsKept /\ \A s \in plan : NothingOld(s)

-----------------------------------------------------------------------------
(* What is shown *)

\* A step that is still to come will make p what the input has there.
Due(p) ==
    \E s \in plan :
        \/ s.path = p /\ s.do # "rmdir"
        \/ IsFile(input[s.path]) /\ s.path \in Above(p) \union Below(p)

ShownInv ==
    pc \in {"retain", "apply", "save", "record", "installed"} =>
        /\ Visible(input) \subseteq asked
        /\ \A p \in asked \ edited : Shown(p) \/ Lost(p) \/ Due(p)

\* Nothing a later input's resolver writes.
Upto(t, n) == \A p \in Paths : \A k \in 1 .. MaxInputs : t[p] = New(k) => k <= n
Lacks(t, entry) == \A p \in Paths : t[p] # entry

AgeInv ==
    /\ \A t \in {dir, floor, meta.floor, input} \union sources : Upto(t, inputs)
    /\ Holes(input) # {} => Lacks(input, New(inputs))
    /\ asked # {} => /\ pc \notin {"idle", "sources"}
                     /\ asked = Visible(input) \union UNION {Visible(t) : t \in sources}
    /\ asked = {} /\ pc # "idle" => \A t \in {dir, floor, meta.floor} : Lacks(t, New(inputs))

SourceInv ==
    pc \notin {"idle", "sources"} =>
        \A p \in Paths : \/ input[p] \in {None, New(inputs)}
                         \/ \E s \in sources : s[p] = input[p]

\* What the resolver wrote is in the floor only because it was found in the directory.
FloorInv ==
    pc \notin {"idle", "sources"} => \A p \in Paths \ edited :
        input[p] = New(inputs) /\ input[p] \in {floor[p], meta.floor[p]} => dir[p] = input[p]

InstalledInv == ShownInv /\ AgeInv /\ SourceInv /\ FloorInv

Inv == Shape /\ PlanInv /\ DisplacedInv /\ InstalledInv

-----------------------------------------------------------------------------
(* Paths *)

\* A set of numbers that is not empty has a least one.
LEMMA Least ==
    ASSUME NEW T \in SUBSET Nat, T # {}
    PROVE  \E x \in T : \A y \in T : x <= y
<1> DEFINE less == OpToRel(<, Nat)
<1>1. PICK x \in T : \A y \in T : ~(<<y, x>> \in less)
  BY NatLessThanWellFounded, WFMin
<1>2. ASSUME NEW y \in T, y < x PROVE FALSE
  <2>1. <<y, x>> \in less
    BY <1>2 DEF OpToRel
  <2> QED  BY <2>1, <1>1
<1> HIDE DEF less
<1>3. \A y \in T : x <= y
  BY <1>2
<1> QED  BY <1>3

\* A path is part of another when it is shorter and they agree as far as it goes.
LEMMA PrefixIs ==
    ASSUME NEW S, NEW s \in Seq(S), NEW t \in Seq(S)
    PROVE  IsStrictPrefix(s, t) <=> Len(s) < Len(t) /\ \A i \in 1 .. Len(s) : s[i] = t[i]
<1>0. Len(s) \in Nat /\ Len(t) \in Nat
  OBVIOUS
<1>1. ASSUME Len(s) <= Len(t)
      PROVE  /\ SubSeq(s, 1, Len(s)) = [i \in 1 .. Len(s) |-> s[i]]
             /\ SubSeq(t, 1, Len(s)) = [i \in 1 .. Len(s) |-> t[i]]
  BY <1>1, <1>0
<1>2. ASSUME Len(s) < Len(t), \A i \in 1 .. Len(s) : s[i] = t[i]
      PROVE  IsStrictPrefix(s, t)
  <2>1. s # t
    BY <1>2
  <2>2. SubSeq(s, 1, Len(s)) = SubSeq(t, 1, Len(s))
    BY <1>2, <1>1, <1>0
  <2> QED  BY <2>1, <2>2, <1>2, <1>0 DEF IsStrictPrefix, IsPrefix
<1>3. ASSUME IsStrictPrefix(s, t)
      PROVE  Len(s) < Len(t) /\ \A i \in 1 .. Len(s) : s[i] = t[i]
  <2>1. Len(s) <= Len(t) /\ SubSeq(s, 1, Len(s)) = SubSeq(t, 1, Len(s)) /\ s # t
    BY <1>3 DEF IsStrictPrefix, IsPrefix
  <2>2. [i \in 1 .. Len(s) |-> s[i]] = [i \in 1 .. Len(s) |-> t[i]]
    BY <2>1, <1>1
  <2>3. \A i \in 1 .. Len(s) : s[i] = t[i]
    BY <2>2
  <2>4. Len(s) # Len(t)
    <3>1. SUFFICES ASSUME Len(s) = Len(t) PROVE s = t
      BY <2>1
    <3>2. s = [i \in 1 .. Len(s) |-> s[i]] /\ t = [i \in 1 .. Len(t) |-> t[i]]
      OBVIOUS
    <3> QED  BY <3>1, <3>2, <2>2
  <2> QED  BY <2>1, <2>3, <2>4, <1>0
<1> QED  BY <1>2, <1>3

Names == UNION {ToSet(p) : p \in ToSet(Order)}

\* Paths are sequences of names, each of them in Order.
LEMMA PathsAre == \A p \in Paths : p \in Seq(Names) /\ \E i \in DOMAIN Order : p = Order[i]
BY OrderAssumption DEF Paths, ToSet, Names

\* Being above is an order, and what is above one path is a chain.
LEMMA AboveIs ==
    /\ \A p, q \in Paths : q \in Above(p) <=> p \in Below(q)
    /\ \A p \in Paths : Above(p) \subseteq Paths /\ Below(p) \subseteq Paths /\ p \notin Above(p)
    /\ \A p, q, r \in Paths : r \in Above(q) /\ q \in Above(p) => r \in Above(p)
    /\ \A p, q, r \in Paths : q \in Above(p) /\ r \in Above(p) =>
          q = r \/ q \in Above(r) \/ r \in Above(q)
<1> DEFINE under(q, p) == Len(q) < Len(p) /\ \A i \in 1 .. Len(q) : q[i] = p[i]
<1>1. \A p, q \in Paths : q \in Above(p) <=> under(q, p)
  <2>1. ASSUME NEW p \in Paths, NEW q \in Paths PROVE IsStrictPrefix(q, p) <=> under(q, p)
    <3>1. p \in Seq(Names) /\ q \in Seq(Names)
      BY PathsAre
    <3> QED  BY <3>1, PrefixIs
  <2> QED  BY <2>1 DEF Above, Ancestors
<1>2. \A p, q \in Paths : q \in Above(p) <=> p \in Below(q)
  BY DEF Above, Below, Ancestors, Descendants
<1>3. \A p \in Paths : Above(p) \subseteq Paths /\ Below(p) \subseteq Paths /\ p \notin Above(p)
  BY DEF Above, Below, Ancestors, Descendants, IsStrictPrefix
<1>4. \A p \in Paths : Len(p) \in Nat
  BY PathsAre
<1>5. ASSUME NEW p \in Paths, NEW q \in Paths, NEW r \in Paths, r \in Above(q), q \in Above(p)
      PROVE  r \in Above(p)
  <2>1. under(r, q) /\ under(q, p) /\ Len(p) \in Nat /\ Len(q) \in Nat /\ Len(r) \in Nat
    BY <1>5, <1>1, <1>4
  <2>2. under(r, p)
    BY <2>1
  <2> QED  BY <2>2, <1>1
<1>6. ASSUME NEW p \in Paths, NEW q \in Paths, NEW r \in Paths, q \in Above(p), r \in Above(p)
      PROVE  q = r \/ q \in Above(r) \/ r \in Above(q)
  <2>1. under(q, p) /\ under(r, p) /\ Len(p) \in Nat /\ Len(q) \in Nat /\ Len(r) \in Nat
    BY <1>6, <1>1, <1>4
  <2>2. CASE Len(q) < Len(r)
    BY <2>1, <2>2, <1>1
  <2>3. CASE Len(r) < Len(q)
    BY <2>1, <2>3, <1>1
  <2>4. CASE Len(r) = Len(q)
    <3>1. q = [i \in 1 .. Len(q) |-> q[i]] /\ r = [i \in 1 .. Len(r) |-> r[i]]
      BY PathsAre
    <3> QED  BY <3>1, <2>1, <2>4
  <2> QED  BY <2>1, <2>2, <2>3, <2>4
<1> HIDE DEF under
<1> QED  BY <1>2, <1>3, <1>5, <1>6

\* At and below a path is all that it is above of, and itself.
LEMMA AtIs == \A p, q \in Paths : q \in At(p) <=> q = p \/ p \in Above(q)
BY AboveIs DEF At

\* In a tree only a directory has anything below it.
LEMMA TreeIs ==
    ASSUME NEW t, IsTree(t), NEW p \in Paths, NEW q \in Below(p)
    PROVE  /\ t[q] # None => t[p] = Dir
           /\ t[p] # Dir => t[q] = None
BY AboveIs DEF IsTree

\* The places an edit or a step at p touches can be added to a closed set.
LEMMA ClosedUnder ==
    ASSUME NEW T, Closed(T), NEW p \in Paths
    PROVE  Closed(T \union At(p) \union Above(p)) /\ Closed({})
<1>1. ASSUME NEW x \in Paths, NEW y \in At(x), y \in T \union At(p) \union Above(p)
      PROVE  x \in T \union At(p) \union Above(p)
  <2>1. y \in Paths /\ (y = x \/ x \in Above(y))
    BY AtIs, AboveIs DEF At
  <2>2. CASE y \in T
    BY <2>2 DEF Closed
  <2>3. CASE y \in At(p)
    <3>1. y = p \/ p \in Above(y)
      BY <2>1, <2>3, AtIs
    <3> QED  BY <2>1, <2>3, <3>1, AtIs, AboveIs
  <2>4. CASE y \in Above(p)
    BY <2>1, <2>4, AboveIs
  <2> QED  BY <1>1, <2>2, <2>3, <2>4
<1> QED  BY <1>1 DEF Closed

\* As long as there are steps there is a first one.
LEMMA FirstIs ==
    ASSUME plan # {}, \A s \in plan : StepOk(s)
    PROVE  First \in plan
<1> DEFINE ranks == {Rank(s) : s \in plan}
<1>1. ASSUME NEW s \in plan PROVE Rank(s) \in Nat
  <2>1. PICK i \in DOMAIN Order : Order[i] = s.path
    BY PathsAre DEF StepOk
  <2>2. (CHOOSE j \in DOMAIN Order : Order[j] = s.path) \in 1 .. Len(Order) /\ Len(Order) \in Nat
    <3>1. DOMAIN Order = 1 .. Len(Order) /\ Len(Order) \in Nat
      BY OrderAssumption
    <3> QED  BY <2>1, <3>1
  <2> QED  BY <2>2 DEF Rank
<1>2. PICK least \in ranks : \A n \in ranks : least <= n
  <2>1. ranks \in SUBSET Nat /\ ranks # {}
    BY <1>1
  <2> HIDE DEF ranks
  <2> QED  BY <2>1, Least
<1>3. \E s \in plan : \A t \in plan : Rank(s) <= Rank(t)
  BY <1>2
<1> QED  BY <1>3 DEF First

-----------------------------------------------------------------------------
(* What a step does to the directory *)

\* writeDisplayFile leaves a tree: parents are directories, what is below stays only when a
\* directory meets a directory, the rest is as it was.
LEMMA WrittenIs ==
    ASSUME NEW t, IsTree(t), NEW p \in Paths, NEW entry, entry # None,
           ~Blocked(t, p)
    PROVE  LET w == Written(t, p, entry) IN
           /\ IsMap(w) /\ IsTree(w) /\ w[p] = entry
           /\ \A q \in Above(p) : t[q] \in {None, Dir} /\ w[q] = Dir
           /\ \A q \in Below(p) : w[q] = IF entry = Dir /\ t[p] = Dir THEN t[q] ELSE None
           /\ \A q \in Paths : q \notin At(p) \union Above(p) => w[q] = t[q]
<1> DEFINE w == Written(t, p, entry)
<1>1. IsMap(w)
  BY DEF IsMap, Written
<1>2. w[p] = entry
  BY AboveIs DEF Written
<1>3. \A q \in Above(p) : w[q] = Dir
  BY AboveIs DEF Written
<1>4. \A q \in Above(p) : t[q] \in {None, Dir}
  BY DEF Blocked, IsFile
<1>5. \A q \in Below(p) : t[q] # None => t[p] = Dir
  BY TreeIs
<1>6. \A q \in Below(p) : q # p /\ q \notin Above(p) /\ q \in Paths
  BY AboveIs
<1>7. \A q \in Below(p) : w[q] = IF entry = Dir /\ t[p] = Dir THEN t[q] ELSE None
  BY <1>6 DEF Written
<1>8. ASSUME NEW q \in Paths, q \notin At(p) \union Above(p) PROVE w[q] = t[q]
  <2>1. q # p /\ q \notin Above(p) /\ q \notin Below(p)
    BY <1>8 DEF At
  <2> QED  BY <2>1 DEF Written
<1> HIDE DEF w
<1>9. IsTree(w)
  <2>1. SUFFICES ASSUME NEW x \in Paths, w[x] # None, NEW y \in Above(x) PROVE w[y] = Dir
    BY DEF IsTree
  <2>2. y \in Paths
    BY AboveIs
  <2>3. CASE x = p
    BY <2>3, <1>3
  <2>4. CASE x \in Above(p)
    BY <2>4, <2>2, <1>3, AboveIs
  <2>5. CASE x \in Below(p)
    <3>1. entry = Dir /\ t[p] = Dir /\ w[x] = t[x]
      BY <2>5, <2>1, <1>7
    <3>2. t[y] = Dir
      BY <3>1, <2>1 DEF IsTree
    <3>3. y = p \/ y \in Above(p) \/ y \in Below(p)
      BY <2>5, <2>2, AboveIs
    <3> QED  BY <3>1, <3>2, <3>3, <1>2, <1>3, <1>7
  <2>6. CASE x \notin At(p) \union Above(p)
    <3>1. t[y] = Dir
      BY <2>6, <2>1, <1>8 DEF IsTree
    <3>2. y \notin At(p)
      BY <2>6, <2>2, AtIs, AboveIs
    <3> QED  BY <3>1, <3>2, <2>2, <1>3, <1>8
  <2> QED  BY <2>3, <2>4, <2>5, <2>6 DEF At
<1> QED  BY <1>1, <1>2, <1>3, <1>4, <1>7, <1>8, <1>9 DEF w

\* os.RemoveAll leaves a tree, without the path and all below.
LEMMA ClearedIs ==
    ASSUME NEW t, IsTree(t), NEW p \in Paths
    PROVE  LET c == Cleared(t, p) IN
           /\ IsMap(c) /\ IsTree(c)
           /\ \A q \in Paths : c[q] = IF q \in At(p) THEN None ELSE t[q]
<1> DEFINE c == Cleared(t, p)
<1>1. IsMap(c) /\ \A q \in Paths : c[q] = IF q \in At(p) THEN None ELSE t[q]
  BY DEF IsMap, Cleared
<1> HIDE DEF c
<1>2. IsTree(c)
  <2>1. SUFFICES ASSUME NEW x \in Paths, c[x] # None, NEW y \in Above(x) PROVE c[y] = Dir
    BY DEF IsTree
  <2>2. y \in Paths /\ x \notin At(p) /\ c[x] = t[x]
    BY <2>1, <1>1, AboveIs
  <2>3. y \notin At(p)
    BY <2>1, <2>2, AtIs, AboveIs
  <2> QED  BY <2>1, <2>2, <2>3, <1>1 DEF IsTree
<1> QED  BY <1>1, <1>2 DEF c

\* A removal takes nothing else away but empty directories above.
LEMMA RemovedIs ==
    ASSUME NEW t, IsTree(t), NEW p \in Paths
    PROVE  LET u == Pruned(Cleared(t, p), p) IN
           /\ IsMap(u) /\ IsTree(u)
           /\ \A q \in At(p) : u[q] = None
           /\ \A q \in Paths : q \notin At(p) =>
                \/ u[q] = t[q]
                \/ /\ q \in Above(p) /\ u[q] = None
                   /\ \A r \in Below(q) : IsFile(t[r]) => r \in At(p)
<1> DEFINE c == Cleared(t, p)
           u == Pruned(c, p)
           holds(q) == \E r \in Below(q) : c[r] # None /\ (IsFile(c[r]) \/ r \notin Above(p))
<1>1. /\ IsTree(c)
      /\ \A q \in Paths : c[q] = IF q \in At(p) THEN None ELSE t[q]
  BY ClearedIs
<1> HIDE DEF c
<1>2. IsMap(u) /\ \A q \in Paths : u[q] = IF q \in Above(p) /\ ~holds(q) THEN None ELSE c[q]
  BY DEF IsMap, Pruned
<1>3. \A q \in At(p) : u[q] = None
  BY <1>1, <1>2, AboveIs DEF At
<1>4. ASSUME NEW q \in Paths, q \notin At(p), u[q] # t[q]
      PROVE  /\ q \in Above(p) /\ u[q] = None
             /\ \A r \in Below(q) : IsFile(t[r]) => r \in At(p)
  <2>1. q \in Above(p) /\ ~holds(q) /\ u[q] = None
    BY <1>1, <1>2, <1>4
  <2>2. \A r \in Below(q) : ~IsFile(c[r])
    BY <2>1 DEF IsFile
  <2> QED  BY <2>1, <2>2, <1>1, <1>4, AboveIs
<1>5. ASSUME NEW x \in Paths, u[x] # None, NEW y \in Above(x) PROVE u[y] = Dir
  <2>1. y \in Paths /\ x \in Below(y) /\ c[x] = u[x] /\ c[x] # None /\ c[y] = Dir
    BY <1>5, <1>1, <1>2, AboveIs DEF IsTree
  <2>2. CASE y \notin Above(p)
    BY <2>1, <2>2, <1>2
  <2>3. CASE y \in Above(p)
    <3>1. holds(y)
      <4>1. CASE x \notin Above(p)
        BY <4>1, <2>1
      <4>2. CASE x \in Above(p)
        <5>1. PICK r \in Below(x) : c[r] # None /\ (IsFile(c[r]) \/ r \notin Above(p))
          BY <4>2, <1>5, <1>2
        <5>2. r \in Below(y)
          BY <5>1, <1>5, <2>1, AboveIs
        <5> QED  BY <5>1, <5>2
      <4> QED  BY <4>1, <4>2
    <3> QED  BY <3>1, <2>1, <1>2
  <2> QED  BY <2>2, <2>3
<1> HIDE DEF u, holds
<1>6. IsTree(u)
  BY <1>5 DEF IsTree
<1> QED  BY <1>2, <1>3, <1>4, <1>6 DEF u, c

-----------------------------------------------------------------------------
(* The plan *)

\* What an environment shows is a tree.
LEMMA FilledIs ==
    ASSUME NEW t, IsMap(t), Layered(t)
    PROVE  LET w == Filled(t) IN
           /\ IsMap(w) /\ IsTree(w) /\ Holes(w) = {}
           /\ \A p \in Paths : w[p] = IF p \in Holes(t) THEN Dir ELSE t[p]
           /\ Holes(t) \subseteq {p \in Paths : t[p] = None}
<1> DEFINE w == Filled(t)
<1>1. /\ \A p \in Paths : w[p] = IF p \in Holes(t) THEN Dir ELSE t[p]
      /\ \A p \in Holes(t) : p \in Paths /\ t[p] = None /\ \E q \in Below(p) : t[q] # None
      /\ \A p \in Paths : t[p] = None /\ (\E q \in Below(p) : t[q] # None) => p \in Holes(t)
      /\ IsMap(w)
  BY DEF Filled, Holes, IsMap
<1> HIDE DEF w
<1>2. ASSUME NEW x \in Paths, w[x] # None, NEW y \in Above(x) PROVE w[y] = Dir
  <2>1. y \in Paths /\ x \in Below(y)
    BY <1>2, AboveIs
  <2>2. PICK z \in Paths : t[z] # None /\ y \in Above(z)
    <3>1. CASE t[x] # None
      BY <3>1, <1>2
    <3>2. CASE t[x] = None
      <4>1. PICK z \in Below(x) : t[z] # None
        BY <3>2, <1>1, <1>2
      <4> QED  BY <4>1, <1>2, <2>1, AboveIs
    <3> QED  BY <3>1, <3>2
  <2>3. t[y] \in {None, Dir}
    BY <2>2 DEF Layered, IsFile
  <2>4. t[y] = None => y \in Holes(t)
    BY <1>1, <2>1, <2>2, AboveIs
  <2> QED  BY <1>1, <2>1, <2>3, <2>4
<1>3. IsTree(w)
  BY <1>2 DEF IsTree
<1>4. Holes(w) = {}
  <2>1. SUFFICES ASSUME NEW x \in Holes(w) PROVE FALSE
    OBVIOUS
  <2>2. PICK y \in Below(x) : x \in Paths /\ w[x] = None /\ w[y] # None
    BY <2>1 DEF Holes
  <2> QED  BY <2>2, <1>3, TreeIs, ProjectAssumption
<1>5. Holes(t) \subseteq {p \in Paths : t[p] = None}
  BY <1>1
<1> QED  BY <1>1, <1>3, <1>4, <1>5 DEF w

\* In a tree nothing is missing above anything.
LEMMA NoHoles ==
    ASSUME NEW t, IsTree(t)
    PROVE  Layered(t) /\ Holes(t) = {}
<1>1. Layered(t)
  BY AboveIs DEF Layered, IsTree, IsFile
<1>2. ASSUME NEW x \in Holes(t) PROVE FALSE
  <2>1. PICK y \in Below(x) : x \in Paths /\ t[x] = None /\ t[y] # None
    BY <1>2 DEF Holes
  <2> QED  BY <2>1, TreeIs, ProjectAssumption
<1> QED  BY <1>1, <1>2

LEMMA WantIs ==
    ASSUME Shape
    PROVE  /\ IsTree(Want)
           /\ \A p \in Paths : Want[p] = IF p \in Holes(input) THEN Dir ELSE input[p]
           /\ \A p \in Holes(input) : p \in Paths /\ input[p] = None
<1>1. IsMap(input) /\ Layered(input)
  BY DEF Shape
<1>2. LET w == Filled(input) IN
      /\ IsMap(w) /\ IsTree(w) /\ Holes(w) = {}
      /\ \A p \in Paths : w[p] = IF p \in Holes(input) THEN Dir ELSE input[p]
      /\ Holes(input) \subseteq {p \in Paths : input[p] = None}
  BY <1>1, FilledIs
<1>3. \A p \in Holes(input) : p \in Paths /\ input[p] = None
  BY <1>2
<1> QED  BY <1>2, <1>3 DEF Want

\* What is above something is a directory, on disk as in what the input shows.
LEMMA InTheTree ==
    ASSUME Shape, NEW p \in Paths, NEW q \in Above(p)
    PROVE  /\ q \in Paths
           /\ input[p] # None => ~IsFile(input[q]) /\ Want[q] = Dir
           /\ dir[p] # None => dir[q] = Dir
<1>1. q \in Paths /\ (dir[p] # None => dir[q] = Dir)
  BY AboveIs DEF Shape, IsTree
<1>2. input[p] # None => ~IsFile(input[q])
  BY DEF Shape, Layered
<1>3. input[p] # None => Want[p] # None
  BY WantIs
<1> QED  BY <1>1, <1>2, <1>3, WantIs DEF IsTree

\* What is found at a path is what is there, also where the plan does not look.
LEMMA HaveIs ==
    ASSUME Shape, NEW pub, NEW p \in Paths
    PROVE  Have(pub, p) = dir[p]
<1>1. ASSUME NEW q \in Above(p), q \in Reset(pub) PROVE dir[p] = None
  BY <1>1, InTheTree DEF Reset
<1> QED  BY <1>1 DEF Have

\* A step of the plan suits the input: a write where it has something, a removal where it has
\* nothing; a write saves nothing only where nothing is, and only directories are reclaimed.
LEMMA PlanIs ==
    ASSUME Shape, NEW pub, pub \subseteq Paths, NEW s \in Plan(pub)
    PROVE  /\ StepOk(s)
           /\ s.do = "write" => s.existed = (dir[s.path] # None)
           /\ s.do = "rmdir" => dir[s.path] = Dir
<1>1. /\ Looked(pub) \subseteq Paths /\ Files(pub) \subseteq Paths
      /\ Directories(pub) \subseteq Files(pub)
  <2>1. Candidates(pub) \subseteq Paths /\ Tracked(pub) \subseteq Paths
    BY DEF Candidates, Overlay, Holes, Tracked
  <2> QED  BY <2>1 DEF Looked, Directories, Files
<1>2. CASE s \in FileSteps(pub)
  <2>1. PICK p \in Looked(pub) :
            \/ input[p] = None /\ s = Step(p, "remove", TRUE)
            \/ input[p] # None /\ s = Step(p, "write", Have(pub, p) # None)
    BY <1>2 DEF FileSteps
  <2>2. p \in Paths /\ Have(pub, p) = dir[p]
    BY <1>1, HaveIs
  <2>3. CASE input[p] = None /\ s = Step(p, "remove", TRUE)
    BY <2>3, <2>2 DEF Step, StepOk
  <2>4. CASE input[p] # None /\ s = Step(p, "write", Have(pub, p) # None)
    BY <2>4, <2>2 DEF Step, StepOk
  <2> QED  BY <2>1, <2>3, <2>4
<1>3. CASE s \in DirSteps(pub)
  <2>1. PICK p \in Directories(pub) :
            input[p] # Dir /\ p \notin Replaced(pub) /\ s = Step(p, "rmdir", FALSE)
    BY <1>3 DEF DirSteps
  <2>2. p \in Paths /\ p \in Files(pub) /\ dir[p] = Dir
    BY <1>1 DEF Directories
  <2>3. input[p] = None
    BY <2>1, <2>2 DEF Replaced, IsFile
  <2> QED  BY <2>1, <2>2, <2>3 DEF Step, StepOk
<1> QED  BY <1>2, <1>3 DEF Plan

\* Two steps at one path do different things.
LEMMA PlanOnce ==
    ASSUME NEW pub, NEW s \in Plan(pub), NEW t \in Plan(pub), s.path = t.path, s.do = t.do
    PROVE  s = t
<1>1. \A u \in Plan(pub) : \/ u = Step(u.path, "remove", TRUE)
                           \/ u = Step(u.path, "write", Have(pub, u.path) # None)
                           \/ u = Step(u.path, "rmdir", FALSE)
  BY DEF Plan, FileSteps, DirSteps, Step
<1>2. \A u \in Plan(pub) : \/ u.do = "remove" /\ u = Step(u.path, "remove", TRUE)
                           \/ u.do = "write" /\ u = Step(u.path, "write", Have(pub, u.path) # None)
                           \/ u.do = "rmdir" /\ u = Step(u.path, "rmdir", FALSE)
  BY <1>1 DEF Step
<1>3. s.do \in {"remove", "write", "rmdir"}
  BY <1>2
<1>4. CASE s.do = "remove"
  BY <1>2, <1>4, Zenon
<1>5. CASE s.do = "write"
  BY <1>2, <1>5, Zenon
<1>6. CASE s.do = "rmdir"
  BY <1>2, <1>6, Zenon
<1> QED  BY <1>3, <1>4, <1>5, <1>6

\* Where the directory does not show the input, some step will change it, unless the path
\* is not looked at at all.
LEMMA PlanReaches ==
    ASSUME Shape, NEW pub, NEW p \in Candidates(pub), p \in Paths, dir[p] # input[p],
           input[p] = None => p \in pub
    PROVE  \E s \in Plan(pub) :
                \/ s.path = p /\ s.do # "rmdir"
                \/ IsFile(input[s.path]) /\ s.path \in Above(p)
<1>0. p \in Files(pub)
  BY DEF Files
<1>1. ASSUME NEW q \in Looked(pub), q \in Paths, input[q] # None, dir[q] # input[q]
      PROVE  Step(q, "write", Have(pub, q) # None) \in Plan(pub)
  BY <1>1, HaveIs DEF Plan, FileSteps
<1>2. CASE p \in Looked(pub)
  <2>1. CASE input[p] # None
    <3>1. Step(p, "write", Have(pub, p) # None) \in Plan(pub)
      BY <1>1, <1>2, <2>1
    <3> QED  BY <3>1 DEF Step
  <2>2. CASE input[p] = None
    <3>1. p \in Tracked(pub) /\ Have(pub, p) # None
      BY <2>2, HaveIs DEF Tracked
    <3>2. Step(p, "remove", TRUE) \in Plan(pub)
      BY <3>1, <2>2, <1>2 DEF Plan, FileSteps
    <3> QED  BY <3>2 DEF Step
  <2> QED  BY <2>1, <2>2
<1>3. CASE p \notin Looked(pub)
  <2>1. PICK a \in Above(p) : a \in Replaced(pub)
    BY <1>3, <1>0 DEF Looked
  <2>2. a \in Paths /\ a \in Files(pub) /\ IsFile(input[a]) /\ dir[a] # input[a]
    BY <2>1, AboveIs DEF Replaced
  <2>3. a \in Looked(pub)
    <3>1. ASSUME NEW b \in Above(a), b \in Replaced(pub) PROVE FALSE
      BY <3>1, <2>2, InTheTree DEF Replaced, IsFile
    <3> QED  BY <3>1, <2>2 DEF Looked
  <2>4. Step(a, "write", Have(pub, a) # None) \in Plan(pub)
    BY <1>1, <2>2, <2>3 DEF IsFile
  <2> QED  BY <2>1, <2>2, <2>4 DEF Step
<1> QED  BY <1>2, <1>3

-----------------------------------------------------------------------------
(* Changes of the directory *)

\* A change by the user, at p.
Edited(p) ==
    /\ p \in Paths
    /\ IsMap(dir') /\ IsTree(dir')
    /\ \A q \in Paths : \/ dir'[q] = dir[q]
                        \/ q \in At(p) \union Above(p) /\ dir'[q] \in {None, Mine, Dir}
    /\ touched' = IF plan = {} THEN {} ELSE touched \union At(p) \union Above(p)
    /\ edited' = IF asked = {} THEN {} ELSE edited \union At(p) \union Above(p)

\* Whatever the user does keeps a tree, and both records of it cover all it changed.
LEMMA EditIs ==
    ASSUME Shape, Edits
    PROVE  \E p \in Paths : Edited(p)
<1>1. PICK p \in Paths :
          /\ \A q \in Above(p) : dir[q] = Dir
          /\ \E entry \in {None, Mine, Dir} \ {dir[p]} :
                dir' = IF entry = None THEN Cleared(dir, p) ELSE Written(dir, p, entry)
          /\ touched' = IF plan = {} THEN {} ELSE touched \union At(p) \union Above(p)
          /\ edited' = IF asked = {} THEN {} ELSE edited \union At(p) \union Above(p)
  BY DEF Edits
<1>2. PICK entry \in {None, Mine, Dir} :
          dir' = IF entry = None THEN Cleared(dir, p) ELSE Written(dir, p, entry)
  BY <1>1
<1>3. IsTree(dir) /\ ~Blocked(dir, p)
  BY <1>1 DEF Shape, Blocked, IsFile
<1>4. /\ IsMap(dir') /\ IsTree(dir')
      /\ \A q \in Paths : \/ dir'[q] = dir[q]
                          \/ q \in At(p) \union Above(p) /\ dir'[q] \in {None, Mine, Dir}
  <2>1. CASE entry = None
    <3>1. dir' = Cleared(dir, p)
      BY <2>1, <1>2
    <3> QED  BY <3>1, <1>3, ClearedIs
  <2>2. CASE entry # None
    <3>1. dir' = Written(dir, p, entry)
      BY <2>2, <1>2
    <3>2. /\ IsMap(dir') /\ IsTree(dir') /\ dir'[p] = entry
          /\ \A q \in Above(p) : dir'[q] = Dir
          /\ \A q \in Below(p) : dir'[q] = IF entry = Dir /\ dir[p] = Dir THEN dir[q] ELSE None
          /\ \A q \in Paths : q \notin At(p) \union Above(p) => dir'[q] = dir[q]
      BY <3>1, <1>3, <2>2, WrittenIs
    <3> QED  BY <3>2 DEF At
  <2> QED  BY <2>1, <2>2
<1> QED  BY <1>1, <1>4 DEF Edited

Emptied(q, p) ==
    /\ q \in Above(p) /\ dir'[q] = None
    /\ \A r \in Below(q) : IsFile(dir[r]) => r \in At(p)

\* A step of the publication, at p, that is carried out.
Carried(p) ==
    /\ IsMap(dir') /\ IsTree(dir')
    /\ \A q \in Paths : \/ dir'[q] \in {dir[q], Want[q]}
                        \/ Emptied(q, p) /\ input[p] = None
                        \/ dir'[q] = None /\ q \in At(p) /\ p \in Holes(input)
    /\ First.do # "rmdir" => dir'[p] = input[p]
    /\ IsFile(input[p]) => \A q \in Above(p) \union Below(p) : dir'[q] = Want[q]
    /\ \A q \in Paths : IsFile(dir'[q]) /\ dir'[q] # dir[q] => q = p
    /\ \A q \in Paths : IsFile(dir[q]) /\ dir'[q] # dir[q] =>
          /\ q \in At(p)
          /\ First.do = "write" => q = p \/ input[p] # Dir
          /\ First.do = "rmdir" => q = p

\* What it displaces.
Owes ==
    \A o \in owed' \ owed : \E p \in Paths \ touched : \E q \in At(p) :
        o = <<Len(kept), q, dir[q]>> /\ IsFile(dir[q]) /\ dir'[q] # dir[q]

\* What a step displaces and owes was a file nobody touched since the plan was made.
LEMMA OwesIs ==
    ASSUME NEW t, Displaces(t)
    PROVE  dir' = t /\ Owes
<1>1. dir' = t /\ owed' = owed \union UNION {Gone(dir, dir', p) : p \in Paths \ touched}
  BY DEF Displaces
<1>2. ASSUME NEW o \in owed' \ owed
      PROVE  \E p \in Paths \ touched : \E q \in At(p) :
                o = <<Len(kept), q, dir[q]>> /\ IsFile(dir[q]) /\ dir'[q] # dir[q]
  <2>1. PICK p \in Paths \ touched : o \in Gone(dir, dir', p)
    BY <1>1, <1>2
  <2> QED  BY <2>1 DEF Gone
<1> QED  BY <1>1, <1>2 DEF Owes

\* A write makes its path, what is above and what is below as the input has it, unless it
\* finds a directory where the input has one.
LEMMA WriteIs ==
    ASSUME Shape, PlanInv, First \in plan, First.do = "write", ~Blocked(dir, First.path),
           dir' = Written(dir, First.path, input[First.path])
    PROVE  Carried(First.path)
<1> DEFINE p == First.path
           entry == input[p]
<1>1. p \in Paths /\ entry # None /\ IsTree(dir)
  BY DEF PlanInv, StepOk, Shape
<1>2. /\ IsMap(dir') /\ IsTree(dir') /\ dir'[p] = entry
      /\ \A q \in Above(p) : dir[q] \in {None, Dir} /\ dir'[q] = Dir
      /\ \A q \in Below(p) : dir'[q] = IF entry = Dir /\ dir[p] = Dir THEN dir[q] ELSE None
      /\ \A q \in Paths : q \notin At(p) \union Above(p) => dir'[q] = dir[q]
  BY <1>1, WrittenIs
<1> HIDE DEF p
<1>0. entry = Want[p]
  BY <1>1, WantIs DEF p
<1>3. \A q \in Above(p) : q \in Paths /\ Want[q] = Dir
  BY <1>1, InTheTree
<1>4. ASSUME NEW q \in Below(p)
      PROVE  /\ dir'[q] = dir[q] \/ dir'[q] = Want[q]
             /\ dir[q] # None => dir'[q] = dir[q] \/ entry # Dir
             /\ IsFile(entry) => dir'[q] = Want[q]
  <2>1. dir[q] # None => dir[p] = Dir
    BY <1>1, TreeIs
  <2>2. entry # Dir => Want[q] = None
    BY <1>0, <1>1, WantIs, TreeIs
  <2>3. CASE entry = Dir
    BY <2>3, <2>1, <1>2 DEF IsFile
  <2>4. CASE entry # Dir
    BY <2>4, <2>2, <1>2
  <2> QED  BY <2>3, <2>4
<1>5. \A q \in Paths : dir'[q] \in {dir[q], Want[q]}
  BY <1>0, <1>2, <1>3, <1>4 DEF At
<1>6. IsFile(input[p]) => \A q \in Above(p) \union Below(p) : dir'[q] = Want[q]
  BY <1>2, <1>3, <1>4
<1>7. \A q \in Paths :
         IsFile(dir[q]) /\ dir'[q] # dir[q] => q \in At(p) /\ (q = p \/ input[p] # Dir)
  BY <1>2, <1>4 DEF At, IsFile
<1>8. \A q \in Paths : IsFile(dir'[q]) /\ dir'[q] # dir[q] => q = p
  BY <1>2 DEF At, IsFile
<1>9. First.do # "rmdir"
  OBVIOUS
<1> QED  BY <1>2, <1>5, <1>6, <1>7, <1>8, <1>9 DEF Carried, p

\* A removal, of a file or of a directory that is empty, takes only its path and directories
\* it empties.
LEMMA RemoveIs ==
    ASSUME Shape, PlanInv, First \in plan, First.do # "write", ~Blocked(dir, First.path),
           dir' = Pruned(Cleared(dir, First.path), First.path),
           First.do = "rmdir" => \A q \in Below(First.path) : dir[q] = None
    PROVE  Carried(First.path)
<1> DEFINE p == First.path
<1>1. p \in Paths /\ input[p] = None /\ IsTree(dir)
  BY DEF PlanInv, StepOk, Shape
<1>2. /\ IsMap(dir') /\ IsTree(dir')
      /\ \A q \in At(p) : dir'[q] = None
      /\ \A q \in Paths : q \notin At(p) =>
            \/ dir'[q] = dir[q]
            \/ /\ q \in Above(p) /\ dir'[q] = None
               /\ \A r \in Below(q) : IsFile(dir[r]) => r \in At(p)
  BY <1>1, RemovedIs
<1> HIDE DEF p
<1>3. p \notin Holes(input) => \A q \in At(p) : Want[q] = None
  <2>1. p \notin Holes(input) => Want[p] = None
    BY <1>1, WantIs
  <2> QED  BY <2>1, <1>1, ProjectAssumption, WantIs, TreeIs DEF At
<1>4. \A q \in Paths : \/ dir'[q] \in {dir[q], Want[q]} \/ Emptied(q, p)
                       \/ dir'[q] = None /\ q \in At(p) /\ p \in Holes(input)
  BY <1>2, <1>3 DEF Emptied
<1>5. \A q \in Above(p) : ~IsFile(dir[q])
  BY DEF Blocked, p
<1>6. \A q \in Paths : IsFile(dir[q]) /\ dir'[q] # dir[q] =>
          q \in At(p) /\ (First.do = "rmdir" => q = p)
  <2>1. First.do = "rmdir" => \A q \in Below(p) : ~IsFile(dir[q])
    BY DEF p, IsFile
  <2> QED  BY <2>1, <1>2, <1>5 DEF At
<1>7. ~IsFile(input[p]) /\ dir'[p] = input[p]
  BY <1>1, <1>2 DEF IsFile, At
<1>8. \A q \in Paths : IsFile(dir'[q]) /\ dir'[q] # dir[q] => q = p
  BY <1>2 DEF IsFile
<1> QED  BY <1>1, <1>2, <1>4, <1>6, <1>7, <1>8 DEF Carried, p

\* A step is carried out, or it fails and the publication is given up.
StepTaken ==
    /\ pc = "apply" /\ First \in plan
    /\ UNCHANGED <<store, prepared, kept, touched, asked, edited, limits>>
    /\ \/ Failed /\ UNCHANGED <<dir, owed>>
       \/ /\ Carried(First.path) /\ Owes
          /\ pc' = "retain" /\ plan' = plan \ {First} /\ UNCHANGED retained

\* Each of the three steps is such a change, or gives the publication up.
LEMMA StepIs ==
    ASSUME Shape, PlanInv, WriteStep \/ RemoveStep \/ RemoveDirStep
    PROVE  StepTaken
<1>1. pc = "apply" /\ UNCHANGED <<store, prepared, kept, touched, asked, edited, limits>>
  BY DEF WriteStep, RemoveStep, RemoveDirStep
<1>2. First \in plan
  <2>1. plan # {} /\ \A s \in plan : StepOk(s)
    BY <1>1 DEF Shape, PlanInv
  <2> QED  BY <2>1, FirstIs
<1> DEFINE p == First.path
<1>3. p \in Paths /\ IsMap(dir) /\ IsTree(dir)
  BY <1>2 DEF PlanInv, StepOk, Shape
<1>4. CASE WriteStep
  <2>0. First.do = "write"
    BY <1>4 DEF WriteStep
  <2>1. CASE Blocked(dir, First.path)
    BY <1>4, <2>1, <1>1, <1>2 DEF WriteStep, StepTaken
  <2>2. CASE ~Blocked(dir, First.path)
    <3>1. /\ Displaces(Written(dir, First.path, input[First.path]))
          /\ pc' = "retain" /\ plan' = plan \ {First} /\ UNCHANGED retained
      BY <1>4, <2>2 DEF WriteStep, Applied
    <3>2. dir' = Written(dir, First.path, input[First.path]) /\ Owes
      BY <3>1, OwesIs
    <3>3. Carried(First.path)
      BY <3>2, <2>0, <2>2, <1>2, WriteIs
    <3> QED  BY <3>1, <3>2, <3>3, <1>1, <1>2 DEF StepTaken
  <2> QED  BY <2>1, <2>2
<1>5. CASE RemoveStep
  <2>0. First.do = "remove"
    BY <1>5 DEF RemoveStep
  <2>1. CASE Blocked(dir, First.path)
    BY <1>5, <2>1, <1>1, <1>2 DEF RemoveStep, StepTaken
  <2>2. CASE ~Blocked(dir, First.path)
    <3>1. /\ Displaces(Pruned(Cleared(dir, First.path), First.path))
          /\ pc' = "retain" /\ plan' = plan \ {First} /\ UNCHANGED retained
      BY <1>5, <2>2 DEF RemoveStep, Applied
    <3>2. dir' = Pruned(Cleared(dir, First.path), First.path) /\ Owes
      BY <3>1, OwesIs
    <3>3. Carried(First.path)
      BY <3>2, <2>0, <2>2, <1>2, RemoveIs
    <3> QED  BY <3>1, <3>2, <3>3, <1>1, <1>2 DEF StepTaken
  <2> QED  BY <2>1, <2>2
<1>6. CASE RemoveDirStep
  <2>0. First.do = "rmdir"
    BY <1>6 DEF RemoveDirStep
  <2>1. CASE dir[First.path] # None /\ \A q \in Below(First.path) : dir[q] = None
    <3>1. /\ Displaces(Pruned(Cleared(dir, First.path), First.path))
          /\ pc' = "retain" /\ plan' = plan \ {First} /\ UNCHANGED retained
      BY <1>6, <2>1 DEF RemoveDirStep, Applied
    <3>2. dir' = Pruned(Cleared(dir, First.path), First.path) /\ Owes
      BY <3>1, OwesIs
    <3>3. ~Blocked(dir, First.path)
      BY <2>1, <1>3, InTheTree DEF Blocked, IsFile
    <3>4. Carried(First.path)
      BY <3>2, <3>3, <2>0, <2>1, <1>2, RemoveIs
    <3> QED  BY <3>1, <3>2, <3>4, <1>1, <1>2 DEF StepTaken
  <2>2. CASE ~(dir[First.path] # None /\ \A q \in Below(First.path) : dir[q] = None)
    <3>1. /\ UNCHANGED <<dir, owed>>
          /\ pc' = "retain" /\ plan' = plan \ {First} /\ UNCHANGED retained
      BY <1>6, <2>2 DEF RemoveDirStep, Applied
    <3>2. Carried(First.path)
      <4>1. input[First.path] = None
        BY <2>0, <1>2 DEF PlanInv, StepOk
      <4>2. IsMap(dir') /\ IsTree(dir') /\ dir' = dir /\ ~IsFile(input[First.path])
        BY <3>1, <1>3, <4>1 DEF IsMap, IsTree, IsFile
      <4> QED  BY <4>2, <2>0 DEF Carried
    <3>3. Owes
      BY <3>1 DEF Owes
    <3> QED  BY <3>1, <3>2, <3>3, <1>1, <1>2 DEF StepTaken
  <2> QED  BY <2>1, <2>2
<1> QED  BY <1>4, <1>5, <1>6

-----------------------------------------------------------------------------
(* Shape, and the steps that are still to come *)

\* A store that is opened keeps the invariant.
LEMMA InitInv == Init => Inv
<1> SUFFICES ASSUME Init PROVE Inv
  OBVIOUS
<1>1. dir \in Trees /\ floor = dir /\ meta = [seen |-> dir, floor |-> dir]
  BY DEF Init
<1>2. /\ pc = "idle" /\ sources = {} /\ input = Blank /\ listed \union published = {}
      /\ plan = {} /\ kept = <<>> /\ owed = {}
      /\ touched = {} /\ asked = {} /\ edited = {} /\ inputs = 0
  BY DEF Init
<1>3. IsMap(dir) /\ IsTree(dir) /\ meta.floor = dir
  BY <1>1, TreesAssumption DEF IsMap
<1>4. IsMap(input) /\ IsTree(input) /\ \A p \in Paths : input[p] = None
  BY <1>2 DEF IsMap, IsTree, Blank
<1>9. Layered(input) /\ Holes(input) = {}
  BY <1>4, NoHoles
<1>5. Shape
  <2>1. inputs \in 0 .. MaxInputs
    BY <1>2, ProjectAssumption
  <2> QED  BY <1>1, <1>2, <1>3, <1>4, <1>9, <2>1 DEF Shape, Closed, Publishing
<1>6. PlanInv
  BY <1>2 DEF PlanInv
<1>7. DisplacedInv
  <2>1. IsList(kept)
    BY <1>2 DEF IsList
  <2> QED  BY <2>1, <1>2 DEF DisplacedInv, KeptInv, OldIsKept, Publishing
<1>8. InstalledInv
  <2>1. Upto(dir, inputs) /\ Upto(input, inputs)
    BY <1>1, <1>4, TreesAssumption DEF Upto
  <2>2. AgeInv
    BY <2>1, <1>1, <1>2, <1>3, <1>9 DEF AgeInv
  <2> QED  BY <2>2, <1>2 DEF InstalledInv, ShownInv, SourceInv, FloorInv
<1> QED  BY <1>5, <1>6, <1>7, <1>8 DEF Inv

Stages == {"idle", "sources", "ready", "refused", "retain", "apply", "save", "record",
           "installed", "started"}

\* A publication is refused, has nothing to do, or begins with the whole plan.
LEMMA PublishIs ==
    ASSUME Shape, AgeInv, SourceInv, Publish
    PROVE  /\ pc = "ready" /\ UNCHANGED <<dir, store, prepared, owed, edited, limits>>
           /\ touched' = {} /\ asked' = Visible(input) \union UNION {Visible(t) : t \in sources}
           /\ \/ plan' = {} /\ pc' = "refused" /\ kept' = kept
              \/ /\ plan' = Plan(Listed(sources))
                 /\ IF plan' = {} THEN pc' = "installed" /\ kept' = kept
                                  ELSE pc' = "retain" /\ kept' = Append(kept, {})
BY DEF Publish

\* Only paths are listed.
LEMMA ListedIs == Shape => Listed(sources) \subseteq Paths
BY DEF Listed, Shape, Visible

\* Every step keeps trees trees.
LEMMA ShapeInv ==
    ASSUME Shape, PlanInv, Next
    PROVE  Shape'
<1>1. CASE Edits
  <2>1. PICK p \in Paths : Edited(p)
    BY <1>1, EditIs
  <2>2. Closed(touched') /\ Closed(edited')
    BY <2>1, ClosedUnder DEF Edited, Shape
  <2> QED  BY <1>1, <2>1, <2>2
            DEF Edits, Edited, Shape, store, prepared, running, Closed, IsTree, Layered, Publishing
<1>2. CASE CollectInputs
  <2>1. /\ pc' = "sources" /\ UNCHANGED <<dir, store, input, running, ghosts>>
        /\ inputs < MaxInputs /\ inputs' = inputs + 1
        /\ \E upstream \in SUBSET Trees : sources' = {dir} \union upstream
    BY <1>2 DEF CollectInputs
  <2>2. \A s \in sources' : IsMap(s) /\ IsTree(s)
    BY <2>1, TreesAssumption DEF IsMap, Shape
  <2>3. inputs' \in 0 .. MaxInputs /\ inputs' > 0
    BY <2>1, ProjectAssumption DEF Shape
  <2>4. plan = {}
    BY <1>2 DEF Shape, Publishing, CollectInputs
  <2> QED  BY <2>1, <2>2, <2>3, <2>4 DEF Shape, store, running, ghosts, Closed, IsTree, Layered, Publishing
<1>3. CASE PrepareInput
  <2>1. /\ pc = "sources" /\ pc' = "ready"
        /\ UNCHANGED <<dir, store, sources, running, ghosts, limits>>
    BY <1>3 DEF PrepareInput
  <2>2. IsMap(input') /\ Layered(input')
    <3>1. CASE Cardinality(sources) = 1
      BY <3>1, <1>3, NoHoles DEF PrepareInput, Shape
    <3>2. CASE Cardinality(sources) # 1
      <4>1. PICK t \in [Paths -> UNION {Resolved(p) : p \in Paths}] :
               /\ \A p \in Visible(t) : \A q \in Above(p) : ~IsFile(t[q])
               /\ input' = t
        BY <1>3, <3>2 DEF PrepareInput
      <4> QED  BY <4>1 DEF IsMap, Layered, Visible
    <3> QED  BY <3>1, <3>2
  <2>4. plan = {}
    BY <2>1 DEF Shape, Publishing
  <2> QED  BY <2>1, <2>2, <2>4 DEF Shape, store, running, ghosts, limits, Closed, IsTree, Layered, Publishing
<1>4. CASE Publish
  <2>1. /\ UNCHANGED <<dir, store, prepared, edited, limits>> /\ touched' = {}
        /\ pc = "ready" /\ ((pc' \in {"refused", "installed"} /\ plan' = {}) \/ pc' = "retain")
        /\ published' \in {published, Listed(sources)}
    BY <1>4 DEF Publish
  <2>2. Listed(sources) \subseteq Paths
    BY ListedIs
  <2> QED  BY <2>1, <2>2, ClosedUnder DEF Shape, store, prepared, limits, Closed, IsTree, Layered, Publishing
<1>5. CASE Retain
  <2>1. /\ pc = "retain" /\ plan # {} /\ UNCHANGED <<dir, store, prepared, ghosts, limits>>
        /\ Failed \/ (pc' = "apply" /\ plan' = plan /\ published' = published)
    BY <1>5 DEF Retain
  <2> QED  BY <2>1 DEF Failed, Shape, store, prepared, ghosts, limits, Closed, IsTree, Layered, Publishing
<1>6. CASE WriteStep \/ RemoveStep \/ RemoveDirStep
  <2>1. StepTaken
    BY <1>6, StepIs
  <2>2. IsMap(dir') /\ IsTree(dir')
    BY <2>1 DEF StepTaken, Carried, Shape, IsMap, IsTree
  <2>3. (pc' = "ready" /\ plan' = {}) \/ pc' = "retain"
    BY <2>1 DEF StepTaken, Failed
  <2>5. published' \subseteq published \union {First.path} /\ First.path \in Paths
    <3>1. First.path \in Paths
      BY <2>1 DEF StepTaken, PlanInv, StepOk
    <3> QED  BY <3>1, <1>6 DEF WriteStep, RemoveStep, RemoveDirStep, Failed, Applied
  <2>4. pc = "apply" /\ UNCHANGED <<store, prepared, touched, edited, limits>>
    BY <2>1 DEF StepTaken
  <2> QED  BY <2>2, <2>3, <2>4, <2>5 DEF Shape, store, prepared, limits, Closed, IsTree, Layered, Publishing
<1>7. CASE PruneReplaced \/ SavePublishedPaths \/ Start
  <2>1. /\ pc # "idle" /\ plan = {} /\ plan' = {} /\ pc' \in {"save", "record", "started"}
        /\ UNCHANGED <<dir, floor, meta, prepared, ghosts, limits>>
        /\ listed' \in {listed, published} /\ published' = published
    BY <1>7 DEF PruneReplaced, SavePublishedPaths, Start, running, store, Shape, Publishing
  <2> QED  BY <2>1 DEF Shape, prepared, ghosts, limits, Closed, IsTree, Layered, Publishing
<1>8. CASE RecordDisplayState
  <2>1. /\ pc # "idle" /\ plan = {} /\ plan' = {} /\ pc' = "installed" /\ meta'.floor = floor
        /\ published' = {} /\ listed' = listed
        /\ UNCHANGED <<dir, floor, prepared, ghosts, limits>>
    BY <1>8 DEF RecordDisplayState, Shape, Publishing
  <2> QED  BY <2>1 DEF Shape, prepared, ghosts, limits, Closed, IsTree, Layered, Publishing, IsMap
<1>9. CASE InstallFails
  <2>1. /\ pc # "idle" /\ plan' = {} /\ pc' = "ready" /\ inputs' = inputs /\ published' = {}
        /\ UNCHANGED <<dir, store, prepared, ghosts>>
    BY <1>9 DEF InstallFails, Failed
  <2> QED  BY <2>1 DEF Shape, store, prepared, ghosts, Closed, IsTree, Layered, Publishing
<1>10. CASE Release
  <2>1. /\ plan = {} /\ plan' = {} /\ pc' = "idle" /\ sources' = {} /\ input' = Blank
        /\ edited' = {} /\ touched' = {} /\ UNCHANGED <<dir, store, limits, published>>
    BY <1>10 DEF Release, running, Shape, Publishing
  <2>2. IsMap(Blank) /\ Layered(Blank)
    BY DEF Blank, IsMap, Layered
  <2> QED  BY <2>1, <2>2, ClosedUnder DEF Shape, store, limits, Closed, IsTree, Layered, Publishing
<1>11. CASE Restart
  <2>1. /\ plan' = {} /\ pc' \in {"idle", "sources", "started", "ready"}
        /\ UNCHANGED <<dir, sources, ghosts, inputs, listed>> /\ published' = {}
        /\ input' = Filled(input)
        /\ floor' \in {meta.floor, dir} /\ meta'.floor = floor' /\ (pc' # "idle" => pc # "idle")
    BY <1>11 DEF Restart
  <2>2. IsMap(input') /\ Layered(input')
    BY <2>1, FilledIs, NoHoles DEF Shape
  <2> QED  BY <2>1, <2>2 DEF Shape, ghosts, Closed, IsTree, Layered, Publishing, IsMap
<1> QED  BY <1>1, <1>2, <1>3, <1>4, <1>5, <1>6, <1>7, <1>8, <1>9, <1>10, <1>11 DEF Next

\* A plan that is part of one that was in order is in order.
LEMMA PlanGoesOn ==
    ASSUME PlanInv, plan' \subseteq plan, plan' = {} \/ input' = input
    PROVE  PlanInv'
BY DEF PlanInv, StepOk, Step

\* What is still to do stays in order, because the input does not change under a plan.
LEMMA PlanStays ==
    ASSUME Shape, PlanInv, Next
    PROVE  PlanInv'
<1>1. CASE Publish
  <2>1. plan' \subseteq Plan(Listed(sources)) /\ input' = input
    BY <1>1 DEF Publish, prepared
  <2>2. \A s \in plan' : StepOk(s)
    BY <2>1, ListedIs, PlanIs
  <2>3. \A s, t \in plan' : s.path = t.path /\ s.do = t.do => s = t
    BY <2>1, PlanOnce
  <2> QED  BY <2>1, <2>2, <2>3 DEF PlanInv, StepOk, Step
<1>2. CASE WriteStep \/ RemoveStep \/ RemoveDirStep
  <2>1. StepTaken
    BY <1>2, StepIs
  <2> QED  BY <2>1, PlanGoesOn DEF StepTaken, Failed, prepared
<1>3. CASE ~Publish /\ ~WriteStep /\ ~RemoveStep /\ ~RemoveDirStep
  <2>1. plan' \in {plan, {}}
    BY <1>3 DEF Next, Edits, CollectInputs, PrepareInput, Retain, PruneReplaced, Failed,
          SavePublishedPaths, RecordDisplayState, InstallFails, Start, Release, Restart, running
  <2>2. plan' = {} \/ input' = input
    BY <1>3, <2>1 DEF Next, Edits, CollectInputs, PrepareInput, Retain, PruneReplaced, Failed,
          SavePublishedPaths, RecordDisplayState, InstallFails, Start, Release, Restart,
          running, prepared, Shape, Publishing
  <2> QED  BY <2>1, <2>2, PlanGoesOn
<1> QED  BY <1>1, <1>2, <1>3

-----------------------------------------------------------------------------
(* What is displaced *)

\* A sequence in the library's sense is a list.
LEMMA ListIs ==
    ASSUME NEW S, NEW s \in Seq(S)
    PROVE  IsList(s)
BY DEF IsList

\* A new replaced directory leaves the others as they are.
LEMMA Appended ==
    ASSUME NEW s, IsList(s), NEW e
    PROVE  /\ IsList(Append(s, e)) /\ Len(Append(s, e)) = Len(s) + 1
           /\ \A i \in 1 .. Len(s) : Append(s, e)[i] = s[i]
<1> DEFINE S == {s[i] : i \in 1 .. Len(s)} \union {e}
<1>1. s \in Seq(S)
  <2>1. s \in [1 .. Len(s) -> S] /\ Len(s) \in Nat
    BY DEF IsList
  <2> QED  BY <2>1
<1>2. e \in S
  OBVIOUS
<1> HIDE DEF S
<1>3. /\ Append(s, e) \in Seq(S) /\ Len(Append(s, e)) = Len(s) + 1
      /\ \A i \in 1 .. Len(s) : Append(s, e)[i] = s[i]
  BY <1>1, <1>2
<1>4. IsList(Append(s, e))
  BY <1>3, ListIs
<1> QED  BY <1>3, <1>4

\* So does one that is taken away again.
LEMMA WithoutLast ==
    ASSUME NEW s, IsList(s), Len(s) > 0
    PROVE  /\ IsList(Front(s)) /\ Len(Front(s)) = Len(s) - 1
           /\ \A i \in 1 .. Len(s) - 1 : Front(s)[i] = s[i]
<1> DEFINE S == {s[i] : i \in 1 .. Len(s)}
<1>1. s \in Seq(S) /\ Len(s) \in Nat
  <2>1. s \in [1 .. Len(s) -> S] /\ Len(s) \in Nat
    BY DEF IsList
  <2> QED  BY <2>1
<1> HIDE DEF S
<1> DEFINE n == Len(s) - 1
           f == SubSeq(s, 1, n)
<1>2. n \in Nat /\ n <= Len(s) /\ Front(s) = f
  BY <1>1 DEF Front
<1> HIDE DEF n
<1>3. f \in Seq(S) /\ Len(f) = n /\ \A i \in 1 .. n : f[i] = s[i]
  BY <1>1, <1>2
<1>4. IsList(f)
  BY <1>3, ListIs
<1> QED  BY <1>2, <1>3, <1>4 DEF n

\* What is saved stays saved when its directory only grows.
LEMMA SavedStays ==
    ASSUME NEW k, NEW l, NEW o, Saved(k, o), k[Number(o)] \subseteq l[Number(o)]
    PROVE  Saved(l, o)
BY DEF Saved

\* As long as nothing new is displaced and nothing saved is dropped.
LEMMA KeptGoesOn ==
    ASSUME KeptInv, UNCHANGED <<kept, owed>>, Publishing' => (Publishing /\ retained' = retained)
    PROVE  KeptInv'
<1>1. Len(kept) \in Nat /\ Retained \in Nat
  BY ProjectAssumption DEF KeptInv, IsList
<1>2. Complete' \in Int /\ Complete \in Int /\ Complete <= Complete'
  BY <1>1 DEF Complete
<1>4. \A o \in owed : /\ Number(o) \in 1 .. Len(kept)
                      /\ Saved(kept, o) \/ Number(o) <= Complete - Retained
  BY DEF KeptInv
<1>5. kept' = kept /\ owed' = owed
  OBVIOUS
<1>3. \A o \in owed' : /\ Number(o) \in 1 .. Len(kept')
                       /\ Saved(kept', o) \/ Number(o) <= Complete' - Retained
  <2>1. SUFFICES ASSUME NEW o \in owed
                 PROVE  /\ Number(o) \in 1 .. Len(kept)
                        /\ Saved(kept, o) \/ Number(o) <= Complete' - Retained
    BY <1>5
  <2>2. Number(o) \in 1 .. Len(kept) /\ (Saved(kept, o) \/ Number(o) <= Complete - Retained)
    BY <1>4
  <2> QED  BY <2>2, <1>1, <1>2
<1> QED  BY <1>1, <1>3, <1>5 DEF KeptInv

\* What is still there from the plan can only get less.
LEMMA OldGoesOn ==
    ASSUME touched \subseteq touched',
           \A q \in Paths \ touched' : IsFile(dir'[q]) => dir'[q] = dir[q]
    PROVE  \A p \in Paths : \A q \in Old(p)' : q \in Old(p) /\ dir'[q] = dir[q]
BY AboveIs DEF Old, At

\* What a step would displace unsaved does not come about by itself.
LEMMA DisplacedGoesOn ==
    ASSUME DisplacedInv, PlanInv, (plan' = plan /\ input' = input) \/ plan' = {},
           plan' # {} => /\ touched \subseteq touched'
                         /\ \A q \in Paths \ touched' : IsFile(dir'[q]) => dir'[q] = dir[q]
    PROVE  \A s \in plan' : NothingOld(s)'
<1> SUFFICES ASSUME NEW s \in plan' PROVE NothingOld(s)'
  OBVIOUS
<1>1. s \in plan /\ input' = input /\ s.path \in Paths /\ NothingOld(s)
  BY DEF DisplacedInv, PlanInv, StepOk
<1>2. \A q \in Old(s.path)' : q \in Old(s.path)
  BY <1>1, OldGoesOn
<1> QED  BY <1>1, <1>2 DEF NothingOld

\* A plan is made of what is in the directory: where it saves nothing, there is nothing.
LEMMA PublishKeeps ==
    ASSUME Shape, DisplacedInv, AgeInv, SourceInv, Publish
    PROVE  DisplacedInv'
<1>1. /\ pc = "ready" /\ UNCHANGED <<dir, owed, input>>
      /\ \/ plan' = {} /\ pc' = "refused" /\ kept' = kept
         \/ /\ plan' = Plan(Listed(sources))
            /\ IF plan' = {} THEN pc' = "installed" /\ kept' = kept
                             ELSE pc' = "retain" /\ kept' = Append(kept, {})
  BY PublishIs DEF prepared
<1>2. KeptInv'
  <2>1. CASE kept' = kept /\ pc' \in {"refused", "installed"}
    BY <2>1, <1>1, KeptGoesOn DEF DisplacedInv, Publishing
  <2>2. CASE kept' = Append(kept, {}) /\ pc' = "retain"
    <3>1. /\ IsList(kept') /\ Len(kept') = Len(kept) + 1 /\ Len(kept) \in Nat
          /\ \A i \in 1 .. Len(kept) : kept'[i] = kept[i]
      BY <2>2, Appended DEF DisplacedInv, KeptInv, IsList
    <3>2. Complete' = Len(kept) /\ Complete = Len(kept)
      BY <3>1, <2>2, <1>1 DEF Complete, Publishing
    <3>3. \A o \in owed' : Number(o) \in 1 .. Len(kept)
      BY <1>1 DEF DisplacedInv, KeptInv
    <3>4. \A o \in owed' : Saved(kept', o) \/ Number(o) <= Complete' - Retained
      BY <3>1, <3>2, <3>3, <1>1, SavedStays DEF DisplacedInv, KeptInv
    <3> QED  BY <3>1, <3>3, <3>4 DEF KeptInv
  <2> QED  BY <1>1, <2>1, <2>2
<1>3. ASSUME NEW s \in plan' PROVE NothingOld(s)'
  <2>1. s \in Plan(Listed(sources)) /\ Listed(sources) \subseteq Paths
    BY <1>1, <1>3, ListedIs
  <2>2. /\ StepOk(s)
        /\ s.do = "write" => s.existed = (dir[s.path] # None)
        /\ s.do = "rmdir" => dir[s.path] = Dir
    BY <2>1, PlanIs
  <2>3. s.path \in Paths /\ IsTree(dir)
    BY <2>2 DEF StepOk, Shape
  <2>4. dir[s.path] = None => \A q \in At(s.path) : dir[q] = None
    BY <2>3, TreeIs, ProjectAssumption DEF At
  <2>5. /\ \A q \in Old(s.path)' : q \in At(s.path) /\ IsFile(dir[q])
    BY <1>1 DEF Old
  <2>6. s.do = "write" /\ ~s.existed => Old(s.path)' = {}
    BY <2>2, <2>4, <2>5 DEF IsFile
  <2>7. s.do = "rmdir" => s.path \notin Old(s.path)'
    BY <2>2, <2>5 DEF IsFile
  <2> QED  BY <2>6, <2>7 DEF NothingOld
<1>4. OldIsKept'
  BY <1>1 DEF OldIsKept
<1> QED  BY <1>2, <1>3, <1>4 DEF DisplacedInv

\* retainReplaced saves all the step that follows displaces, and says that it did.
LEMMA RetainKeeps ==
    ASSUME Shape, PlanInv, DisplacedInv, Retain
    PROVE  DisplacedInv'
<1>1. /\ pc = "retain" /\ plan # {} /\ UNCHANGED <<dir, prepared, ghosts>>
      /\ \/ Failed /\ kept' = kept
         \/ /\ First.existed /\ pc' = "apply" /\ plan' = plan
            /\ kept' = [kept EXCEPT ![Len(kept)] = @ \union Copied(First.path)]
            /\ retained' = (retained \/ dir[First.path] # None)
         \/ ~First.existed /\ pc' = "apply" /\ plan' = plan /\ kept' = kept /\ retained' = retained
  BY DEF Retain
<1>2. First \in plan /\ First.path \in Paths
  BY <1>1, FirstIs DEF PlanInv, StepOk
<1>3. \A s \in plan' : NothingOld(s)'
  <2>1. (plan' = plan /\ input' = input) \/ plan' = {}
    BY <1>1 DEF Failed, prepared
  <2> QED  BY <2>1, <1>1, DisplacedGoesOn DEF ghosts
<1>4. plan' = plan => First' = First
  BY DEF First
<1>5. CASE Failed /\ kept' = kept
  <2>1. KeptInv'
    BY <1>5, <1>1, KeptGoesOn DEF Failed, DisplacedInv, Publishing, ghosts
  <2> QED  BY <2>1, <1>3, <1>5 DEF DisplacedInv, OldIsKept, Failed
<1>6. CASE ~First.existed /\ pc' = "apply" /\ plan' = plan /\ kept' = kept /\ retained' = retained
  <2>1. KeptInv'
    BY <1>6, <1>1, KeptGoesOn DEF DisplacedInv, Publishing, ghosts
  <2>2. OldIsKept'
    BY <1>6, <1>4 DEF OldIsKept
  <2> QED  BY <2>1, <2>2, <1>3 DEF DisplacedInv
<1>7. CASE /\ First.existed /\ pc' = "apply" /\ plan' = plan
           /\ kept' = [kept EXCEPT ![Len(kept)] = @ \union Copied(First.path)]
           /\ retained' = (retained \/ dir[First.path] # None)
  <2>1. IsList(kept) /\ Len(kept) \in Nat \ {0}
    BY <1>1 DEF DisplacedInv, KeptInv, IsList, Publishing
  <2>2. DOMAIN kept = 1 .. Len(kept)
    BY <2>1 DEF IsList
  <2>3. kept' = [i \in 1 .. Len(kept) |->
                    IF i = Len(kept) THEN kept[i] \union Copied(First.path) ELSE kept[i]]
    BY <1>7, <2>1, <2>2 DEF IsList
  <2>4. Len(kept') = Len(kept)
    BY <2>1, <2>3
  <2>5. IsList(kept')
    BY <2>1, <2>3, <2>4 DEF IsList
  <2>6. \A i \in 1 .. Len(kept) : kept[i] \subseteq kept'[i]
    BY <2>3
  <2>7. Publishing /\ Publishing' /\ Complete' = Complete
    BY <1>1, <1>7, <2>4 DEF Publishing, Complete
  <2>8. owed' = owed
    BY <1>1 DEF ghosts
  <2>9. \A o \in owed' : /\ Number(o) \in 1 .. Len(kept')
                         /\ Saved(kept', o) \/ Number(o) <= Complete' - Retained
    BY <2>4, <2>6, <2>7, <2>8, SavedStays DEF DisplacedInv, KeptInv
  <2>10. Len(kept') > 0 /\ (retained' \/ \A o \in owed' : Number(o) # Len(kept'))
    BY <2>1, <2>4, <2>7, <2>8, <1>7 DEF DisplacedInv, KeptInv
  <2>11. KeptInv'
    BY <2>5, <2>9, <2>10 DEF KeptInv
  <2>12. ASSUME NEW q \in Old(First.path)'
         PROVE  <<q, dir'[q]>> \in kept'[Len(kept')] /\ retained'
    <3>1. q \in At(First.path) /\ IsFile(dir[q]) /\ dir' = dir
      <4>1. First' = First /\ dir' = dir /\ touched' = touched
        BY <1>1, <1>4, <1>7 DEF ghosts
      <4> QED  BY <4>1 DEF Old
    <3>2. <<q, dir[q]>> \in Copied(First.path)
      BY <3>1 DEF Copied
    <3>3. dir[First.path] # None
      BY <3>1, <1>2, TreeIs, ProjectAssumption DEF At, IsFile, Shape
    <3>4. kept'[Len(kept')] = kept[Len(kept)] \union Copied(First.path)
      <4>1. Len(kept) \in 1 .. Len(kept)
        BY <2>1
      <4> QED  BY <4>1, <2>3, <2>4
    <3> QED  BY <3>1, <3>2, <3>3, <3>4, <1>7
  <2>13. OldIsKept'
    BY <2>12, <1>4, <1>7 DEF OldIsKept
  <2> QED  BY <2>11, <2>13, <1>3 DEF DisplacedInv
<1> QED  BY <1>1, <1>5, <1>6, <1>7

\* A step displaces only what was saved before it, and makes no file a later step displaces.
LEMMA StepKeeps ==
    ASSUME Shape, PlanInv, DisplacedInv, StepTaken
    PROVE  DisplacedInv'
<1>1. CASE Failed /\ UNCHANGED <<dir, owed>>
  <2>1. KeptInv'
    BY <1>1, KeptGoesOn DEF Failed, DisplacedInv, Publishing, StepTaken
  <2> QED  BY <2>1, <1>1 DEF DisplacedInv, OldIsKept, Failed
<1>2. CASE /\ Carried(First.path) /\ Owes
           /\ pc' = "retain" /\ plan' = plan \ {First} /\ UNCHANGED retained
  <2> DEFINE p == First.path
  <2>1. /\ pc = "apply" /\ First \in plan /\ p \in Paths /\ StepOk(First)
        /\ UNCHANGED <<input, kept, touched>>
    BY DEF StepTaken, PlanInv, StepOk, prepared
  <2>2. ASSUME NEW q \in Old(p), dir'[q] # dir[q], q \in Paths
        PROVE  <<q, dir[q]>> \in kept[Len(kept)] /\ retained
    <3>1. IsFile(dir[q])
      BY <2>2 DEF Old
    <3>2. /\ First.do = "write" => q = p \/ input[p] # Dir
          /\ First.do = "rmdir" => q = p
      BY <2>2, <3>1, <1>2 DEF Carried
    <3>3. NothingOld(First)
      BY <2>1 DEF DisplacedInv
    <3>4. First.existed
      BY <3>2, <3>3, <2>1, <2>2 DEF NothingOld, StepOk
    <3> QED  BY <3>4, <2>1, <2>2 DEF DisplacedInv, OldIsKept
  <2>3. ASSUME NEW o \in owed' \ owed
        PROVE  Saved(kept, o) /\ retained /\ Number(o) = Len(kept)
    <3>0. PICK x \in Paths \ touched : \E q \in At(x) :
              o = <<Len(kept), q, dir[q]>> /\ IsFile(dir[q]) /\ dir'[q] # dir[q]
      BY <1>2, <2>3 DEF Owes
    <3>1. PICK q \in At(x) : o = <<Len(kept), q, dir[q]>> /\ IsFile(dir[q]) /\ dir'[q] # dir[q]
      BY <3>0
    <3>2. q \in Paths /\ q \notin touched
      BY <3>1, AboveIs DEF At, Shape, Closed
    <3>3. q \in At(p)
      BY <3>1, <3>2, <1>2 DEF Carried
    <3>4. q \in Old(p)
      BY <3>1, <3>2, <3>3 DEF Old
    <3> QED  BY <3>1, <3>2, <3>4, <2>2 DEF Saved, Number
  <2>4. KeptInv'
    <3>1. IsList(kept) /\ Len(kept) \in Nat \ {0} /\ kept' = kept
      BY <2>1 DEF DisplacedInv, KeptInv, IsList, Publishing
    <3>2. Publishing /\ Publishing' /\ Complete' = Complete
      BY <1>2, <2>1 DEF Publishing, Complete
    <3>3. ASSUME NEW o \in owed'
          PROVE  /\ Number(o) \in 1 .. Len(kept')
                 /\ Saved(kept', o) \/ Number(o) <= Complete' - Retained
                 /\ retained' \/ Number(o) # Len(kept')
      <4>1. CASE o \in owed
        BY <4>1, <3>1, <3>2, <1>2 DEF DisplacedInv, KeptInv
      <4>2. CASE o \notin owed
        BY <4>2, <2>3, <3>1, <1>2
      <4> QED  BY <4>1, <4>2
    <3> QED  BY <3>1, <3>3 DEF KeptInv
  <2>5. ASSUME NEW s \in plan' PROVE NothingOld(s)'
    <3>1. s \in plan /\ s # First /\ StepOk(s) /\ s.path \in Paths /\ NothingOld(s)
      BY <1>2, <2>5 DEF PlanInv, StepOk, DisplacedInv
    <3>2. ASSUME NEW q \in Old(s.path)', q \notin Old(s.path)
          PROVE  q = p /\ q \in At(s.path) /\ q \in Paths /\ input[q] # None /\ First.do = "write"
      <4>1. q \in At(s.path) /\ q \in Paths /\ IsFile(dir'[q]) /\ dir'[q] # dir[q]
        BY <3>1, <3>2, <2>1, AboveIs DEF Old, At
      <4>2. q = p /\ dir'[q] = Want[q]
        BY <4>1, <1>2 DEF Carried, Emptied, IsFile
      <4>3. dir'[q] = input[q]
        BY <4>1, <4>2, WantIs DEF IsFile
      <4> QED  BY <4>1, <4>2, <4>3, <2>1 DEF IsFile, StepOk
    <3>3. ASSUME s.do = "write", ~s.existed, NEW q \in Old(s.path)'
          PROVE  q # s.path /\ input'[s.path] = Dir
      <4>1. CASE q \in Old(s.path)
        BY <4>1, <3>1, <3>3, <2>1 DEF NothingOld
      <4>2. CASE q \notin Old(s.path)
        <5>1. q = p /\ q \in At(s.path) /\ q \in Paths /\ input[q] # None /\ First.do = "write"
          BY <4>2, <3>2
        <5>2. q # s.path
          BY <5>1, <3>1, <3>3, <2>1 DEF PlanInv
        <5>3. s.path \in Above(q)
          BY <5>1, <5>2, <3>1, AtIs
        <5>4. ~IsFile(input[s.path]) /\ input[s.path] # None
          BY <5>1, <5>3, <3>1, <3>3, InTheTree DEF StepOk
        <5> QED  BY <5>2, <5>4, <2>1 DEF IsFile
      <4> QED  BY <4>1, <4>2
    <3>4. ASSUME s.do = "rmdir", s.path \in Old(s.path)' PROVE FALSE
      <4>1. s.path \notin Old(s.path)
        BY <3>1, <3>4 DEF NothingOld
      <4>2. input[s.path] # None
        BY <3>2, <3>4, <4>1
      <4> QED  BY <4>2, <3>1, <3>4 DEF StepOk
    <3> QED  BY <3>3, <3>4 DEF NothingOld
  <2> QED  BY <2>4, <2>5, <1>2 DEF DisplacedInv, OldIsKept
<1> QED  BY <1>1, <1>2 DEF StepTaken

\* pruneReplaced drops only directories that are no longer owed, and the one of a publication
\* that saved nothing is owed nothing.
LEMMA PruneKeeps ==
    ASSUME Shape, DisplacedInv, PruneReplaced
    PROVE  DisplacedInv'
<1>1. /\ pc = "retain" /\ plan = {} /\ plan' = {} /\ pc' = "save" /\ owed' = owed
      /\ kept' = IF retained
                 THEN [i \in DOMAIN kept |-> IF i <= Len(kept) - Retained THEN {} ELSE kept[i]]
                 ELSE Front(kept)
  BY DEF PruneReplaced, running, ghosts
<1>2. /\ IsList(kept) /\ Len(kept) \in Nat \ {0} /\ Complete = Len(kept) - 1
      /\ retained \/ \A o \in owed : Number(o) # Len(kept)
      /\ \A o \in owed : /\ Number(o) \in 1 .. Len(kept)
                         /\ Saved(kept, o) \/ Number(o) <= Len(kept) - 1 - Retained
  <2>1. KeptInv /\ Publishing
    BY <1>1 DEF DisplacedInv, Publishing
  <2> QED  BY <2>1 DEF KeptInv, IsList, Complete
<1>3. Retained \in Nat
  BY ProjectAssumption
<1>4. Complete' = Len(kept') /\ ~Publishing'
  BY <1>1 DEF Complete, Publishing
<1>5. CASE retained
  <2>1. kept' = [i \in 1 .. Len(kept) |-> IF i <= Len(kept) - Retained THEN {} ELSE kept[i]]
    BY <1>1, <1>2, <1>5 DEF IsList
  <2>2. Len(kept') = Len(kept)
    BY <1>2, <2>1
  <2>3. IsList(kept')
    BY <1>2, <2>1, <2>2 DEF IsList
  <2>4. \A o \in owed : Saved(kept', o) \/ Number(o) <= Len(kept') - Retained
    <3>1. ASSUME NEW o \in owed, ~(Number(o) <= Len(kept') - Retained) PROVE Saved(kept', o)
      <4>1. Number(o) \in 1 .. Len(kept) /\ Saved(kept, o) /\ ~(Number(o) <= Len(kept) - Retained)
        BY <3>1, <1>2, <1>3, <2>2
      <4>2. kept'[Number(o)] = kept[Number(o)]
        BY <4>1, <2>1
      <4> QED  BY <4>1, <4>2, SavedStays
    <3> QED  BY <3>1
  <2>5. KeptInv'
    BY <1>1, <1>2, <1>4, <2>2, <2>3, <2>4 DEF KeptInv
  <2> QED  BY <2>5, <1>1 DEF DisplacedInv, OldIsKept
<1>6. CASE ~retained
  <2>1. /\ IsList(kept') /\ Len(kept') = Len(kept) - 1
        /\ \A i \in 1 .. Len(kept) - 1 : kept'[i] = kept[i]
    BY <1>1, <1>2, <1>6, WithoutLast
  <2>2. \A o \in owed : Number(o) \in 1 .. Len(kept) - 1
    BY <1>2, <1>6
  <2>3. \A o \in owed : Saved(kept', o) \/ Number(o) <= Len(kept') - Retained
    BY <1>2, <1>3, <2>1, <2>2, SavedStays
  <2>4. KeptInv'
    BY <1>1, <1>2, <1>4, <2>1, <2>2, <2>3 DEF KeptInv
  <2> QED  BY <2>4, <1>1 DEF DisplacedInv, OldIsKept
<1> QED  BY <1>5, <1>6

\* Every step keeps the invariant of what is displaced.
LEMMA DisplacedStays ==
    ASSUME Shape, PlanInv, DisplacedInv, AgeInv, SourceInv, Next
    PROVE  DisplacedInv'
<1>1. CASE Publish
  BY <1>1, PublishKeeps
<1>2. CASE Retain
  BY <1>2, RetainKeeps
<1>3. CASE WriteStep \/ RemoveStep \/ RemoveDirStep
  BY <1>3, StepIs, StepKeeps
<1>4. CASE PruneReplaced
  BY <1>4, PruneKeeps
<1>5. CASE Edits
  <2>1. PICK p \in Paths : Edited(p)
    BY <1>5, EditIs
  <2>2. UNCHANGED <<pc, plan, retained, kept, owed, input>>
    BY <1>5 DEF Edits, prepared, running
  <2>3. ASSUME plan # {}
        PROVE  touched \subseteq touched' /\ \A q \in Paths \ touched' : dir'[q] = dir[q]
    BY <2>1, <2>3 DEF Edited
  <2>4. \A s \in plan' : NothingOld(s)'
    BY <2>2, <2>3, DisplacedGoesOn
  <2>5. KeptInv'
    BY <2>2, KeptGoesOn DEF DisplacedInv, Publishing
  <2>6. OldIsKept'
    <3>1. SUFFICES ASSUME pc = "apply", First.existed, NEW q \in Old(First.path)'
                   PROVE  <<q, dir'[q]>> \in kept[Len(kept)] /\ retained
      <4>1. First' = First
        BY <2>2 DEF First
      <4> QED  BY <4>1, <2>2 DEF OldIsKept
    <3>2. plan # {} /\ First.path \in Paths
      BY <3>1, FirstIs DEF Shape, PlanInv, StepOk
    <3>3. q \in Old(First.path) /\ dir'[q] = dir[q]
      <4>1. PICK a \in Paths : a = First.path
        BY <3>2
      <4>2. q \in Old(a)'
        <5>1. First' = First
          BY <2>2 DEF First
        <5> QED  BY <5>1, <4>1, <3>1 DEF Old
      <4> QED  BY <4>1, <4>2, <3>2, <2>3, OldGoesOn
    <3> QED  BY <3>1, <3>3 DEF DisplacedInv, OldIsKept
  <2> QED  BY <2>4, <2>5, <2>6 DEF DisplacedInv
<1>6. CASE \/ CollectInputs \/ PrepareInput \/ SavePublishedPaths \/ RecordDisplayState
           \/ InstallFails \/ Start \/ Release \/ Restart
  <2>1. plan' = {} /\ ~Publishing' /\ UNCHANGED <<kept, owed>>
    BY <1>6 DEF CollectInputs, PrepareInput, SavePublishedPaths, RecordDisplayState, Failed,
          InstallFails, Start, Release, Restart, Publishing, running, ghosts, Shape
  <2>2. KeptInv'
    BY <2>1, KeptGoesOn DEF DisplacedInv
  <2> QED  BY <2>1, <2>2 DEF DisplacedInv, OldIsKept, Publishing
<1> QED  BY <1>1, <1>2, <1>3, <1>4, <1>5, <1>6 DEF Next

-----------------------------------------------------------------------------
(* What is shown *)

\* The texts the resolver writes are told apart by their input.
LEMMA NewIs ==
    /\ \A n, k \in Nat : New(n) = New(k) => n = k
    /\ \A k \in 1 .. MaxInputs : New(k) \notin {None, Dir, Mine} /\ IsFile(New(k))
    /\ \A t \in Trees : \A p \in Paths : \A k \in 1 .. MaxInputs : t[p] # New(k)
    /\ MaxInputs \in Nat
<1>1. \A n, k \in Nat : New(n) = New(k) => n = k
  BY DEF New
<1> QED  BY <1>1, TreesAssumption, ProjectAssumption DEF IsFile

\* A plan reaches every path where the directory does not show the input.
LEMMA ShowsPublished ==
    ASSUME Shape, InstalledInv, Publish
    PROVE  ShownInv'
<1>1. /\ pc = "ready" /\ UNCHANGED <<dir, store, prepared, edited>>
      /\ asked' = Visible(input) \union UNION {Visible(t) : t \in sources}
      /\ \/ pc' = "refused"
         \/ plan' = Plan(Listed(sources))
  BY PublishIs DEF InstalledInv
<1> DEFINE pub == Listed(sources)
<1>2. SUFFICES ASSUME plan' = Plan(pub), NEW p \in asked' \ edited PROVE Shown(p)' \/ Lost(p)' \/ Due(p)'
  BY <1>1 DEF ShownInv, Visible, prepared
<1>3. p \in Paths /\ input' = input /\ dir' = dir
  BY <1>1, <1>2 DEF Visible, prepared
<1>a. Want' = Want /\ Shown(p)' = Shown(p) /\ Lost(p)' = Lost(p)
  BY <1>3 DEF Want, Shown, Bare, Lost
<1>4. CASE dir[p] = Want[p] \/ (p \in Holes(input) /\ dir[p] = None)
  BY <1>a, <1>3, <1>4 DEF Shown, Lost, Want, At
<1>5. CASE dir[p] # Want[p] /\ (p \in Holes(input) => dir[p] # None)
  <2>0. dir[p] # input[p]
    BY <1>3, <1>5, WantIs
  <2>1. p \in Candidates(pub) /\ (input[p] = None => p \in pub)
    <3>1. CASE \E t \in sources : p \in Visible(t)
      BY <3>1 DEF Listed, Candidates
    <3>2. CASE ~\E t \in sources : p \in Visible(t)
      <4>1. input[p] # None
        BY <3>2, <1>1, <1>2 DEF Visible
      <4>2. input[p] = New(inputs)
        BY <4>1, <3>2, <1>1, <1>3 DEF InstalledInv, SourceInv, Visible
      <4>3. floor[p] # input[p]
        BY <4>2, <2>0, <1>1, <1>2, <1>3 DEF InstalledInv, FloorInv
      <4>4. \A q \in Above(p) : input[q] = Dir
        <5>1. Holes(input) = {}
          BY <4>2, <1>3 DEF InstalledInv, AgeInv, Lacks
        <5> QED  BY <4>1, <1>3, <5>1, InTheTree, WantIs
      <4> QED  BY <4>1, <4>3, <4>4, <1>3 DEF Overlay, Candidates
    <3> QED  BY <3>1, <3>2
  <2>2. \E s \in Plan(pub) : \/ s.path = p /\ s.do # "rmdir"
                             \/ IsFile(input[s.path]) /\ s.path \in Above(p)
    BY <2>0, <2>1, <1>3, PlanReaches
  <2> QED  BY <2>2, <1>2, <1>3 DEF Due
<1> QED  BY <1>4, <1>5

\* What a path shows after a step, or has lost.
LEMMA ShownAfter ==
    ASSUME NEW p \in Paths, input' = input,
           \/ dir'[p] = Want[p]
           \/ dir'[p] = None /\ \E h \in Holes(input) : h \in At(p) \union Above(p)
           \/ dir'[p] = None /\ Want[p] = Dir /\ Bare(p)
    PROVE  Shown(p)' \/ Lost(p)'
BY DEF Shown, Lost, Want, Bare

\* A path that was to be changed is changed by this step or still to be changed.
LEMMA DueGoesOn ==
    ASSUME Shape, PlanInv, NEW p \in Paths, First \in plan, Carried(First.path),
           plan' = plan \ {First}, input' = input, Due(p)
    PROVE  Shown(p)' \/ Lost(p)' \/ Due(p)'
<1>1. PICK s \in plan : \/ s.path = p /\ s.do # "rmdir"
                        \/ IsFile(input[s.path]) /\ s.path \in Above(p) \union Below(p)
  BY DEF Due
<1>2. CASE s # First
  BY <1>1, <1>2 DEF Due
<1>3. CASE s = First
  <2>1. First.path \in Paths
    BY DEF PlanInv, StepOk
  <2>2. s.path \in Above(p) \union Below(p) => p \in Above(First.path) \union Below(First.path)
    BY <2>1, <1>3, AboveIs
  <2>3. dir'[p] = input[p] \/ dir'[p] = Want[p]
    BY <1>1, <1>3, <2>1, <2>2 DEF Carried
  <2>4. dir'[p] = Want[p] \/ (p \in Holes(input) /\ dir'[p] = None)
    BY <2>3, WantIs
  <2>5. p \in At(p)
    BY DEF At
  <2> QED  BY <2>4, <2>5, ShownAfter
<1> QED  BY <1>2, <1>3

\* A directory is emptied by a removal above files only if these are still to come, or lost
\* with a hole.
LEMMA EmptiedIsDue ==
    ASSUME Shape, PlanInv, ShownInv, pc = "apply", First \in plan, Carried(First.path),
           plan' = plan \ {First}, input' = input,
           NEW p \in asked \ edited, p \in Paths, ~Bare(p),
           Emptied(p, First.path), input[First.path] = None
    PROVE  Due(p)' \/ \E h \in Holes(input) : h \in At(p) \union Above(p)
<1> DEFINE x == First.path
<1> SUFFICES ASSUME \A h \in Holes(input) : h \notin At(p) \union Above(p)
             PROVE  Due(p)'
  OBVIOUS
<1>1. PICK r \in Below(p) : IsFile(input[r])
  BY DEF Bare
<1>2. r \in Paths /\ r \in Visible(input) /\ x \in Paths
  BY <1>1, AboveIs DEF Visible, IsFile, PlanInv, StepOk
<1>3. r \in asked \ edited
  BY <1>1, <1>2 DEF ShownInv, Shape, Closed, At
<1>4. dir[r] # input[r]
  <2>1. SUFFICES ASSUME dir[r] = input[r] PROVE FALSE
    OBVIOUS
  <2>2. r \in At(x)
    BY <1>1, <2>1 DEF Emptied
  <2>3. x \notin Holes(input)
    BY <1>2, AboveIs DEF Emptied, At
  <2>4. Want[x] = None /\ Want[r] = input[r]
    BY <2>3, <1>1, <1>2, WantIs DEF IsFile
  <2>5. Want[r] = None
    BY <2>2, <2>4, <1>2, WantIs, TreeIs, ProjectAssumption DEF At
  <2> QED  BY <2>4, <2>5, <1>1 DEF IsFile
<1>a. Want[r] = input[r]
  BY <1>1, <1>2, WantIs DEF IsFile
<1>b. ~Lost(r)
  <2>1. SUFFICES ASSUME NEW h \in Holes(input), h \in At(r) \union Above(r) PROVE FALSE
    BY DEF Lost
  <2>2. h \in Paths /\ input[h] = None
    BY WantIs
  <2>3. CASE h \in At(r)
    <3>1. h # r
      BY <2>2, <1>1 DEF IsFile
    <3>2. PICK z \in Below(h) : input[z] # None
      BY DEF Holes
    <3>3. z \in Paths /\ r \in Above(z)
      BY <3>1, <3>2, <2>2, <2>3, <1>2, AboveIs, AtIs
    <3> QED  BY <3>2, <3>3, <1>1, InTheTree
  <2>4. CASE h \in Above(r)
    <3>1. p \in Above(r) /\ h \in Above(r)
      BY <2>4, <1>1, <1>2, AboveIs
    <3>2. h = p \/ h \in Above(p) \/ p \in Above(h)
      BY <3>1, <1>2, <2>2, AboveIs
    <3> QED  BY <3>2, <2>2, AtIs
  <2> QED  BY <2>1, <2>3, <2>4
<1>5. Due(r)
  <2>1. ~Shown(r)
    BY <1>1, <1>4, <1>a DEF Shown, Want, IsFile
  <2> QED  BY <2>1, <1>b, <1>3 DEF ShownInv
<1>6. PICK s \in plan : \/ s.path = r /\ s.do # "rmdir"
                        \/ IsFile(input[s.path]) /\ s.path \in Above(r) \union Below(r)
  BY <1>5 DEF Due
<1>7. StepOk(s) /\ s.path \in Paths
  BY DEF PlanInv, StepOk
<1>8. s.path = r
  <2>1. CASE IsFile(input[s.path]) /\ s.path \in Above(r)
    BY <2>1, <1>1, <1>2, InTheTree DEF IsFile
  <2>2. CASE IsFile(input[s.path]) /\ s.path \in Below(r)
    <3>1. r \in Above(s.path)
      BY <2>2, <1>2, <1>7, AboveIs
    <3> QED  BY <3>1, <2>2, <1>1, <1>7, InTheTree DEF IsFile
  <2> QED  BY <1>6, <2>1, <2>2
<1>9. s # First
  BY <1>1, <1>8 DEF IsFile
<1> QED  BY <1>1, <1>8, <1>9 DEF Due

\* A step shows the input at its path and spoils it nowhere else.
LEMMA ShowsStep ==
    ASSUME Shape, PlanInv, ShownInv, AgeInv, StepTaken
    PROVE  ShownInv'
<1>1. CASE Failed
  BY <1>1 DEF Failed, ShownInv
<1>2. CASE /\ Carried(First.path) /\ Owes
           /\ pc' = "retain" /\ plan' = plan \ {First} /\ UNCHANGED retained
  <2>1. /\ pc = "apply" /\ First \in plan /\ UNCHANGED <<input, asked, edited, sources>>
        /\ First.path \in Paths
    BY DEF StepTaken, prepared, PlanInv, StepOk
  <2>2. SUFFICES ASSUME NEW p \in asked \ edited PROVE Shown(p)' \/ Lost(p)' \/ Due(p)'
    BY <1>2, <2>1 DEF ShownInv, Visible
  <2>3. p \in Paths
    <3>1. asked \subseteq Paths
      BY DEF AgeInv, Visible
    <3> QED  BY <3>1
  <2>4. Shown(p) \/ Lost(p) \/ Due(p)
    BY <2>1, <2>2 DEF ShownInv
  <2>5. CASE Due(p)
    BY <2>5, <2>1, <2>3, <1>2, DueGoesOn
  <2> DEFINE near == \E h \in Holes(input) : h \in At(p) \union Above(p)
  <2>6. \/ dir'[p] \in {dir[p], Want[p]}
        \/ Emptied(p, First.path) /\ input[First.path] = None
        \/ dir'[p] = None /\ near
    <3>1. p \in At(First.path) => First.path \in At(p) \union Above(p)
      BY <2>1, <2>3, AtIs
    <3> QED  BY <3>1, <2>3, <1>2 DEF Carried
  <2> HIDE DEF near
  <2>7. CASE dir'[p] = None /\ near
    BY <2>7, <2>1, <2>3, ShownAfter DEF near
  <2>8. CASE dir'[p] = Want[p]
    BY <2>8, <2>1, <2>3, ShownAfter
  <2>9. CASE Lost(p)
    <3>1. near /\ dir[p] = None
      BY <2>9 DEF Lost, near
    <3> QED  BY <3>1, <2>6, <2>7, <2>8 DEF Emptied
  <2>10. CASE Shown(p) /\ dir[p] # Want[p]
    <3>1. Want[p] = Dir /\ dir[p] = None /\ Bare(p)
      BY <2>10 DEF Shown, Want
    <3>2. dir'[p] = None => Shown(p)' \/ Lost(p)'
      BY <3>1, <2>1, <2>3, ShownAfter
    <3> QED  BY <3>1, <3>2, <2>6, <2>7, <2>8 DEF Emptied
  <2>11. CASE dir[p] = Want[p] /\ dir'[p] # Want[p] /\ ~(dir'[p] = None /\ near)
    <3>1. Emptied(p, First.path) /\ input[First.path] = None
      BY <2>6, <2>11
    <3>2. p \in Above(First.path) /\ dir'[p] = None
      BY <3>1 DEF Emptied
    <3>3. ~IsFile(dir[p])
      BY <3>2, <2>1, <2>3, <2>11, <1>2, AtIs, AboveIs DEF Carried
    <3>4. Want[p] = Dir
      BY <3>2, <3>3, <2>11 DEF IsFile
    <3>5. CASE Bare(p)
      BY <3>2, <3>4, <3>5, <2>1, <2>3, ShownAfter
    <3>6. CASE ~Bare(p)
      BY <3>1, <3>2, <3>6, <2>1, <2>2, <2>3, <2>11, <1>2, EmptiedIsDue DEF near
    <3> QED  BY <3>5, <3>6
  <2> QED  BY <2>4, <2>5, <2>7, <2>8, <2>9, <2>10, <2>11
<1> QED  BY <1>1, <1>2 DEF StepTaken

\* Every step keeps that the input is shown or due.
LEMMA ShownStays ==
    ASSUME Shape, PlanInv, InstalledInv, Next
    PROVE  ShownInv'
<1> DEFINE late == {"retain", "apply", "save", "record", "installed"}
<1>1. CASE Publish
  BY <1>1, ShowsPublished
<1>2. CASE WriteStep \/ RemoveStep \/ RemoveDirStep
  BY <1>2, StepIs, ShowsStep DEF InstalledInv
<1>3. CASE Edits
  <2>1. PICK e \in Paths : Edited(e)
    BY <1>3, EditIs
  <2>2. UNCHANGED <<pc, plan, input, asked>>
    BY <1>3 DEF Edits, prepared, running
  <2>3. SUFFICES ASSUME pc \in late, NEW p \in asked \ edited'
        PROVE  Shown(p)' \/ Lost(p)' \/ Due(p)'
    BY <2>2 DEF ShownInv, Visible, InstalledInv
  <2>4. p \in Paths /\ p \notin edited /\ dir'[p] = dir[p]
    <3>1. asked \subseteq Paths /\ asked # {}
      BY <2>3 DEF InstalledInv, AgeInv, Visible
    <3> QED  BY <3>1, <2>1, <2>3 DEF Edited
  <2> QED  BY <2>2, <2>3, <2>4 DEF InstalledInv, ShownInv, Shown, Lost, Due, Bare
<1>4. CASE Retain \/ PruneReplaced \/ SavePublishedPaths \/ RecordDisplayState
  <2>1. CASE Failed
    BY <2>1 DEF Failed, ShownInv
  <2>2. CASE ~Failed
    <3>1. pc \in late /\ plan' = plan /\ UNCHANGED <<dir, input, asked, edited>>
      BY <1>4, <2>2 DEF Retain, PruneReplaced, SavePublishedPaths, RecordDisplayState,
            prepared, running, ghosts
    <3> QED  BY <3>1 DEF InstalledInv, ShownInv, Shown, Lost, Due, Bare, Visible
  <2> QED  BY <2>1, <2>2
<1>5. CASE CollectInputs \/ PrepareInput \/ InstallFails \/ Start \/ Release \/ Restart
  <2>1. pc' \in {"idle", "sources", "ready", "started"}
    BY <1>5 DEF CollectInputs, PrepareInput, InstallFails, Failed, Start, Release, Restart
  <2> QED  BY <2>1 DEF ShownInv
<1> QED  BY <1>1, <1>2, <1>3, <1>4, <1>5 DEF Next

\* A rejected directory is one of a source that has what is below it.
LEMMA HolesAreSources ==
    ASSUME Shape, AgeInv, SourceInv, pc \notin {"idle", "sources"}, NEW p \in Holes(input)
    PROVE  /\ p \in Paths /\ input[p] = None
           /\ \E s \in sources : s[p] = Dir /\ p \in Visible(s)
<1>1. PICK q \in Below(p) : p \in Paths /\ input[p] = None /\ input[q] # None
  BY DEF Holes
<1>2. q \in Paths /\ input[q] # New(inputs)
  BY <1>1, AboveIs DEF AgeInv, Lacks
<1>3. PICK s \in sources : s[q] = input[q]
  BY <1>1, <1>2 DEF SourceInv
<1>4. s[p] = Dir
  BY <1>1, <1>3, TreeIs DEF Shape
<1> QED  BY <1>1, <1>4, ProjectAssumption DEF Visible

\* No tree holds a text of a later input.
LEMMA AgeStays ==
    ASSUME Shape, PlanInv, InstalledInv, Next
    PROVE  AgeInv'
<1>0. inputs \in Nat /\ inputs <= MaxInputs /\ (pc # "idle" => inputs \in 1 .. MaxInputs)
  BY NewIs DEF Shape
<1> DEFINE Asked == Visible(input) \union UNION {Visible(t) : t \in sources}
<1>a. /\ Upto(dir, inputs) /\ Upto(floor, inputs) /\ Upto(meta.floor, inputs)
      /\ Upto(input, inputs) /\ \A t \in sources : Upto(t, inputs)
  BY DEF InstalledInv, AgeInv
<1>b. asked = {} /\ pc # "idle" => /\ Lacks(dir, New(inputs)) /\ Lacks(floor, New(inputs))
                                  /\ Lacks(meta.floor, New(inputs))
  BY DEF InstalledInv, AgeInv
<1>c. asked # {} => pc \notin {"idle", "sources"} /\ asked = Asked
  BY DEF InstalledInv, AgeInv
<1>e. Holes(input) # {} => Lacks(input, New(inputs))
  BY DEF InstalledInv, AgeInv
<1>d. ASSUME /\ Upto(dir', inputs') /\ Upto(floor', inputs') /\ Upto(meta'.floor, inputs')
             /\ Upto(input', inputs') /\ \A t \in sources' : Upto(t, inputs'),
             asked' = {} /\ pc' # "idle" =>
                  /\ Lacks(dir', New(inputs')) /\ Lacks(floor', New(inputs'))
                  /\ Lacks(meta'.floor, New(inputs')),
             Holes(input') # {} => Lacks(input', New(inputs')),
             asked' # {} => pc' \notin {"idle", "sources"} /\ asked' = Asked'
      PROVE  AgeInv'
  <2>1. \A t \in {dir', floor', meta'.floor, input'} \union sources' : Upto(t, inputs')
    BY <1>d
  <2>2. /\ asked' # {} => pc' \notin {"idle", "sources"} /\ asked' = Asked'
        /\ asked' = {} /\ pc' # "idle" => \A t \in {dir', floor', meta'.floor} : Lacks(t, New(inputs'))
    BY <1>d
  <2> QED  BY <2>1, <2>2, <1>d DEF AgeInv, Holes, Visible, Upto, Lacks
<1> HIDE DEF Asked
<1>1. CASE Edits
  <2>1. PICK e \in Paths : Edited(e)
    BY <1>1, EditIs
  <2>2. UNCHANGED <<pc, floor, meta, input, sources, asked, inputs>>
    BY <1>1 DEF Edits, prepared, store
  <2>3. \A p \in Paths : dir'[p] \in {dir[p], None, Mine, Dir}
    BY <2>1 DEF Edited
  <2>4. Upto(dir', inputs)
    BY <2>3, <1>a, NewIs DEF Upto
  <2>5. asked = {} /\ pc # "idle" => Lacks(dir', New(inputs))
    BY <2>3, <1>0, <1>b, NewIs DEF Lacks
  <2>6. Asked' = Asked
    BY <2>2 DEF Asked, Visible
  <2> QED  BY <2>2, <2>4, <2>5, <2>6, <1>a, <1>b, <1>c, <1>d, <1>e
<1>2. CASE CollectInputs
  <2>1. /\ pc = "idle" /\ pc' = "sources" /\ UNCHANGED <<dir, floor, meta, input, asked>>
        /\ inputs < MaxInputs /\ inputs' = inputs + 1
        /\ \E upstream \in SUBSET Trees : sources' = {dir} \union upstream
    BY <1>2 DEF CollectInputs, store, ghosts
  <2>2. inputs' \in 1 .. MaxInputs /\ inputs' = inputs + 1
    BY <2>1, <1>0, NewIs
  <2>3. ASSUME NEW t, Upto(t, inputs) PROVE Upto(t, inputs') /\ Lacks(t, New(inputs'))
    BY <2>2, <2>3, <1>0 DEF Upto, Lacks
  <2>4. \A t \in Trees : Upto(t, inputs)
    BY NewIs DEF Upto
  <2>5. asked' = {}
    BY <2>1, <1>c
  <2>6. \A t \in sources' : Upto(t, inputs')
    BY <2>1, <2>3, <2>4, <1>a
  <2>7. /\ Upto(dir, inputs') /\ Upto(floor, inputs')
        /\ Upto(meta.floor, inputs') /\ Upto(input, inputs') /\ Lacks(input, New(inputs'))
    BY <2>3, <1>a
  <2>8. Lacks(dir, New(inputs')) /\ Lacks(floor, New(inputs')) /\ Lacks(meta.floor, New(inputs'))
    BY <2>3, <1>a
  <2> QED  BY <2>1, <2>5, <2>6, <2>7, <2>8, <1>d
<1>3. CASE PrepareInput
  <2>1. pc = "sources" /\ pc' = "ready" /\ UNCHANGED <<dir, floor, meta, sources, asked, inputs>>
    BY <1>3 DEF PrepareInput, store, ghosts, limits
  <2>2. Upto(input', inputs)
    <3>1. CASE Cardinality(sources) = 1
      BY <3>1, <1>3, <1>a DEF PrepareInput
    <3>2. CASE Cardinality(sources) # 1
      <4>1. \A p \in Paths : input'[p] \in Resolved(p)
        BY <1>3, <3>2 DEF PrepareInput
      <4>2. \A p \in Paths : \/ input'[p] \in {None, New(inputs)}
                             \/ \E s \in sources : input'[p] = s[p]
        BY <4>1 DEF Resolved
      <4>3. ASSUME NEW p \in Paths, NEW k \in 1 .. MaxInputs, input'[p] = New(k)
            PROVE  k <= inputs
        BY <4>2, <4>3, <1>a, <1>0, NewIs DEF Upto
      <4> QED  BY <4>3 DEF Upto
    <3> QED  BY <3>1, <3>2
  <2>3. asked' = {}
    BY <2>1, <1>c
  <2>4. Holes(input') # {} => Lacks(input', New(inputs))
    <3>1. CASE Cardinality(sources) = 1
      <4>1. input' \in sources
        BY <3>1, <1>3 DEF PrepareInput
      <4> QED  BY <4>1, NoHoles DEF Shape
    <3>2. CASE Cardinality(sources) # 1
      <4>1. PICK t \in [Paths -> UNION {Resolved(p) : p \in Paths}] :
               /\ Holes(t) # {} => \A p \in Paths : t[p] # New(inputs)
               /\ input' = t
        BY <1>3, <3>2 DEF PrepareInput
      <4> QED  BY <4>1 DEF Lacks
    <3> QED  BY <3>1, <3>2
  <2> QED  BY <2>1, <2>2, <2>3, <2>4, <1>a, <1>b, <1>d
<1>4. CASE Publish
  <2>1. /\ pc = "ready" /\ UNCHANGED <<dir, floor, meta, input, sources, inputs>> /\ asked' = Asked
        /\ pc' \in {"refused", "installed", "retain"}
    BY <1>4, PublishIs DEF InstalledInv, prepared, store, limits, Asked
  <2>2. Asked' = Asked
    BY <2>1 DEF Asked, Visible
  <2>3. asked' = {} => asked = {}
    BY <2>1, <1>c
  <2> QED  BY <2>1, <2>2, <2>3, <1>a, <1>b, <1>d, <1>e
<1>5. CASE WriteStep \/ RemoveStep \/ RemoveDirStep
  <2>1. StepTaken
    BY <1>5, StepIs
  <2>2. /\ pc = "apply" /\ pc' \in {"ready", "retain"}
        /\ UNCHANGED <<floor, meta, input, sources, asked, inputs>>
    BY <2>1 DEF StepTaken, Failed, prepared, store, limits
  <2>3. \A p \in Paths : dir'[p] \in {dir[p], input[p], None, Dir}
    <3>1. \A p \in Paths : Want[p] \in {Dir, input[p]}
      BY WantIs
    <3> QED  BY <3>1, <2>1 DEF StepTaken, Carried, Emptied
  <2>4. Upto(dir', inputs)
    BY <2>3, <1>a, NewIs DEF Upto
  <2>5. asked = {} => Lacks(dir', New(inputs))
    <3>1. asked = {} => \A p \in Paths : input[p] = None
      BY <2>2 DEF InstalledInv, ShownInv, Visible
    <3> QED  BY <3>1, <2>2, <2>3, <1>0, <1>b, NewIs DEF Lacks
  <2>6. Asked' = Asked
    BY <2>2 DEF Asked, Visible
  <2> QED  BY <2>2, <2>4, <2>5, <2>6, <1>a, <1>b, <1>c, <1>d, <1>e
<1>6. CASE Retain \/ PruneReplaced \/ SavePublishedPaths \/ InstallFails \/ Start
  <2>1. /\ pc \notin {"idle", "sources"} /\ pc' \notin {"idle", "sources"}
        /\ UNCHANGED <<dir, floor, meta, input, sources, asked, inputs>>
    BY <1>6 DEF Retain, PruneReplaced, SavePublishedPaths, InstallFails, Start, Failed,
          prepared, store, limits, ghosts
  <2>2. Asked' = Asked
    BY <2>1 DEF Asked, Visible
  <2> QED  BY <2>1, <2>2, <1>a, <1>b, <1>c, <1>d, <1>e
<1>7. CASE RecordDisplayState
  <2>1. /\ pc = "record" /\ pc' = "installed"
        /\ UNCHANGED <<dir, floor, input, sources, asked, inputs>> /\ meta'.floor = floor
    BY <1>7 DEF RecordDisplayState, prepared, limits, ghosts
  <2>2. Asked' = Asked
    BY <2>1 DEF Asked, Visible
  <2> QED  BY <2>1, <2>2, <1>a, <1>b, <1>c, <1>d, <1>e
<1>9. CASE Restart
  <2>1. /\ pc' = "idle" <=> pc = "idle"
        /\ pc' = "sources" <=> pc = "sources"
        /\ UNCHANGED <<dir, sources, asked, inputs>> /\ input' = Filled(input)
        /\ floor' \in {meta.floor, dir} /\ meta'.floor = floor'
    BY <1>9 DEF Restart, limits, ghosts
  <2>2. /\ \A p \in Paths : input'[p] = IF p \in Holes(input) THEN Dir ELSE input[p]
        /\ Holes(input') = {}
    BY <2>1, FilledIs DEF Shape
  <2>3. Upto(input', inputs)
    BY <2>2, <1>a, NewIs DEF Upto
  <2>4. asked # {} => Asked' = Asked
    <3>1. SUFFICES ASSUME asked # {} PROVE Asked' = Asked
      OBVIOUS
    <3>2. pc \notin {"idle", "sources"}
      BY <3>1, <1>c
    <3>3. ASSUME NEW p \in Holes(input)
          PROVE  p \in Paths /\ input[p] = None /\ \E s \in sources : p \in Visible(s)
      BY <3>2, <3>3, HolesAreSources DEF InstalledInv
    <3>4. Visible(input') = Visible(input) \union Holes(input)
      BY <2>2, <3>3, ProjectAssumption DEF Visible
    <3>5. Asked' = Visible(input') \union UNION {Visible(t) : t \in sources}
      BY <2>1 DEF Asked, Visible
    <3> QED  BY <3>3, <3>4, <3>5 DEF Asked
  <2> QED  BY <2>1, <2>2, <2>3, <2>4, <1>a, <1>b, <1>c, <1>d
<1>8. CASE Release
  <2>1. /\ pc' = "idle" /\ UNCHANGED <<dir, floor, meta, inputs>> /\ sources' = {} /\ asked' = {}
        /\ input' = Blank
    BY <1>8 DEF Release, store, limits
  <2>2. Upto(input', inputs)
    BY <2>1, NewIs DEF Upto, Blank
  <2>3. Holes(input') = {}
    BY <2>1, AboveIs DEF Blank, Holes
  <2> QED  BY <2>1, <2>2, <2>3, <1>a, <1>d
<1> QED  BY <1>1, <1>2, <1>3, <1>4, <1>5, <1>6, <1>7, <1>8, <1>9 DEF Next

\* The prepared input holds what a source holds or what the resolver wrote.
LEMMA SourceStays ==
    ASSUME Shape, PlanInv, InstalledInv, Next
    PROVE  SourceInv'
<1>1. CASE PrepareInput
  <2>1. pc = "sources" /\ UNCHANGED <<sources, inputs>>
    BY <1>1 DEF PrepareInput, limits
  <2>2. CASE Cardinality(sources) = 1
    BY <2>1, <2>2, <1>1 DEF PrepareInput, SourceInv
  <2>3. CASE Cardinality(sources) # 1
    BY <2>1, <2>3, <1>1 DEF PrepareInput, SourceInv, Resolved
  <2> QED  BY <2>2, <2>3
<1>2. CASE CollectInputs \/ Release
  BY <1>2 DEF CollectInputs, Release, SourceInv
<1>4. CASE Restart
  <2>1. /\ UNCHANGED <<sources, inputs>> /\ input' = Filled(input)
        /\ pc' \notin {"idle", "sources"} => pc \notin {"idle", "sources"}
    BY <1>4 DEF Restart
  <2>2. SUFFICES ASSUME pc \notin {"idle", "sources"}, NEW p \in Paths
                 PROVE  \/ input'[p] \in {None, New(inputs)}
                        \/ \E s \in sources : s[p] = input'[p]
    BY <2>1 DEF SourceInv
  <2>3. input'[p] = IF p \in Holes(input) THEN Dir ELSE input[p]
    BY <2>1, FilledIs DEF Shape
  <2>4. CASE p \in Holes(input)
    BY <2>2, <2>3, <2>4, HolesAreSources DEF InstalledInv
  <2>5. CASE p \notin Holes(input)
    BY <2>2, <2>3, <2>5 DEF InstalledInv, SourceInv
  <2> QED  BY <2>4, <2>5
<1>3. CASE ~PrepareInput /\ ~CollectInputs /\ ~Release /\ ~Restart
  <2>1. /\ UNCHANGED <<sources, input, inputs>>
        /\ pc' \notin {"idle", "sources"} => pc \notin {"idle", "sources"}
    BY <1>3 DEF Next, Edits, Publish, Retain, WriteStep, RemoveStep, RemoveDirStep, PruneReplaced,
          SavePublishedPaths, RecordDisplayState, InstallFails, Start, prepared, limits
  <2> QED  BY <2>1 DEF SourceInv, InstalledInv
<1> QED  BY <1>1, <1>2, <1>3, <1>4

\* A floor that was adopted from an interrupted publication hides nothing from the next one.
LEMMA FloorStays ==
    ASSUME Shape, PlanInv, InstalledInv, Next
    PROVE  FloorInv'
<1>0. pc # "idle" => inputs \in 1 .. MaxInputs
  BY NewIs DEF Shape
<1>a. asked = {} /\ pc # "idle" => Lacks(floor, New(inputs)) /\ Lacks(meta.floor, New(inputs))
  BY DEF InstalledInv, AgeInv
<1>1. CASE Edits
  <2>1. PICK e \in Paths : Edited(e)
    BY <1>1, EditIs
  <2>2. UNCHANGED <<pc, floor, meta, input, asked, inputs>>
    BY <1>1 DEF Edits, prepared, store
  <2>3. CASE asked = {}
    BY <2>2, <2>3, <1>a DEF FloorInv, Lacks
  <2>4. CASE asked # {}
    <3>1. \A p \in Paths \ edited' : p \notin edited /\ dir'[p] = dir[p]
      BY <2>1, <2>4 DEF Edited
    <3> QED  BY <3>1, <2>2 DEF InstalledInv, FloorInv
  <2> QED  BY <2>3, <2>4
<1>2. CASE CollectInputs \/ Release
  BY <1>2 DEF CollectInputs, Release, FloorInv
<1>3. CASE PrepareInput
  <2>1. pc = "sources" /\ UNCHANGED <<floor, meta, inputs>> /\ asked = {}
    BY <1>3 DEF PrepareInput, store, limits, InstalledInv, AgeInv
  <2> QED  BY <2>1, <1>a DEF FloorInv, Lacks
<1>4. CASE WriteStep \/ RemoveStep \/ RemoveDirStep
  <2>1. StepTaken
    BY <1>4, StepIs
  <2>2. pc = "apply" /\ First.path \in Paths /\ UNCHANGED <<floor, meta, input, edited, inputs>>
    BY <2>1 DEF StepTaken, store, prepared, limits, PlanInv, StepOk
  <2>3. ASSUME NEW p \in Paths, dir[p] = input[p], input[p] = New(inputs)
        PROVE  dir'[p] = input[p]
    <3>1. IsFile(dir[p])
      BY <2>2, <2>3, <1>0, NewIs
    <3>2. CASE dir' = dir
      BY <3>2, <2>3
    <3>3. CASE Carried(First.path)
      <4>0. p \notin Holes(input) /\ Holes(input) = {} /\ Want[p] = input[p]
        <5>1. Holes(input) = {}
          BY <2>3 DEF InstalledInv, AgeInv, Lacks
        <5> QED  BY <5>1, WantIs
      <4>1. CASE dir'[p] \in {dir[p], Want[p]}
        BY <4>0, <4>1, <2>3
      <4>2. CASE Emptied(p, First.path) /\ dir'[p] # dir[p]
        <5>1. p \in At(First.path) /\ p \in Above(First.path)
          BY <4>2, <3>1, <3>3 DEF Carried, Emptied
        <5> QED  BY <5>1, <2>2, AtIs, AboveIs
      <4> QED  BY <4>0, <4>1, <4>2, <3>3 DEF Carried
    <3> QED  BY <3>2, <3>3, <2>1 DEF StepTaken
  <2> QED  BY <2>2, <2>3 DEF InstalledInv, FloorInv
<1>5. CASE RecordDisplayState
  <2>1. /\ pc \notin {"idle", "sources"} /\ UNCHANGED <<dir, floor, input, edited, inputs>>
        /\ meta'.floor = floor
    BY <1>5 DEF RecordDisplayState, prepared, limits, ghosts
  <2> QED  BY <2>1 DEF InstalledInv, FloorInv
<1>7. CASE Restart
  <2>1. /\ pc' \notin {"idle", "sources"} => pc \notin {"idle", "sources"}
        /\ UNCHANGED <<dir, edited, inputs>> /\ input' = Filled(input)
        /\ floor' \in {meta.floor, dir} /\ meta'.floor = floor'
    BY <1>7 DEF Restart, ghosts
  <2>2. \A p \in Paths : input'[p] \in {Dir, input[p]}
    BY <2>1, FilledIs DEF Shape
  <2>3. pc # "idle" => New(inputs) # Dir
    BY <1>0, NewIs
  <2> QED  BY <2>1, <2>2, <2>3 DEF InstalledInv, FloorInv
<1>6. CASE Publish \/ Retain \/ PruneReplaced \/ SavePublishedPaths \/ InstallFails \/ Start
  <2>1. /\ pc \notin {"idle", "sources"}
        /\ UNCHANGED <<dir, floor, meta, input, edited, inputs>>
    BY <1>6 DEF Publish, Retain, PruneReplaced, SavePublishedPaths, InstallFails, Start,
          prepared, store, limits, ghosts
  <2> QED  BY <2>1 DEF InstalledInv, FloorInv
<1> QED  BY <1>1, <1>2, <1>3, <1>4, <1>5, <1>6, <1>7 DEF Next

-----------------------------------------------------------------------------

\* The invariant says nothing of what no variable says.
LEMMA StutterInv == Inv /\ UNCHANGED vars => Inv'
<1> SUFFICES ASSUME Inv, UNCHANGED vars PROVE Inv'
  OBVIOUS
<1> USE DEF vars, store, prepared, running, ghosts, limits
<1>1. Shape'
  BY DEF Inv, Shape, Closed, IsTree, Layered, Publishing
<1>2. PlanInv'
  BY DEF Inv, PlanInv, StepOk, Step
<1>3. DisplacedInv'
  <2>1. First' = First
    BY DEF First
  <2>2. \A s \in plan' : NothingOld(s)'
    BY DEF Inv, DisplacedInv, NothingOld, Old
  <2>3. KeptInv'
    BY KeptGoesOn DEF Inv, DisplacedInv, Publishing
  <2>4. OldIsKept'
    BY <2>1 DEF Inv, DisplacedInv, OldIsKept, Old
  <2> QED  BY <2>2, <2>3, <2>4 DEF DisplacedInv
<1>4. InstalledInv'
  <2>1. ShownInv'
    BY DEF Inv, InstalledInv, ShownInv, Shown, Lost, Bare, Due, Filled, Holes, Visible
  <2>2. AgeInv'
    BY DEF Inv, InstalledInv, AgeInv, Upto, Lacks, Holes, Visible
  <2>3. SourceInv' /\ FloorInv'
    BY DEF Inv, InstalledInv, SourceInv, FloorInv
  <2> QED  BY <2>1, <2>2, <2>3 DEF InstalledInv
<1> QED  BY <1>1, <1>2, <1>3, <1>4 DEF Inv

\* At every step of every publication, restart and edit: the steps still to come suit the input
\* and what is in the directory, what they displace is saved first, and every path of the input
\* that is not shown is due, or is missing in or around a directory the resolver rejected
\* (planPublish, applyPublish, prepareFloor).
THEOREM InvHolds == Spec => []Inv
<1>1. Inv /\ [Next]_vars => Inv'
  <2>1. ASSUME Inv, Next PROVE Inv'
    <3>1. Shape'
      BY <2>1, ShapeInv DEF Inv
    <3>2. PlanInv'
      BY <2>1, PlanStays DEF Inv
    <3>3. DisplacedInv'
      BY <2>1, DisplacedStays DEF Inv, InstalledInv
    <3>4. InstalledInv'
      BY <2>1, ShownStays, AgeStays, SourceStays, FloorStays DEF Inv, InstalledInv
    <3> QED  BY <3>1, <3>2, <3>3, <3>4 DEF Inv
  <2> QED  BY <2>1, StutterInv
<1> QED  BY InitInv, <1>1, PTL DEF Spec

\* A role starts in the input that was prepared for it, whatever failed or was cut off before,
\* for any trees and any edits outside what the user changed; what is in or around a directory
\* the resolver rejected may be missing, never different (InstallProject).
THEOREM InputIsInstalled == Spec => []InstalledIsInput
<1>1. Inv => InstalledIsInput
  <2>1. SUFFICES ASSUME Inv, pc = "installed", NEW p \in asked \ edited PROVE Shown(p) \/ Lost(p)
    BY DEF InstalledIsInput
  <2>2. plan = {}
    BY <2>1 DEF Inv, Shape, Publishing
  <2> QED  BY <2>1, <2>2 DEF Inv, InstalledInv, ShownInv, Due
<1> QED  BY <1>1, InvHolds, PTL

\* A file that a publication overwrites or removes is among those it saved, until enough later
\* ones saved something (retainReplaced, pruneReplaced).
THEOREM DisplacedAreKept == Spec => []DisplacedIsKept
<1>1. Inv => DisplacedIsKept
  <2>1. SUFFICES ASSUME Inv, NEW o \in owed, ~Saved(kept, o)
                 PROVE  Number(o) <= Len(kept) - Retained
    BY DEF DisplacedIsKept, Saved, Number
  <2>2. Number(o) <= Complete - Retained /\ Number(o) \in 1 .. Len(kept)
    BY <2>1 DEF Inv, DisplacedInv, KeptInv
  <2>3. Len(kept) \in Nat /\ Retained \in Nat
    BY <2>1, ProjectAssumption DEF Inv, DisplacedInv, KeptInv, IsList
  <2> QED  BY <2>2, <2>3 DEF Complete
<1> QED  BY <1>1, InvHolds, PTL

=============================================================================
