------------------------------ MODULE InputMemory -----------------------------
(***************************************************************************)
(* How the memories of several sources become the one memory a role starts *)
(* with (internal/context, agent/input_memory.go, tool/memory_apply.go).   *)
(*                                                                         *)
(* What all sources agree on is common and read-only.  Every other version *)
(* goes into a draft, under a new identity where it collides.  A model     *)
(* edits the part of the draft it needs, by batches of operations that     *)
(* take effect together or not at all, and must bring evidence from the    *)
(* final files for every fact it accepts.  What it leaves is composed with *)
(* the common memory.                                                      *)
(*                                                                         *)
(* Identities are sequences: <<"n">> as it was, <<"n", 2>> its variant.    *)
(***************************************************************************)
EXTENDS Naturals, Sequences, FiniteSets, SequencesExt, FiniteSetsExt

CONSTANTS Inputs,     \* sequences of the sources' graphs
          Edits,      \* operations of the model, without the node they are for
          MaxBatches, MaxOps

NoId  == <<>>
Files == "files"                     \* the reference of the final files
Ref(i) == <<"a", "b", "c">>[i]       \* the reference of a source

Locked(node)    == node.by \in {"user", "system"}
Directive(node) == node.kind = "directive"
IsFact(node)    == node.kind \notin {"directive", "hypothesis"}
Report(id)      == id[1] = "task-report"

VARIABLES pc, sources,
          common,  \* what all sources agree on
          draft,   \* with every other version
          view,    \* what the model works on
          batch,   \* the operations of one call, applied to a copy
          result, batches,
          cited    \* for the property: nodes whose text was last accepted on evidence

vars == <<pc, sources, common, draft, view, batch, result, batches, cited>>

-----------------------------------------------------------------------------
(* Graphs *)

Empty == [nodes |-> <<>>, subs |-> <<>>, edges |-> {}]
Over(f, g) == [x \in DOMAIN f \union DOMAIN g |-> IF x \in DOMAIN f THEN f[x] ELSE g[x]]
Only(f, S) == [x \in DOMAIN f \intersect S |-> f[x]]

\* Edge.FromRef names a node or a subgraph.
Node(id) == <<"node", id>>
Sub(id)  == <<"sub", id>>

\* ValidateReferences
Valid(g) ==
    /\ \A id \in DOMAIN g.nodes :
          /\ g.nodes[id].in \subseteq DOMAIN g.subs
          /\ g.nodes[id].heir \in (DOMAIN g.nodes \ {id}) \union {NoId}
    /\ \A e \in g.edges :
          /\ e.to \in DOMAIN g.nodes
          /\ e.from[2] \in (IF e.from[1] = "node" THEN DOMAIN g.nodes ELSE DOMAIN g.subs)

\* Identities, nodes and graphs as they are stored.
IsSequence(x) == Len(x) \in Nat /\ x = [i \in 1 .. Len(x) |-> x[i]]
IsId(x)       == IsSequence(x) /\ x # NoId
IsNode(x)     == x = [kind |-> x.kind, says |-> x.says, status |-> x.status, in |-> x.in,
                      refs |-> x.refs, by |-> x.by, heir |-> x.heir]
IsTable(f)    == /\ f = [x \in DOMAIN f |-> f[x]] /\ IsFiniteSet(DOMAIN f)
                 /\ \A x \in DOMAIN f : IsId(x)
IsGraph(g)    == /\ g = [nodes |-> g.nodes, subs |-> g.subs, edges |-> g.edges]
                 /\ IsTable(g.nodes) /\ IsTable(g.subs)
                 /\ \A id \in DOMAIN g.nodes : IsNode(g.nodes[id])

ASSUME InputAssumption ==
    /\ {MaxBatches, MaxOps} \subseteq Nat
    /\ \A op \in Edits : op.do \in {"create", "update", "status", "delete", "attach",
                                    "detach", "describe"}
    /\ \A in \in Inputs :
          /\ IsSequence(in) /\ Len(in) \in 1 .. 3
          /\ \A i \in DOMAIN in : IsGraph(in[i]) /\ Valid(in[i])

-----------------------------------------------------------------------------
(* PartitionInputs and Draft *)

\* partitionValues: what every source holds with the same value.
Shared(fs) ==
    Only(fs[1], {x \in DOMAIN fs[1] :
                    \A i \in DOMAIN fs : x \in DOMAIN fs[i] /\ fs[i][x] = fs[1][x]})

Nodes(ss) == [i \in DOMAIN ss |-> ss[i].nodes]
Subs(ss)  == [i \in DOMAIN ss |-> ss[i].subs]

Common(ss) ==
    [nodes |-> Shared(Nodes(ss)), subs |-> Shared(Subs(ss)),
     edges |-> {e \in ss[1].edges : \A i \in DOMAIN ss : e \in ss[i].edges}]

HasDifferences(ss, c) == \E i \in DOMAIN ss : ss[i] # c

\* inputVariantID; used are all identities of all sources.
VariantID(id, nth, used) ==
    CHOOSE v \in {Append(id, k) : k \in 1 .. nth + Cardinality(used)} :
        /\ v \notin used
        /\ Cardinality({k \in 1 .. v[Len(v)] : Append(id, k) \notin used}) = nth

Used(fs)          == UNION {DOMAIN fs[j] : j \in DOMAIN fs}
Holders(fs, x, v) == {j \in DOMAIN fs : x \in DOMAIN fs[j] /\ fs[j][x] = v}

\* The versions of x placed before the one of source i.
Before(fs, i, x) ==
    {fs[j][x] : j \in {j \in 1 .. Min(Holders(fs, x, fs[i][x])) - 1 : x \in DOMAIN fs[j]}}

\* The identity source i's version of x gets: the first version keeps its own.
Image(fs, i, x) ==
    IF Before(fs, i, x) = {} THEN x
    ELSE VariantID(x, Cardinality(Before(fs, i, x)), Used(fs))

\* inputMappedID
Mapped(fs, i, x) == IF x \in DOMAIN fs[i] THEN Image(fs, i, x) ELSE x

\* The nodes of a source that are not common, by source and identity.
Differing(ss, c) ==
    {d \in UNION {{i} \X DOMAIN ss[i].nodes : i \in DOMAIN ss} : d[2] \notin DOMAIN c.nodes}
Version(ss, d)   == ss[d[1]].nodes[d[2]]
Target(ss, d)    == Image(Nodes(ss), d[1], d[2])

\* Mutant of Placed: the successor keeps the identity its source used.
PlacedHeirAsIs(ss, ds) ==
    LET last == CHOOSE d \in ds : \A h \in ds : h[1] <= d[1]
        node == Version(ss, last)
    IN [node EXCEPT
          !.in   = UNION {{Mapped(Subs(ss), h[1], s) : s \in node.in} : h \in ds},
          !.refs = @ \union {Ref(h[1]) : h \in ds}]

\* Memberships of a version that several sources share are those of all of them, its
\* successor is the last one's.
Placed(ss, ds) ==
    LET last == CHOOSE d \in ds : \A h \in ds : h[1] <= d[1]
        node == Version(ss, last)
    IN [node EXCEPT
          !.in   = UNION {{Mapped(Subs(ss), h[1], s) : s \in node.in} : h \in ds},
          !.heir = Mapped(Nodes(ss), last[1], node.heir),
          !.refs = @ \union {Ref(h[1]) : h \in ds}]

SubVersions(ss) ==
    UNION {{<<Image(Subs(ss), i, s), ss[i].subs[s]>> : s \in DOMAIN ss[i].subs} : i \in DOMAIN ss}

Rewritten(ss, i, e) ==
    [from |-> <<e.from[1], IF e.from[1] = "node" THEN Mapped(Nodes(ss), i, e.from[2])
                                                 ELSE Mapped(Subs(ss), i, e.from[2])>>,
     to |-> Mapped(Nodes(ss), i, e.to)]

Draft(ss, c) ==
    [nodes |-> Over(c.nodes, [id \in {Target(ss, d) : d \in Differing(ss, c)} |->
                                 Placed(ss, {d \in Differing(ss, c) : Target(ss, d) = id})]),
     subs  |-> [id \in {v[1] : v \in SubVersions(ss)} |->
                   (CHOOSE v \in SubVersions(ss) : v[1] = id)[2]],
     edges |-> c.edges \union
               UNION {{Rewritten(ss, i, e) : e \in ss[i].edges} : i \in DOMAIN ss}]

\* inputMemoryScope: what differs, with the ends of its edges, its successors and
\* the subgraphs it belongs to.
Scope(c, d) ==
    LET settled == {e \in c.edges : /\ e.to \in DOMAIN c.nodes
                                    /\ e.from[2] \in (IF e.from[1] = "node" THEN DOMAIN c.nodes
                                                                            ELSE DOMAIN c.subs)}
        edges == d.edges \ settled
        named == (DOMAIN d.nodes \ DOMAIN c.nodes)
                    \union {e.to : e \in edges}
                    \union {e.from[2] : e \in {e \in edges : e.from[1] = "node"}}
        closed == {S \in SUBSET DOMAIN d.nodes :
                      named \subseteq S /\ \A id \in S : d.nodes[id].heir \in S \union {NoId}}
        nodes == {id \in DOMAIN d.nodes : \A S \in closed : id \in S}
        subs  == (DOMAIN d.subs \ DOMAIN c.subs)
                    \union {e.from[2] : e \in {e \in edges : e.from[1] = "sub"}}
                    \union UNION {d.nodes[id].in : id \in nodes}
    IN [nodes |-> Only(d.nodes, nodes), subs |-> Only(d.subs, subs), edges |-> edges]

\* A fact the sources do not agree on is in dispute until the model accepts it.
Disputed(c, g) ==
    [g EXCEPT !.nodes = [id \in DOMAIN @ |->
        IF id \notin DOMAIN c.nodes /\ IsFact(@[id]) /\ @[id].status \in {"", "accepted"}
        THEN [@[id] EXCEPT !.status = "disputed"] ELSE @[id]]]

-----------------------------------------------------------------------------
(* What the tools write to a graph *)

\* keepKnownIDs
KnownSubs(g, ids) == ids \intersect DOMAIN g.subs

\* WithMemory: the first node of an identity stays.
WithMemory(g, id, node) ==
    [g EXCEPT !.nodes = Over(@, [x \in {id} |-> [node EXCEPT !.in = KnownSubs(g, node.in)]])]

\* WithSubgraph
WithSubgraph(g, s, sub) == [g EXCEPT !.subs = Over([x \in {s} |-> sub], @)]

\* WithNodesInSubgraph: an unknown subgraph is made once a node goes into it.
WithNodesInSubgraph(g, s, ids) ==
    LET new == {id \in ids \intersect DOMAIN g.nodes : s \notin g.nodes[id].in}
    IN IF new = {} THEN g
       ELSE [nodes |-> [id \in DOMAIN g.nodes |->
                           IF id \in new THEN [g.nodes[id] EXCEPT !.in = @ \union {s}]
                                         ELSE g.nodes[id]],
             subs  |-> Over(g.subs, [x \in {s} |-> [kind |-> "", text |-> ""]]),
             edges |-> g.edges]

-----------------------------------------------------------------------------
(* Compose *)

Composed(c, g) ==
    [nodes |-> Over(g.nodes, c.nodes), subs |-> Over(g.subs, c.subs),
     edges |-> c.edges \union g.edges]

\* A common fact or hypothesis may only be superseded, by an accepted correction.
Corrected(c, g, id) ==
    /\ ~Directive(c.nodes[id]) /\ ~Locked(c.nodes[id])
    /\ g.nodes[id].status = "superseded"
    /\ g.nodes[id].heir \in DOMAIN g.nodes \ DOMAIN c.nodes
    /\ g.nodes[g.nodes[id].heir].status = "accepted"

Composable(c, g) ==
    /\ \A s \in DOMAIN g.subs \intersect DOMAIN c.subs : g.subs[s] = c.subs[s]
    /\ \A id \in DOMAIN g.nodes \intersect DOMAIN c.nodes :
          LET node == g.nodes[id]
              orig == c.nodes[id]
          IN /\ [node EXCEPT !.status = orig.status, !.heir = orig.heir] = orig
             /\ node = orig \/ Corrected(c, g, id)
    /\ Valid(Composed(c, g))

-----------------------------------------------------------------------------
(* One operation of memory_apply *)

\* Mutant of Allowed: requirements may be rewritten like facts.
AllowedForFacts(op, id, node) == ~Locked(node) /\ (Report(id) => op.do = "status")

\* guardProtected, on the node as it was before the batch
Allowed(op, id, node) ==
    /\ ~Locked(node) /\ id[1] # "task-info"
    /\ Report(id) => op.do = "status"
    /\ Directive(node) => op.do \notin {"update", "delete"}

\* Mutant of Backed: a text the model qualified before needs no evidence.
BackedByKind(op, node) ==
    (op.do \in {"create", "update", "status"}
        /\ (op.status = "accepted" \/ (op.status = "" /\ op.do # "status")))
    => (op.kind \in {"directive", "hypothesis"} \/ ~IsFact(node) \/ op.cites)

\* boundedInputMemoryTool: accepting takes evidence from the final files, unless
\* this very operation calls the text a directive or a hypothesis.
Backed(op, node) ==
    (op.do \in {"create", "update", "status"}
        /\ (op.status = "accepted" \/ (op.status = "" /\ op.do # "status")))
    => ((op.do # "status" /\ op.kind \in {"directive", "hypothesis"}) \/ op.cites)

\* ... and no requirement may be invented.
Invents(op, old) == op.do \in {"create", "update"} /\ op.kind = "directive" /\ ~old

\* applyNodeCreate, applyNodeUpdate, applyNodeStatus, applyNodeDelete,
\* applyNodeMembership
Fields(op, node) ==
    [node EXCEPT
        !.says   = IF op.do = "update" THEN op.says ELSE @,
        !.kind   = IF op.do = "update" /\ op.kind # "" THEN op.kind ELSE @,
        !.status = IF op.status # "" THEN op.status ELSE @,
        !.heir   = CASE op.do = "status" -> IF op.status = "superseded" THEN op.heir ELSE NoId
                     [] op.do = "update" /\ op.heir # NoId -> op.heir
                     [] OTHER -> @]

Without(g, id) ==
    [g EXCEPT !.nodes = Only(@, DOMAIN @ \ {id}),
              !.edges = {e \in @ : e.to # id /\ e.from # Node(id)}]

HeirFound(op, g, id) == op.heir = NoId \/ (op.heir \in DOMAIN g.nodes /\ (op.do = "status" => op.heir # id))

Changed(g, op, id) ==
    CASE op.do = "delete" -> Without(g, id)
      [] op.do = "attach" -> [g EXCEPT !.nodes[id].in = @ \union KnownSubs(g, op.in)]
      [] op.do = "detach" -> [g EXCEPT !.nodes[id].in = @ \ op.in]
      [] OTHER -> [g EXCEPT !.nodes[id] = Fields(op, @)]

Created(op) ==
    [kind |-> op.kind, says |-> op.says, status |-> IF op.status = "" THEN "accepted" ELSE op.status,
     in |-> op.in, refs |-> {}, by |-> "", heir |-> op.heir]

\* The next free identity: all reserved ones are seen, shown to the model or not.
Fresh(taken) ==
    LET used == DOMAIN common.nodes \union DOMAIN view.nodes \union taken
    IN <<"mem", Min({k \in 1 .. Cardinality(used) + 1 : <<"mem", k>> \notin used})>>

-----------------------------------------------------------------------------
(* The steps *)

NoBatch == [open |-> FALSE, g |-> Empty, made |-> {}, ops |-> 0, cited |-> {}]

Init ==
    /\ pc = "fixed" /\ sources \in Inputs
    /\ common = Empty /\ draft = Empty /\ view = Empty /\ result = Empty
    /\ batch = NoBatch /\ batches = 0 /\ cited = {}

\* No differences: the organizer is not asked.  A draft that does not hold together
\* ends the attempt.
OrganizeInputMemory ==
    /\ pc = "fixed"
    /\ LET c == Common(sources)
           d == Draft(sources, c)
       IN /\ common' = c
          /\ IF ~HasDifferences(sources, c)
             THEN pc' = "done" /\ draft' = c /\ result' = c /\ UNCHANGED view
             ELSE /\ pc' = IF Valid(d) THEN "organize" ELSE "failed"
                  /\ draft' = d /\ view' = Disputed(c, Scope(c, d)) /\ UNCHANGED result
    /\ UNCHANGED <<sources, batch, batches, cited>>

Open == IF batch.open THEN batch ELSE [NoBatch EXCEPT !.open = TRUE, !.g = view, !.cited = cited]

Queue(b, g, made, id, op) ==
    batch' = [b EXCEPT !.g = g, !.made = made, !.ops = @ + 1,
                       !.cited = IF op.do \notin {"create", "update", "status"} THEN @
                                 ELSE IF op.cites THEN @ \union {id} ELSE @ \ {id}]

Working == pc = "organize" /\ batches < MaxBatches /\ Open.ops < MaxOps

Create(op) ==
    /\ Working /\ op.do = "create" /\ op.kind # ""
    /\ LET id == Fresh(Open.made)
       IN /\ ~Invents(op, FALSE) /\ Backed(op, op)
          /\ HeirFound(op, Open.g, id)
          /\ Queue(Open, WithMemory(Open.g, id, Created(op)), Open.made \union {id}, id, op)
    /\ UNCHANGED <<pc, sources, common, draft, view, result, batches, cited>>

\* An operation on a node the model was shown, which an earlier one of the batch
\* may have removed.
Change(op, id) ==
    /\ Working /\ op.do \notin {"create", "describe"}
    /\ id \in DOMAIN view.nodes /\ id \in DOMAIN Open.g.nodes
    /\ ~Invents(op, Directive(view.nodes[id])) /\ Backed(op, Open.g.nodes[id])
    /\ Allowed(op, id, view.nodes[id])
    /\ op.do \in {"update", "status"} => HeirFound(op, Open.g, id)
    /\ op.do = "status" => op.status # ""
    /\ op.do \in {"attach", "detach"} => op.in \intersect DOMAIN view.subs # {}
    /\ Queue(Open, Changed(Open.g, op, id), Open.made, id, op)
    /\ UNCHANGED <<pc, sources, common, draft, view, result, batches, cited>>

\* subgraphDescribeOp
Describe(op, s) ==
    /\ Working /\ op.do = "describe"
    /\ s \in DOMAIN view.subs /\ view.subs[s].kind \notin {"system", "package"}
    /\ Queue(Open, WithSubgraph(Open.g, s, [Open.g.subs[s] EXCEPT !.text = op.says]), Open.made, s, op)
    /\ UNCHANGED <<pc, sources, common, draft, view, result, batches, cited>>

\* inputMemoryView.commit: new nodes come from all sources, accepted facts name the
\* files; a graph that does not compose is refused, with the whole batch.
Sourced(g) ==
    [g EXCEPT !.nodes = [id \in DOMAIN g.nodes |->
        IF id \in DOMAIN common.nodes THEN g.nodes[id]
        ELSE [g.nodes[id] EXCEPT !.refs =
                (IF id \in DOMAIN view.nodes THEN g.nodes[id].refs ELSE {Ref(i) : i \in DOMAIN sources})
                \union (IF IsFact(g.nodes[id]) /\ g.nodes[id].status = "accepted" THEN {Files} ELSE {})]]]

CommitGraph(g, cites) ==
    IF Composable(common, g) THEN view' = Sourced(g) /\ cited' = cites
                             ELSE UNCHANGED <<view, cited>>

MemoryApply ==
    /\ pc = "organize" /\ batch.open
    /\ CommitGraph(batch.g, batch.cited)
    /\ batch' = NoBatch /\ batches' = batches + 1
    /\ UNCHANGED <<pc, sources, common, draft, result>>

\* memory_add_to_subgraph makes the subgraph when there is none.
AddToSubgraph(s, id) ==
    /\ pc = "organize" /\ ~batch.open /\ batches < MaxBatches
    /\ s \in DOMAIN view.subs => view.subs[s].kind # "system"
    /\ id \in DOMAIN view.nodes /\ s \notin view.nodes[id].in
    /\ CommitGraph(WithNodesInSubgraph(view, s, {id}), cited)
    /\ batches' = batches + 1
    /\ UNCHANGED <<pc, sources, common, draft, batch, result>>

Finish ==
    /\ pc = "organize" /\ ~batch.open
    /\ IF Composable(common, view)
       THEN pc' = "done" /\ result' = Composed(common, view)
       ELSE pc' = "failed" /\ UNCHANGED result
    /\ UNCHANGED <<sources, common, draft, view, batch, batches, cited>>

Next ==
    \/ OrganizeInputMemory
    \/ \E op \in Edits :
          \/ Create(op)
          \/ \E id \in DOMAIN view.nodes : Change(op, id)
          \/ \E s \in DOMAIN view.subs : Describe(op, s)
    \/ MemoryApply
    \/ \E s \in DOMAIN common.subs \union DOMAIN view.subs \union {<<"new">>},
          id \in DOMAIN view.nodes : AddToSubgraph(s, id)
    \/ Finish

Spec == Init /\ [][Next]_vars

-----------------------------------------------------------------------------
(* Properties *)

Injective(f) == \A x, y \in DOMAIN f : f[x] = f[y] => x = y

\* No later source holds the same version of the node.
LastHolder(i, id) ==
    \A j \in DOMAIN sources :
        j > i => ~(id \in DOMAIN sources[j].nodes /\ sources[j].nodes[id] = sources[i].nodes[id])

\* A source has a place in the draft: f and h lead from its nodes and subgraphs to their
\* versions there, none of them merged, and what relates the ones relates the others.
\* Two relations are weaker.  A common node is taken over as it is: its subgraphs and its
\* successor are named, whichever versions have these names in the draft.  And a version
\* that several sources share, but not all, has the successor of the last of them.
Embeds(i) ==
    LET g == sources[i]
    IN \E f \in [DOMAIN g.nodes -> DOMAIN draft.nodes], h \in [DOMAIN g.subs -> DOMAIN draft.subs] :
        /\ Injective(f) /\ Injective(h)
        /\ \A s \in DOMAIN g.subs : draft.subs[h[s]] = g.subs[s]
        /\ \A id \in DOMAIN g.nodes :
              LET old == g.nodes[id]
                  new == draft.nodes[f[id]]
              IN /\ [new EXCEPT !.in = {}, !.refs = {}, !.heir = NoId]
                       = [old EXCEPT !.in = {}, !.refs = {}, !.heir = NoId]
                 /\ id \in DOMAIN common.nodes => new = old
                 /\ id \notin DOMAIN common.nodes =>
                       /\ {h[s] : s \in old.in} \subseteq new.in
                       /\ LastHolder(i, id) =>
                             new.heir = IF old.heir = NoId THEN NoId ELSE f[old.heir]
        /\ \A e \in g.edges :
              \E k \in draft.edges :
                  /\ k.to = f[e.to] /\ k.from[1] = e.from[1]
                  /\ k.from[2] = IF e.from[1] = "node" THEN f[e.from[2]] ELSE h[e.from[2]]

\* context/input.go:66: the draft keeps every version of every source with its edges, its
\* subgraphs and its successor, under the identities they have there, and holds together,
\* so that organizing can begin.
VersionsKept ==
    pc = "organize" /\ batches = 0 /\ ~batch.open =>
        Valid(draft) /\ \A i \in DOMAIN sources : Embeds(i)

\* agent/input_memory.go:91, memory_apply.go:31: whatever the model does, the memory is
\* composed; it holds the requirements of the sources, word for word, and no others,
\* and what all sources agree on unless an accepted correction took its place.
AgreedKept ==
    /\ pc # "failed"
    /\ pc = "done" =>
        /\ \A id \in DOMAIN draft.nodes : Directive(draft.nodes[id]) =>
              /\ id \in DOMAIN result.nodes
              /\ [result.nodes[id] EXCEPT !.in = {}, !.status = "", !.heir = NoId]
                    = [draft.nodes[id] EXCEPT !.in = {}, !.status = "", !.heir = NoId]
              /\ draft.nodes[id].in \subseteq result.nodes[id].in \/ ~Locked(draft.nodes[id])
              /\ Locked(draft.nodes[id]) => result.nodes[id].status = draft.nodes[id].status
        /\ \A id \in DOMAIN result.nodes : Directive(result.nodes[id]) =>
              id \in DOMAIN draft.nodes /\ Directive(draft.nodes[id])
        /\ \A id \in DOMAIN common.nodes : result.nodes[id] # common.nodes[id] =>
              /\ result.nodes[id].status = "superseded"
              /\ result.nodes[result.nodes[id].heir].status = "accepted"
              /\ result.nodes[id].heir \notin DOMAIN common.nodes

\* agent/input_memory.go:271: a fact that not all sources hold is accepted only as a
\* text that was accepted on evidence of the final files, and it names them.
AcceptedOnEvidence ==
    pc = "done" /\ HasDifferences(sources, common) =>
        \A id \in DOMAIN result.nodes \ DOMAIN common.nodes :
            IsFact(result.nodes[id]) /\ result.nodes[id].status = "accepted" =>
                id \in cited /\ Files \in result.nodes[id].refs
===============================================================================
