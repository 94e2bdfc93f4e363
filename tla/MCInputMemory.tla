----------------------------- MODULE MCInputMemory ----------------------------
(* Sources and operations for InputMemory. *)
EXTENDS InputMemory

N(kind, says, status, in, heir, by) ==
    [kind |-> kind, says |-> says, status |-> status, in |-> in, refs |-> {}, by |-> by, heir |-> heir]
S(kind, text) == [kind |-> kind, text |-> text]
E(from, to) == [from |-> from, to |-> to]
Pick(pairs) == [x \in {p[1] : p \in pairs} |-> (CHOOSE p \in pairs : p[1] = x)[2]]
G(nodes, subs, edges) == [nodes |-> Pick(nodes), subs |-> Pick(subs), edges |-> edges]

n == <<"n">>
m == <<"m">>
u == <<"u">>
s == <<"s">>
t == <<"t">>
v == <<"n", 1>>
mem == <<"mem", 1>>

Asked  == <<u, N("directive", "do", "accepted", {s}, NoId, "user")>>
Fact(x, says, status, in, heir) == <<x, N("fact", says, status, in, heir, "role")>>

\* one fact, what was asked
G1 == G({Asked, Fact(n, "p", "accepted", {s}, NoId)}, {<<s, S("task", "a")>>}, {E(Sub(s), n), E(Sub(s), u)})
\* it reads differently
G2 == G({Asked, Fact(n, "q", "accepted", {s}, NoId)}, {<<s, S("task", "a")>>}, {E(Sub(s), n), E(Sub(s), u)})
\* it is superseded, in a subgraph described differently
G3 == G({Asked, Fact(n, "p", "superseded", {s}, m), Fact(m, "q", "accepted", {s}, NoId)},
        {<<s, S("task", "b")>>}, {E(Sub(s), n), E(Sub(s), u), E(Node(n), m)})
\* as G1, with a variant of an earlier input and a requirement of a role
G4 == G({Asked, Fact(n, "p", "accepted", {s}, NoId), Fact(v, "q", "disputed", {s}, NoId),
         <<m, N("directive", "hold", "accepted", {s}, NoId, "role")>>},
        {<<s, S("task", "a")>>}, {E(Sub(s), n), E(Sub(s), u), E(Node(n), v)})
\* a guess, and a fact made by an earlier organizer
G5 == G({Asked, <<n, N("hypothesis", "p", "accepted", {s}, NoId, "role")>>, Fact(mem, "r", "accepted", {}, NoId)},
        {<<s, S("task", "a")>>, <<t, S("general", "a")>>}, {E(Sub(s), u)})
G6 == G({Asked, Fact(n, "q", "accepted", {s}, NoId), Fact(mem, "r", "accepted", {}, NoId)},
        {<<s, S("task", "a")>>, <<t, S("general", "a")>>}, {E(Sub(s), u)})
\* as G3, its successor reads differently again
G7 == G({Asked, Fact(n, "p", "superseded", {s}, m), Fact(m, "r", "accepted", {s}, NoId)},
        {<<s, S("task", "b")>>}, {E(Sub(s), n), E(Sub(s), u), E(Node(n), m)})

\* In <<G3, G7>> a common node has a successor of two versions.  In <<G4, G3, G7>> there
\* are three of m, the identity of a variant of n is taken, and two sources share a version
\* of n with different successors.
MCInputs == {<<G1>>, <<G1, G1>>, <<G1, G2>>, <<G5, G6>>, <<G3, G7>>, <<G4, G3, G7>>}

Op(do, kind, status, heir, in, cites) ==
    [do |-> do, kind |-> kind, says |-> "new", status |-> status, heir |-> heir, in |-> in, cites |-> cites]

MCEdits ==
    {Op("create", "fact", "", NoId, {s}, TRUE), Op("create", "hypothesis", "", NoId, {s}, FALSE),
     Op("create", "directive", "", NoId, {s}, TRUE),
     Op("update", "fact", "accepted", NoId, {}, TRUE), Op("update", "fact", "", NoId, {}, FALSE),
     Op("update", "hypothesis", "", NoId, {}, FALSE),
     Op("update", "", "", NoId, {}, TRUE),
     Op("status", "", "accepted", NoId, {}, TRUE), Op("status", "", "accepted", NoId, {}, FALSE),
     Op("status", "", "superseded", mem, {}, FALSE), Op("status", "", "superseded", <<"mem", 2>>, {}, FALSE),
     Op("status", "", "superseded", n, {}, FALSE),
     Op("delete", "", "", NoId, {}, FALSE), Op("attach", "", "", NoId, {t}, FALSE),
     Op("detach", "", "", NoId, {s}, FALSE), Op("describe", "", "", NoId, {}, FALSE)}
===============================================================================
