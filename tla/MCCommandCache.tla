---------------------------- MODULE MCCommandCache ----------------------------
(* Small trees and commands for CommandCache. *)
EXTENDS CommandCache

CONSTANTS e1, e2

Swapped == Permutations({e1, e2})

MCParent == [p \in {"d", "d/x", "d/y", "o"} |-> IF p \in {"d/x", "d/y"} THEN "d" ELSE ""]
Tree(d, x, y, o) ==
    [p \in DOMAIN MCParent |-> CASE p = "d" -> d [] p = "d/x" -> x [] p = "d/y" -> y [] OTHER -> o]

A == File(<<"is", "A">>)
B == File(<<"is", "B">>)
MCTrees == {Tree(Dir, A, None, None), Tree(Dir, B, A, B)}

Do(what, p)   == [do |-> what, at |-> p, to |-> p, must |-> TRUE]
Try(what, p)  == [do |-> what, at |-> p, to |-> p, must |-> FALSE]
Move(p, q)    == [do |-> "rename", at |-> p, to |-> q, must |-> TRUE]
Then(when, calls) == [calls |-> calls, when |-> when, asks |-> FALSE, shell |-> "none"]
Asking(calls) == [calls |-> calls, when |-> "always", asks |-> TRUE, shell |-> "none"]
Shell(shell, calls) == [calls |-> calls, when |-> "always", asks |-> FALSE, shell |-> shell]

Build   == <<Try("stat", "d"), Do("list", "d"), Do("read", "d/x"), Do("write", "o")>>
Probe   == <<Try("stat", "d/y"), Do("write", "o")>>
Claim   == <<Do("create", "d/y"), Do("read", "d/x"), Do("write", "o")>>
Install == <<Do("write", "o"), Move("o", "d/y")>>
Edit    == <<Do("net", "d/x"), Do("append", "d/x")>>
Refresh == <<Do("read", "o"), Do("write", "o")>>
Drop    == <<Try("stat", "o"), Try("unlink", "o")>>

MCRequests == {
    <<Then("always", Claim), Asking(Probe)>>,
    <<Then("always", Build), Then("failure", Drop)>>,
    <<Then("always", Edit), Then("success", Build)>>,
    <<Then("always", Install), Then("always", Refresh)>>,
    <<Shell("set", <<>>), Shell("use", Claim), Then("failure", Drop)>>}
===============================================================================
