----------------------------- MODULE MCWorkspaces -----------------------------
(* Instances of Workspaces: three nested paths over two floors. *)
EXTENDS Workspaces, TLC

MCPaths == {<<"a">>, <<"a", "d">>, <<"a", "d", "x">>}

\* A file at depth n in directories, or nothing for n = 0.
Nested(n, c) == [p \in MCPaths |-> IF Len(p) < n THEN "dir" ELSE IF Len(p) = n THEN c ELSE "absent"]
Some == CHOOSE c \in Contents : TRUE
MCFloors == {Nested(1, Some), Nested(3, Some)}
MCLefts  == {Nested(2, Some)} \union {Nested(3, c) : c \in Contents \ {Some}}

Alike == Permutations(Archives)
=============================================================================
