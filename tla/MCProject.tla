------------------------------- MODULE MCProject ------------------------------
(* Trees of a directory with two files for Project. *)
EXTENDS Project

CONSTANTS f, g

d == <<"d">>
x == <<"d", "x">>
y == <<"d", "y">>

MCOrder == <<d, x, y>>
T(top, inX, inY) == d :> top @@ x :> inX @@ y :> inY
MCTrees == {T(f, None, None), T(Dir, f, None)}
===============================================================================
