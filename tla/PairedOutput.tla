---------------------------- MODULE PairedOutput ----------------------------
(***************************************************************************)
(* What an activation promises whoever reads its outputs: each role        *)
(* commits one triple (files, memory, report), after the roles before it,  *)
(* and a committed triple never changes.  Activation implements it.        *)
(***************************************************************************)
EXTENDS Naturals

CONSTANTS NumRoles,  \* the roles of the chain are 1 .. NumRoles
          Triples,   \* the possible outputs
          NoOutput

VARIABLE committed

Init == committed = [r \in 1 .. NumRoles |-> NoOutput]

Commit(r) ==
    /\ committed[r] = NoOutput
    /\ \A q \in 1 .. r - 1 : committed[q] # NoOutput
    /\ committed'[r] \in Triples
    /\ committed' = [committed EXCEPT ![r] = committed'[r]]

Next == \E r \in 1 .. NumRoles : Commit(r)

Spec == Init /\ [][Next]_committed
=============================================================================
