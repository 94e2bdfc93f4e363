----------------------------- MODULE FixedInput -----------------------------
(***************************************************************************)
(* What an edge promises the role behind it: its fixed sources become one  *)
(* pair (frozen files, sealed memory), published once and never replaced.  *)
(* EdgeInput shows how internal/coordination/input.go keeps the promise.   *)
(***************************************************************************)
CONSTANTS Files,     \* the possible contents of the frozen input files
          Memories,  \* the possible contents of the sealed input memory
          NoPair     \* not a pair: nothing published yet

VARIABLE pair

Pairs == Files \X Memories

Init == pair = NoPair

Publish ==
    /\ pair = NoPair
    /\ pair' \in Pairs

Spec == Init /\ [][Publish]_pair
=============================================================================
