----------------------------- MODULE MCScheduler -----------------------------
(***************************************************************************)
(* Scheduler with interchangeable requests: sound because its invariants   *)
(* treat all requests alike and no temporal property is checked.           *)
(***************************************************************************)
EXTENDS Scheduler, TLC

Interchangeable == Permutations(Requests)
=============================================================================
