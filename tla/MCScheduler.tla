----------------------------- MODULE MCScheduler -----------------------------
(***************************************************************************)
(* Scheduler for TLC.  Runs, contents and targets are interchangeable:     *)
(* nothing orders them, and no safety property tells them apart.           *)
(***************************************************************************)
EXTENDS Scheduler, TLC

Interchangeable ==
  Permutations(Runs) \cup Permutations(Contents) \cup Permutations(Targets)
=============================================================================
