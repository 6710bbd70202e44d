----------------------------- MODULE MCScheduler -----------------------------
(* Scheduler on an instance whose schedules are interchangeable. *)
EXTENDS Scheduler, TLC

Symmetry == Permutations(Schedules)
=============================================================================
