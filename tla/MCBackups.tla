------------------------------ MODULE MCBackups ------------------------------
(* Backups on an instance whose requests are interchangeable. *)
EXTENDS Backups, TLC

Symmetry == Permutations(Requests)
=============================================================================
