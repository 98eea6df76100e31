---------------------------- MODULE MCKeyEvents ----------------------------
(* Small instances of KeyEvents; processes are interchangeable. *)
EXTENDS KeyEvents, TLC

Symmetry == Permutations(Procs)
=============================================================================
