----------------------------- MODULE MCKeyIrq -----------------------------
(* A small instance of KeyIrq, with the invariant of its proofs. *)
EXTENDS KeyIrqProofs
=============================================================================
