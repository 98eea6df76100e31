---------------------------- MODULE MCLedDevice ----------------------------
(* Small instances of LedDevice; processes and files are interchangeable. *)
EXTENDS LedDeviceProofs, TLC

Symmetry == Permutations(Procs) \cup Permutations(Files)
=============================================================================
