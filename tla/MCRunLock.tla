----------------------------- MODULE MCRunLock ------------------------------
(* RunLock on small instances; the cfg files give the constants values.    *)
EXTENDS RunLock, TLC

(* Processes are only ever compared for equality.                          *)
Symmetry == Permutations(Procs)
=============================================================================
