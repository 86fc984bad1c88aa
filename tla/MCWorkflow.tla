----------------------------- MODULE MCWorkflow -----------------------------
(* Workflow on small instances; the cfg files give the constants values.   *)
EXTENDS Workflow, TLC

(* Sessions and turns are only ever compared for equality.                 *)
Symmetry == Permutations(Sessions) \union Permutations(Turns)
=============================================================================
