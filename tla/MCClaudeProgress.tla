-------------------------- MODULE MCClaudeProgress --------------------------
(* ClaudeProgress on small instances; the cfg files give the constants     *)
(* values.                                                                 *)
EXTENDS ClaudeProgress, TLC

(* Sessions are only ever compared for equality.                           *)
Symmetry == Permutations(Sessions)
=============================================================================
