----------------------------- MODULE StepLedger -----------------------------
(***************************************************************************)
(* What the workflow manager promises whoever reads its progress: a count  *)
(* of done steps that is backed by proofs (receipts).  It grows by one     *)
(* step at a time, over a proof; it shrinks only when proofs were lost, or *)
(* by one step when a finished run is refused, and then the run is blocked;*)
(* somebody has to resume a run that was paused or blocked, unless work    *)
(* proved meanwhile moves it on.                                           *)
(***************************************************************************)
EXTENDS Integers

CONSTANT TotalSteps

VARIABLES
  phase,    \* "absent", "running", "paused", "blocked" or "completed"
  done,     \* how many steps count as completed
  proofs    \* the steps with a sound proof

vars == <<phase, done, proofs>>

Steps == 1 .. TotalSteps

Backed(n) == 1 .. n \subseteq proofs

Init == phase = "absent" /\ done = 0 /\ proofs = {}

(* A new run, or one that adopts the first n steps proved elsewhere.       *)
Open(n) ==
  /\ phase = "absent"
  /\ proofs = {}
  /\ done' = n
  /\ proofs' = 1 .. n
  /\ phase' = IF n = TotalSteps THEN "completed" ELSE "running"

(* Only the next step of a running workflow is ever proved.                *)
Prove ==
  /\ phase = "running"
  /\ proofs' = proofs \union {done + 1}
  /\ UNCHANGED <<phase, done>>

(* The proved next step counts; a pause survives it.                       *)
Advance ==
  /\ phase \in {"running", "paused"}
  /\ done + 1 \in proofs
  /\ done' = done + 1
  /\ phase' = IF done' = TotalSteps THEN "completed" ELSE phase
  /\ UNCHANGED proofs

Pause  == phase = "running" /\ phase' = "paused" /\ UNCHANGED <<done, proofs>>
Resume == phase \in {"paused", "blocked"} /\ phase' = "running" /\ UNCHANGED <<done, proofs>>

(* Too many failures, or receipts that do not fit; the proved next step    *)
(* still counts.                                                           *)
Block ==
  /\ phase # "absent"
  /\ phase' = "blocked"
  /\ done' = done \/ (done + 1 \in proofs /\ done' = done + 1)
  /\ UNCHANGED proofs

(* A proof the count rested on is gone: fall back to what is still backed. *)
FallBack(n) ==
  /\ phase # "absent"
  /\ n < done
  /\ Backed(n)
  /\ ~Backed(done)
  /\ phase' = "blocked"
  /\ done' = n
  /\ UNCHANGED proofs

(* A finished run is refused: its last step is open again.                 *)
Reopen ==
  /\ phase = "completed"
  /\ phase' = "blocked"
  /\ done' = done - 1
  /\ UNCHANGED proofs

Lose(i) == proofs' = proofs \ {i} /\ UNCHANGED <<phase, done>>

Discard == phase' = "absent" /\ done' = 0 /\ proofs' = {}

Next ==
  \/ \E n \in 0 .. TotalSteps : Open(n) \/ FallBack(n)
  \/ Prove \/ Advance \/ Pause \/ Resume \/ Block \/ Reopen
  \/ \E i \in Steps : Lose(i)
  \/ Discard

Spec == Init /\ [][Next]_vars
=============================================================================
