------------------------------- MODULE MCStores -------------------------------
(***************************************************************************)
(* The specifications around the workflow that no step connects, on small  *)
(* instances in one run.  Init chooses one of them (part) and only its     *)
(* variables move: the behaviours are those of the specifications, each by *)
(* itself.  Two parts are FinalEvidence: "gates" is two quality gates side *)
(* by side, "final" one gate with browser, regression and completion.  The *)
(* cfg files give the constants their values.                              *)
(***************************************************************************)
EXTENDS WorkspaceStore, EventLog, QaReports, FinalEvidence, EvidenceReplay,
        JevJudge, StopBlocks

VARIABLE part

Parts == {"store", "log", "qa", "gates", "final", "replay", "jev", "blocks"}

storesVars == <<vars, logVars, qaVars, evidenceVars, replayVars, jevVars,
                blockVars, part>>

StoresInit ==
  /\ part \in Parts
  /\ Init /\ (part = "store" \/ disk.state.id = 1)
  /\ LogInit /\ QaInit /\ EvidenceInit /\ JevInit /\ BlocksInit
  /\ ReplayInit /\ (part = "replay" \/ ~inherited)

(* Bounds of the two parts: edits and workflows together, which gate.      *)
Edits(most) == EditTree /\ build' + source' + workflow <= most

Workflow(most) == NextWorkflow /\ build + source + workflow' <= most

GatesStep == (\E g \in Gates : Gate(g)) \/ Edits(3) \/ Workflow(3)

FinalGate == CHOOSE g \in Gates : TRUE

FinalStep == \/ Gate(FinalGate) \/ Browser \/ RecordRegression \/ CompleteFinal
             \/ Edits(2) \/ Workflow(2)

StoresNext ==
  /\ UNCHANGED part
  /\ \/ /\ part = "store" /\ Next
        /\ UNCHANGED <<logVars, qaVars, evidenceVars, replayVars, jevVars,
                       blockVars>>
     \/ /\ part = "log" /\ LogNext
        /\ UNCHANGED <<vars, qaVars, evidenceVars, replayVars, jevVars,
                       blockVars>>
     \/ /\ part = "qa" /\ QaNext
        /\ UNCHANGED <<vars, logVars, evidenceVars, replayVars, jevVars,
                       blockVars>>
     \/ /\ part = "gates" /\ GatesStep
        /\ UNCHANGED <<vars, logVars, qaVars, replayVars, jevVars, blockVars>>
     \/ /\ part = "final" /\ FinalStep
        /\ UNCHANGED <<vars, logVars, qaVars, replayVars, jevVars, blockVars>>
     \/ /\ part = "replay" /\ ReplayNext
        /\ UNCHANGED <<vars, logVars, qaVars, evidenceVars, jevVars, blockVars>>
     \/ /\ part = "jev" /\ JevNext
        /\ UNCHANGED <<vars, logVars, qaVars, evidenceVars, replayVars,
                       blockVars>>
     \/ /\ part = "blocks" /\ BlocksNext
        /\ UNCHANGED <<vars, logVars, qaVars, evidenceVars, replayVars,
                       jevVars>>

(* The fairness of JevSpec; the other parts promise nothing to happen.     *)
StoresSpec ==
  /\ StoresInit /\ [][StoresNext]_storesVars
  /\ WF_jevVars(part = "jev" /\ AskerSteps)
=============================================================================
