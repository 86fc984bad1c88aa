---------------------------- MODULE FinalEvidence -----------------------------
(***************************************************************************)
(* The evidence that the last step of a workflow is completed with:        *)
(*   quality gate    runQualityGate, inspectQualityReport (quality.mjs)    *)
(*   browser report  verifyOutput (verify-output.mjs), browser-report.mjs  *)
(*   regression      the QA report of the final step (final-regression.mjs,*)
(*                   QaReports has the details of recording one)           *)
(*   completion      validateCompletionEvidence (acceptance.mjs)           *)
(*                                                                         *)
(* The completion holds the run lock; gate, browser verifier, QA commands  *)
(* and agents do not, and take turns with it between any two of its reads. *)
(* The build is the number of edits of dist/index.html, source the number  *)
(* of edits of all other files that sourceFingerprint hashes; the coverage *)
(* file is known by the tree it was measured on.  An edit that restores    *)
(* old bytes, which no hash can notice, is left out.  Files then only move *)
(* on, so a fingerprint that equals an earlier one is that of one moment,  *)
(* although the files are hashed one by one.                               *)
(* The profile is one that binds evidence to a generation.                 *)
(*                                                                         *)
(* A definition whose comment starts with "Variant:" is a change that a    *)
(* property must rule out; no specification uses it.                       *)
(***************************************************************************)
EXTENDS Integers

CONSTANTS
  Gates,         \* the quality gates that may run at the same time
  MaxTreeEdits,  \* bound on edits of the build and of the other sources
  MaxWorkflows   \* bound on workflows run in the workspace

ASSUME EvidenceAssumption == {MaxTreeEdits, MaxWorkflows} \subseteq Nat

VARIABLES
  build, source,  \* the files of the workspace
  coverage,       \* the coverage file: the tree it was measured on
  workflow,       \* the active workflow (its generation)
  gateReport,     \* quality-gate.json
  browserReport,  \* browser-output.json: the build it passed, -1 without
  regression,     \* the build of its final regression report, -1 without
  gates,          \* the gates under way
  verifier,       \* the browser verifier under way
  completing,     \* the completion under way
  receipt         \* what its receipt of the final step names

evidenceVars ==
  <<build, source, coverage, workflow, gateReport, browserReport, regression,
    gates, verifier, completing, receipt>>

tree == <<build, source>>

Workflows == 1 .. MaxWorkflows
Builds    == 0 .. MaxTreeEdits
Trees     == Builds \X Builds
NoTree    == <<-1, -1>>

NoGateReport ==
  [pass |-> FALSE, tree |-> NoTree, coverage |-> NoTree, workflow |-> 0,
   alone |-> TRUE]

(* before: the fingerprint at the start; tested: the tree on which the     *)
(* test command runs; coverage: what was read of its file; ok: nothing     *)
(* failed so far; alone: history, no other gate was under way.             *)
NoGate == [at |-> "rest", workflow |-> 0, before |-> NoTree, tested |-> NoTree,
           coverage |-> NoTree, ok |-> TRUE, alone |-> TRUE]

NoVerifier == [at |-> "rest", build |-> -1]

NoCompletion ==
  [at |-> "rest", build |-> -1, quality |-> NoGateReport, regression |-> -1]

NoReceipt == [build |-> -1, quality |-> NoGateReport, regression |-> -1]

EvidenceInit ==
  /\ build = 0 /\ source = 0
  /\ coverage = NoTree
  /\ workflow = 1
  /\ gateReport = NoGateReport
  /\ browserReport = -1
  /\ regression = -1
  /\ gates = [g \in Gates |-> NoGate]
  /\ verifier = NoVerifier
  /\ completing = NoCompletion
  /\ receipt = NoReceipt

-----------------------------------------------------------------------------
(* runQualityGate                                                          *)

GateAt(g, phase) == gates[g].at = phase

Alone(g) == \A h \in Gates \ {g} : GateAt(h, "rest")

(* A gate that starts or ends beside others has not been alone.            *)
WithGate(g, record) ==
  gates' = [h \in Gates |->
    IF h = g THEN [record EXCEPT !.alone = @ /\ Alone(g)]
    ELSE [gates[h] EXCEPT !.alone = @ /\ GateAt(h, "rest")]]

GateStart(g) ==
  /\ GateAt(g, "rest")
  /\ WithGate(g, [NoGate EXCEPT !.at = "clear", !.workflow = workflow,
                                !.before = tree])
  /\ UNCHANGED <<build, source, coverage, workflow, gateReport, browserReport,
                 regression, verifier, completing, receipt>>

(* Variant: the coverage of an earlier run stays where it is.              *)
GateKeepCoverage(g) ==
  /\ GateAt(g, "clear")
  /\ WithGate(g, [gates[g] EXCEPT !.at = "start"])
  /\ UNCHANGED <<build, source, coverage, workflow, gateReport, browserReport,
                 regression, verifier, completing, receipt>>

GateClear(g) ==
  /\ GateAt(g, "clear")
  /\ coverage' = NoTree
  /\ WithGate(g, [gates[g] EXCEPT !.at = "start"])
  /\ UNCHANGED <<build, source, workflow, gateReport, browserReport,
                 regression, verifier, completing, receipt>>

(* The test command reads the tree when it starts and may write coverage   *)
(* when it ends; it and the other three checks may fail or time out.       *)
GateTest(g) ==
  /\ GateAt(g, "start")
  /\ WithGate(g, [gates[g] EXCEPT !.at = "test", !.tested = tree])
  /\ UNCHANGED <<build, source, coverage, workflow, gateReport, browserReport,
                 regression, verifier, completing, receipt>>

(* A failure decides the report: the rest of the gate only delays it.      *)
Failed(g) == [NoGate EXCEPT !.at = "write", !.ok = FALSE,
                            !.workflow = gates[g].workflow]

GateTested(g, writes, ok) ==
  /\ GateAt(g, "test")
  /\ coverage' = IF writes THEN gates[g].tested ELSE coverage
  /\ WithGate(g, IF ok THEN [gates[g] EXCEPT !.at = "read", !.tested = NoTree]
                 ELSE Failed(g))
  /\ UNCHANGED <<build, source, workflow, gateReport, browserReport,
                 regression, verifier, completing, receipt>>

GateRead(g) ==
  /\ GateAt(g, "read")
  /\ WithGate(g, IF coverage = NoTree THEN Failed(g)
                 ELSE [gates[g] EXCEPT !.at = "after", !.coverage = coverage])
  /\ UNCHANGED <<build, source, coverage, workflow, gateReport, browserReport,
                 regression, verifier, completing, receipt>>

(* Variant: the sources are not hashed again after the checks.             *)
SourceUnchangedAssumed(g) == TRUE

SourceUnchanged(g) == gates[g].before = tree

(* The second fingerprint, then the coverage file once more.               *)
GateAfter(g) ==
  /\ GateAt(g, "after")
  /\ WithGate(g, IF SourceUnchanged(g) THEN [gates[g] EXCEPT !.at = "reread"]
                 ELSE Failed(g))
  /\ UNCHANGED <<build, source, coverage, workflow, gateReport, browserReport,
                 regression, verifier, completing, receipt>>

GateReread(g) ==
  /\ GateAt(g, "reread")
  /\ WithGate(g, IF coverage = gates[g].coverage
                 THEN [gates[g] EXCEPT !.at = "write"] ELSE Failed(g))
  /\ UNCHANGED <<build, source, coverage, workflow, gateReport, browserReport,
                 regression, verifier, completing, receipt>>

(* No report if the workflow is no longer that of the start.  A report     *)
(* without PASS is as good as none.                                        *)
GateWrite(g) ==
  /\ GateAt(g, "write")
  /\ gateReport' =
       IF gates[g].workflow # workflow THEN gateReport
       ELSE IF ~gates[g].ok THEN NoGateReport
       ELSE [pass |-> TRUE, tree |-> gates[g].before,
             coverage |-> gates[g].coverage, workflow |-> workflow,
             alone |-> gates[g].alone /\ Alone(g)]
  /\ WithGate(g, NoGate)
  /\ UNCHANGED <<build, source, coverage, workflow, browserReport, regression,
                 verifier, completing, receipt>>

-----------------------------------------------------------------------------
(* verifyOutput: hash the build, drive the browser, hash it again          *)

VerifyStart ==
  /\ verifier.at = "rest"
  /\ verifier' = [at |-> "browse", build |-> build]
  /\ UNCHANGED <<build, source, coverage, workflow, gateReport, browserReport,
                 regression, gates, completing, receipt>>

VerifyEnd(passed) ==
  /\ verifier.at = "browse"
  /\ browserReport' = IF passed /\ build = verifier.build THEN build ELSE -1
  /\ verifier' = NoVerifier
  /\ UNCHANGED <<build, source, coverage, workflow, gateReport, regression,
                 gates, completing, receipt>>

(* A final regression report is recorded: it is current when it is made.   *)
RecordRegression ==
  /\ regression' = build
  /\ UNCHANGED <<build, source, coverage, workflow, gateReport, browserReport,
                 gates, verifier, completing, receipt>>

-----------------------------------------------------------------------------
(* inspectQualityReport and inspectFinalRegression                         *)

(* Variant: the report of another workflow will do.                        *)
QualityOfAnyWorkflow(report) ==
  report.pass /\ report.tree = tree /\ report.coverage = coverage

QualityHolds(report) ==
  /\ report.pass
  /\ report.workflow = workflow
  /\ report.tree = tree
  /\ report.coverage = coverage

RegressionHolds == regression = build

-----------------------------------------------------------------------------
(* validateCompletionEvidence for the final step, one read after another   *)

Completing(phase) == completing.at = phase

Reading(record) ==
  /\ completing' = record
  /\ UNCHANGED <<build, source, coverage, workflow, gateReport, browserReport,
                 regression, gates, verifier, receipt>>

(* hashStableArtifact of the build; a step with a receipt is not completed *)
(* again.                                                                  *)
CompleteHash ==
  /\ Completing("rest")
  /\ receipt = NoReceipt
  /\ Reading([NoCompletion EXCEPT !.at = "bind", !.build = build])

(* The browser report speaks of that build ...                             *)
CompleteBind ==
  /\ Completing("bind")
  /\ Reading(IF browserReport = completing.build
             THEN [completing EXCEPT !.at = "rehash"] ELSE NoCompletion)

(* ... which still is the one on disk.                                     *)
CompleteRehash ==
  /\ Completing("rehash")
  /\ Reading(IF build = completing.build
             THEN [completing EXCEPT !.at = "quality"] ELSE NoCompletion)

(* measuredReports: the report is read, then compared with the tree.       *)
CompleteQuality ==
  /\ Completing("quality")
  /\ Reading([completing EXCEPT !.at = "compare", !.quality = gateReport])

CompleteCompare ==
  /\ Completing("compare")
  /\ Reading(IF QualityHolds(completing.quality)
             THEN [completing EXCEPT !.at = "regression"] ELSE NoCompletion)

CompleteRegression ==
  /\ Completing("regression")
  /\ Reading(IF RegressionHolds
             THEN [completing EXCEPT !.at = "quality again",
                                     !.regression = regression]
             ELSE NoCompletion)

(* Variant: the quality report is inspected once.                          *)
CompleteQualityOnce ==
  /\ Completing("quality again")
  /\ Reading([completing EXCEPT !.at = "regression again"])

CompleteQualityAgain ==
  /\ Completing("quality again")
  /\ Reading(IF gateReport = completing.quality /\ QualityHolds(gateReport)
             THEN [completing EXCEPT !.at = "regression again"]
             ELSE NoCompletion)

CompleteRegressionAgain ==
  /\ Completing("regression again")
  /\ Reading(IF RegressionHolds
                  /\ regression = completing.regression
             THEN [completing EXCEPT !.at = "last hash"] ELSE NoCompletion)

(* The report files are hashed a last time and the receipt is published.   *)
PublishFinalReceipt ==
  /\ Completing("last hash")
  /\ receipt' = IF gateReport = completing.quality
                THEN [build |-> completing.build,
                      quality |-> completing.quality,
                      regression |-> completing.regression]
                ELSE NoReceipt
  /\ completing' = NoCompletion
  /\ UNCHANGED <<build, source, coverage, workflow, gateReport, browserReport,
                 regression, gates, verifier>>

-----------------------------------------------------------------------------
(* An agent changes the build or another source.                           *)
EditTree ==
  /\ build + source < MaxTreeEdits
  /\ \/ build' = build + 1 /\ UNCHANGED source
     \/ source' = source + 1 /\ UNCHANGED build
  /\ UNCHANGED <<coverage, workflow, gateReport, browserReport, regression,
                 gates, verifier, completing, receipt>>

(* A reset archives the receipts and another workflow begins; both wait    *)
(* for the run lock.  QA reports are in a directory of the generation, the *)
(* quality and browser reports stay.                                       *)
NextWorkflow ==
  /\ Completing("rest")
  /\ workflow < MaxWorkflows
  /\ workflow' = workflow + 1
  /\ regression' = -1
  /\ receipt' = NoReceipt
  /\ UNCHANGED <<build, source, coverage, gateReport, browserReport, gates,
                 verifier, completing>>

Gate(g) ==
  \/ GateStart(g) \/ GateClear(g) \/ GateTest(g)
  \/ \E writes, ok \in BOOLEAN : GateTested(g, writes, ok)
  \/ GateRead(g) \/ GateAfter(g) \/ GateReread(g) \/ GateWrite(g)

Browser ==
  VerifyStart \/ \E passed \in BOOLEAN : VerifyEnd(passed)

CompleteFinal ==
  \/ CompleteHash \/ CompleteBind \/ CompleteRehash \/ CompleteQuality
  \/ CompleteCompare \/ CompleteRegression \/ CompleteQualityAgain
  \/ CompleteRegressionAgain \/ PublishFinalReceipt

EvidenceNext ==
  \/ \E g \in Gates : Gate(g)
  \/ Browser \/ RecordRegression \/ CompleteFinal \/ EditTree \/ NextWorkflow

EvidenceSpec == EvidenceInit /\ [][EvidenceNext]_evidenceVars

-----------------------------------------------------------------------------
(* A gate that had the workspace to itself and passed measured the very    *)
(* tree it reports: its coverage is neither that of an earlier run nor of  *)
(* sources edited while the checks ran (runQualityGate).                   *)
GateMeasured ==
  gateReport.pass /\ gateReport.alone => gateReport.coverage = gateReport.tree

(* The receipt of the final step names a quality report and a regression   *)
(* report of one and the same build, and the quality report was made for   *)
(* the workflow that is completed, whatever was edited, measured and       *)
(* recorded again during the completion (measuredReports).                 *)
ReceiptReportsAgree ==
  receipt # NoReceipt =>
    /\ receipt.quality.tree[1] = receipt.regression
    /\ receipt.quality.workflow = workflow
    /\ receipt.quality.pass
=============================================================================
