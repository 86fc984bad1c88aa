------------------------------ MODULE QaReports -------------------------------
(***************************************************************************)
(* The QA reports of a step: scripts/qa-report.mjs with its three commands *)
(* snapshot, record and inspect (scripts/lib/qa-report.mjs), over the      *)
(* guarded reads and writes of quality-files.mjs and the workflow identity *)
(* of workflow-context.mjs.                                                *)
(*                                                                         *)
(* The commands take no lock.  Each reads, hashes and compares files one   *)
(* after the other while agents edit them, other commands run and a reset  *)
(* may begin a new run.  The artifacts of the step are one content, the    *)
(* evidence another; a content is the number of the edit that made it, so  *)
(* an edit that restores old bytes, which no hash can notice, is left out. *)
(* The profile is one that binds evidence to a generation.                 *)
(*                                                                         *)
(* A report file is named after the hash of its bytes and its snapshot has *)
(* a random name, so a torn one is as good as missing.  Not so the claim   *)
(* <snapshot>.recorded.json: it is created first and filled afterwards.    *)
(*                                                                         *)
(* A definition whose comment starts with "Variant:" is a change that a    *)
(* property must rule out; no specification uses it.                       *)
(***************************************************************************)
EXTENDS Integers

CONSTANTS
  Commands,    \* the commands that may run at the same time
  MaxSnapshots,
  MaxEdits,    \* bound on edits of artifacts and evidence
  MaxRuns,     \* bound on generations of the workflow
  MaxMishaps   \* bound on failed writes and crashes

ASSUME QaAssumption ==
  /\ {MaxEdits, MaxMishaps} \subseteq Nat
  /\ {MaxSnapshots, MaxRuns} \subseteq Nat \ {0}

VARIABLES
  artifacts, evidence,  \* the contents of the files
  generation,           \* of the active workflow
  snapshots,  \* <<generation, id>> -> content of the artifacts, or Missing
  claims,     \* <<generation, id>> -> Missing, Torn or the report it names
  reports,    \* the complete report files
  latest,     \* generation -> the report that the pointer names
  command,    \* the commands under way
  drawn,      \* snapshot names drawn
  measured,   \* history: <<report, artifacts when its evidence was hashed>>
  mishaps     \* how much of MaxMishaps is used

qaVars == <<artifacts, evidence, generation, snapshots, claims, reports,
            latest, command, drawn, measured, mishaps>>

files == <<artifacts, evidence, generation>>

Runs      == 1 .. MaxRuns
Contents  == 0 .. MaxEdits
Snapshots == Runs \X (1 .. MaxSnapshots)
Missing   == [is |-> "missing"]
Torn      == [is |-> "torn"]

(* A report: its snapshot, the evidence it hashed, its verdict.            *)
Report(s, e, v) == [is |-> "report", snapshot |-> s, evidence |-> e,
                    verdict |-> v]
Reports == {Report(s, e, v) : s \in Snapshots, e \in Contents,
                              v \in {"PASS", "INCOMPLETE"}}

(* run: the generation of its context; saw: artifacts and evidence as they *)
(* were when the evidence was hashed; during: the generation an inspection *)
(* hashed it in (history); same: no difference found so far.               *)
Resting == [at |-> "rest", run |-> 1, snapshot |-> <<1, 1>>, evidence |-> 0,
            report |-> Missing, saw |-> <<0, 0>>, during |-> 1, same |-> TRUE,
            verdict |-> "INCOMPLETE", answer |-> "none"]

Is(c, phase)      == command[c].at = phase
Step(c, phase)    == command' = [command EXCEPT ![c].at = phase]
Become(c, record) == command' = [command EXCEPT ![c] = record]
Leave(c)          == Become(c, Resting)
Mishap            == mishaps < MaxMishaps /\ mishaps' = mishaps + 1

(* recheckWorkflowContext                                                  *)
SameRun(c) == generation = command[c].run

(* sameFiles on the artifacts of the snapshot in hand, hashed now.         *)
SameArtifacts(c) == artifacts = snapshots[command[c].snapshot]

QaInit ==
  /\ artifacts = 0 /\ evidence = 0 /\ generation = 1
  /\ snapshots = [s \in Snapshots |-> -1]
  /\ claims = [s \in Snapshots |-> Missing]
  /\ reports = {}
  /\ latest = [g \in Runs |-> Missing]
  /\ command = [c \in Commands |-> Resting]
  /\ drawn = 0
  /\ measured = {}
  /\ mishaps = 0

-----------------------------------------------------------------------------
(* snapshotQa                                                              *)

SnapshotHash(c) ==
  /\ Is(c, "rest")
  /\ drawn < MaxSnapshots
  /\ drawn' = drawn + 1
  /\ Become(c, [Resting EXCEPT !.at = "snapshot", !.run = generation,
                 !.snapshot = <<generation, drawn + 1>>,
                 !.saw = <<artifacts, 0>>])
  /\ UNCHANGED <<files, snapshots, claims, reports, latest, measured, mishaps>>

SnapshotWrite(c) ==
  /\ Is(c, "snapshot")
  /\ artifacts = command[c].saw[1]
  /\ SameRun(c)
  /\ snapshots' = [snapshots EXCEPT ![command[c].snapshot] = artifacts]
  /\ Leave(c)
  /\ UNCHANGED <<files, claims, reports, latest, drawn, measured, mishaps>>

SnapshotRejected(c) ==
  /\ Is(c, "snapshot")
  /\ artifacts # command[c].saw[1] \/ ~SameRun(c)
  /\ Leave(c)
  /\ UNCHANGED <<files, snapshots, claims, reports, latest, drawn, measured,
                 mishaps>>

-----------------------------------------------------------------------------
(* recordQa: compare, hash the evidence, compare again, claim, publish     *)

RecordStart(c, id, verdict) ==
  LET s == <<generation, id>>
  IN  /\ Is(c, "rest")
      /\ snapshots[s] = artifacts
      /\ Become(c, [Resting EXCEPT !.at = "hash", !.run = generation,
                     !.snapshot = s, !.verdict = verdict])
      /\ UNCHANGED <<files, snapshots, claims, reports, latest, drawn,
                     measured, mishaps>>

RecordHash(c) ==
  /\ Is(c, "hash")
  /\ command' = [command EXCEPT ![c].at = "compare",
                                ![c].evidence = evidence,
                                ![c].saw = <<artifacts, evidence>>]
  /\ UNCHANGED <<files, snapshots, claims, reports, latest, drawn, measured,
                 mishaps>>

(* Variant: the artifacts are not compared a second time.                  *)
RecordCompareOnce(c) ==
  /\ Is(c, "compare")
  /\ Step(c, "recheck")
  /\ UNCHANGED <<files, snapshots, claims, reports, latest, drawn, measured,
                 mishaps>>

RecordCompare(c) ==
  /\ Is(c, "compare")
  /\ IF SameArtifacts(c) THEN Step(c, "recheck") ELSE Leave(c)
  /\ UNCHANGED <<files, snapshots, claims, reports, latest, drawn, measured,
                 mishaps>>

RecordRecheck(c) ==
  /\ Is(c, "recheck")
  /\ IF evidence = command[c].evidence /\ SameRun(c)
     THEN Step(c, "claim") ELSE Leave(c)
  /\ UNCHANGED <<files, snapshots, claims, reports, latest, drawn, measured,
                 mishaps>>

Assessment(c) ==
  Report(command[c].snapshot, command[c].evidence, command[c].verdict)

(* Variant: an existing claim is replaced.                                 *)
RecordClaimOver(c) ==
  /\ Is(c, "claim")
  /\ claims' = [claims EXCEPT ![command[c].snapshot] = Torn]
  /\ Step(c, "fill")
  /\ UNCHANGED <<files, snapshots, reports, latest, drawn, measured, mishaps>>

(* The claim is created exclusively: one recorder of a snapshot passes.    *)
RecordClaim(c) ==
  /\ Is(c, "claim")
  /\ claims[command[c].snapshot] = Missing
  /\ claims' = [claims EXCEPT ![command[c].snapshot] = Torn]
  /\ Step(c, "fill")
  /\ UNCHANGED <<files, snapshots, reports, latest, drawn, measured, mishaps>>

RecordTooLate(c) ==
  /\ Is(c, "claim")
  /\ claims[command[c].snapshot] # Missing
  /\ Leave(c)
  /\ UNCHANGED <<files, snapshots, claims, reports, latest, drawn, measured,
                 mishaps>>

RecordFill(c) ==
  /\ Is(c, "fill")
  /\ claims' = [claims EXCEPT ![command[c].snapshot] = Assessment(c)]
  /\ Step(c, "report")
  /\ UNCHANGED <<files, snapshots, reports, latest, drawn, measured, mishaps>>

(* Filling fails: the claim is removed, others may try.                    *)
RecordFillFails(c) ==
  /\ Is(c, "fill")
  /\ Mishap
  /\ claims' = [claims EXCEPT ![command[c].snapshot] = Missing]
  /\ Leave(c)
  /\ UNCHANGED <<files, snapshots, reports, latest, drawn, measured>>

RecordReport(c) ==
  /\ Is(c, "report")
  /\ reports' = reports \union {Assessment(c)}
  /\ measured' = measured \union {<<Assessment(c), command[c].saw[1]>>}
  /\ IF SameRun(c) THEN Step(c, "point") ELSE Leave(c)
  /\ UNCHANGED <<files, snapshots, claims, latest, drawn, mishaps>>

(* The pointer is replaced by a rename, in the directory of the run that   *)
(* the command began in.                                                   *)
RecordPoint(c) ==
  /\ Is(c, "point")
  /\ latest' = [latest EXCEPT ![command[c].run] = Assessment(c)]
  /\ Leave(c)
  /\ UNCHANGED <<files, snapshots, claims, reports, drawn, measured, mishaps>>

-----------------------------------------------------------------------------
(* inspectQa                                                               *)

(* The pointer in the directory of the active run (evidenceDirectory), the *)
(* report it names, its snapshot and its claim are read.                   *)
InspectStart(c) ==
  LET r == latest[generation]
      found == r \in reports /\ claims[r.snapshot] = r
  IN  /\ Is(c, "rest")
      /\ Become(c,
           IF r = Missing THEN [Resting EXCEPT !.answer = "missing"]
           ELSE IF ~found THEN [Resting EXCEPT !.answer = "invalid"]
           ELSE [Resting EXCEPT !.at = "first", !.run = generation,
                   !.snapshot = r.snapshot, !.report = r,
                   !.same = snapshots[r.snapshot] = artifacts])
      /\ UNCHANGED <<files, snapshots, claims, reports, latest, drawn,
                     measured, mishaps>>

InspectEvidence(c) ==
  /\ Is(c, "first")
  /\ command' = [command EXCEPT ![c].at = "second",
                   ![c].saw = <<artifacts, evidence>>,
                   ![c].during = generation,
                   ![c].same = @ /\ evidence = command[c].report.evidence]
  /\ UNCHANGED <<files, snapshots, claims, reports, latest, drawn, measured,
                 mishaps>>

(* Variant: the artifacts are not hashed after the evidence.               *)
InspectArtifactsOnce(c) ==
  /\ Is(c, "second")
  /\ Step(c, "last")
  /\ UNCHANGED <<files, snapshots, claims, reports, latest, drawn, measured,
                 mishaps>>

InspectArtifacts(c) ==
  /\ Is(c, "second")
  /\ command' = [command EXCEPT ![c].at = "last",
                                ![c].same = @ /\ SameArtifacts(c)]
  /\ UNCHANGED <<files, snapshots, claims, reports, latest, drawn, measured,
                 mishaps>>

(* Pointer, report, snapshot and context must still be the same.           *)
InspectAnswer(c) ==
  /\ Is(c, "last")
  /\ command' = [command EXCEPT ![c].at = "rest", ![c].answer =
       IF latest[command[c].run] # command[c].report \/ ~SameRun(c)
       THEN "invalid" ELSE IF command[c].same THEN "current" ELSE "stale"]
  /\ UNCHANGED <<files, snapshots, claims, reports, latest, drawn, measured,
                 mishaps>>

-----------------------------------------------------------------------------
(* An agent edits an artifact or a piece of evidence.                      *)
EditFiles ==
  /\ artifacts + evidence < MaxEdits
  /\ \/ artifacts' = artifacts + 1 /\ UNCHANGED evidence
     \/ evidence' = evidence + 1 /\ UNCHANGED artifacts
  /\ UNCHANGED <<generation, snapshots, claims, reports, latest, command,
                 drawn, measured, mishaps>>

(* A reset or a new import begins another run.                             *)
NewRun ==
  /\ generation < MaxRuns
  /\ generation' = generation + 1
  /\ UNCHANGED <<artifacts, evidence, snapshots, claims, reports, latest,
                 command, drawn, measured, mishaps>>

(* A command dies.  What it created stays, a claim torn in the middle too. *)
CommandDies(c) ==
  /\ command[c].at \in {"fill", "report", "point"}
  /\ Mishap
  /\ Leave(c)
  /\ UNCHANGED <<files, snapshots, claims, reports, latest, drawn, measured>>

SnapshotQa(c) == SnapshotHash(c) \/ SnapshotWrite(c) \/ SnapshotRejected(c)

RecordQa(c) ==
  \/ \E id \in 1 .. MaxSnapshots, v \in {"PASS", "INCOMPLETE"} :
       RecordStart(c, id, v)
  \/ RecordHash(c) \/ RecordCompare(c) \/ RecordRecheck(c) \/ RecordClaim(c)
  \/ RecordTooLate(c) \/ RecordFill(c) \/ RecordFillFails(c)
  \/ RecordReport(c) \/ RecordPoint(c)

InspectQa(c) ==
  \/ InspectStart(c) \/ InspectEvidence(c)
  \/ InspectArtifacts(c) \/ InspectAnswer(c)

QaNext ==
  \/ \E c \in Commands :
       SnapshotQa(c) \/ RecordQa(c) \/ InspectQa(c) \/ CommandDies(c)
  \/ EditFiles \/ NewRun

QaSpec == QaInit /\ [][QaNext]_qaVars

-----------------------------------------------------------------------------
QaPhases == {"rest", "snapshot", "hash", "compare", "recheck", "claim", "fill",
             "report", "point", "first", "second", "last"}

(* The variables keep their types.                                         *)
QaTypeOK ==
  /\ artifacts \in Contents /\ evidence \in Contents
  /\ generation \in 1 .. MaxRuns + 1
  /\ snapshots \in [Snapshots -> Contents \union {-1}]
  /\ claims \in [Snapshots -> Reports \union {Missing, Torn}]
  /\ reports \subseteq Reports
  /\ latest \in [Runs -> Reports \union {Missing}]
  /\ drawn \in 0 .. MaxSnapshots
  /\ measured \subseteq Reports \X Contents
  /\ mishaps \in 0 .. MaxMishaps

(* A snapshot is assessed once: whoever records it first, two recorders    *)
(* and crashes notwithstanding, there is one report of it, and what the    *)
(* pointer names is that complete report (the claim of recordQa).          *)
OneAssessment ==
  /\ \A q, r \in reports : q.snapshot = r.snapshot => q = r
  /\ \A g \in Runs : latest[g] # Missing =>
       latest[g] \in reports /\ claims[latest[g].snapshot] = latest[g]

(* A report never pairs evidence with artifacts it does not belong to: at  *)
(* the moment its evidence was hashed the artifacts were those of the      *)
(* snapshot (the comparisons around the hash in recordQa).                 *)
EvidenceOfSnapshot ==
  \A m \in measured : snapshots[m[1].snapshot] = m[2]

(* The answer "current" is true: there was a moment of the inspection at   *)
(* which artifacts and evidence both were those of the report, the run it  *)
(* was asked for was the active one, and the report is one of that run     *)
(* (inspectQa hashes the artifacts before and after the evidence and looks *)
(* at the workflow again at the end, recheckWorkflowContext).              *)
CurrentIsTrue ==
  \A c \in Commands : command[c].answer = "current" =>
    LET r == command[c].report
    IN  /\ command[c].saw = <<snapshots[r.snapshot], r.evidence>>
        /\ command[c].during = command[c].run
        /\ r.snapshot[1] = command[c].run
=============================================================================
