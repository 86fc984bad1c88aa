---------------------------- MODULE EvidenceProofs ----------------------------
(***************************************************************************)
(* That the evidence the workflow accepts can be relied on: the QA         *)
(* reports, the verdicts of the Jev commands, the reports behind the last  *)
(* step and the receipt that a retry meets.  The first three share a kind  *)
(* of argument: files only move on, so whatever was read twice and found   *)
(* equal did not change in between.  The last is about sequences.          *)
(***************************************************************************)
EXTENDS QaReports, JevJudge, FinalEvidence, EvidenceReplay, TLAPS

-----------------------------------------------------------------------------
(***************************************************************************)
(* That QA reports can be relied on, for any number of commands, edits and *)
(* generations: a snapshot is assessed once, its evidence belongs to it,   *)
(* and the answer "current" was true at some moment.                       *)
(*                                                                         *)
(* The invariant has three parts per command, and one about two of them:   *)
(*   Named    the snapshot it works on is written, or not yet;             *)
(*   Claimed  what it still has to publish is what the claim holds;        *)
(*   Paired   the artifacts that went with the evidence lie between the    *)
(*            snapshot and those of now, as artifacts only move on;        *)
(*   Apart    no two commands draw one name or hold one claim.             *)
(***************************************************************************)

Whole == [is : {"report"}, snapshot : Snapshots, evidence : Nat,
          verdict : {"PASS", "INCOMPLETE"}]

Works ==
  [at : QaPhases, run : Runs, snapshot : Snapshots, evidence : Nat,
   report : Whole \union {Missing}, saw : Nat \X Nat, during : Runs,
   same : BOOLEAN,
   verdict : {"PASS", "INCOMPLETE"},
   answer : {"none", "missing", "invalid", "current", "stale"}]

Holding    == {"fill", "report", "point"}
Matched    == {"recheck", "claim"} \union Holding
Inspecting == {"first", "second", "last"}

Result(a) == Report(a.snapshot, a.evidence, a.verdict)

Named(a, snaps, n) ==
  /\ a.at = "snapshot" => snaps[a.snapshot] = -1 /\ a.snapshot[2] <= n
  /\ a.at \notin {"rest", "snapshot"} => snaps[a.snapshot] # -1

Claimed(a, held, kept) ==
  /\ a.at = "fill" => held[a.snapshot] = Torn
  /\ a.at \in {"report", "point"} => held[a.snapshot] = Result(a)
  /\ a.at = "point" => Result(a) \in kept
  /\ a.at \in Inspecting => a.report \in kept /\ a.report.snapshot = a.snapshot
  /\ a.answer = "current" => a.report \in kept

Paired(a, now, snaps) ==
  /\ a.at \in {"compare", "second"} =>
       snaps[a.snapshot] <= a.saw[1] /\ a.saw[1] <= now
  /\ a.at \in Matched => a.saw[1] = snaps[a.snapshot]
  /\ a.at = "second" /\ a.same => a.saw[2] = a.report.evidence
  /\ a.at = "last" /\ a.same =>
       a.saw[1] = snaps[a.snapshot] /\ a.saw[2] = a.report.evidence
  /\ a.answer = "current" =>
       a.saw[1] = snaps[a.report.snapshot] /\ a.saw[2] = a.report.evidence
  /\ a.at # "rest" => a.answer = "none"

Apart(a, b) ==
  /\ a.at = "snapshot" /\ b.at = "snapshot" => a.snapshot # b.snapshot
  /\ a.at \in Holding /\ b.at \in Holding => a.snapshot # b.snapshot

Good(a, now, snaps, n, held, kept) ==
  /\ a \in Works
  /\ Named(a, snaps, n) /\ Claimed(a, held, kept) /\ Paired(a, now, snaps)

(* The files by themselves.                                                *)
Stored ==
  /\ artifacts \in Nat /\ evidence \in Nat /\ generation \in Runs
  /\ snapshots \in [Snapshots -> Nat \union {-1}]
  /\ claims \in [Snapshots -> Whole \union {Missing, Torn}]
  /\ reports \subseteq Whole
  /\ latest \in [Runs -> Whole \union {Missing}]
  /\ drawn \in Nat
  /\ measured \subseteq Whole \X Nat
  /\ \A s \in Snapshots : snapshots[s] <= artifacts
  /\ \A s \in Snapshots : s[2] > drawn => snapshots[s] = -1
  /\ \A r \in reports : claims[r.snapshot] = r /\ snapshots[r.snapshot] # -1
  /\ \A m \in measured : snapshots[m[1].snapshot] = m[2]
  /\ \A g \in Runs : latest[g] # Missing => latest[g] \in reports

QaInv ==
  /\ Stored
  /\ command \in [Commands -> Works]
  /\ \A c \in Commands :
       Good(command[c], artifacts, snapshots, drawn, claims, reports)
  /\ \A c \in Commands : \A d \in Commands \ {c} :
       Apart(command[c], command[d])

USE QaAssumption

LEMMA RestingIs ==
  /\ Resting \in Works /\ Resting.at = "rest" /\ Resting.answer = "none"
  /\ Resting.run = 1 /\ Resting.snapshot = <<1, 1>> /\ Resting.evidence = 0
  /\ Resting.report = Missing /\ Resting.saw = <<0, 0>> /\ Resting.during = 1
  /\ Resting.same = TRUE /\ Resting.verdict = "INCOMPLETE"
<1>1. <<1, 1>> \in Snapshots /\ 1 \in Runs
  BY DEF Snapshots, Runs
<1> QED BY <1>1 DEF Resting, Works, QaPhases

LEMMA RestingIsGood ==
  ASSUME NEW now, NEW snaps, NEW n, NEW held, NEW kept
  PROVE  /\ Good(Resting, now, snaps, n, held, kept)
         /\ \A b : Apart(Resting, b)
  BY RestingIs DEF Good, Named, Claimed, Paired, Apart, Holding, Matched,
                   Inspecting

LEMMA QaInvInit == QaInit => QaInv
<1> SUFFICES ASSUME QaInit PROVE QaInv
  OBVIOUS
<1>1. Stored
  BY DEF QaInit, Stored, Runs
<1> QED BY <1>1, RestingIs, RestingIsGood DEF QaInit, QaInv

(* A step of one command, which leaves it, the files and the others in a   *)
(* good state.                                                             *)
LEMMA OneCommand ==
  ASSUME QaInv, NEW c \in Commands, NEW a,
         command' = [command EXCEPT ![c] = a], Stored',
         Good(a, artifacts', snapshots', drawn', claims', reports'),
         \A d \in Commands \ {c} :
            /\ Good(command[d], artifacts', snapshots', drawn', claims',
                    reports')
            /\ Apart(a, command[d])
  PROVE  QaInv'
<1>1. command' \in [Commands -> Works] /\ command'[c] = a
  BY DEF QaInv, Good
<1>2. \A d \in Commands \ {c} : command'[d] = command[d]
  BY DEF QaInv
<1>3. \A d \in Commands :
        Good(command'[d], artifacts', snapshots', drawn', claims', reports')
  BY <1>1, <1>2
<1>4. ASSUME NEW d \in Commands, NEW e \in Commands \ {d}
      PROVE  Apart(command'[d], command'[e])
  <2>1. CASE d = c
    BY <1>1, <1>2, <2>1
  <2>2. CASE e = c
    <3>1. Apart(a, command[d])
      BY <2>2
    <3> QED BY <1>1, <1>2, <2>2, <3>1 DEF Apart
  <2>3. CASE d # c /\ e # c
    BY <1>2, <2>3 DEF QaInv
  <2> QED BY <2>1, <2>2, <2>3
<1> QED BY <1>1, <1>3, <1>4 DEF QaInv

(* The same, when no file changes.                                         *)
LEMMA OnlyCommand ==
  ASSUME QaInv, NEW c \in Commands, NEW a,
         command' = [command EXCEPT ![c] = a],
         UNCHANGED <<files, snapshots, claims, reports, latest, drawn,
                     measured>>,
         Good(a, artifacts, snapshots, drawn, claims, reports),
         \A d \in Commands \ {c} : Apart(a, command[d])
  PROVE  QaInv'
<1>1. Stored'
  BY DEF QaInv, Stored, files
<1> QED BY <1>1, OneCommand DEF QaInv, files

(* A command that gives up leaves nothing.                                 *)
LEMMA Leaves ==
  ASSUME QaInv, NEW c \in Commands, Leave(c),
         UNCHANGED <<files, snapshots, claims, reports, latest, drawn,
                     measured>>
  PROVE  QaInv'
  BY RestingIsGood, OnlyCommand DEF Leave, Become

-----------------------------------------------------------------------------
(* snapshotQa                                                              *)

LEMMA SnapshotQaKeeps ==
  ASSUME QaInv, NEW c \in Commands, SnapshotQa(c)
  PROVE  QaInv'
<1>1. CASE SnapshotHash(c)
  <2> DEFINE name == <<generation, drawn + 1>>
             a == [Resting EXCEPT !.at = "snapshot", !.run = generation,
                    !.snapshot = name, !.saw = <<artifacts, 0>>]
  <2>1. /\ name \in Snapshots /\ generation \in Runs
        /\ <<artifacts, 0>> \in Nat \X Nat /\ snapshots[name] = -1
    BY <1>1 DEF SnapshotHash, QaInv, Stored, Snapshots
  <2> HIDE DEF name
  <2>2. /\ a \in Works /\ a.at = "snapshot" /\ a.snapshot = name
        /\ a.answer = "none"
    BY <2>1, RestingIs DEF Works, QaPhases
  <2> HIDE DEF a
  <2>3. Good(a, artifacts, snapshots, drawn + 1, claims, reports)
    BY <2>1, <2>2 DEF Good, Named, Claimed, Paired, Matched, Holding,
                      Inspecting, name, QaInv, Stored
  <2>4. ASSUME NEW d \in Commands \ {c}
        PROVE  /\ Good(command[d], artifacts, snapshots, drawn + 1, claims,
                       reports)
               /\ Apart(a, command[d])
    <3>1. Good(command[d], artifacts, snapshots, drawn, claims, reports)
      BY DEF QaInv
    <3>2. drawn \in Nat /\ command[d].snapshot[2] \in Nat
      BY <3>1 DEF QaInv, Stored, Good, Works, Snapshots
    <3> QED BY <2>2, <3>1, <3>2 DEF Good, Named, Apart, Holding, name
  <2>5. Stored'
    BY <1>1 DEF SnapshotHash, QaInv, Stored, files, Snapshots
  <2>6. /\ command' = [command EXCEPT ![c] = a] /\ drawn' = drawn + 1
        /\ UNCHANGED <<artifacts, snapshots, claims, reports>>
    BY <1>1 DEF SnapshotHash, Become, files, a, name
  <2> QED BY <2>3, <2>4, <2>5, <2>6, OneCommand
<1>2. CASE SnapshotWrite(c)
  <2> DEFINE name == command[c].snapshot
  <2>1. /\ snapshots' = [snapshots EXCEPT ![name] = artifacts]
        /\ Leave(c) /\ command[c].at = "snapshot"
        /\ UNCHANGED <<artifacts, evidence, generation, claims, reports,
                       latest, drawn, measured>>
    BY <1>2 DEF SnapshotWrite, Is, files
  <2>2. /\ snapshots[name] = -1 /\ name[2] <= drawn /\ name \in Snapshots
    BY <2>1 DEF QaInv, Good, Named, Works
  <2>3. \A s \in Snapshots :
           snapshots'[s] = IF s = name THEN artifacts ELSE snapshots[s]
    BY <2>1 DEF QaInv, Stored
  <2>4. name[2] \in Nat /\ artifacts \in Nat /\ drawn \in Nat
    BY <2>2 DEF QaInv, Stored, Snapshots
  <2>5. Stored'
    <3>1. \A m \in measured : snapshots'[m[1].snapshot] = m[2]
      <4>1. TAKE m \in measured
      <4>2. /\ m[1].snapshot \in Snapshots /\ m[2] \in Nat
            /\ snapshots[m[1].snapshot] = m[2]
        BY DEF QaInv, Stored, Whole
      <4> QED BY <2>2, <2>3, <4>2
    <3>2. \A r \in reports :
             claims[r.snapshot] = r /\ snapshots'[r.snapshot] # -1
      BY <2>3, <2>4 DEF QaInv, Stored, Whole
    <3>3. snapshots' \in [Snapshots -> Nat \union {-1}]
      BY <2>1, <2>4 DEF QaInv, Stored
    <3>4. \A s \in Snapshots : s[2] > drawn => snapshots'[s] = -1
      BY <2>2, <2>3, <2>4 DEF QaInv, Stored
    <3>5. \A s \in Snapshots : snapshots'[s] <= artifacts
      BY <2>3, <2>4 DEF QaInv, Stored
    <3> QED BY <2>1, <3>1, <3>2, <3>3, <3>4, <3>5 DEF QaInv, Stored
  <2>6. ASSUME NEW d \in Commands \ {c}
        PROVE  Good(command[d], artifacts, snapshots', drawn, claims, reports)
    <3>1. /\ Good(command[d], artifacts, snapshots, drawn, claims, reports)
          /\ Apart(command[c], command[d])
      BY DEF QaInv
    <3>2. command[d].at = "snapshot" => command[d].snapshot # name
      BY <2>1, <3>1 DEF Apart
    <3>3. command[d].snapshot \in Snapshots
      BY <3>1 DEF Good, Works
    <3>4. Named(command[d], snapshots', drawn)
      BY <2>3, <2>4, <3>1, <3>2, <3>3 DEF Good, Named
    <3>5. command[d].answer = "current" =>
            /\ command[d].report.snapshot \in Snapshots
            /\ snapshots[command[d].report.snapshot] # -1
      BY <3>1 DEF Good, Claimed, QaInv, Stored, Whole
    <3>6. Paired(command[d], artifacts, snapshots')
      BY <2>2, <2>3, <3>1, <3>3, <3>5 DEF Good, Named, Paired, Matched, Holding
    <3> QED BY <3>1, <3>4, <3>6 DEF Good
  <2> QED BY <2>1, <2>5, <2>6, RestingIsGood, OneCommand DEF Leave, Become
<1>3. CASE SnapshotRejected(c)
  BY <1>3, Leaves DEF SnapshotRejected
<1> QED BY <1>1, <1>2, <1>3 DEF SnapshotQa

-----------------------------------------------------------------------------
(* recordQa                                                                *)

LEMMA RecordStartKeeps ==
  ASSUME QaInv, NEW c \in Commands, NEW id \in 1 .. MaxSnapshots,
         NEW v \in {"PASS", "INCOMPLETE"}, RecordStart(c, id, v)
  PROVE  QaInv'
<1> DEFINE name == <<generation, id>>
           a == [Resting EXCEPT !.at = "hash", !.run = generation,
                  !.snapshot = name, !.verdict = v]
<1>1. /\ name \in Snapshots /\ generation \in Runs
      /\ snapshots[name] = artifacts /\ artifacts \in Nat
  BY DEF RecordStart, QaInv, Stored, Snapshots
<1> HIDE DEF name
<1>2. /\ a \in Works /\ a.at = "hash" /\ a.snapshot = name
      /\ a.answer = "none"
  BY <1>1, RestingIs DEF Works, QaPhases
<1>3. /\ command' = [command EXCEPT ![c] = a]
      /\ UNCHANGED <<files, snapshots, claims, reports, latest, drawn,
                     measured>>
  BY DEF RecordStart, Become, name
<1> HIDE DEF a
<1>4. Good(a, artifacts, snapshots, drawn, claims, reports)
  BY <1>1, <1>2 DEF Good, Named, Claimed, Paired, Matched, Holding, Inspecting
<1>5. \A d \in Commands \ {c} : Apart(a, command[d])
  BY <1>2 DEF Apart, Holding
<1> QED BY <1>3, <1>4, <1>5, OnlyCommand

(* What a command has in hand.                                             *)
LEMMA InHand ==
  ASSUME QaInv, NEW c \in Commands
  PROVE  /\ Good(command[c], artifacts, snapshots, drawn, claims, reports)
         /\ command[c] \in Works /\ command[c].snapshot \in Snapshots
         /\ artifacts \in Nat /\ evidence \in Nat /\ drawn \in Nat
         /\ snapshots[command[c].snapshot] \in Nat \union {-1}
         /\ snapshots[command[c].snapshot] <= artifacts
         /\ \A d \in Commands \ {c} : Apart(command[c], command[d])
  BY DEF QaInv, Stored, Works

LEMMA RecordHashKeeps ==
  ASSUME QaInv, NEW c \in Commands, RecordHash(c)
  PROVE  QaInv'
<1> DEFINE w == command[c]
           seen == <<artifacts, evidence>>
           a == [command[c] EXCEPT !.at = "compare", !.evidence = evidence,
                                   !.saw = seen]
<1>1. seen \in Nat \X Nat /\ seen[1] = artifacts
  BY InHand
<1> HIDE DEF seen
<1>2. /\ a \in Works /\ a.at = "compare" /\ a.snapshot = w.snapshot
      /\ a.saw[1] = artifacts /\ a.answer = w.answer
  BY ZenonT(60), <1>1, InHand DEF Works, QaPhases
<1>3. /\ command' = [command EXCEPT ![c] = a] /\ w.at = "hash"
      /\ UNCHANGED <<files, snapshots, claims, reports, latest, drawn,
                     measured>>
  BY DEF RecordHash, Is, seen
<1> HIDE DEF a
<1>4. Good(a, artifacts, snapshots, drawn, claims, reports)
  BY <1>2, <1>3, InHand DEF Good, Named, Claimed, Paired, Matched, Holding,
                            Inspecting
<1>5. \A d \in Commands \ {c} : Apart(a, command[d])
  BY <1>2 DEF Apart, Holding
<1> QED BY <1>3, <1>4, <1>5, OnlyCommand

(* A step that only changes the phase.                                     *)
LEMMA PhaseFields ==
  ASSUME QaInv, NEW c \in Commands, NEW phase \in QaPhases, Step(c, phase)
  PROVE  \E a \in Works :
           /\ command' = [command EXCEPT ![c] = a]
           /\ a.at = phase /\ a.snapshot = command[c].snapshot
           /\ a.saw = command[c].saw /\ a.report = command[c].report
           /\ a.answer = command[c].answer /\ a.same = command[c].same
           /\ Result(a) = Result(command[c])
<1> DEFINE a == [command[c] EXCEPT !.at = phase]
<1>1. /\ a \in Works /\ a.at = phase /\ a.snapshot = command[c].snapshot
      /\ a.saw = command[c].saw /\ a.report = command[c].report
      /\ a.answer = command[c].answer /\ a.same = command[c].same
      /\ a.evidence = command[c].evidence /\ a.verdict = command[c].verdict
  BY InHand DEF Works
<1>2. command' = [command EXCEPT ![c] = a]
  BY DEF Step
<1> HIDE DEF a
<1>3. Result(a) = Result(command[c])
  BY <1>1 DEF Result
<1> QED BY <1>1, <1>2, <1>3

LEMMA RecordCompareKeeps ==
  ASSUME QaInv, NEW c \in Commands, RecordCompare(c)
  PROVE  QaInv'
<1>1. UNCHANGED <<files, snapshots, claims, reports, latest, drawn, measured>>
  BY DEF RecordCompare
<1>2. CASE Leave(c)
  BY <1>1, <1>2, Leaves
<1>3. CASE SameArtifacts(c) /\ Step(c, "recheck")
  <2>1. PICK a \in Works :
          /\ command' = [command EXCEPT ![c] = a]
          /\ a.at = "recheck" /\ a.snapshot = command[c].snapshot
          /\ a.saw = command[c].saw /\ a.answer = command[c].answer
    BY <1>3, PhaseFields DEF QaPhases
  <2>2. command[c].at = "compare" /\ artifacts = snapshots[command[c].snapshot]
    BY <1>3 DEF RecordCompare, Is, SameArtifacts
  <2>3. a.saw[1] \in Nat
    BY DEF Works
  <2>4. Good(a, artifacts, snapshots, drawn, claims, reports)
    BY <2>1, <2>2, <2>3, InHand
       DEF Good, Named, Claimed, Paired, Matched, Holding, Inspecting
  <2>5. \A d \in Commands \ {c} : Apart(a, command[d])
    BY <2>1 DEF Apart, Holding
  <2> QED BY <1>1, <2>1, <2>4, <2>5, OnlyCommand
<1> QED BY <1>2, <1>3 DEF RecordCompare

LEMMA RecordRecheckKeeps ==
  ASSUME QaInv, NEW c \in Commands, RecordRecheck(c)
  PROVE  QaInv'
<1>1. UNCHANGED <<files, snapshots, claims, reports, latest, drawn, measured>>
  BY DEF RecordRecheck
<1>2. CASE Leave(c)
  BY <1>1, <1>2, Leaves
<1>3. CASE Step(c, "claim")
  <2>1. PICK a \in Works :
          /\ command' = [command EXCEPT ![c] = a]
          /\ a.at = "claim" /\ a.snapshot = command[c].snapshot
          /\ a.saw = command[c].saw /\ a.answer = command[c].answer
    BY <1>3, PhaseFields DEF QaPhases
  <2>2. command[c].at = "recheck"
    BY DEF RecordRecheck, Is
  <2>3. Good(a, artifacts, snapshots, drawn, claims, reports)
    BY <2>1, <2>2, InHand
       DEF Good, Named, Claimed, Paired, Matched, Holding, Inspecting
  <2>4. \A d \in Commands \ {c} : Apart(a, command[d])
    BY <2>1 DEF Apart, Holding
  <2> QED BY <1>1, <2>1, <2>3, <2>4, OnlyCommand
<1> QED BY <1>2, <1>3 DEF RecordRecheck

(* Another command that does not hold the claim of a name does not mind    *)
(* what becomes of it.                                                     *)
LEMMA OthersUnclaimed ==
  ASSUME QaInv, NEW d \in Commands, NEW name \in Snapshots, NEW value,
         claims' = [claims EXCEPT ![name] = value],
         command[d].at \in Holding => command[d].snapshot # name
  PROVE  Claimed(command[d], claims', reports)
<1>1. claims'[command[d].snapshot] = claims[command[d].snapshot]
         \/ command[d].at \notin Holding
  BY InHand DEF QaInv, Stored
<1> QED BY <1>1, InHand DEF Good, Claimed, Holding

(* What the files must satisfy when a claim changes.                       *)
LEMMA StoredClaims ==
  ASSUME QaInv, NEW name \in Snapshots,
         NEW value \in Whole \union {Missing, Torn},
         claims' = [claims EXCEPT ![name] = value],
         claims[name] \in {Missing, Torn},
         UNCHANGED <<files, snapshots, reports, latest, drawn, measured>>
  PROVE  Stored'
<1>1. claims' \in [Snapshots -> Whole \union {Missing, Torn}]
  BY DEF QaInv, Stored
<1>2. ASSUME NEW r \in reports PROVE claims'[r.snapshot] = r
  <2>1. r \in Whole /\ claims[r.snapshot] = r /\ r.snapshot \in Snapshots
    BY DEF QaInv, Stored, Whole
  <2>2. r.is = "report" /\ Missing.is = "missing" /\ Torn.is = "torn"
    BY <2>1 DEF Whole, Missing, Torn
  <2>3. r.snapshot # name
    BY <2>1, <2>2
  <2> QED BY <2>1, <2>3 DEF QaInv, Stored
<1> QED BY <1>1, <1>2 DEF QaInv, Stored, files

LEMMA ResultIs ==
  ASSUME NEW a \in Works
  PROVE  /\ Result(a) \in Whole /\ Result(a).snapshot = a.snapshot
         /\ Result(a) \notin {Missing, Torn}
<1>1. Result(a) \in Whole /\ Result(a).is = "report"
  BY DEF Result, Report, Whole, Works
<1>2. Missing.is = "missing" /\ Torn.is = "torn"
  BY DEF Missing, Torn
<1> QED BY <1>1, <1>2 DEF Result, Report

LEMMA RecordClaimKeeps ==
  ASSUME QaInv, NEW c \in Commands, RecordClaim(c)
  PROVE  QaInv'
<1> DEFINE name == command[c].snapshot
<1>1. /\ claims' = [claims EXCEPT ![name] = Torn] /\ claims[name] = Missing
      /\ Step(c, "fill") /\ command[c].at = "claim"
      /\ UNCHANGED <<files, snapshots, reports, latest, drawn, measured>>
  BY DEF RecordClaim, Is
<1>2. name \in Snapshots /\ claims'[name] = Torn
  BY <1>1, InHand DEF QaInv, Stored
<1>3. Stored'
  BY <1>1, <1>2, StoredClaims
<1>4. PICK a \in Works :
        /\ command' = [command EXCEPT ![c] = a]
        /\ a.at = "fill" /\ a.snapshot = command[c].snapshot
        /\ a.saw = command[c].saw /\ a.answer = command[c].answer
  BY <1>1, PhaseFields DEF QaPhases
<1>5. Good(a, artifacts, snapshots, drawn, claims', reports)
  BY <1>1, <1>2, <1>4, InHand
     DEF Good, Named, Claimed, Paired, Matched, Holding, Inspecting
<1>6. ASSUME NEW d \in Commands \ {c}
      PROVE  /\ Good(command[d], artifacts, snapshots, drawn, claims', reports)
             /\ Apart(a, command[d])
  <2>1. Good(command[d], artifacts, snapshots, drawn, claims, reports)
    BY InHand
  <2>2. command[d].at \in Holding => command[d].snapshot # name
    <3>1. CASE command[d].at = "fill"
      <4>1. Missing.is = "missing" /\ Torn.is = "torn"
        BY DEF Missing, Torn
      <4> QED BY <1>1, <2>1, <3>1, <4>1 DEF Good, Claimed
    <3>2. CASE command[d].at \in {"report", "point"}
      BY <1>1, <2>1, <3>2, ResultIs DEF Good, Claimed
    <3> QED BY <3>1, <3>2 DEF Holding
  <2>3. Claimed(command[d], claims', reports)
    BY <1>1, <1>2, <2>2, OthersUnclaimed
  <2> QED BY <1>4, <2>1, <2>2, <2>3 DEF Good, Apart, Holding
<1> QED BY <1>1, <1>3, <1>4, <1>5, <1>6, OneCommand DEF files

LEMMA RecordFillKeeps ==
  ASSUME QaInv, NEW c \in Commands, RecordFill(c)
  PROVE  QaInv'
<1> DEFINE name == command[c].snapshot
<1>1. /\ claims' = [claims EXCEPT ![name] = Result(command[c])]
      /\ Step(c, "report") /\ command[c].at = "fill"
      /\ UNCHANGED <<files, snapshots, reports, latest, drawn, measured>>
  BY DEF RecordFill, Is, Assessment, Result
<1>2. /\ name \in Snapshots /\ claims'[name] = Result(command[c])
      /\ claims[name] = Torn /\ Result(command[c]) \in Whole
  BY <1>1, InHand, ResultIs DEF QaInv, Stored, Good, Claimed
<1>3. Stored'
  BY <1>1, <1>2, StoredClaims
<1>4. PICK a \in Works :
        /\ command' = [command EXCEPT ![c] = a]
        /\ a.at = "report" /\ a.snapshot = command[c].snapshot
        /\ a.saw = command[c].saw /\ a.answer = command[c].answer
        /\ Result(a) = Result(command[c])
  BY <1>1, PhaseFields DEF QaPhases
<1>5. Good(a, artifacts, snapshots, drawn, claims', reports)
  BY <1>1, <1>2, <1>4, InHand
     DEF Good, Named, Claimed, Paired, Matched, Holding, Inspecting
<1>6. ASSUME NEW d \in Commands \ {c}
      PROVE  /\ Good(command[d], artifacts, snapshots, drawn, claims', reports)
             /\ Apart(a, command[d])
  <2>1. /\ Good(command[d], artifacts, snapshots, drawn, claims, reports)
        /\ Apart(command[c], command[d])
    BY InHand
  <2>2. command[d].at \in Holding => command[d].snapshot # name
    BY <1>1, <2>1 DEF Apart, Holding
  <2>3. Claimed(command[d], claims', reports)
    BY <1>1, <1>2, <2>2, OthersUnclaimed
  <2> QED BY <1>4, <2>1, <2>2, <2>3 DEF Good, Apart, Holding
<1> QED BY <1>1, <1>3, <1>4, <1>5, <1>6, OneCommand DEF files

LEMMA RecordFillFailsKeeps ==
  ASSUME QaInv, NEW c \in Commands, RecordFillFails(c)
  PROVE  QaInv'
<1> DEFINE name == command[c].snapshot
<1>1. /\ claims' = [claims EXCEPT ![name] = Missing]
      /\ Leave(c) /\ command[c].at = "fill"
      /\ UNCHANGED <<files, snapshots, reports, latest, drawn, measured>>
  BY DEF RecordFillFails, Is
<1>2. name \in Snapshots /\ claims[name] = Torn
  BY <1>1, InHand DEF Good, Claimed
<1>3. Stored'
  BY <1>1, <1>2, StoredClaims
<1>4. ASSUME NEW d \in Commands \ {c}
      PROVE  Good(command[d], artifacts, snapshots, drawn, claims', reports)
  <2>1. /\ Good(command[d], artifacts, snapshots, drawn, claims, reports)
        /\ Apart(command[c], command[d])
    BY InHand
  <2>2. command[d].at \in Holding => command[d].snapshot # name
    BY <1>1, <2>1 DEF Apart, Holding
  <2>3. Claimed(command[d], claims', reports)
    BY <1>1, <1>2, <2>2, OthersUnclaimed
  <2> QED BY <2>1, <2>3 DEF Good
<1> QED BY <1>1, <1>3, <1>4, RestingIsGood, OneCommand DEF files, Leave, Become

(* More reports do no harm.                                                *)
LEMMA MoreReports ==
  ASSUME NEW a, NEW now, NEW snaps, NEW n, NEW held, NEW kept, NEW more,
         Good(a, now, snaps, n, held, kept), kept \subseteq more
  PROVE  Good(a, now, snaps, n, held, more)
  BY DEF Good, Claimed

LEMMA RecordReportKeeps ==
  ASSUME QaInv, NEW c \in Commands, RecordReport(c)
  PROVE  QaInv'
<1> DEFINE r == Result(command[c])
<1>1. /\ reports' = reports \union {r}
      /\ measured' = measured \union {<<r, command[c].saw[1]>>}
      /\ Step(c, "point") \/ Leave(c)
      /\ command[c].at = "report"
      /\ UNCHANGED <<files, snapshots, claims, latest, drawn>>
  BY DEF RecordReport, Is, Assessment, Result
<1>2. /\ r \in Whole /\ r.snapshot = command[c].snapshot
      /\ claims[r.snapshot] = r /\ snapshots[r.snapshot] # -1
      /\ command[c].saw[1] \in Nat /\ command[c].saw[1] = snapshots[r.snapshot]
  BY <1>1, InHand, ResultIs
     DEF Good, Named, Claimed, Paired, Matched, Holding, Works
<1> HIDE DEF r
<1>3. Stored'
  BY <1>1, <1>2 DEF QaInv, Stored, files
<1>4. \A d \in Commands \ {c} :
        /\ Good(command[d], artifacts, snapshots, drawn, claims, reports')
        /\ Apart(command[c], command[d])
  BY <1>1, InHand, MoreReports
<1>5. CASE Leave(c)
  BY <1>1, <1>3, <1>4, <1>5, RestingIsGood, OneCommand DEF files, Leave, Become
<1>6. CASE Step(c, "point")
  <2>1. PICK a \in Works :
          /\ command' = [command EXCEPT ![c] = a]
          /\ a.at = "point" /\ a.snapshot = command[c].snapshot
          /\ a.saw = command[c].saw /\ a.answer = command[c].answer
          /\ Result(a) = r
    BY <1>6, PhaseFields DEF QaPhases, r
  <2>2. Good(a, artifacts, snapshots, drawn, claims, reports')
    BY <1>1, <1>2, <2>1, InHand
       DEF Good, Named, Claimed, Paired, Matched, Holding, Inspecting
  <2>3. \A d \in Commands \ {c} : Apart(a, command[d])
    BY <1>1, <1>4, <2>1 DEF Apart, Holding
  <2> QED BY <1>1, <1>3, <1>4, <2>1, <2>2, <2>3, OneCommand DEF files
<1> QED BY <1>1, <1>5, <1>6

LEMMA RecordPointKeeps ==
  ASSUME QaInv, NEW c \in Commands, RecordPoint(c)
  PROVE  QaInv'
<1>1. /\ latest' = [latest EXCEPT ![command[c].run] = Result(command[c])]
      /\ Leave(c) /\ command[c].at = "point"
      /\ UNCHANGED <<files, snapshots, claims, reports, drawn, measured>>
  BY DEF RecordPoint, Is, Assessment, Result
<1>2. Result(command[c]) \in reports /\ Result(command[c]) \in Whole
  BY <1>1, InHand, ResultIs DEF Good, Claimed
<1>3. Stored'
  BY <1>1, <1>2 DEF QaInv, Stored, files
<1> QED BY <1>1, <1>3, InHand, RestingIsGood, OneCommand
        DEF files, Leave, Become

LEMMA RecordQaKeeps ==
  ASSUME QaInv, NEW c \in Commands, RecordQa(c)
  PROVE  QaInv'
<1>1. CASE RecordTooLate(c)
  BY <1>1, Leaves DEF RecordTooLate
<1> QED BY <1>1, RecordStartKeeps, RecordHashKeeps, RecordCompareKeeps,
           RecordRecheckKeeps, RecordClaimKeeps, RecordFillKeeps,
           RecordFillFailsKeeps, RecordReportKeeps, RecordPointKeeps
        DEF RecordQa

-----------------------------------------------------------------------------
(* inspectQa                                                               *)

LEMMA InspectStartKeeps ==
  ASSUME QaInv, NEW c \in Commands, InspectStart(c)
  PROVE  QaInv'
<1> DEFINE r == latest[generation]
           found == r \in reports /\ claims[r.snapshot] = r
           none == [Resting EXCEPT !.answer = "missing"]
           bad  == [Resting EXCEPT !.answer = "invalid"]
           same == snapshots[r.snapshot] = artifacts
           a    == [Resting EXCEPT !.at = "first", !.run = generation,
                     !.snapshot = r.snapshot, !.report = r, !.same = same]
<1>1. UNCHANGED <<files, snapshots, claims, reports, latest, drawn, measured>>
  BY DEF InspectStart
<1>2. CASE command' = [command EXCEPT ![c] = none]
  <2>1. none \in Works /\ none.at = "rest" /\ none.answer = "missing"
    BY RestingIs DEF Works
  <2> HIDE DEF none
  <2>2. Good(none, artifacts, snapshots, drawn, claims, reports)
    BY <2>1 DEF Good, Named, Claimed, Paired, Matched, Holding, Inspecting
  <2>3. \A d \in Commands \ {c} : Apart(none, command[d])
    BY <2>1 DEF Apart, Holding
  <2> QED BY <1>1, <1>2, <2>2, <2>3, OnlyCommand
<1>3. CASE command' = [command EXCEPT ![c] = bad]
  <2>1. bad \in Works /\ bad.at = "rest" /\ bad.answer = "invalid"
    BY RestingIs DEF Works
  <2> HIDE DEF bad
  <2>2. Good(bad, artifacts, snapshots, drawn, claims, reports)
    BY <2>1 DEF Good, Named, Claimed, Paired, Matched, Holding, Inspecting
  <2>3. \A d \in Commands \ {c} : Apart(bad, command[d])
    BY <2>1 DEF Apart, Holding
  <2> QED BY <1>1, <1>3, <2>2, <2>3, OnlyCommand
<1>4. CASE found /\ command' = [command EXCEPT ![c] = a]
  <2>1. /\ r \in Whole /\ r \in reports /\ r.snapshot \in Snapshots
        /\ generation \in Runs /\ snapshots[r.snapshot] # -1
    BY <1>4 DEF QaInv, Stored, Whole
  <2> HIDE DEF r, same
  <2>2. same \in BOOLEAN
    BY DEF same
  <2>3. /\ a \in Works /\ a.at = "first" /\ a.snapshot = r.snapshot
        /\ a.report = r /\ a.answer = "none"
    BY <2>1, <2>2, RestingIs DEF Works, QaPhases
  <2> HIDE DEF a
  <2>4. Good(a, artifacts, snapshots, drawn, claims, reports)
    BY <2>1, <2>3 DEF Good, Named, Claimed, Paired, Matched, Holding,
                      Inspecting
  <2>5. \A d \in Commands \ {c} : Apart(a, command[d])
    BY <2>3 DEF Apart, Holding
  <2> QED BY <1>1, <1>4, <2>4, <2>5, OnlyCommand
<1> QED BY <1>2, <1>3, <1>4 DEF InspectStart, Become

LEMMA InspectEvidenceKeeps ==
  ASSUME QaInv, NEW c \in Commands, InspectEvidence(c)
  PROVE  QaInv'
<1> DEFINE w == command[c]
           seen == <<artifacts, evidence>>
           same == w.same /\ evidence = w.report.evidence
           a == [command[c] EXCEPT !.at = "second", !.saw = seen,
                                   !.during = generation, !.same = same]
<1>1. /\ seen \in Nat \X Nat /\ seen[1] = artifacts /\ seen[2] = evidence
      /\ same \in BOOLEAN /\ (same => evidence = w.report.evidence)
      /\ generation \in Runs
  BY InHand DEF Works, QaInv, Stored
<1>2. /\ command' = [command EXCEPT ![c] = a] /\ w.at = "first"
      /\ UNCHANGED <<files, snapshots, claims, reports, latest, drawn,
                     measured>>
  BY DEF InspectEvidence, Is
<1> HIDE DEF seen, same
<1>3. /\ a \in Works /\ a.at = "second" /\ a.snapshot = w.snapshot
      /\ a.saw = seen /\ a.answer = w.answer /\ a.report = w.report
      /\ a.same = same
  BY ZenonT(60), <1>1, InHand DEF Works, QaPhases
<1> HIDE DEF a
<1>4. Good(a, artifacts, snapshots, drawn, claims, reports)
  BY <1>1, <1>2, <1>3, InHand
     DEF Good, Named, Claimed, Paired, Matched, Holding, Inspecting
<1>5. \A d \in Commands \ {c} : Apart(a, command[d])
  BY <1>3 DEF Apart, Holding
<1> QED BY <1>2, <1>4, <1>5, OnlyCommand

LEMMA InspectArtifactsKeeps ==
  ASSUME QaInv, NEW c \in Commands, InspectArtifacts(c)
  PROVE  QaInv'
<1> DEFINE w == command[c]
           same == w.same /\ SameArtifacts(c)
           a == [command[c] EXCEPT !.at = "last", !.same = same]
<1>1. /\ same \in BOOLEAN
      /\ same => w.same /\ artifacts = snapshots[w.snapshot]
  BY InHand DEF Works, SameArtifacts
<1>2. /\ command' = [command EXCEPT ![c] = a] /\ w.at = "second"
      /\ UNCHANGED <<files, snapshots, claims, reports, latest, drawn,
                     measured>>
  BY DEF InspectArtifacts, Is
<1> HIDE DEF same
<1>3. /\ a \in Works /\ a.at = "last" /\ a.snapshot = w.snapshot
      /\ a.saw = w.saw /\ a.answer = w.answer /\ a.report = w.report
      /\ a.same = same
  BY ZenonT(60), <1>1, InHand DEF Works, QaPhases
<1> HIDE DEF a
<1>4. w.saw[1] \in Nat
  BY InHand DEF Works
<1>5. Good(a, artifacts, snapshots, drawn, claims, reports)
  BY <1>1, <1>2, <1>3, <1>4, InHand
     DEF Good, Named, Claimed, Paired, Matched, Holding, Inspecting
<1>6. \A d \in Commands \ {c} : Apart(a, command[d])
  BY <1>3 DEF Apart, Holding
<1> QED BY <1>2, <1>5, <1>6, OnlyCommand

LEMMA InspectAnswerKeeps ==
  ASSUME QaInv, NEW c \in Commands, InspectAnswer(c)
  PROVE  QaInv'
<1> DEFINE w == command[c]
           x == IF latest[w.run] # w.report \/ ~SameRun(c) THEN "invalid"
                ELSE IF w.same THEN "current" ELSE "stale"
           a == [command[c] EXCEPT !.at = "rest", !.answer = x]
<1>1. x \in {"invalid", "current", "stale"} /\ (x = "current" => w.same)
  OBVIOUS
<1>2. /\ command' = [command EXCEPT ![c] = a] /\ w.at = "last"
      /\ UNCHANGED <<files, snapshots, claims, reports, latest, drawn,
                     measured>>
  BY DEF InspectAnswer, Is
<1> HIDE DEF x
<1>3. /\ a \in Works /\ a.at = "rest" /\ a.snapshot = w.snapshot
      /\ a.saw = w.saw /\ a.answer = x /\ a.report = w.report
  BY ZenonT(60), <1>1, InHand DEF Works, QaPhases
<1> HIDE DEF a
<1>4. Good(a, artifacts, snapshots, drawn, claims, reports)
  BY <1>1, <1>2, <1>3, InHand
     DEF Good, Named, Claimed, Paired, Matched, Holding, Inspecting
<1>5. \A d \in Commands \ {c} : Apart(a, command[d])
  BY <1>3 DEF Apart, Holding
<1> QED BY <1>2, <1>4, <1>5, OnlyCommand

-----------------------------------------------------------------------------
LEMMA EditFilesKeeps == ASSUME QaInv, EditFiles PROVE QaInv'
<1>1. /\ artifacts' \in Nat /\ evidence' \in Nat /\ artifacts <= artifacts'
      /\ UNCHANGED <<generation, snapshots, claims, reports, latest, command,
                     drawn, measured>>
  BY DEF EditFiles, QaInv, Stored
<1>2. Stored'
  BY <1>1 DEF QaInv, Stored
<1>3. ASSUME NEW c \in Commands
      PROVE  Good(command[c], artifacts', snapshots, drawn, claims, reports)
  <2>1. command[c].saw[1] \in Nat
    BY InHand DEF Works
  <2> QED BY <1>1, <2>1, InHand DEF Good, Paired
<1> QED BY <1>1, <1>2, <1>3 DEF QaInv

LEMMA QaInvStep == QaInv /\ [QaNext]_qaVars => QaInv'
<1> SUFFICES ASSUME QaInv, [QaNext]_qaVars PROVE QaInv'
  OBVIOUS
<1>1. ASSUME NEW c \in Commands, SnapshotQa(c) \/ RecordQa(c) PROVE QaInv'
  BY <1>1, SnapshotQaKeeps, RecordQaKeeps
<1>2. ASSUME NEW c \in Commands, InspectQa(c) PROVE QaInv'
  BY <1>2, InspectStartKeeps, InspectEvidenceKeeps, InspectArtifactsKeeps,
     InspectAnswerKeeps DEF InspectQa
<1>3. ASSUME NEW c \in Commands, CommandDies(c) PROVE QaInv'
  BY <1>3, Leaves DEF CommandDies
<1>4. CASE EditFiles
  BY <1>4, EditFilesKeeps
<1>5. CASE NewRun
  BY <1>5 DEF NewRun, QaInv, Stored, Runs
<1>6. CASE UNCHANGED qaVars
  BY <1>6 DEF qaVars, QaInv, Stored
<1> QED BY <1>1, <1>2, <1>3, <1>4, <1>5, <1>6 DEF QaNext

-----------------------------------------------------------------------------
(* The runs: what a command has in hand is of the run it began in, and the *)
(* active run only moves on, so an inspection that ends in its run was in  *)
(* it all the time.                                                        *)

InRun(a, g) ==
  /\ a.at # "rest" => a.run <= g /\ a.snapshot[1] = a.run
  /\ a.at \in {"second", "last"} => a.run <= a.during /\ a.during <= g
  /\ a.answer = "current" => a.during = a.run /\ a.report.snapshot[1] = a.run

RunInv ==
  /\ \A c \in Commands : InRun(command[c], generation)
  /\ \A g \in Runs : latest[g] # Missing => latest[g].snapshot[1] = g

LEMMA RunInvInit == QaInit => RunInv
  BY RestingIs DEF QaInit, RunInv, InRun

LEMMA OneInRun ==
  ASSUME QaInv, RunInv, NEW c \in Commands, NEW a,
         command' = [command EXCEPT ![c] = a],
         UNCHANGED <<generation, latest>>, InRun(a, generation)
  PROVE  RunInv'
<1>1. /\ command'[c] = a
      /\ \A d \in Commands \ {c} : command'[d] = command[d]
  BY DEF QaInv
<1> QED BY <1>1 DEF RunInv

LEMMA LeavesRun ==
  ASSUME QaInv, RunInv, NEW c \in Commands, Leave(c),
         UNCHANGED <<generation, latest>>
  PROVE  RunInv'
<1>1. InRun(Resting, generation)
  BY RestingIs DEF InRun
<1> QED BY <1>1, OneInRun DEF Leave, Become

(* A record goes on, with what it has in hand.                             *)
LEMMA StepInRun ==
  ASSUME QaInv, RunInv, NEW c \in Commands, NEW phase \in QaPhases,
         Step(c, phase), command[c].at # "rest",
         phase \in {"second", "last"} => command[c].at \in {"second", "last"},
         UNCHANGED <<generation, latest>>
  PROVE  RunInv'
<1> DEFINE a == [command[c] EXCEPT !.at = phase]
<1>1. /\ a.at = phase /\ a.snapshot = command[c].snapshot
      /\ a.run = command[c].run /\ a.during = command[c].during
      /\ a.report = command[c].report /\ a.answer = command[c].answer
  BY InHand DEF Works
<1>2. command' = [command EXCEPT ![c] = a]
  BY DEF Step
<1> HIDE DEF a
<1>3. InRun(command[c], generation)
  BY DEF RunInv
<1>4. InRun(a, generation)
  BY <1>1, <1>3 DEF InRun
<1> QED BY <1>2, <1>4, OneInRun

LEMMA SnapshotInRun ==
  ASSUME QaInv, RunInv, NEW c \in Commands, SnapshotQa(c)
  PROVE  RunInv'
<1>1. CASE SnapshotHash(c)
  <2> DEFINE name == <<generation, drawn + 1>>
             a == [Resting EXCEPT !.at = "snapshot", !.run = generation,
                    !.snapshot = name, !.saw = <<artifacts, 0>>]
  <2>1. /\ command' = [command EXCEPT ![c] = a]
        /\ UNCHANGED <<generation, latest>>
    BY <1>1 DEF SnapshotHash, Become, files
  <2>2. generation \in Runs /\ name[1] = generation
    BY DEF QaInv, Stored
  <2> HIDE DEF name
  <2>3. /\ a.at = "snapshot" /\ a.run = generation /\ a.snapshot = name
        /\ a.answer = "none"
    BY RestingIs DEF Works
  <2> HIDE DEF a
  <2>4. InRun(a, generation)
    BY <2>2, <2>3 DEF InRun, Runs
  <2> QED BY <2>1, <2>4, OneInRun
<1>2. CASE SnapshotWrite(c)
  BY <1>2, LeavesRun DEF SnapshotWrite, files
<1>3. CASE SnapshotRejected(c)
  BY <1>3, LeavesRun DEF SnapshotRejected, files
<1> QED BY <1>1, <1>2, <1>3 DEF SnapshotQa

LEMMA RecordStartInRun ==
  ASSUME QaInv, RunInv, NEW c \in Commands, NEW id \in 1 .. MaxSnapshots,
         NEW v \in {"PASS", "INCOMPLETE"}, RecordStart(c, id, v)
  PROVE  RunInv'
<1> DEFINE name == <<generation, id>>
           a == [Resting EXCEPT !.at = "hash", !.run = generation,
                  !.snapshot = name, !.verdict = v]
<1>1. /\ command' = [command EXCEPT ![c] = a]
      /\ UNCHANGED <<generation, latest>>
  BY DEF RecordStart, Become, files
<1>2. generation \in Runs /\ name[1] = generation
  BY DEF QaInv, Stored
<1> HIDE DEF name
<1>3. /\ a.at = "hash" /\ a.run = generation /\ a.snapshot = name
      /\ a.answer = "none"
  BY RestingIs DEF Works
<1> HIDE DEF a
<1>4. InRun(a, generation)
  BY <1>2, <1>3 DEF InRun, Runs
<1> QED BY <1>1, <1>4, OneInRun

LEMMA RecordHashInRun ==
  ASSUME QaInv, RunInv, NEW c \in Commands, RecordHash(c)
  PROVE  RunInv'
<1> DEFINE a == [command[c] EXCEPT !.at = "compare", !.evidence = evidence,
                                   !.saw = <<artifacts, evidence>>]
<1>1. /\ a.at = "compare" /\ a.snapshot = command[c].snapshot
      /\ a.run = command[c].run /\ a.during = command[c].during
      /\ a.report = command[c].report /\ a.answer = command[c].answer
  BY InHand DEF Works
<1>2. /\ command' = [command EXCEPT ![c] = a] /\ command[c].at = "hash"
      /\ UNCHANGED <<generation, latest>>
  BY DEF RecordHash, Is, files
<1> HIDE DEF a
<1>3. InRun(command[c], generation)
  BY DEF RunInv
<1>4. InRun(a, generation)
  BY <1>1, <1>2, <1>3 DEF InRun
<1> QED BY <1>2, <1>4, OneInRun

(* The pointer is replaced in the directory of the report's own run.       *)
LEMMA RecordPointInRun ==
  ASSUME QaInv, RunInv, NEW c \in Commands, RecordPoint(c)
  PROVE  RunInv'
<1>1. /\ latest' = [latest EXCEPT ![command[c].run] = Result(command[c])]
      /\ command' = [command EXCEPT ![c] = Resting]
      /\ command[c].at = "point" /\ generation' = generation
  BY DEF RecordPoint, Is, Assessment, Result, Leave, Become, files
<1>2. Result(command[c]).snapshot[1] = command[c].run
  BY <1>1 DEF RunInv, InRun, Result, Report
<1>3. ASSUME NEW g \in Runs, latest'[g] # Missing
      PROVE  latest'[g].snapshot[1] = g
  BY <1>1, <1>2, <1>3 DEF QaInv, Stored, RunInv
<1>4. InRun(Resting, generation)
  BY RestingIs DEF InRun
<1>5. \A d \in Commands : InRun(command'[d], generation)
  BY <1>1, <1>4 DEF QaInv, RunInv
<1> QED BY <1>1, <1>3, <1>5 DEF RunInv

LEMMA RecordInRun ==
  ASSUME QaInv, RunInv, NEW c \in Commands, RecordQa(c)
  PROVE  RunInv'
<1>1. CASE RecordCompare(c) \/ RecordRecheck(c)
  BY <1>1, LeavesRun, StepInRun
     DEF RecordCompare, RecordRecheck, Is, files, QaPhases
<1>2. CASE RecordClaim(c) \/ RecordFill(c)
  BY <1>2, StepInRun DEF RecordClaim, RecordFill, Is, files, QaPhases
<1>3. CASE RecordTooLate(c) \/ RecordFillFails(c)
  BY <1>3, LeavesRun DEF RecordTooLate, RecordFillFails, files
<1>4. CASE RecordReport(c)
  BY <1>4, LeavesRun, StepInRun DEF RecordReport, Is, files, QaPhases
<1> QED BY <1>1, <1>2, <1>3, <1>4, RecordStartInRun, RecordHashInRun,
           RecordPointInRun DEF RecordQa

LEMMA InspectInRun ==
  ASSUME QaInv, RunInv, NEW c \in Commands, InspectQa(c)
  PROVE  RunInv'
<1> DEFINE w == command[c]
<1>1. InRun(w, generation) /\ generation \in Runs /\ w \in Works
  BY InHand DEF RunInv, QaInv, Stored
<1>2. CASE InspectStart(c)
  <2> DEFINE r == latest[generation]
             none == [Resting EXCEPT !.answer = "missing"]
             bad  == [Resting EXCEPT !.answer = "invalid"]
             same == snapshots[r.snapshot] = artifacts
             a    == [Resting EXCEPT !.at = "first", !.run = generation,
                       !.snapshot = r.snapshot, !.report = r, !.same = same]
  <2>1. UNCHANGED <<generation, latest>>
    BY <1>2 DEF InspectStart, files
  <2>2. /\ none.at = "rest" /\ none.answer = "missing"
        /\ bad.at = "rest" /\ bad.answer = "invalid"
    BY RestingIs DEF Works
  <2>3. /\ a.at = "first" /\ a.run = generation /\ a.snapshot = r.snapshot
        /\ a.answer = "none"
    BY RestingIs DEF Works
  <2>4. \/ command' = [command EXCEPT ![c] = none]
        \/ command' = [command EXCEPT ![c] = bad]
        \/ r # Missing /\ command' = [command EXCEPT ![c] = a]
    BY <1>2 DEF InspectStart, Become
  <2> HIDE DEF none, bad, a
  <2>5. InRun(none, generation) /\ InRun(bad, generation)
    BY <2>2 DEF InRun
  <2>6. r # Missing => InRun(a, generation)
    BY <1>1, <2>3 DEF RunInv, InRun, Runs
  <2> QED BY <2>1, <2>4, <2>5, <2>6, OneInRun
<1>3. CASE InspectEvidence(c)
  <2> DEFINE a == [command[c] EXCEPT !.at = "second",
                     !.saw = <<artifacts, evidence>>, !.during = generation,
                     !.same = w.same /\ evidence = w.report.evidence]
  <2>1. /\ command' = [command EXCEPT ![c] = a] /\ w.at = "first"
        /\ UNCHANGED <<generation, latest>>
    BY <1>3 DEF InspectEvidence, Is, files
  <2>2. /\ a.at = "second" /\ a.snapshot = w.snapshot /\ a.run = w.run
        /\ a.during = generation /\ a.answer = w.answer
        /\ a.report = w.report
    BY <1>1 DEF Works
  <2> HIDE DEF a
  <2>3. w.answer = "none"
    BY <2>1, InHand DEF Good, Paired
  <2>4. InRun(a, generation)
    BY <1>1, <2>1, <2>2, <2>3 DEF InRun, Runs
  <2> QED BY <2>1, <2>4, OneInRun
<1>4. CASE InspectArtifacts(c)
  <2> DEFINE a == [command[c] EXCEPT !.at = "last",
                                     !.same = w.same /\ SameArtifacts(c)]
  <2>1. /\ command' = [command EXCEPT ![c] = a] /\ w.at = "second"
        /\ UNCHANGED <<generation, latest>>
    BY <1>4 DEF InspectArtifacts, Is, files
  <2>2. /\ a.at = "last" /\ a.snapshot = w.snapshot /\ a.run = w.run
        /\ a.during = w.during /\ a.answer = w.answer
        /\ a.report = w.report
    BY <1>1 DEF Works
  <2> HIDE DEF a
  <2>3. InRun(a, generation)
    BY <1>1, <2>1, <2>2 DEF InRun
  <2> QED BY <2>1, <2>3, OneInRun
<1>5. CASE InspectAnswer(c)
  <2> DEFINE x == IF latest[w.run] # w.report \/ ~SameRun(c) THEN "invalid"
                  ELSE IF w.same THEN "current" ELSE "stale"
             a == [command[c] EXCEPT !.at = "rest", !.answer = x]
  <2>1. /\ command' = [command EXCEPT ![c] = a] /\ w.at = "last"
        /\ UNCHANGED <<generation, latest>>
    BY <1>5 DEF InspectAnswer, Is, files
  <2>2. x = "current" => generation = w.run
    BY DEF SameRun
  <2> HIDE DEF x
  <2>3. /\ a.at = "rest" /\ a.run = w.run /\ a.during = w.during
        /\ a.answer = x /\ a.report = w.report
    BY <1>1 DEF Works
  <2> HIDE DEF a
  <2>4. w.report.snapshot = w.snapshot
    BY <2>1, InHand DEF Good, Claimed, Inspecting
  <2>5. w.run \in Int /\ w.during \in Int
    BY <1>1 DEF Works, Runs
  <2>6. InRun(a, generation)
    BY <1>1, <2>1, <2>2, <2>3, <2>4, <2>5 DEF InRun
  <2> QED BY <2>1, <2>6, OneInRun
<1> QED BY <1>2, <1>3, <1>4, <1>5 DEF InspectQa

LEMMA RunInvStep == QaInv /\ RunInv /\ [QaNext]_qaVars => RunInv'
<1> SUFFICES ASSUME QaInv, RunInv, [QaNext]_qaVars PROVE RunInv'
  OBVIOUS
<1>1. ASSUME NEW c \in Commands,
             SnapshotQa(c) \/ RecordQa(c) \/ InspectQa(c)
      PROVE  RunInv'
  BY <1>1, SnapshotInRun, RecordInRun, InspectInRun
<1>2. ASSUME NEW c \in Commands, CommandDies(c) PROVE RunInv'
  BY <1>2, LeavesRun DEF CommandDies, files
<1>3. CASE NewRun
  <2>1. /\ generation \in Int /\ generation' = generation + 1
        /\ UNCHANGED <<command, latest>>
    BY <1>3 DEF NewRun, QaInv, Stored, Runs
  <2>2. ASSUME NEW c \in Commands PROVE InRun(command[c], generation')
    <3>1. command[c].run \in Int /\ command[c].during \in Int
      BY InHand DEF Works, Runs
    <3> QED BY <2>1, <3>1 DEF RunInv, InRun
  <2> QED BY <2>1, <2>2 DEF RunInv
<1>4. CASE EditFiles \/ UNCHANGED qaVars
  BY <1>4 DEF EditFiles, qaVars, RunInv
<1> QED BY <1>1, <1>2, <1>3, <1>4 DEF QaNext

-----------------------------------------------------------------------------
(* There is one report of a snapshot, whoever records it and however often *)
(* commands fail, and the pointer of a generation names a complete report  *)
(* that holds its claim (recordQa).                                        *)
THEOREM SnapshotsAreAssessedOnce == QaSpec => []OneAssessment
<1>1. QaInv => OneAssessment
  BY DEF QaInv, Stored, OneAssessment
<1> QED BY <1>1, QaInvInit, QaInvStep, PTL DEF QaSpec

(* The evidence of a report was hashed while the artifacts were those of   *)
(* its snapshot (recordQa).                                                *)
THEOREM EvidenceBelongsToSnapshot == QaSpec => []EvidenceOfSnapshot
<1>1. QaInv => EvidenceOfSnapshot
  BY DEF QaInv, Stored, EvidenceOfSnapshot
<1> QED BY <1>1, QaInvInit, QaInvStep, PTL DEF QaSpec

(* An inspection that answers "current" saw a moment at which artifacts    *)
(* and evidence both were those of the report, in the run it was asked for *)
(* and whose report it is (inspectQa).                                     *)
THEOREM CurrentAnswersAreTrue == QaSpec => []CurrentIsTrue
<1>1. QaInv /\ RunInv => CurrentIsTrue
  <2> SUFFICES ASSUME QaInv, RunInv, NEW c \in Commands,
                      command[c].answer = "current"
               PROVE  /\ command[c].saw =
                           <<snapshots[command[c].report.snapshot],
                             command[c].report.evidence>>
                      /\ command[c].during = command[c].run
                      /\ command[c].report.snapshot[1] = command[c].run
    BY DEF CurrentIsTrue
  <2>1. command[c].saw \in Nat \X Nat
    BY InHand DEF Works
  <2>2. InRun(command[c], generation)
    BY DEF RunInv
  <2> QED BY <2>1, <2>2, InHand DEF Good, Paired, InRun
<1> QED BY <1>1, QaInvInit, QaInvStep, RunInvInit, RunInvStep, PTL DEF QaSpec

HIDE QaAssumption

-----------------------------------------------------------------------------
(***************************************************************************)
(* That a verdict of the Jev commands is about files that existed, for any *)
(* number of source files, edits, generations and commands.  Files only    *)
(* move on: a file that differed from what was bound differs ever after,   *)
(* so a comparison that comes later and finds it will not let it pass.     *)
(***************************************************************************)

Files   == 1 .. Sources
Hashes  == [Files -> Int]
Askings ==
  [at : JevPhases, kind : {"judge", "review", "ask"}, era : Nat, next : Nat,
   bound : Hashes, status : Verdicts, real : BOOLEAN]

Earlier(bound, d) == \A i \in Files : bound[i] <= d[i]

(* A file from number n on is no longer the one that was bound.            *)
Behind(bound, d, n) == \E i \in Files : n <= i /\ bound[i] < d[i]

GoodAsking(a, d) ==
  /\ a \in Askings
  /\ Earlier(a.bound, d)
  /\ a.status # "unverified" => a.at \in {"recheck", "persist"}
  /\ a.at \in {"headers", "body"} => a.real \/ Behind(a.bound, d, 0)
  /\ a.at \in {"recheck", "inspect"} => a.real \/ Behind(a.bound, d, a.next)
  /\ a.at = "persist" => a.status = "unverified" \/ a.real

GoodReport(r, d) ==
  /\ r.bound \in Hashes /\ r.kind \in {"judge", "review", "ask"}
  /\ Earlier(r.bound, d)
  /\ r.status = "unverified" \/ r.real

JevInv ==
  /\ docs \in [Files -> Nat] /\ era \in Nat
  /\ GoodAsking(asking, docs)
  /\ \A r \in judgments : GoodReport(r, docs)
  /\ inspected.answer = "current" => inspected.real

USE JevAssumption

LEMMA NotAskingIs ==
  /\ NotAsking \in Askings /\ NotAsking.at = "rest"
  /\ NotAsking.status = "unverified" /\ NotAsking.next = 0
  /\ NotAsking.bound = NoDocs /\ NotAsking.real = TRUE
  /\ NotAsking.era = 0 /\ NotAsking.kind = "ask"
<1>1. NoDocs \in Hashes
  BY DEF NoDocs, Hashes, Files
<1> QED BY <1>1 DEF NotAsking, Askings, JevPhases, Verdicts

LEMMA NotAskingIsGood ==
  ASSUME NEW d \in [Files -> Nat]
  PROVE  Earlier(NoDocs, d) /\ GoodAsking(NotAsking, d)
<1>1. Earlier(NoDocs, d)
  BY DEF Earlier, NoDocs, Files
<1> QED BY <1>1, NotAskingIs DEF GoodAsking

(* What was bound earlier and is not the same differs somewhere.           *)
LEMMA RealOrBehind ==
  ASSUME NEW d \in [Files -> Nat], NEW b \in Hashes, Earlier(b, d), b # d
  PROVE  Behind(b, d, 0)
<1>1. PICK i \in Files : b[i] # d[i]
  BY DEF Hashes
<1>2. b[i] < d[i] /\ 0 <= i
  BY <1>1 DEF Earlier, Hashes, Files
<1> QED BY <1>2 DEF Behind

LEMMA JevInvInit == JevInit => JevInv
  BY NotAskingIsGood DEF JevInit, JevInv, Files, NotInspected

(* Steps that only move the command on, inspections included.              *)
LEMMA OnlyAsking ==
  ASSUME JevInv, UNCHANGED <<docs, era, judgments>>, GoodAsking(asking', docs),
         UNCHANGED inspected \/ (inspected'.answer = "current" =>
                                   inspected'.real)
  PROVE  JevInv'
  BY DEF JevInv

LEMMA StartAskingKeeps ==
  ASSUME JevInv, NEW kind \in {"judge", "review", "ask"},
         NEW phase \in {"bind", "choose"}, StartAsking(kind, phase)
  PROVE  JevInv'
<1> DEFINE a == [NotAsking EXCEPT !.at = phase, !.kind = kind, !.era = era,
                                  !.next = 1]
<1>1. /\ a \in Askings /\ a.at = phase /\ a.status = "unverified"
      /\ a.bound = NoDocs
  BY NotAskingIs DEF JevInv, Askings, JevPhases
<1> HIDE DEF a
<1>2. GoodAsking(a, docs)
  BY <1>1, NotAskingIsGood DEF GoodAsking, JevInv
<1>3. asking' = a /\ UNCHANGED <<docs, era, judgments, inspected>>
  BY DEF StartAsking, a
<1> QED BY <1>2, <1>3, OnlyAsking

LEMMA BindSourceKeeps == ASSUME JevInv, BindSource PROVE JevInv'
<1> DEFINE new == [asking.bound EXCEPT ![asking.next] = docs[asking.next]]
<1>0. new \in Hashes /\ Earlier(new, docs)
  <2>1. /\ asking.bound \in [Files -> Int] /\ docs \in [Files -> Nat]
        /\ \A i \in Files : asking.bound[i] <= docs[i]
    BY DEF JevInv, GoodAsking, Askings, Hashes, Earlier
  <2>2. new = [i \in Files |-> IF i = asking.next THEN docs[i]
                              ELSE asking.bound[i]]
    BY <2>1
  <2> HIDE DEF new
  <2> QED BY <2>1, <2>2 DEF Hashes, Earlier
<1>1. PICK b \in Hashes : b = new /\ Earlier(b, docs)
  BY <1>0, Zenon
<1> DEFINE m == [asking EXCEPT !.next = asking.next + 1]
           a == [m EXCEPT !.bound = b]
<1>2. /\ m \in Askings /\ m.at = asking.at /\ m.status = asking.status
      /\ m.bound = asking.bound
  BY DEF JevInv, GoodAsking, Askings
<1> HIDE DEF m
<1>3. /\ a \in Askings /\ a.at = asking.at /\ a.status = asking.status
      /\ a.bound = b
  BY <1>2 DEF Askings
<1>4. asking' = a /\ UNCHANGED <<docs, era, judgments, inspected>>
  <2>1. a = [m EXCEPT !.bound =
               [m.bound EXCEPT ![asking.next] = docs[asking.next]]]
    BY <1>1, <1>2
  <2>2. m.bound = asking.bound
    BY <1>2
  <2> QED BY <2>1, <2>2 DEF BindSource, m
<1> HIDE DEF a
<1>5. GoodAsking(a, docs)
  <2>1. asking.at = "bind"
    BY DEF BindSource, Asking
  <2> QED BY <1>1, <1>3, <2>1 DEF GoodAsking, JevInv
<1> QED BY <1>4, <1>5, OnlyAsking

LEMMA Rests ==
  ASSUME JevInv, asking' = NotAsking,
         UNCHANGED <<docs, era, judgments, inspected>>
  PROVE  JevInv'
  BY NotAskingIsGood, OnlyAsking DEF JevInv

(* A change of phase without a verdict.                                    *)
LEMMA Proceeds ==
  ASSUME JevInv, NEW phase \in {"send", "check", "body", "persist"},
         Proceed(phase), UNCHANGED <<docs, era, judgments, inspected>>,
         phase = "body" => Asking("headers"),
         phase = "persist" => \/ asking.status = "unverified"
                              \/ asking.real,
         phase # "persist" => asking.status = "unverified"
  PROVE  JevInv'
<1> DEFINE a == [asking EXCEPT !.at = phase, !.next = 0]
<1>1. /\ a \in Askings /\ a.at = phase /\ a.status = asking.status
      /\ a.bound = asking.bound /\ a.real = asking.real
  BY DEF JevInv, GoodAsking, Askings, JevPhases
<1>2. asking' = a
  BY DEF Proceed
<1> HIDE DEF a
<1>3. GoodAsking(a, docs)
  BY <1>1 DEF GoodAsking, JevInv, Asking
<1> QED BY <1>2, <1>3, OnlyAsking

LEMMA ChooseKeeps ==
  ASSUME JevInv, NEW online \in BOOLEAN, Choose(online)
  PROVE  JevInv'
<1>1. asking.status = "unverified"
  BY DEF Choose, Asking, JevInv, GoodAsking
<1>2. UNCHANGED <<docs, era, judgments, inspected>>
  BY DEF Choose
<1>3. \/ asking' = NotAsking \/ Proceed("persist")
      \/ Proceed("send") \/ Proceed("check")
  BY DEF Choose, Conclude
<1> QED BY <1>1, <1>2, <1>3, Rests, Proceeds

LEMMA UnchangedSourcesKeeps == ASSUME JevInv, UnchangedSources PROVE JevInv'
<1>1. UNCHANGED <<docs, era, judgments, inspected>>
  BY DEF UnchangedSources
<1>2. asking.at \in {"check", "recheck"}
  BY DEF UnchangedSources, Asking
<1>3. asking.at = "check" => asking.status = "unverified"
  BY DEF JevInv, GoodAsking
<1>4. CASE Changed
  <2> DEFINE a == [asking EXCEPT !.at = "persist", !.next = 0,
                                 !.status = "unverified"]
  <2>1. /\ a \in Askings /\ a.at = "persist" /\ a.status = "unverified"
        /\ a.bound = asking.bound
    BY DEF JevInv, GoodAsking, Askings, JevPhases, Verdicts
  <2>2. asking' = a
    BY <1>4 DEF Changed
  <2> HIDE DEF a
  <2>3. GoodAsking(a, docs)
    BY <2>1 DEF GoodAsking, JevInv
  <2> QED BY <1>1, <2>2, <2>3, OnlyAsking
<1>5. CASE asking' = [asking EXCEPT !.next = asking.next + 1]
             /\ (asking.next \in Files =>
                   docs[asking.next] = asking.bound[asking.next])
  <2> DEFINE a == [asking EXCEPT !.next = asking.next + 1]
  <2>1. /\ a \in Askings /\ a.at = asking.at /\ a.status = asking.status
        /\ a.bound = asking.bound /\ a.real = asking.real
        /\ a.next = asking.next + 1 /\ asking.next \in Nat
    BY DEF JevInv, GoodAsking, Askings
  <2> HIDE DEF a
  <2>2. Behind(asking.bound, docs, asking.next) => Behind(a.bound, docs, a.next)
    BY SMTT(20), <1>5, <2>1 DEF Behind, Files, JevInv, GoodAsking, Askings, Hashes
  <2>3. GoodAsking(a, docs)
    BY <1>2, <2>1, <2>2 DEF GoodAsking, JevInv
  <2> QED BY <1>1, <1>5, <2>3, OnlyAsking DEF a
<1>6. CASE asking.next > Sources /\ AfterCheck
  <2>1. asking.at = "recheck" => asking.real
    BY <1>6 DEF JevInv, GoodAsking, Behind, Files, Askings
  <2>2. \/ Proceed("send") /\ Asking("check")
        \/ Proceed("persist") /\ ~Asking("check")
    BY <1>6 DEF AfterCheck
  <2> QED BY <1>1, <1>2, <1>3, <2>1, <2>2, Proceeds DEF Asking
<1>7. \/ Changed
      \/ asking.next > Sources /\ AfterCheck
      \/ asking' = [asking EXCEPT !.next = asking.next + 1]
           /\ (asking.next \in Files =>
                 docs[asking.next] = asking.bound[asking.next])
  <2>1. CASE asking.next = 0
    BY <2>1 DEF UnchangedSources, Files
  <2>2. CASE asking.next # 0
    BY <2>2 DEF UnchangedSources, Files
  <2> QED BY <2>1, <2>2
<1> QED BY <1>4, <1>5, <1>6, <1>7

LEMMA SendRequestKeeps == ASSUME JevInv, SendRequest PROVE JevInv'
<1> DEFINE a == [asking EXCEPT !.at = "headers", !.real = Real(asking.bound)]
<1>1. /\ a \in Askings /\ a.at = "headers" /\ a.status = asking.status
      /\ a.bound = asking.bound /\ a.real = Real(asking.bound)
  BY DEF JevInv, GoodAsking, Askings, JevPhases, Real
<1>2. asking' = a /\ UNCHANGED <<docs, era, judgments, inspected>>
  BY DEF SendRequest
<1> HIDE DEF a
<1>3. Real(asking.bound) \/ Behind(asking.bound, docs, 0)
  BY RealOrBehind DEF Real, JevInv, GoodAsking, Askings
<1>4. GoodAsking(a, docs)
  BY <1>1, <1>3 DEF GoodAsking, JevInv, SendRequest, Asking
<1> QED BY <1>2, <1>4, OnlyAsking

LEMMA AnsweredKeeps ==
  ASSUME JevInv, NEW status \in Verdicts, Answered(status),
         asking.at \in {"headers", "body"},
         UNCHANGED <<docs, era, judgments, inspected>>
  PROVE  JevInv'
<1> DEFINE real == asking.real /\ Real(asking.bound)
           a == [asking EXCEPT !.at = "recheck", !.next = 0,
                               !.status = status, !.real = real]
<1>1. /\ a \in Askings /\ a.at = "recheck" /\ a.bound = asking.bound
      /\ a.real = real /\ a.next = 0
  BY DEF JevInv, GoodAsking, Askings, JevPhases, Real
<1>2. real \/ Behind(asking.bound, docs, 0)
  BY RealOrBehind DEF Real, JevInv, GoodAsking, Askings
<1>3. asking' \in {a, NotAsking}
  BY DEF Answered
<1> HIDE DEF a, real
<1>4. GoodAsking(a, docs)
  BY <1>1, <1>2 DEF GoodAsking, JevInv
<1> QED BY <1>3, <1>4, Rests, OnlyAsking

LEMMA ServiceKeeps == ASSUME JevInv, Service PROVE JevInv'
<1>1. CASE ServiceAccepts
  <2>1. /\ Proceed("body") /\ Asking("headers")
        /\ UNCHANGED <<docs, era, judgments, inspected>>
    BY <1>1 DEF ServiceAccepts
  <2>2. asking.status = "unverified"
    BY <2>1 DEF Asking, JevInv, GoodAsking
  <2> QED BY <2>1, <2>2, Proceeds
<1>2. CASE ServiceRefuses
  BY <1>2, AnsweredKeeps DEF ServiceRefuses, Asking, Verdicts
<1>3. ASSUME NEW status \in Verdicts, ServiceAnswers(status) PROVE JevInv'
  BY <1>3, AnsweredKeeps DEF ServiceAnswers, Asking
<1> QED BY <1>1, <1>2, <1>3 DEF Service

LEMMA DeadlineKeeps == ASSUME JevInv, Deadline PROVE JevInv'
  BY AnsweredKeeps DEF Deadline, Asking, Verdicts

LEMMA PersistKeeps == ASSUME JevInv, Persist \/ PersistFails PROVE JevInv'
<1>1. asking' = NotAsking /\ UNCHANGED <<docs, era, inspected>>
  BY DEF Persist, PersistFails
<1>2. judgments' \subseteq judgments \union {Judgment(TRUE), Judgment(FALSE)}
  BY DEF Persist, PersistFails
<1>3. asking.at = "persist"
  BY DEF Persist, PersistFails, Asking
<1>4. ASSUME NEW whole \in BOOLEAN PROVE GoodReport(Judgment(whole), docs)
  BY <1>3 DEF Judgment, GoodReport, JevInv, GoodAsking, Askings
<1> QED BY <1>1, <1>2, <1>4, NotAskingIsGood DEF JevInv

LEMMA InspectStartsKeeps ==
  ASSUME JevInv, NEW r \in judgments, InspectStarts(r)
  PROVE  JevInv'
<1>1. UNCHANGED <<docs, era, judgments>> /\ GoodReport(r, docs)
  BY DEF InspectStarts, JevInv
<1>2. CASE ~(r.whole /\ r.era = era)
  <2>1. /\ asking' = asking
        /\ inspected' = [NotInspected EXCEPT !.answer = "invalid"]
    BY <1>2 DEF InspectStarts
  <2>2. inspected'.answer # "current"
    BY <2>1 DEF NotInspected
  <2> QED BY <1>1, <2>1, <2>2, OnlyAsking DEF JevInv
<1>3. CASE r.whole /\ r.era = era
  <2> DEFINE a == [NotAsking EXCEPT !.at = "inspect", !.kind = r.kind,
                     !.era = era, !.bound = r.bound, !.real = Real(r.bound)]
  <2>1. /\ a \in Askings /\ a.at = "inspect" /\ a.status = "unverified"
        /\ a.bound = r.bound /\ a.real = Real(r.bound) /\ a.next = 0
    BY <1>1, NotAskingIs DEF GoodReport, JevInv, Askings, JevPhases, Real
  <2>2. asking' = a /\ UNCHANGED inspected
    BY <1>3 DEF InspectStarts
  <2> HIDE DEF a
  <2>3. Real(r.bound) \/ Behind(r.bound, docs, 0)
    BY <1>1, RealOrBehind DEF Real, GoodReport, JevInv
  <2>4. GoodAsking(a, docs)
    BY <1>1, <2>1, <2>3 DEF GoodAsking, GoodReport
  <2> QED BY <1>1, <2>2, <2>4, OnlyAsking
<1> QED BY <1>2, <1>3

LEMMA InspectSourcesKeeps == ASSUME JevInv, InspectSources PROVE JevInv'
<1>1. UNCHANGED <<docs, era, judgments>> /\ asking.at = "inspect"
  BY DEF InspectSources, Asking
<1>2. CASE asking.next > Sources /\ InspectAs("current")
  <2>1. asking.real
    BY <1>1, <1>2 DEF JevInv, GoodAsking, Behind, Files, Askings
  <2>2. asking' = NotAsking /\ inspected'.real = asking.real
    BY <1>2 DEF InspectAs
  <2> QED BY <1>1, <2>1, <2>2, NotAskingIsGood, OnlyAsking DEF JevInv
<1>3. CASE InspectAs("stale")
  <2>1. asking' = NotAsking /\ inspected'.answer # "current"
    BY <1>3 DEF InspectAs
  <2> QED BY <1>1, <2>1, NotAskingIsGood, OnlyAsking DEF JevInv
<1>4. CASE /\ asking.next <= Sources /\ ~InspectDiffers
           /\ asking' = [asking EXCEPT !.next = asking.next + 1]
           /\ UNCHANGED inspected
  <2> DEFINE a == [asking EXCEPT !.next = asking.next + 1]
  <2>1. /\ a \in Askings /\ a.at = asking.at /\ a.status = asking.status
        /\ a.bound = asking.bound /\ a.real = asking.real
        /\ a.next = asking.next + 1 /\ asking.next \in Nat
    BY DEF JevInv, GoodAsking, Askings
  <2>2. asking' = a
    BY <1>4
  <2> HIDE DEF a
  <2>3. Behind(asking.bound, docs, asking.next) => Behind(a.bound, docs, a.next)
    BY SMTT(20), <1>4, <2>1 DEF InspectDiffers, Behind, Files, JevInv, GoodAsking,
                      Askings, Hashes
  <2>4. GoodAsking(a, docs)
    BY <1>1, <2>1, <2>3 DEF GoodAsking, JevInv
  <2> QED BY <1>1, <1>4, <2>2, <2>4, OnlyAsking
<1> QED BY <1>2, <1>3, <1>4 DEF InspectSources

LEMMA EditDocKeeps ==
  ASSUME JevInv, NEW n \in Files, EditDoc(n)
  PROVE  JevInv'
<1>1. /\ docs' \in [Files -> Nat]
      /\ \A i \in Files : docs[i] <= docs'[i]
      /\ UNCHANGED <<era, asking, judgments, inspected>>
  BY SMTT(20) DEF EditDoc, JevInv, Files
<1>2. ASSUME NEW b \in Hashes, Earlier(b, docs) PROVE Earlier(b, docs')
  BY <1>1, <1>2 DEF Earlier, Hashes, JevInv
<1>3. ASSUME NEW b \in Hashes, NEW m \in Int, Behind(b, docs, m)
      PROVE  Behind(b, docs', m)
  BY <1>1, <1>3 DEF Behind, Hashes, JevInv
<1>4. GoodAsking(asking, docs')
  BY <1>2, <1>3 DEF GoodAsking, JevInv, Askings
<1>5. \A r \in judgments : GoodReport(r, docs')
  BY <1>2 DEF GoodReport, JevInv
<1> QED BY <1>1, <1>4, <1>5 DEF JevInv

LEMMA JevInvStep == JevInv /\ [JevNext]_jevVars => JevInv'
<1> SUFFICES ASSUME JevInv, [JevNext]_jevVars PROVE JevInv'
  OBVIOUS
<1>1. CASE JudgeStart \/ ReviewStart \/ AskStart
  BY <1>1, StartAskingKeeps DEF JudgeStart, ReviewStart, AskStart
<1>2. ASSUME NEW r \in judgments, InspectStarts(r) PROVE JevInv'
  BY <1>2, InspectStartsKeeps
<1>3. CASE AskerSteps
  BY <1>3, BindSourceKeeps, ChooseKeeps, UnchangedSourcesKeeps,
     SendRequestKeeps, DeadlineKeeps, PersistKeeps, InspectSourcesKeeps
     DEF AskerSteps
<1>4. CASE Service
  BY <1>4, ServiceKeeps
<1>5. CASE BindRefused \/ AskerDies
  BY <1>5, Rests DEF BindRefused, AskerDies
<1>6. CASE PersistFails
  BY <1>6, PersistKeeps
<1>7. ASSUME NEW i \in 1 .. Sources, EditDoc(i) PROVE JevInv'
  BY <1>7, EditDocKeeps DEF Files
<1>8. CASE NewEra
  BY <1>8 DEF NewEra, JevInv
<1>9. CASE UNCHANGED jevVars
  BY <1>9 DEF jevVars, JevInv
<1> QED BY <1>1, <1>2, <1>3, <1>4, <1>5, <1>6, <1>7, <1>8, <1>9 DEF JevNext

-----------------------------------------------------------------------------
(* A verdict that is kept is about files that were those of the question   *)
(* when it was sent and when its answer arrived, and an inspection answers *)
(* "current" only for files that were those of the report when it began    *)
(* (bind and unchanged of jev-judge.mjs and jev-review.mjs).               *)
THEOREM VerdictsAreJudgedAsOne == JevSpec => []JudgedAsOne
<1>1. JevInv => JudgedAsOne
  BY DEF JevInv, GoodReport, JudgedAsOne
<1> QED BY <1>1, JevInvInit, JevInvStep, PTL DEF JevSpec

HIDE JevAssumption

-----------------------------------------------------------------------------
(***************************************************************************)
(* That the evidence of the last step holds together, for any number of    *)
(* gates, edits and workflows.                                             *)
(*                                                                         *)
(* Gates: the tree only moves on, so what the tests ran on lies between    *)
(* the fingerprint of the start and the one after the checks; if these are *)
(* equal, so is the tree of the coverage.  That holds of a gate that is    *)
(* alone, as nobody else writes the coverage file.                         *)
(* Completion: the regression report is looked at between two inspections  *)
(* of the quality report, both of which are about the build of that moment. *)
(***************************************************************************)

Pairs == Int \X Int

GatePhases ==
  {"rest", "clear", "start", "test", "read", "after", "reread", "write"}

GateRecords ==
  [at : GatePhases, workflow : Int, before : Pairs, tested : Pairs,
   coverage : Pairs, ok : BOOLEAN, alone : BOOLEAN]

GateReports ==
  [pass : BOOLEAN, tree : Pairs, coverage : Pairs, workflow : Int,
   alone : BOOLEAN]

CompletionPhases ==
  {"rest", "bind", "rehash", "quality", "compare", "regression",
   "quality again", "regression again", "last hash"}

Completions ==
  [at : CompletionPhases, build : Int, quality : GateReports,
   regression : Int]

NoLater(s, t) == s[1] <= t[1] /\ s[2] <= t[2]

(* What a gate that is alone knows of the coverage.                        *)
Measuring(r, now, found) ==
  /\ r.at \in {"clear", "start", "test", "read", "after"} =>
       NoLater(r.before, now)
  /\ r.at \in {"start", "test"} => found = NoTree
  /\ r.at = "test" => NoLater(r.before, r.tested) /\ NoLater(r.tested, now)
  /\ r.at = "read" =>
       \/ found = NoTree
       \/ NoLater(r.before, found) /\ NoLater(found, now)
  /\ r.at = "after" => NoLater(r.before, r.coverage) /\ NoLater(r.coverage, now)
  /\ r.at \in {"reread", "write"} /\ r.ok => r.coverage = r.before

GateInv ==
  /\ build \in Nat /\ source \in Nat /\ coverage \in Pairs /\ workflow \in Nat
  /\ gates \in [Gates -> GateRecords]
  /\ \A g \in Gates : gates[g].alone => Measuring(gates[g], tree, coverage)
  /\ gateReport \in GateReports
  /\ gateReport.pass /\ gateReport.alone =>
       gateReport.coverage = gateReport.tree

(* What a completion has in hand: the quality report it compared, then the *)
(* regression report.                                                      *)
Agreeing(c, now, active) ==
  /\ c.at \in {"regression", "quality again", "regression again", "last hash"}
       => /\ c.quality.pass /\ c.quality.workflow = active
          /\ c.quality.tree[1] <= now
  /\ c.at = "quality again" =>
       c.quality.tree[1] <= c.regression /\ c.regression <= now
  /\ c.at \in {"regression again", "last hash"} =>
       c.quality.tree[1] = c.regression

CompletionInv ==
  /\ completing \in Completions
  /\ Agreeing(completing, build, workflow)
  /\ ReceiptReportsAgree

USE EvidenceAssumption

LEMMA TreeIs ==
  ASSUME GateInv
  PROVE  tree \in Pairs /\ tree[1] = build /\ tree[2] = source
  BY DEF GateInv, tree, Pairs

LEMMA PairsEqual ==
  ASSUME NEW s \in Pairs, NEW t \in Pairs, NoLater(s, t), NoLater(t, s)
  PROVE  s = t
  BY DEF Pairs, NoLater

LEMMA NoLaterTransitive ==
  ASSUME NEW s \in Pairs, NEW t \in Pairs, NEW u \in Pairs,
         NoLater(s, t), NoLater(t, u)
  PROVE  NoLater(s, u)
  BY DEF Pairs, NoLater

LEMMA NothingIs ==
  /\ NoTree \in Pairs
  /\ NoGate \in GateRecords /\ NoGate.at = "rest" /\ NoGate.alone = TRUE
  /\ NoGate.ok = TRUE
  /\ NoGateReport \in GateReports /\ NoGateReport.pass = FALSE
  /\ NoCompletion \in Completions /\ NoCompletion.at = "rest"
<1>1. NoTree \in Pairs
  BY DEF NoTree, Pairs
<1>2. NoGateReport \in GateReports /\ NoGateReport.pass = FALSE
  BY <1>1 DEF NoGateReport, GateReports
<1> QED BY <1>1, <1>2 DEF NoGate, NoCompletion, GateRecords, Completions,
                          GatePhases, CompletionPhases

LEMMA GateInvInit == EvidenceInit => GateInv
  BY NothingIs DEF EvidenceInit, GateInv, Measuring

LEMMA CompletionInvInit == EvidenceInit => CompletionInv
  BY NothingIs DEF EvidenceInit, CompletionInv, Agreeing, ReceiptReportsAgree

-----------------------------------------------------------------------------
(* Gates                                                                   *)

(* A step of one gate.  The others are at rest or no longer alone.         *)
LEMMA OneGate ==
  ASSUME GateInv, NEW g \in Gates, NEW record \in GateRecords,
         WithGate(g, record), UNCHANGED <<build, source, workflow>>,
         coverage' \in Pairs,
         record.alone /\ Alone(g) => Measuring(record, tree, coverage'),
         gateReport' \in GateReports,
         gateReport'.pass /\ gateReport'.alone =>
           gateReport'.coverage = gateReport'.tree
  PROVE  GateInv'
<1>1. tree' = tree
  BY DEF tree
<1>2. ASSUME NEW h \in Gates
      PROVE  /\ gates'[h] \in GateRecords
             /\ gates'[h].alone => Measuring(gates'[h], tree, coverage')
  <2>1. CASE h = g
    <3> DEFINE r == [record EXCEPT !.alone = record.alone /\ Alone(g)]
    <3>1. gates'[h] = r
      BY <2>1 DEF WithGate
    <3>2. Alone(g) \in BOOLEAN
      BY DEF Alone
    <3>3. /\ r \in GateRecords /\ r.alone = (record.alone /\ Alone(g))
          /\ r.at = record.at /\ r.before = record.before
          /\ r.tested = record.tested /\ r.coverage = record.coverage
          /\ r.ok = record.ok
      BY <3>2 DEF GateRecords
    <3> HIDE DEF r
    <3> QED BY <3>1, <3>3 DEF Measuring
  <2>2. CASE h # g
    <3> DEFINE w == gates[h]
               r == [gates[h] EXCEPT !.alone = w.alone /\ GateAt(h, "rest")]
    <3>1. gates'[h] = r
      BY <2>2 DEF WithGate
    <3>2. w \in GateRecords
      BY DEF GateInv
    <3>3. r \in GateRecords /\ r.at = w.at /\ (r.alone => w.at = "rest")
      BY <3>2 DEF GateRecords, GateAt
    <3> HIDE DEF r
    <3> QED BY <3>1, <3>3 DEF Measuring
  <2> QED BY <2>1, <2>2
<1>3. gates' \in [Gates -> GateRecords]
  <2>1. gates' = [h \in Gates |-> gates'[h]]
    BY DEF WithGate
  <2> QED BY <1>2, <2>1
<1> QED BY <1>1, <1>2, <1>3 DEF GateInv

LEMMA GateIs ==
  ASSUME GateInv, NEW g \in Gates
  PROVE  /\ gates[g] \in GateRecords
         /\ gates[g].alone => Measuring(gates[g], tree, coverage)
         /\ gates[g].before \in Pairs /\ gates[g].tested \in Pairs
         /\ gates[g].coverage \in Pairs /\ coverage \in Pairs
         /\ gateReport \in GateReports
         /\ gateReport.pass /\ gateReport.alone =>
              gateReport.coverage = gateReport.tree
  BY DEF GateInv, GateRecords

LEMMA FailedIs ==
  ASSUME GateInv, NEW g \in Gates
  PROVE  /\ Failed(g) \in GateRecords
         /\ \A now, found : Measuring(Failed(g), now, found)
<1>1. gates[g].workflow \in Int
  BY DEF GateInv, GateRecords
<1>2. /\ Failed(g) \in GateRecords /\ Failed(g).at = "write"
      /\ Failed(g).ok = FALSE
  BY <1>1, NothingIs DEF Failed, GateRecords, GatePhases
<1> QED BY <1>2 DEF Measuring

LEMMA GateStartKeeps ==
  ASSUME GateInv, NEW g \in Gates, GateStart(g)
  PROVE  GateInv'
<1> DEFINE m == [NoGate EXCEPT !.at = "clear", !.workflow = workflow]
           r == [m EXCEPT !.before = tree]
<1>0. m \in GateRecords /\ m.at = "clear"
  <2>1. workflow \in Int
    BY DEF GateInv
  <2> QED BY <2>1, NothingIs DEF GateRecords, GatePhases
<1> HIDE DEF m
<1>1. r \in GateRecords /\ r.at = "clear" /\ r.before = tree
  BY <1>0, TreeIs DEF GateRecords
<1>2. /\ WithGate(g, r)
      /\ UNCHANGED <<build, source, workflow, coverage, gateReport>>
  BY DEF GateStart, m
<1> HIDE DEF r
<1>3. Measuring(r, tree, coverage)
  BY <1>1, TreeIs DEF Measuring, NoLater, GateInv
<1> QED BY <1>1, <1>2, <1>3, GateIs, OneGate

LEMMA GateClearKeeps ==
  ASSUME GateInv, NEW g \in Gates, GateClear(g)
  PROVE  GateInv'
<1> DEFINE r == [gates[g] EXCEPT !.at = "start"]
<1>1. /\ r \in GateRecords /\ r.at = "start" /\ r.before = gates[g].before
      /\ r.alone = gates[g].alone
  BY GateIs DEF GateRecords, GatePhases
<1>2. /\ WithGate(g, r) /\ coverage' = NoTree /\ gates[g].at = "clear"
      /\ UNCHANGED <<build, source, workflow, gateReport>>
  BY DEF GateClear, GateAt
<1> HIDE DEF r
<1>3. r.alone => Measuring(r, tree, coverage')
  BY <1>1, <1>2, GateIs DEF Measuring
<1> QED BY <1>1, <1>2, <1>3, GateIs, NothingIs, OneGate

LEMMA GateTestKeeps ==
  ASSUME GateInv, NEW g \in Gates, GateTest(g)
  PROVE  GateInv'
<1> DEFINE r == [gates[g] EXCEPT !.at = "test", !.tested = tree]
<1>1. /\ r \in GateRecords /\ r.at = "test" /\ r.before = gates[g].before
      /\ r.alone = gates[g].alone /\ r.tested = tree
  BY GateIs, TreeIs DEF GateRecords, GatePhases
<1>2. /\ WithGate(g, r) /\ gates[g].at = "start"
      /\ UNCHANGED <<build, source, workflow, coverage, gateReport>>
  BY DEF GateTest, GateAt
<1> HIDE DEF r
<1>3. NoLater(tree, tree)
  BY TreeIs DEF NoLater, GateInv
<1>4. r.alone => Measuring(r, tree, coverage)
  BY <1>1, <1>2, <1>3, GateIs DEF Measuring
<1> QED BY <1>1, <1>2, <1>4, GateIs, OneGate

LEMMA GateTestedKeeps ==
  ASSUME GateInv, NEW g \in Gates, NEW writes \in BOOLEAN, NEW ok \in BOOLEAN,
         GateTested(g, writes, ok)
  PROVE  GateInv'
<1> DEFINE r == [gates[g] EXCEPT !.at = "read", !.tested = NoTree]
<1>1. /\ r \in GateRecords /\ r.at = "read" /\ r.before = gates[g].before
      /\ r.alone = gates[g].alone
  BY GateIs, NothingIs DEF GateRecords, GatePhases
<1>2. /\ WithGate(g, IF ok THEN r ELSE Failed(g)) /\ gates[g].at = "test"
      /\ coverage' = IF writes THEN gates[g].tested ELSE coverage
      /\ UNCHANGED <<build, source, workflow, gateReport>>
  BY DEF GateTested, GateAt
<1> HIDE DEF r
<1>3. coverage' \in Pairs
  BY <1>2, GateIs
<1>4. r.alone => Measuring(r, tree, coverage')
  <2>1. coverage' \in {coverage, gates[g].tested}
    BY <1>2
  <2>2. r.alone => \/ coverage' = NoTree
                   \/ /\ NoLater(r.before, coverage')
                      /\ NoLater(coverage', tree)
    BY <1>1, <1>2, <2>1, GateIs DEF Measuring
  <2>3. r.alone => NoLater(r.before, tree)
    BY <1>1, <1>2, GateIs DEF Measuring
  <2> QED BY <1>1, <2>2, <2>3 DEF Measuring
<1>5. CASE ok
  BY <1>1, <1>2, <1>3, <1>4, <1>5, GateIs, OneGate
<1>6. CASE ~ok
  BY <1>2, <1>3, <1>6, FailedIs, GateIs, OneGate
<1> QED BY <1>5, <1>6

LEMMA GateReadKeeps ==
  ASSUME GateInv, NEW g \in Gates, GateRead(g)
  PROVE  GateInv'
<1> DEFINE m == [gates[g] EXCEPT !.at = "after"]
           r == [m EXCEPT !.coverage = coverage]
<1>0. /\ m \in GateRecords /\ m.at = "after" /\ m.before = gates[g].before
      /\ m.alone = gates[g].alone
  BY GateIs DEF GateRecords, GatePhases
<1> HIDE DEF m
<1>1. /\ r \in GateRecords /\ r.at = "after" /\ r.before = gates[g].before
      /\ r.alone = gates[g].alone /\ r.coverage = coverage
  BY <1>0, GateIs DEF GateRecords
<1>2. /\ WithGate(g, IF coverage = NoTree THEN Failed(g) ELSE r)
      /\ gates[g].at = "read"
      /\ UNCHANGED <<build, source, workflow, coverage, gateReport>>
  BY DEF GateRead, GateAt, m
<1> HIDE DEF r
<1>3. coverage # NoTree /\ r.alone => Measuring(r, tree, coverage)
  BY <1>1, <1>2, GateIs DEF Measuring
<1>4. CASE coverage = NoTree
  BY <1>2, <1>4, FailedIs, GateIs, OneGate
<1>5. CASE coverage # NoTree
  BY <1>1, <1>2, <1>3, <1>5, GateIs, OneGate
<1> QED BY <1>4, <1>5

LEMMA GateAfterKeeps ==
  ASSUME GateInv, NEW g \in Gates, GateAfter(g)
  PROVE  GateInv'
<1> DEFINE r == [gates[g] EXCEPT !.at = "reread"]
<1>1. /\ r \in GateRecords /\ r.at = "reread" /\ r.before = gates[g].before
      /\ r.alone = gates[g].alone /\ r.coverage = gates[g].coverage
  BY GateIs DEF GateRecords, GatePhases
<1>2. /\ WithGate(g, IF SourceUnchanged(g) THEN r ELSE Failed(g))
      /\ gates[g].at = "after"
      /\ UNCHANGED <<build, source, workflow, coverage, gateReport>>
  BY DEF GateAfter, GateAt
<1> HIDE DEF r
<1>3. CASE SourceUnchanged(g)
  <2>1. r.alone => /\ NoLater(gates[g].before, gates[g].coverage)
                   /\ NoLater(gates[g].coverage, gates[g].before)
    BY <1>1, <1>2, <1>3, GateIs DEF SourceUnchanged, Measuring
  <2>2. r.alone => Measuring(r, tree, coverage)
    BY <1>1, <2>1, GateIs, PairsEqual DEF Measuring
  <2> QED BY <1>1, <1>2, <1>3, <2>2, GateIs, OneGate
<1>4. CASE ~SourceUnchanged(g)
  BY <1>2, <1>4, FailedIs, GateIs, OneGate
<1> QED BY <1>3, <1>4

LEMMA GateRereadKeeps ==
  ASSUME GateInv, NEW g \in Gates, GateReread(g)
  PROVE  GateInv'
<1> DEFINE r == [gates[g] EXCEPT !.at = "write"]
<1>1. /\ r \in GateRecords /\ r.at = "write" /\ r.before = gates[g].before
      /\ r.alone = gates[g].alone /\ r.coverage = gates[g].coverage
      /\ r.ok = gates[g].ok
  BY GateIs DEF GateRecords, GatePhases
<1>2. /\ WithGate(g, IF coverage = gates[g].coverage THEN r ELSE Failed(g))
      /\ gates[g].at = "reread"
      /\ UNCHANGED <<build, source, workflow, coverage, gateReport>>
  BY DEF GateReread, GateAt
<1> HIDE DEF r
<1>3. r.alone => Measuring(r, tree, coverage)
  BY <1>1, <1>2, GateIs DEF Measuring
<1>4. CASE coverage = gates[g].coverage
  BY <1>1, <1>2, <1>3, <1>4, GateIs, OneGate
<1>5. CASE coverage # gates[g].coverage
  BY <1>2, <1>5, FailedIs, GateIs, OneGate
<1> QED BY <1>4, <1>5

LEMMA GateWriteKeeps ==
  ASSUME GateInv, NEW g \in Gates, GateWrite(g)
  PROVE  GateInv'
<1> DEFINE lone == gates[g].alone /\ Alone(g)
           p == [pass |-> TRUE, tree |-> gates[g].before,
                 coverage |-> gates[g].coverage, workflow |-> workflow,
                 alone |-> lone]
<1>1. /\ WithGate(g, NoGate) /\ gates[g].at = "write"
      /\ \/ gateReport' \in {gateReport, NoGateReport}
         \/ gateReport' = p /\ gates[g].ok
      /\ UNCHANGED <<build, source, workflow, coverage>>
  BY DEF GateWrite, GateAt
<1>2. /\ p \in GateReports /\ p.coverage = gates[g].coverage
      /\ p.tree = gates[g].before /\ p.alone = lone
  <2>1. lone \in BOOLEAN
    BY GateIs DEF GateRecords, Alone
  <2> HIDE DEF lone
  <2> QED BY <2>1, GateIs DEF GateReports, GateInv
<1> HIDE DEF p
<1>3. gates[g].ok /\ p.alone => p.coverage = p.tree
  BY <1>1, <1>2, GateIs DEF Measuring
<1>4. /\ gateReport' \in GateReports
      /\ gateReport'.pass /\ gateReport'.alone =>
           gateReport'.coverage = gateReport'.tree
  BY <1>1, <1>2, <1>3, GateIs, NothingIs
<1>5. Measuring(NoGate, tree, coverage)
  BY NothingIs DEF Measuring
<1> QED BY <1>1, <1>4, <1>5, GateIs, NothingIs, OneGate

LEMMA EditTreeKeepsGates == ASSUME GateInv, EditTree PROVE GateInv'
<1>1. /\ build' \in Nat /\ source' \in Nat /\ tree' \in Pairs
      /\ NoLater(tree, tree')
      /\ UNCHANGED <<coverage, workflow, gateReport, gates>>
  BY DEF EditTree, GateInv, tree, NoLater, Pairs
<1>2. ASSUME NEW g \in Gates, gates[g].alone
      PROVE  Measuring(gates[g], tree', coverage)
  <2>1. ASSUME NEW s \in Pairs, NoLater(s, tree) PROVE NoLater(s, tree')
    BY <1>1, <2>1, TreeIs, NoLaterTransitive
  <2> QED BY <1>2, <2>1, GateIs DEF Measuring
<1> QED BY <1>1, <1>2 DEF GateInv

LEMMA GateInvStep == GateInv /\ [EvidenceNext]_evidenceVars => GateInv'
<1> SUFFICES ASSUME GateInv, [EvidenceNext]_evidenceVars PROVE GateInv'
  OBVIOUS
<1>1. ASSUME NEW g \in Gates, Gate(g) PROVE GateInv'
  BY <1>1, GateStartKeeps, GateClearKeeps, GateTestKeeps, GateTestedKeeps,
     GateReadKeeps, GateAfterKeeps, GateRereadKeeps, GateWriteKeeps DEF Gate
<1>2. CASE EditTree
  BY <1>2, EditTreeKeepsGates
<1>3. CASE NextWorkflow
  BY <1>3 DEF NextWorkflow, GateInv, tree
<1>4. CASE Browser \/ RecordRegression \/ CompleteFinal
  BY <1>4
     DEF Browser, VerifyStart, VerifyEnd, RecordRegression, CompleteFinal,
         CompleteHash, CompleteBind, CompleteRehash, CompleteQuality,
         CompleteCompare, CompleteRegression, CompleteQualityAgain,
         CompleteRegressionAgain, PublishFinalReceipt, Reading, GateInv, tree
<1>5. CASE UNCHANGED evidenceVars
  BY <1>5 DEF evidenceVars, GateInv, tree
<1> QED BY <1>1, <1>2, <1>3, <1>4, <1>5 DEF EvidenceNext

-----------------------------------------------------------------------------
(* The completion                                                          *)

LEMMA CompletionIs ==
  ASSUME CompletionInv, GateInv
  PROVE  /\ completing \in Completions /\ build \in Nat /\ workflow \in Nat
         /\ completing.quality \in GateReports /\ gateReport \in GateReports
         /\ \A r \in GateReports : r.tree \in Pairs
         /\ Agreeing(completing, build, workflow)
  BY DEF CompletionInv, GateInv, Completions, GateReports

LEMMA Reads ==
  ASSUME CompletionInv, GateInv, NEW c \in Completions, Reading(c),
         Agreeing(c, build, workflow)
  PROVE  CompletionInv'
  BY DEF CompletionInv, Reading, ReceiptReportsAgree

LEMMA GivesUp ==
  ASSUME CompletionInv, GateInv, Reading(NoCompletion)
  PROVE  CompletionInv'
  BY NothingIs, Reads DEF Agreeing

(* A step that only changes the phase.                                     *)
LEMMA PhaseIs ==
  ASSUME CompletionInv, GateInv, NEW phase \in CompletionPhases
  PROVE  LET c == [completing EXCEPT !.at = phase]
         IN  /\ c \in Completions /\ c.at = phase
             /\ c.quality = completing.quality
             /\ c.regression = completing.regression
  BY CompletionIs DEF Completions

LEMMA CompleteEarlyKeeps ==
  ASSUME CompletionInv, GateInv, CompleteHash \/ CompleteBind \/ CompleteRehash
  PROVE  CompletionInv'
<1>1. CASE CompleteHash
  <2> DEFINE c == [NoCompletion EXCEPT !.at = "bind", !.build = build]
  <2>1. c \in Completions /\ c.at = "bind"
    <3>1. build \in Int
      BY CompletionIs
    <3> QED BY <3>1, NothingIs DEF Completions, CompletionPhases
  <2>2. Reading(c)
    BY <1>1 DEF CompleteHash
  <2> HIDE DEF c
  <2> QED BY <2>1, <2>2, Reads DEF Agreeing
<1>2. ASSUME NEW phase \in {"rehash", "quality"},
             Reading([completing EXCEPT !.at = phase])
      PROVE  CompletionInv'
  <2> DEFINE c == [completing EXCEPT !.at = phase]
  <2>1. c \in Completions /\ c.at = phase
    BY PhaseIs DEF CompletionPhases
  <2> HIDE DEF c
  <2>2. Agreeing(c, build, workflow)
    BY <2>1 DEF Agreeing
  <2> QED BY <1>2, <2>1, <2>2, Reads DEF c
<1>3. CASE CompleteBind
  BY <1>2, <1>3, GivesUp DEF CompleteBind
<1>4. CASE CompleteRehash
  BY <1>2, <1>4, GivesUp DEF CompleteRehash
<1> QED BY <1>1, <1>3, <1>4

LEMMA CompleteQualityKeeps ==
  ASSUME CompletionInv, GateInv, CompleteQuality
  PROVE  CompletionInv'
<1> DEFINE m == [completing EXCEPT !.at = "compare"]
           c == [m EXCEPT !.quality = gateReport]
<1>1. m \in Completions /\ m.at = "compare"
  BY PhaseIs DEF CompletionPhases
<1> HIDE DEF m
<1>2. c \in Completions /\ c.at = "compare"
  BY <1>1, CompletionIs DEF Completions
<1>3. Reading(c)
  BY DEF CompleteQuality, m
<1> HIDE DEF c
<1> QED BY <1>2, <1>3, Reads DEF Agreeing

LEMMA CompleteCompareKeeps ==
  ASSUME CompletionInv, GateInv, CompleteCompare
  PROVE  CompletionInv'
<1> DEFINE c == [completing EXCEPT !.at = "regression"]
<1>1. c \in Completions /\ c.at = "regression" /\ c.quality = completing.quality
  BY PhaseIs DEF CompletionPhases
<1>2. Reading(IF QualityHolds(completing.quality) THEN c ELSE NoCompletion)
  BY DEF CompleteCompare
<1> HIDE DEF c
<1>3. QualityHolds(completing.quality) => Agreeing(c, build, workflow)
  <2>1. QualityHolds(completing.quality) => completing.quality.tree[1] = build
    BY TreeIs DEF QualityHolds
  <2>2. build <= build
    BY CompletionIs
  <2> QED BY <1>1, <2>1, <2>2 DEF QualityHolds, Agreeing
<1> QED BY <1>1, <1>2, <1>3, Reads, GivesUp

LEMMA CompleteRegressionKeeps ==
  ASSUME CompletionInv, GateInv, CompleteRegression
  PROVE  CompletionInv'
<1>1. CASE RegressionHolds
  <2> DEFINE m == [completing EXCEPT !.at = "quality again"]
             c == [m EXCEPT !.regression = regression]
  <2>1. /\ m \in Completions /\ m.at = "quality again"
        /\ m.quality = completing.quality
    BY PhaseIs DEF CompletionPhases
  <2> HIDE DEF m
  <2>2. /\ c \in Completions /\ c.at = "quality again"
        /\ c.quality = completing.quality /\ c.regression = build
    <3>1. regression = build /\ regression \in Int
      BY <1>1, CompletionIs DEF RegressionHolds
    <3> QED BY <2>1, <3>1 DEF Completions
  <2>3. Reading(c) /\ completing.at = "regression"
    BY <1>1 DEF CompleteRegression, Completing, m
  <2> HIDE DEF c
  <2>4. Agreeing(c, build, workflow)
    <3>1. build <= build
      BY CompletionIs
    <3> QED BY <2>2, <2>3, <3>1, CompletionIs DEF Agreeing
  <2> QED BY <2>2, <2>3, <2>4, Reads
<1>2. CASE ~RegressionHolds
  BY <1>2, GivesUp DEF CompleteRegression
<1> QED BY <1>1, <1>2

(* The regression report lies between two looks at one quality report.     *)
LEMMA CompleteQualityAgainKeeps ==
  ASSUME CompletionInv, GateInv, CompleteQualityAgain
  PROVE  CompletionInv'
<1> DEFINE c == [completing EXCEPT !.at = "regression again"]
           same == gateReport = completing.quality /\ QualityHolds(gateReport)
<1>1. /\ c \in Completions /\ c.at = "regression again"
      /\ c.quality = completing.quality
      /\ c.regression = completing.regression
  BY PhaseIs DEF CompletionPhases
<1>2. /\ Reading(IF same THEN c ELSE NoCompletion)
      /\ completing.at = "quality again"
  BY DEF CompleteQualityAgain, Completing
<1> HIDE DEF c
<1>3. ASSUME same PROVE Agreeing(c, build, workflow)
  <2>1. completing.quality.tree[1] = build
    BY <1>3, TreeIs DEF QualityHolds
  <2>2. completing.regression \in Int
    BY CompletionIs DEF Completions
  <2>3. completing.quality.tree[1] = completing.regression
    <3>1. /\ completing.quality.tree[1] <= completing.regression
          /\ completing.regression <= build
      BY <1>2, CompletionIs DEF Agreeing
    <3> QED BY <2>1, <2>2, <3>1, CompletionIs
  <2>4. build <= build
    BY CompletionIs
  <2> QED BY <1>1, <1>2, <2>1, <2>3, <2>4, CompletionIs DEF Agreeing
<1> QED BY <1>1, <1>2, <1>3, Reads, GivesUp

LEMMA CompleteRegressionAgainKeeps ==
  ASSUME CompletionInv, GateInv, CompleteRegressionAgain
  PROVE  CompletionInv'
<1> DEFINE c == [completing EXCEPT !.at = "last hash"]
           same == RegressionHolds /\ regression = completing.regression
<1>1. /\ c \in Completions /\ c.at = "last hash"
      /\ c.quality = completing.quality
      /\ c.regression = completing.regression
  BY PhaseIs DEF CompletionPhases
<1>2. /\ Reading(IF same THEN c ELSE NoCompletion)
      /\ completing.at = "regression again"
  BY DEF CompleteRegressionAgain, Completing
<1> HIDE DEF c, same
<1>3. Agreeing(c, build, workflow)
  BY <1>1, <1>2, CompletionIs DEF Agreeing
<1> QED BY <1>1, <1>2, <1>3, Reads, GivesUp

LEMMA PublishKeeps ==
  ASSUME CompletionInv, GateInv, PublishFinalReceipt
  PROVE  CompletionInv'
<1> DEFINE q == completing.quality
           p == [build |-> completing.build, quality |-> q,
                 regression |-> completing.regression]
<1>1. /\ completing.at = "last hash" /\ completing' = NoCompletion
      /\ receipt' \in {p, NoReceipt}
      /\ UNCHANGED <<build, workflow>>
  BY DEF PublishFinalReceipt, Completing
<1>2. q.pass /\ q.workflow = workflow /\ q.tree[1] = completing.regression
  BY <1>1, CompletionIs DEF Agreeing
<1>3. p.quality = q /\ p.regression = completing.regression
  OBVIOUS
<1> HIDE DEF p, q
<1>4. ReceiptReportsAgree'
  BY <1>1, <1>2, <1>3 DEF ReceiptReportsAgree
<1> QED BY <1>1, <1>4, NothingIs DEF CompletionInv, Agreeing

LEMMA CompletionInvStep ==
  CompletionInv /\ GateInv /\ [EvidenceNext]_evidenceVars => CompletionInv'
<1> SUFFICES ASSUME CompletionInv, GateInv, [EvidenceNext]_evidenceVars
             PROVE  CompletionInv'
  OBVIOUS
<1>1. CASE CompleteFinal
  BY <1>1, CompleteEarlyKeeps, CompleteQualityKeeps, CompleteCompareKeeps,
     CompleteRegressionKeeps, CompleteQualityAgainKeeps,
     CompleteRegressionAgainKeeps, PublishKeeps DEF CompleteFinal
<1>2. ASSUME NEW g \in Gates, Gate(g) PROVE CompletionInv'
  BY <1>2
     DEF Gate, GateStart, GateClear, GateTest, GateTested, GateRead,
         GateAfter, GateReread, GateWrite, CompletionInv, ReceiptReportsAgree
<1>3. CASE EditTree
  <2>1. /\ build' \in Nat /\ build <= build'
        /\ UNCHANGED <<completing, receipt, workflow>>
    BY <1>3 DEF EditTree, GateInv
  <2>2. completing.quality.tree[1] \in Int /\ completing.regression \in Int
    BY CompletionIs DEF Completions, Pairs
  <2>3. \A i \in Int : i <= build => i <= build'
    BY <2>1, CompletionIs
  <2>4. Agreeing(completing, build', workflow)
    BY <2>2, <2>3, CompletionIs DEF Agreeing
  <2> QED BY <2>1, <2>4 DEF CompletionInv, ReceiptReportsAgree
<1>4. CASE NextWorkflow
  BY <1>4 DEF NextWorkflow, Completing, CompletionInv, Agreeing,
              ReceiptReportsAgree
<1>5. CASE Browser \/ RecordRegression
  BY <1>5 DEF Browser, VerifyStart, VerifyEnd, RecordRegression,
              CompletionInv, ReceiptReportsAgree
<1>6. CASE UNCHANGED evidenceVars
  BY <1>6 DEF evidenceVars, CompletionInv, ReceiptReportsAgree
<1> QED BY <1>1, <1>2, <1>3, <1>4, <1>5, <1>6 DEF EvidenceNext

-----------------------------------------------------------------------------
(* A gate that passed alone reports the coverage of the tree it reports    *)
(* (runQualityGate).                                                       *)
THEOREM GatesMeasureTheTree == EvidenceSpec => []GateMeasured
<1>1. GateInv => GateMeasured
  BY DEF GateInv, GateMeasured
<1> QED BY <1>1, GateInvInit, GateInvStep, PTL DEF EvidenceSpec

(* The quality report and the regression report that a final receipt names *)
(* are about one build, and the quality report is of the workflow that was *)
(* completed (validateCompletionEvidence, measuredReports).                *)
THEOREM FinalReceiptsAgree == EvidenceSpec => []ReceiptReportsAgree
<1>1. CompletionInv => ReceiptReportsAgree
  BY DEF CompletionInv
<1> QED BY <1>1, GateInvInit, GateInvStep, CompletionInvInit,
           CompletionInvStep, PTL DEF EvidenceSpec

HIDE EvidenceAssumption

-----------------------------------------------------------------------------
(***************************************************************************)
(* That the retry of a completion is recognised by what it claims, for any *)
(* number of items, edits and visual ids.  The reports the caller left     *)
(* out come back one by one, and putting an item back where it was undoes  *)
(* taking it out (PutBack); that a receipt names each item once says which *)
(* items these are.                                                        *)
(***************************************************************************)

ItemRecord == [id : {"artifact"} \union VisualIds \union ReportIds,
               ok : BOOLEAN, digest : Int]

Evidence == Seq(ItemRecord)

Unique(e) == \A i, j \in 1 .. Len(e) : e[i].id = e[j].id => i = j

LEMMA ReportNames ==
  /\ ReportIds = {"measured-quality-report", "final-regression-report"}
  /\ "artifact" \notin VisualIds \union ReportIds
  /\ {"none", "rejected"} \intersect ({"artifact"} \union VisualIds \union ReportIds) = {}
  /\ VisualIds \intersect ReportIds = {}
<1>1. ReportIds = {"measured-quality-report", "final-regression-report"}
  BY DEF ReportIds, Reported
<1> QED BY <1>1, ReplayAssumption

LEMMA SequenceOf ==
  ASSUME NEW S, NEW n \in Nat, NEW f \in [1 .. n -> S]
  PROVE  f \in Seq(S) /\ Len(f) = n
  OBVIOUS

LEMMA EvidenceIs ==
  ASSUME NEW e \in Evidence
  PROVE  /\ Len(e) \in Nat /\ DOMAIN e = 1 .. Len(e)
         /\ \A i \in 1 .. Len(e) : e[i] \in ItemRecord
  BY DEF Evidence

LEMMA SameInterval ==
  ASSUME NEW a \in Nat, NEW b \in Nat, 1 .. a = 1 .. b
  PROVE  a = b
<1>1. \A x \in Int : x \in 1 .. a <=> x \in 1 .. b
  OBVIOUS
<1>2. (1 <= a => a <= b) /\ (1 <= b => b <= a)
  BY ONLY <1>1, a \in Nat, b \in Nat
<1> QED BY <1>2

(* An item put at place i: what was there and behind it moves on.          *)
LEMMA PutAtIs ==
  ASSUME NEW e \in Evidence, NEW x \in ItemRecord, NEW i \in Nat \ {0}
  PROVE  /\ PutAt(e, i, x) \in Evidence
         /\ Len(PutAt(e, i, x)) = Len(e) + 1
         /\ i <= Len(e) + 1 =>
              \A j \in 1 .. Len(e) + 1 :
                PutAt(e, i, x)[j] =
                  IF j < i THEN e[j] ELSE IF j = i THEN x ELSE e[j - 1]
<1> DEFINE n == IF i <= Len(e) THEN i ELSE Len(e) + 1
           f == [j \in 1 .. Len(e) + 1 |->
                   IF j < n THEN e[j] ELSE IF j = n THEN x ELSE e[j - 1]]
<1>1. Len(e) \in Nat /\ \A j \in 1 .. Len(e) : e[j] \in ItemRecord
  BY EvidenceIs
<1>2. n \in 1 .. Len(e) + 1
  BY <1>1
<1>3. i <= Len(e) + 1 => n = i
  BY <1>1
<1> HIDE DEF n
<1>4. \A j \in 1 .. Len(e) + 1 :
        (IF j < n THEN e[j] ELSE IF j = n THEN x ELSE e[j - 1]) \in ItemRecord
  BY <1>1, <1>2
<1>5. f \in [1 .. Len(e) + 1 -> ItemRecord]
  BY <1>4
<1>6. f \in Evidence /\ Len(f) = Len(e) + 1
  BY <1>1, <1>5, SequenceOf DEF Evidence
<1>7. PutAt(e, i, x) = f
  BY DEF PutAt, n
<1> QED BY <1>3, <1>6, <1>7

LEMMA WithoutIs ==
  ASSUME NEW p \in Evidence, NEW i \in 1 .. Len(p)
  PROVE  /\ Without(p, i) \in Evidence
         /\ Len(Without(p, i)) = Len(p) - 1
         /\ \A j \in 1 .. Len(p) - 1 :
              Without(p, i)[j] = IF j < i THEN p[j] ELSE p[j + 1]
<1> DEFINE f == [j \in 1 .. Len(p) - 1 |-> IF j < i THEN p[j] ELSE p[j + 1]]
<1>1. Len(p) \in Nat /\ \A j \in 1 .. Len(p) : p[j] \in ItemRecord
  BY EvidenceIs
<1>2. \A j \in 1 .. Len(p) - 1 :
        (IF j < i THEN p[j] ELSE p[j + 1]) \in ItemRecord
  BY <1>1
<1>3. f \in [1 .. Len(p) - 1 -> ItemRecord] /\ Len(p) - 1 \in Nat
  BY <1>1, <1>2
<1>4. f \in Evidence /\ Len(f) = Len(p) - 1
  BY <1>3, SequenceOf DEF Evidence
<1>5. Without(p, i) = f
  BY DEF Without
<1> QED BY <1>4, <1>5

LEMMA WithoutBehind ==
  ASSUME NEW p \in Evidence, NEW i \in 1 .. Len(p), NEW k \in 1 .. Len(p), i < k
  PROVE  i \in 1 .. Len(Without(p, k)) /\ Without(p, k)[i] = p[i]
<1>1. i \in 1 .. Len(p) - 1
  BY EvidenceIs
<1> QED BY <1>1, WithoutIs

(* An item is put back where it was taken out.                             *)
LEMMA PutBack ==
  ASSUME NEW e \in Evidence, NEW p \in Evidence, NEW i \in 1 .. Len(p)
  PROVE  Repeated(PutAt(e, i, p[i]), p) <=> Repeated(e, Without(p, i))
<1>1. /\ Len(e) \in Nat /\ Len(p) \in Nat /\ i \in Nat \ {0}
      /\ p[i] \in ItemRecord
  BY EvidenceIs
<1> DEFINE x == p[i]
           t == PutAt(e, i, x)
           w == Without(p, i)
<1>2. x \in ItemRecord /\ i \in Nat \ {0} /\ x = p[i]
  BY <1>1
<1> HIDE DEF x
<1>3. /\ Len(t) = Len(e) + 1
      /\ i <= Len(e) + 1 =>
           \A j \in 1 .. Len(e) + 1 :
             t[j] = IF j < i THEN e[j] ELSE IF j = i THEN x ELSE e[j - 1]
  BY ZenonT(60), <1>2, PutAtIs
<1>4. /\ Len(w) = Len(p) - 1
      /\ \A j \in 1 .. Len(p) - 1 : w[j] = IF j < i THEN p[j] ELSE p[j + 1]
  BY WithoutIs
<1> HIDE DEF t, w
<1>5. ASSUME Repeated(t, p) PROVE Repeated(e, w)
  <2>1. Len(e) + 1 = Len(p) /\ \A j \in 1 .. Len(p) : Repeats(t[j], p[j])
    BY <1>3, <1>5 DEF Repeated
  <2>2. ASSUME NEW j \in 1 .. Len(p) - 1 PROVE Repeats(e[j], w[j])
    <3>1. CASE j < i
      <4>1. t[j] = e[j] /\ w[j] = p[j] /\ j \in 1 .. Len(p)
        BY <1>1, <1>3, <1>4, <2>1, <3>1
      <4> QED BY <2>1, <4>1
    <3>2. CASE ~(j < i)
      <4>1. t[j + 1] = e[j] /\ w[j] = p[j + 1] /\ j + 1 \in 1 .. Len(p)
        BY <1>1, <1>3, <1>4, <2>1, <3>2
      <4> QED BY <2>1, <4>1
    <3> QED BY <3>1, <3>2
  <2>3. Len(e) = Len(w)
    BY <1>1, <1>4, <2>1
  <2> QED BY <1>4, <2>2, <2>3 DEF Repeated
<1>6. ASSUME Repeated(e, w) PROVE Repeated(t, p)
  <2>1. Len(e) + 1 = Len(p) /\ \A j \in 1 .. Len(p) - 1 : Repeats(e[j], w[j])
    BY <1>1, <1>4, <1>6 DEF Repeated
  <2>2. ASSUME NEW j \in 1 .. Len(p) PROVE Repeats(t[j], p[j])
    <3>1. CASE j < i
      <4>1. j \in 1 .. Len(p) - 1 /\ j \in 1 .. Len(e) + 1 /\ i <= Len(e) + 1
        BY <1>1, <2>1, <3>1
      <4>2. t[j] = e[j] /\ w[j] = p[j]
        BY <1>3, <1>4, <3>1, <4>1
      <4> QED BY <2>1, <4>1, <4>2
    <3>2. CASE j = i
      <4>1. t[j] = p[j]
        BY <1>1, <1>2, <1>3, <2>1, <3>2
      <4> QED BY <4>1 DEF Repeats
    <3>3. CASE i < j
      <4>1. t[j] = e[j - 1] /\ w[j - 1] = p[j] /\ j - 1 \in 1 .. Len(p) - 1
        BY <1>1, <1>3, <1>4, <2>1, <3>3
      <4> QED BY <2>1, <4>1
    <3> QED BY <1>1, <3>1, <3>2, <3>3
  <2>3. Len(t) = Len(p)
    BY <1>3, <2>1
  <2> QED BY <2>2, <2>3 DEF Repeated
<1> QED BY <1>5, <1>6 DEF t, w, x

-----------------------------------------------------------------------------
(* What repeating, and leaving a report out, do to the names               *)

LEMMA RepeatsItem ==
  ASSUME NEW x \in ItemRecord, NEW y \in ItemRecord, Repeats(x, y)
  PROVE  x.id = y.id /\ x.ok = y.ok
  BY DEF Repeats, ItemRecord

LEMMA HasIs ==
  ASSUME NEW e \in Evidence, NEW id
  PROVE  Has(e, id) <=> \E i \in 1 .. Len(e) : e[i].id = id
  BY EvidenceIs DEF Has

LEMMA ShapeIs ==
  ASSUME NEW e \in Evidence, NEW R
  PROVE  WellShaped(R, e) <=>
           /\ Unique(e)
           /\ \A i \in 1 .. Len(e) : e[i].id \in R \union ReportIds
           /\ \A id \in R : \E i \in 1 .. Len(e) : e[i].id = id /\ e[i].ok
  BY EvidenceIs DEF WellShaped, Unique

LEMMA RepeatedNames ==
  ASSUME NEW e \in Evidence, NEW r \in Evidence, Repeated(e, r)
  PROVE  /\ Len(e) = Len(r)
         /\ \A i \in 1 .. Len(r) : e[i].id = r[i].id /\ e[i].ok = r[i].ok
         /\ \A id : Has(e, id) <=> Has(r, id)
<1>1. Len(e) = Len(r) /\ \A i \in 1 .. Len(r) : Repeats(e[i], r[i])
  BY DEF Repeated
<1>2. \A i \in 1 .. Len(r) : e[i].id = r[i].id /\ e[i].ok = r[i].ok
  BY <1>1, EvidenceIs, RepeatsItem
<1>3. ASSUME NEW id PROVE Has(e, id) <=> Has(r, id)
  BY <1>1, <1>2, HasIs
<1> QED BY <1>1, <1>2, <1>3

LEMMA RepeatedShape ==
  ASSUME NEW e \in Evidence, NEW r \in Evidence, Repeated(e, r), NEW R,
         WellShaped(R, r)
  PROVE  WellShaped(R, e)
<1>1. /\ Len(e) = Len(r)
      /\ \A i \in 1 .. Len(r) : e[i].id = r[i].id /\ e[i].ok = r[i].ok
  BY RepeatedNames
<1>2. /\ Unique(r)
      /\ \A i \in 1 .. Len(r) : r[i].id \in R \union ReportIds
      /\ \A id \in R : \E i \in 1 .. Len(r) : r[i].id = id /\ r[i].ok
  BY ShapeIs
<1>3. Unique(e)
  BY <1>1, <1>2 DEF Unique
<1>4. /\ \A i \in 1 .. Len(e) : e[i].id \in R \union ReportIds
      /\ \A id \in R : \E i \in 1 .. Len(e) : e[i].id = id /\ e[i].ok
  BY <1>1, <1>2
<1> QED BY <1>3, <1>4, ShapeIs

(* The places of p but i are those of p without i.                         *)
LEMMA WithoutPlaces ==
  ASSUME NEW p \in Evidence, NEW i \in 1 .. Len(p)
  PROVE  /\ \A j \in 1 .. Len(p) : j # i =>
              \E k \in 1 .. Len(Without(p, i)) : Without(p, i)[k] = p[j]
         /\ \A k \in 1 .. Len(Without(p, i)) :
              \E j \in 1 .. Len(p) : j # i /\ Without(p, i)[k] = p[j]
<1> DEFINE w == Without(p, i)
<1>1. Len(p) \in Nat
  BY EvidenceIs
<1>2. /\ Len(w) = Len(p) - 1
      /\ \A j \in 1 .. Len(p) - 1 : w[j] = IF j < i THEN p[j] ELSE p[j + 1]
  BY WithoutIs
<1> HIDE DEF w
<1>3. ASSUME NEW j \in 1 .. Len(p), j # i
      PROVE  \E k \in 1 .. Len(w) : w[k] = p[j]
  <2>1. CASE j < i
    <3>1. j \in 1 .. Len(p) - 1
      BY <1>1, <2>1
    <3> QED BY <1>2, <2>1, <3>1
  <2>2. CASE i < j
    <3>1. j - 1 \in 1 .. Len(p) - 1 /\ ~(j - 1 < i) /\ (j - 1) + 1 = j
      BY <1>1, <2>2
    <3> QED BY <1>2, <3>1
  <2> QED BY <1>1, <1>3, <2>1, <2>2
<1>4. ASSUME NEW k \in 1 .. Len(w)
      PROVE  \E j \in 1 .. Len(p) : j # i /\ w[k] = p[j]
  <2>1. CASE k < i
    <3>1. k \in 1 .. Len(p) /\ k # i /\ k \in 1 .. Len(p) - 1
      BY <1>1, <1>2, <2>1
    <3> QED BY <1>2, <2>1, <3>1
  <2>2. CASE ~(k < i)
    <3>1. k + 1 \in 1 .. Len(p) /\ k + 1 # i /\ k \in 1 .. Len(p) - 1
      BY <1>1, <1>2, <2>2
    <3> QED BY <1>2, <2>2, <3>1
  <2> QED BY <2>1, <2>2
<1> QED BY <1>3, <1>4 DEF w

LEMMA WithoutUnique ==
  ASSUME NEW p \in Evidence, NEW i \in 1 .. Len(p), Unique(p)
  PROVE  /\ Unique(Without(p, i))
         /\ \A id : Has(Without(p, i), id) <=> Has(p, id) /\ id # p[i].id
<1> DEFINE w == Without(p, i)
<1>1. Len(p) \in Nat /\ w \in Evidence
  BY EvidenceIs, WithoutIs
<1>2. /\ Len(w) = Len(p) - 1
      /\ \A j \in 1 .. Len(p) - 1 : w[j] = IF j < i THEN p[j] ELSE p[j + 1]
  BY WithoutIs
<1>3. /\ \A j \in 1 .. Len(p) : j # i => \E k \in 1 .. Len(w) : w[k] = p[j]
      /\ \A k \in 1 .. Len(w) : \E j \in 1 .. Len(p) : j # i /\ w[k] = p[j]
  BY WithoutPlaces
<1> HIDE DEF w
<1>4. ASSUME NEW j \in 1 .. Len(w), NEW k \in 1 .. Len(w), w[j].id = w[k].id
      PROVE  j = k
  <2> DEFINE at(n) == IF n < i THEN n ELSE n + 1
  <2>1. /\ at(j) \in 1 .. Len(p) /\ at(k) \in 1 .. Len(p)
        /\ w[j] = p[at(j)] /\ w[k] = p[at(k)]
    BY <1>1, <1>2
  <2>2. at(j) = at(k)
    BY <1>4, <2>1 DEF Unique
  <2> QED BY <1>1, <1>2, <2>2
<1>5. Unique(w)
  BY <1>4 DEF Unique
<1>6. ASSUME NEW id PROVE Has(w, id) <=> Has(p, id) /\ id # p[i].id
  <2>1. ASSUME Has(w, id) PROVE Has(p, id) /\ id # p[i].id
    <3>1. PICK k \in 1 .. Len(w) : w[k].id = id
      BY <1>1, <2>1, HasIs
    <3>2. PICK j \in 1 .. Len(p) : j # i /\ w[k] = p[j]
      BY <1>3
    <3>3. p[j].id # p[i].id
      BY <3>2 DEF Unique
    <3> QED BY <3>1, <3>2, <3>3, HasIs
  <2>2. ASSUME Has(p, id), id # p[i].id PROVE Has(w, id)
    <3>1. PICK j \in 1 .. Len(p) : p[j].id = id
      BY <2>2, HasIs
    <3>2. j # i
      BY <2>2, <3>1
    <3>3. \E k \in 1 .. Len(w) : w[k] = p[j]
      BY <1>3, <3>2
    <3> QED BY <1>1, <3>1, <3>3, HasIs
  <2> QED BY <2>1, <2>2
<1> QED BY <1>5, <1>6 DEF w

(* A receipt keeps its shape without one of its reports.                   *)
LEMMA WithoutShape ==
  ASSUME NEW p \in Evidence, NEW i \in 1 .. Len(p), p[i].id \in ReportIds,
         NEW R, R \intersect ReportIds = {}, WellShaped(R, p)
  PROVE  WellShaped(R, Without(p, i))
<1> DEFINE w == Without(p, i)
<1>1. w \in Evidence
  BY WithoutIs
<1>2. /\ Unique(p)
      /\ \A j \in 1 .. Len(p) : p[j].id \in R \union ReportIds
      /\ \A id \in R : \E j \in 1 .. Len(p) : p[j].id = id /\ p[j].ok
  BY ShapeIs
<1>3. /\ \A j \in 1 .. Len(p) : j # i => \E k \in 1 .. Len(w) : w[k] = p[j]
      /\ \A k \in 1 .. Len(w) : \E j \in 1 .. Len(p) : j # i /\ w[k] = p[j]
  BY WithoutPlaces
<1>4. Unique(w)
  BY <1>2, WithoutUnique
<1> HIDE DEF w
<1>5. \A k \in 1 .. Len(w) : w[k].id \in R \union ReportIds
  BY <1>2, <1>3
<1>6. ASSUME NEW id \in R PROVE \E k \in 1 .. Len(w) : w[k].id = id /\ w[k].ok
  <2>1. PICK j \in 1 .. Len(p) : p[j].id = id /\ p[j].ok
    BY <1>2
  <2>2. j # i
    BY <2>1
  <2> QED BY <1>3, <2>1, <2>2
<1> QED BY <1>1, <1>4, <1>5, <1>6, ShapeIs DEF w

-----------------------------------------------------------------------------
(* The retry                                                               *)

LEMMA LeastOfOne ==
  ASSUME NEW i \in Nat
  PROVE  /\ (CHOOSE x \in {i} : \A y \in {i} : x <= y) = i
         /\ (CHOOSE x \in {i} : \A y \in {i} : y <= x) = i
<1>1. i \in {i} /\ \A y \in {i} : i <= y /\ y <= i
  OBVIOUS
<1> QED BY <1>1

LEMMA EndsOfTwo ==
  ASSUME NEW i \in Nat, NEW k \in Nat, i < k
  PROVE  /\ (CHOOSE x \in {i, k} : \A y \in {i, k} : x <= y) = i
         /\ (CHOOSE x \in {i, k} : \A y \in {i, k} : y <= x) = k
<1>1. i \in {i, k} /\ \A y \in {i, k} : i <= y
  OBVIOUS
<1>2. \A x \in {i, k} : (\A y \in {i, k} : x <= y) => x = i
  OBVIOUS
<1>3. k \in {i, k} /\ \A y \in {i, k} : y <= k
  OBVIOUS
<1>4. \A x \in {i, k} : (\A y \in {i, k} : y <= x) => x = k
  OBVIOUS
<1> QED BY <1>1, <1>2, <1>3, <1>4

(* What the restored evidence is, by the number of reports left out.       *)
LEMMA RestoreIs ==
  ASSUME NEW e \in Evidence, NEW p \in Evidence
  PROVE  /\ LeftOut(e, p) = {} => Restore(e, p) = e
         /\ \A i \in 1 .. Len(p) :
              LeftOut(e, p) = {i} => Restore(e, p) = PutAt(e, i, p[i])
         /\ \A i, k \in 1 .. Len(p) :
              LeftOut(e, p) = {i, k} /\ i < k =>
                Restore(e, p) = PutAt(PutAt(e, i, p[i]), k, p[k])
<1>0. Len(p) \in Nat
  BY EvidenceIs
<1>1. ASSUME LeftOut(e, p) = {} PROVE Restore(e, p) = e
  BY <1>1 DEF Restore
<1>2. ASSUME NEW i \in 1 .. Len(p), LeftOut(e, p) = {i}
      PROVE  Restore(e, p) = PutAt(e, i, p[i])
  <2>1. /\ (CHOOSE x \in {i} : \A y \in {i} : x <= y) = i
        /\ (CHOOSE x \in {i} : \A y \in {i} : y <= x) = i
    BY <1>0, LeastOfOne
  <2>2. /\ (CHOOSE x \in LeftOut(e, p) : \A y \in LeftOut(e, p) : x <= y) = i
        /\ (CHOOSE x \in LeftOut(e, p) : \A y \in LeftOut(e, p) : y <= x) = i
    BY <1>2, <2>1, Zenon
  <2>3. LeftOut(e, p) # {}
    BY <1>2
  <2> QED BY <2>2, <2>3, Zenon DEF Restore
<1>3. ASSUME NEW i \in 1 .. Len(p), NEW k \in 1 .. Len(p),
             LeftOut(e, p) = {i, k}, i < k
      PROVE  Restore(e, p) = PutAt(PutAt(e, i, p[i]), k, p[k])
  <2>1. /\ (CHOOSE x \in {i, k} : \A y \in {i, k} : x <= y) = i
        /\ (CHOOSE x \in {i, k} : \A y \in {i, k} : y <= x) = k
    BY <1>0, <1>3, EndsOfTwo
  <2>2. /\ (CHOOSE x \in LeftOut(e, p) : \A y \in LeftOut(e, p) : x <= y) = i
        /\ (CHOOSE x \in LeftOut(e, p) : \A y \in LeftOut(e, p) : y <= x) = k
    BY <1>3, <2>1, Zenon
  <2>3. LeftOut(e, p) # {} /\ i # k
    BY <1>0, <1>3
  <2> QED BY <2>2, <2>3, Zenon DEF Restore
<1> QED BY <1>1, <1>2, <1>3

(* The reports that are missing, if p without one or two of them is what   *)
(* evidence e repeats.                                                     *)
LEMMA LeftOutIs ==
  ASSUME NEW e \in Evidence, NEW p \in Evidence, Unique(p)
  PROVE  /\ Repeated(e, p) => LeftOut(e, p) = {}
         /\ \A i \in 1 .. Len(p) :
              p[i].id \in ReportIds /\ Repeated(e, Without(p, i)) =>
                LeftOut(e, p) = {i}
         /\ \A i, k \in 1 .. Len(p) :
              /\ i < k /\ p[i].id \in ReportIds /\ p[k].id \in ReportIds
              /\ Repeated(e, Without(Without(p, k), i))
              => LeftOut(e, p) = {i, k}
<1>0. /\ Len(p) \in Nat
      /\ \A j \in 1 .. Len(p) : Has(p, p[j].id)
      /\ LeftOut(e, p) = {j \in 1 .. Len(p) : p[j].id \in ReportIds
                                                /\ ~Has(e, p[j].id)}
  BY EvidenceIs, HasIs DEF LeftOut
<1>1. ASSUME Repeated(e, p) PROVE LeftOut(e, p) = {}
  <2>1. \A id : Has(e, id) <=> Has(p, id)
    BY <1>1, RepeatedNames
  <2> QED BY <1>0, <2>1
<1>2. ASSUME NEW i \in 1 .. Len(p), p[i].id \in ReportIds,
             Repeated(e, Without(p, i))
      PROVE  LeftOut(e, p) = {i}
  <2>1. \A id : Has(e, id) <=> Has(Without(p, i), id)
    BY <1>2, WithoutIs, RepeatedNames
  <2>2. \A id : Has(Without(p, i), id) <=> Has(p, id) /\ id # p[i].id
    BY WithoutUnique
  <2>3. \A j \in 1 .. Len(p) : ~Has(e, p[j].id) <=> p[j].id = p[i].id
    BY <1>0, <2>1, <2>2
  <2>4. \A j \in 1 .. Len(p) : p[j].id = p[i].id => j = i
    BY DEF Unique
  <2> QED BY <1>0, <1>2, <2>3, <2>4
<1>3. ASSUME NEW i \in 1 .. Len(p), NEW k \in 1 .. Len(p), i < k,
             p[i].id \in ReportIds, p[k].id \in ReportIds,
             Repeated(e, Without(Without(p, k), i))
      PROVE  LeftOut(e, p) = {i, k}
  <2>1. PICK q \in Evidence : q = Without(p, k)
    BY WithoutIs
  <2>2. i \in 1 .. Len(q) /\ q[i] = p[i]
    BY <1>3, <2>1, WithoutBehind
  <2>3. Unique(q) /\ \A id : Has(q, id) <=> Has(p, id) /\ id # p[k].id
    BY <2>1, WithoutUnique
  <2>4. \A id : Has(Without(q, i), id) <=> Has(q, id) /\ id # p[i].id
    BY <2>2, <2>3, WithoutUnique
  <2>5. \A id : Has(e, id) <=> Has(Without(q, i), id)
    BY <1>3, <2>1, <2>2, WithoutIs, RepeatedNames
  <2>6. \A j \in 1 .. Len(p) :
          ~Has(e, p[j].id) <=> p[j].id = p[i].id \/ p[j].id = p[k].id
    BY <1>0, <2>3, <2>4, <2>5
  <2>7. \A j \in 1 .. Len(p) : /\ p[j].id = p[i].id => j = i
                               /\ p[j].id = p[k].id => j = k
    BY DEF Unique
  <2> QED BY <1>0, <1>3, <2>6, <2>7
<1> QED BY <1>1, <1>2, <1>3

(* At most two reports can be missing.                                     *)
LEMMA LeftOutCases ==
  ASSUME NEW e \in Evidence, NEW p \in Evidence, Unique(p)
  PROVE  \/ LeftOut(e, p) = {}
         \/ \E i \in 1 .. Len(p) : LeftOut(e, p) = {i} /\ p[i].id \in ReportIds
         \/ \E i, k \in 1 .. Len(p) :
              /\ LeftOut(e, p) = {i, k} /\ i < k
              /\ p[i].id \in ReportIds /\ p[k].id \in ReportIds
<1>0. /\ Len(p) \in Nat
      /\ \A j \in LeftOut(e, p) : j \in 1 .. Len(p) /\ p[j].id \in ReportIds
  BY EvidenceIs DEF LeftOut
<1> DEFINE L == LeftOut(e, p)
<1> HIDE DEF L
<1>1. CASE \E i \in L : L = {i}
  BY <1>0, <1>1 DEF L
<1>2. CASE \E i, k \in L : i # k
  <2>1. PICK i \in L, k \in L : i # k
    BY <1>2
  <2>2. /\ i \in 1 .. Len(p) /\ p[i].id \in ReportIds
        /\ k \in 1 .. Len(p) /\ p[k].id \in ReportIds
    BY <1>0 DEF L
  <2>3. p[i].id # p[k].id
    BY <2>1, <2>2 DEF Unique
  <2>4. ASSUME NEW j \in L PROVE j = i \/ j = k
    <3>1. j \in 1 .. Len(p) /\ p[j].id \in ReportIds
      BY <1>0 DEF L
    <3>2. p[j].id = p[i].id \/ p[j].id = p[k].id
      BY <2>2, <2>3, <3>1, ReportNames
    <3> QED BY <2>2, <3>1, <3>2 DEF Unique
  <2>5. L = {i, k}
    BY <2>4
  <2>6. i < k \/ k < i
    BY <1>0, <2>1, <2>2
  <2> QED BY <2>2, <2>5, <2>6 DEF L
<1> QED BY <1>1, <1>2 DEF L

LEMMA ShortenedIs ==
  ASSUME NEW p \in Evidence, NEW r
  PROVE  r \in Shortened(p) <=>
           \/ r = p
           \/ \E i \in 1 .. Len(p) : p[i].id \in ReportIds /\ r = Without(p, i)
           \/ \E i, k \in 1 .. Len(p) :
                /\ i < k /\ p[i].id \in ReportIds /\ p[k].id \in ReportIds
                /\ r = Without(Without(p, k), i)
<1> DEFINE named == {i \in 1 .. Len(p) : p[i].id \in ReportIds}
<1>1. Shortened(p) =
        {p} \union {Without(p, i) : i \in named}
        \union {Without(Without(p, x[2]), x[1]) :
                  x \in {y \in named \X named : y[1] < y[2]}}
  BY EvidenceIs, Zenon DEF Shortened
<1>2. r \in {Without(p, i) : i \in named}
        <=> \E i \in named : r = Without(p, i)
  OBVIOUS
<1>3. r \in {Without(Without(p, x[2]), x[1]) :
               x \in {y \in named \X named : y[1] < y[2]}}
        <=> \E i, k \in named : i < k /\ r = Without(Without(p, k), i)
  <2>1. ASSUME NEW x \in named \X named, x[1] < x[2],
               r = Without(Without(p, x[2]), x[1])
        PROVE  \E i, k \in named : i < k /\ r = Without(Without(p, k), i)
    BY <2>1
  <2>2. ASSUME NEW i \in named, NEW k \in named, i < k,
               r = Without(Without(p, k), i)
        PROVE  \E x \in {y \in named \X named : y[1] < y[2]} :
                 r = Without(Without(p, x[2]), x[1])
    <3>1. <<i, k>> \in {y \in named \X named : y[1] < y[2]}
      BY <2>2
    <3>2. <<i, k>>[1] = i /\ <<i, k>>[2] = k
      OBVIOUS
    <3> QED BY <2>2, <3>1, <3>2
  <2> QED BY <2>1, <2>2
<1> QED BY <1>1, <1>2, <1>3

(* The claims of a receipt are made by what repeats it, or repeats what is  *)
(* left of it without some of its reports.                                 *)
SameClaims(e, p) == \E rest \in Shortened(p) : Repeated(e, rest)

(* The restored evidence repeats the receipt if and only if what came in   *)
(* makes the same claims.                                                  *)
LEMMA RestoredRepeats ==
  ASSUME NEW e \in Evidence, NEW p \in Evidence, Unique(p)
  PROVE  Repeated(Restore(e, p), p) <=> SameClaims(e, p)
<1>0. Len(p) \in Nat
  BY EvidenceIs
<1>1. ASSUME NEW i \in 1 .. Len(p), LeftOut(e, p) = {i}
      PROVE  Repeated(Restore(e, p), p) <=> Repeated(e, Without(p, i))
  BY <1>1, RestoreIs, PutBack
<1>2. ASSUME NEW i \in 1 .. Len(p), NEW k \in 1 .. Len(p), i < k,
             LeftOut(e, p) = {i, k}
      PROVE  Repeated(Restore(e, p), p)
               <=> Repeated(e, Without(Without(p, k), i))
  <2>1. PICK q \in Evidence : q = Without(p, k)
    BY WithoutIs
  <2>2. i \in 1 .. Len(q) /\ q[i] = p[i] /\ p[i] \in ItemRecord
    BY <1>2, <2>1, WithoutBehind, EvidenceIs
  <2>3. PICK b \in Evidence : b = PutAt(e, i, p[i])
    BY <2>2, PutAtIs
  <2>4. Repeated(b, q) <=> Repeated(e, Without(q, i))
    BY <2>2, <2>3, PutBack
  <2>5. Repeated(PutAt(b, k, p[k]), p) <=> Repeated(b, Without(p, k))
    BY PutBack
  <2>6. Restore(e, p) = PutAt(b, k, p[k])
    BY <1>2, <2>3, RestoreIs
  <2> QED BY <2>1, <2>4, <2>5, <2>6
<1>3. ASSUME Repeated(Restore(e, p), p) PROVE SameClaims(e, p)
  <2>1. CASE LeftOut(e, p) = {}
    <3>1. Repeated(e, p) /\ p \in Shortened(p)
      BY <1>3, <2>1, RestoreIs, ShortenedIs
    <3> QED BY <3>1 DEF SameClaims
  <2>2. CASE \E i \in 1 .. Len(p) : LeftOut(e, p) = {i} /\ p[i].id \in ReportIds
    <3>1. PICK i \in 1 .. Len(p) : LeftOut(e, p) = {i} /\ p[i].id \in ReportIds
      BY <2>2
    <3>2. Repeated(e, Without(p, i)) /\ Without(p, i) \in Shortened(p)
      BY <1>1, <1>3, <3>1, ShortenedIs
    <3> QED BY <3>2 DEF SameClaims
  <2>3. CASE \E i, k \in 1 .. Len(p) :
               /\ LeftOut(e, p) = {i, k} /\ i < k
               /\ p[i].id \in ReportIds /\ p[k].id \in ReportIds
    <3>1. PICK i \in 1 .. Len(p), k \in 1 .. Len(p) :
               /\ LeftOut(e, p) = {i, k} /\ i < k
               /\ p[i].id \in ReportIds /\ p[k].id \in ReportIds
      BY <2>3
    <3>2. /\ Repeated(e, Without(Without(p, k), i))
          /\ Without(Without(p, k), i) \in Shortened(p)
      BY <1>2, <1>3, <3>1, ShortenedIs
    <3> QED BY <3>2 DEF SameClaims
  <2> QED BY <2>1, <2>2, <2>3, LeftOutCases
<1>4. ASSUME SameClaims(e, p) PROVE Repeated(Restore(e, p), p)
  <2>1. PICK r \in Shortened(p) : Repeated(e, r)
    BY <1>4 DEF SameClaims
  <2>2. CASE r = p
    BY <2>1, <2>2, LeftOutIs, RestoreIs
  <2>3. CASE \E i \in 1 .. Len(p) : p[i].id \in ReportIds /\ r = Without(p, i)
    <3>1. PICK i \in 1 .. Len(p) : p[i].id \in ReportIds /\ r = Without(p, i)
      BY <2>3
    <3>2. LeftOut(e, p) = {i}
      BY <2>1, <3>1, LeftOutIs
    <3> QED BY <1>1, <2>1, <3>1, <3>2
  <2>4. CASE \E i, k \in 1 .. Len(p) :
               /\ i < k /\ p[i].id \in ReportIds /\ p[k].id \in ReportIds
               /\ r = Without(Without(p, k), i)
    <3>1. PICK i \in 1 .. Len(p), k \in 1 .. Len(p) :
               /\ i < k /\ p[i].id \in ReportIds /\ p[k].id \in ReportIds
               /\ r = Without(Without(p, k), i)
      BY <2>4
    <3>2. LeftOut(e, p) = {i, k}
      BY <2>1, <3>1, LeftOutIs
    <3> QED BY <1>2, <2>1, <3>1, <3>2
  <2> QED BY <2>1, <2>2, <2>3, <2>4, ShortenedIs
<1> QED BY <1>3, <1>4

(* Completing the digests makes two items equal if one repeats the other.  *)
LEMMA CompletedIs ==
  ASSUME NEW f \in Evidence, NEW p \in Evidence
  PROVE  Completed(f, p) = p <=> Repeated(f, p)
<1> DEFINE filled(x, y) ==
      IF x.id = "artifact" /\ y.id = "artifact" /\ x.digest = -1
      THEN [x EXCEPT !.digest = y.digest] ELSE x
<1>0. /\ Len(f) \in Nat /\ DOMAIN f = 1 .. Len(f)
      /\ Len(p) \in Nat /\ DOMAIN p = 1 .. Len(p)
  BY EvidenceIs
<1>1. ASSUME NEW x \in ItemRecord, NEW y \in ItemRecord
      PROVE  filled(x, y) = y <=> Repeats(x, y)
  BY DEF ItemRecord, Repeats
<1>2. \A i \in 1 .. Len(f) :
        i \in 1 .. Len(p) => Completed(f, p)[i] = filled(f[i], p[i])
  BY <1>0 DEF Completed
<1>3. DOMAIN Completed(f, p) = 1 .. Len(f)
  BY <1>0 DEF Completed
<1> HIDE DEF filled
<1>4. ASSUME Completed(f, p) = p PROVE Repeated(f, p)
  <2>1. Len(f) = Len(p)
    <3>1. 1 .. Len(f) = 1 .. Len(p)
      BY <1>0, <1>3, <1>4, Zenon
    <3> QED BY <1>0, <3>1, SameInterval
  <2>2. \A i \in 1 .. Len(p) : filled(f[i], p[i]) = p[i]
    BY <1>2, <1>4, <2>1
  <2>3. \A i \in 1 .. Len(p) : Repeats(f[i], p[i])
    BY <1>1, <2>1, <2>2, EvidenceIs
  <2> QED BY <2>1, <2>3 DEF Repeated
<1>5. ASSUME Repeated(f, p) PROVE Completed(f, p) = p
  <2>1. Len(f) = Len(p) /\ \A i \in 1 .. Len(p) : Repeats(f[i], p[i])
    BY <1>5 DEF Repeated
  <2>2. \A i \in 1 .. Len(p) : filled(f[i], p[i]) = p[i]
    BY <1>1, <2>1, EvidenceIs
  <2>3. \A i \in 1 .. Len(p) : Completed(f, p)[i] = p[i]
    BY <1>2, <2>1, <2>2
  <2>4. /\ Completed(f, p) = [i \in 1 .. Len(p) |-> Completed(f, p)[i]]
        /\ p = [i \in 1 .. Len(p) |-> p[i]]
    <3>1. Completed(f, p) = [i \in DOMAIN Completed(f, p) |-> Completed(f, p)[i]]
      BY DEF Completed
    <3>2. p = [i \in DOMAIN p |-> p[i]]
      BY DEF Evidence
    <3> QED BY <1>0, <1>3, <2>1, <3>1, <3>2
  <2> QED BY <2>3, <2>4
<1> QED BY <1>4, <1>5

(* A receipt of the step, as it lies on disk: found there, or published by *)
(* a completion of this plugin.                                            *)
Legible(p) ==
  /\ p \in Evidence /\ Unique(p)
  /\ \E i \in 1 .. Len(p) : p[i].id = "artifact" /\ p[i].ok

Published(p) ==
  WellShaped(Contract, p) /\ Digested(p) /\ Has(p, Reported[1])

LEMMA DigestedIs ==
  ASSUME NEW p \in Evidence
  PROVE  Digested(p) <=>
           \A i \in 1 .. Len(p) : p[i].id = "artifact" => p[i].digest # -1
  BY EvidenceIs DEF Digested

LEMMA ContractNames ==
  ASSUME NEW p
  PROVE  HistoricalContract(p) \intersect ReportIds = {}
  BY ReportNames DEF HistoricalContract, Contract

(* A receipt found there passes if and only if it may count.               *)
LEMMA VouchedIs ==
  ASSUME NEW p, Legible(p)
  PROVE  Vouched(p) <=> WellShaped(HistoricalContract(p), p) /\ Digested(p)
<1>1. /\ p \in Evidence /\ Unique(p) /\ DOMAIN p = 1 .. Len(p)
      /\ \E i \in 1 .. Len(p) : p[i].id = "artifact" /\ p[i].ok
  BY EvidenceIs DEF Legible
<1>2. \A i \in 1 .. Len(p) :
        p[i].id \in {"artifact"} \union VisualIds \union ReportIds
  BY <1>1, EvidenceIs DEF ItemRecord
<1>3. CASE \E id \in VisualIds \union ReportIds : Has(p, id)
  <2>1. HistoricalContract(p) = Contract
    BY <1>3 DEF HistoricalContract
  <2>2. WellShaped(Contract, p) <=>
          \A id \in VisualIds : \E i \in 1 .. Len(p) : p[i].id = id /\ p[i].ok
    <3>1. \A i \in 1 .. Len(p) : p[i].id \in Contract \union ReportIds
      BY <1>2 DEF Contract
    <3>2. WellShaped(Contract, p) <=>
            \A id \in Contract : \E i \in 1 .. Len(p) : p[i].id = id /\ p[i].ok
      BY <1>1, <3>1, ShapeIs
    <3> QED BY ONLY <1>1, <3>2 DEF Contract
  <2> QED BY <1>1, <1>3, <2>1, <2>2 DEF Vouched
<1>4. CASE \A id \in VisualIds \union ReportIds : ~Has(p, id)
  <2>1. HistoricalContract(p) = {"artifact"}
    BY <1>4, ReportNames DEF HistoricalContract, Contract
  <2>2. \A i \in 1 .. Len(p) : p[i].id \in {"artifact"} \union ReportIds
    BY <1>1, <1>2, <1>4, HasIs
  <2>3. WellShaped({"artifact"}, p)
    BY <1>1, <2>2, ShapeIs
  <2> QED BY <1>4, <2>1, <2>3 DEF Vouched
<1> QED BY <1>3, <1>4

(* One that a completion published always passes.                          *)
LEMMA PublishedIs ==
  ASSUME NEW p, Legible(p), Published(p)
  PROVE  WellShaped(HistoricalContract(p), p) /\ Digested(p)
<1>1. HistoricalContract(p) = Contract
  BY DEF Published, HistoricalContract, ReportIds
<1> QED BY <1>1 DEF Published

LEMMA ReplayRecognises ==
  ASSUME NEW e \in Evidence, NEW p, Legible(p)
  PROVE  Replay(e, p) = p <=> /\ SameClaims(e, p) /\ Digested(p)
                              /\ WellShaped(HistoricalContract(p), p)
<1> DEFINE R == HistoricalContract(p)
<1>1. p \in Evidence /\ Unique(p) /\ R \intersect ReportIds = {}
  BY ContractNames DEF Legible
<1>2. p # Rejected
  <2>1. Len(Rejected) = 1 /\ Rejected[1].id = "rejected"
    BY DEF Rejected, Item
  <2>2. ASSUME p = Rejected PROVE FALSE
    <3>1. Len(p) = 1 /\ p[1].id = "rejected"
      BY <2>1, <2>2, Zenon
    <3>2. p[1] \in ItemRecord
      BY <1>1, <3>1, EvidenceIs
    <3> QED BY <3>1, <3>2, ReportNames DEF ItemRecord
  <2> QED BY <2>2
<1>3. Restore(e, p) \in Evidence
  <2>1. \A j \in 1 .. Len(p) : j \in Nat \ {0} /\ p[j] \in ItemRecord
    BY <1>1, EvidenceIs
  <2>2. \A j \in 1 .. Len(p) : PutAt(e, j, p[j]) \in Evidence
    BY <2>1, PutAtIs
  <2>3. \A j, k \in 1 .. Len(p) :
          PutAt(PutAt(e, j, p[j]), k, p[k]) \in Evidence
    BY <2>1, <2>2, PutAtIs
  <2>4. /\ LeftOut(e, p) = {} => Restore(e, p) = e
        /\ \A j \in 1 .. Len(p) :
             LeftOut(e, p) = {j} => Restore(e, p) = PutAt(e, j, p[j])
        /\ \A j, k \in 1 .. Len(p) :
             LeftOut(e, p) = {j, k} /\ j < k =>
               Restore(e, p) = PutAt(PutAt(e, j, p[j]), k, p[k])
    BY <1>1, RestoreIs
  <2>5. \/ LeftOut(e, p) = {}
        \/ \E j \in 1 .. Len(p) : LeftOut(e, p) = {j}
        \/ \E j, k \in 1 .. Len(p) : LeftOut(e, p) = {j, k} /\ j < k
    BY <1>1, LeftOutCases
  <2> QED BY <2>2, <2>3, <2>4, <2>5
<1>4. Completed(Restore(e, p), p) = p <=> SameClaims(e, p)
  BY <1>1, <1>3, CompletedIs, RestoredRepeats
<1>5. ASSUME SameClaims(e, p), WellShaped(R, p) PROVE WellShaped(R, e)
  <2>1. PICK r \in Shortened(p) : Repeated(e, r)
    BY <1>5 DEF SameClaims
  <2>2. CASE r = p
    BY <1>1, <1>5, <2>1, <2>2, RepeatedShape
  <2>3. CASE \E i \in 1 .. Len(p) : p[i].id \in ReportIds /\ r = Without(p, i)
    BY SMTT(20), <1>1, <1>5, <2>1, <2>3, WithoutIs, WithoutShape, RepeatedShape
  <2>4. CASE \E i, k \in 1 .. Len(p) :
               /\ i < k /\ p[i].id \in ReportIds /\ p[k].id \in ReportIds
               /\ r = Without(Without(p, k), i)
    <3>1. PICK i \in 1 .. Len(p), k \in 1 .. Len(p) :
               /\ i < k /\ p[i].id \in ReportIds /\ p[k].id \in ReportIds
               /\ r = Without(Without(p, k), i)
      BY <2>4
    <3>2. PICK q \in Evidence : q = Without(p, k)
      BY <1>1, WithoutIs
    <3>3. WellShaped(R, q)
      BY <1>1, <1>5, <3>1, <3>2, WithoutShape
    <3>4. i \in 1 .. Len(q) /\ q[i].id \in ReportIds
      BY <1>1, <3>1, <3>2, WithoutBehind
    <3>5. WellShaped(R, Without(q, i)) /\ Without(q, i) \in Evidence
      BY <1>1, <3>3, <3>4, WithoutIs, WithoutShape
    <3> QED BY <2>1, <3>1, <3>2, <3>5, RepeatedShape
  <2> QED BY <1>1, <2>1, <2>2, <2>3, <2>4, ShortenedIs
<1>6. Replay(e, p) = IF /\ WellShaped(R, e) /\ WellShaped(R, p)
                        /\ Digested(p)
                        /\ Completed(Restore(e, p), p) = p
                     THEN p ELSE Rejected
  BY Zenon DEF Replay
<1> QED BY <1>1, <1>2, <1>4, <1>5, <1>6

-----------------------------------------------------------------------------
(* The receipts of the step                                                *)

ReplayInv ==
  /\ bytes \in Digests /\ inherited \in BOOLEAN
  /\ \/ durable = NoReceiptYet
     \/ Legible(durable) /\ (~inherited => Published(durable))

LEMMA ItemsTyped ==
  /\ Items \subseteq ItemRecord
  /\ \A x \in Items : x.id = "artifact" => x.ok
  /\ Supplied \subseteq Evidence
  /\ \A id \in ReportIds \union {"artifact"}, d \in Digests :
       Item(id, TRUE, d) \in ItemRecord
<1>1. Digests \subseteq Int /\ -1 \in Int
  BY DEF Digests
<1>2. \A id \in {"artifact"} \union VisualIds \union ReportIds,
         ok \in BOOLEAN, d \in Int :
        /\ Item(id, ok, d) \in ItemRecord
        /\ Item(id, ok, d).id = id /\ Item(id, ok, d).ok = ok
  BY DEF Item, ItemRecord
<1>3. ASSUME NEW x \in Items
      PROVE  x \in ItemRecord /\ (x.id = "artifact" => x.ok)
  <2>1. \/ x \in {Item("artifact", TRUE, d) : d \in Digests \union {-1}}
        \/ x \in {Item(v[1], v[2], -1) : v \in VisualIds \X BOOLEAN}
        \/ x \in {Item(r[1], TRUE, r[2]) : r \in ReportIds \X Digests}
    BY Zenon DEF Items
  <2>2. CASE x \in {Item("artifact", TRUE, d) : d \in Digests \union {-1}}
    <3>1. PICK d \in Digests \union {-1} : x = Item("artifact", TRUE, d)
      BY Zenon, <2>2
    <3> QED BY <1>1, <1>2, <3>1
  <2>3. CASE x \in {Item(v[1], v[2], -1) : v \in VisualIds \X BOOLEAN}
    <3>1. PICK v \in VisualIds \X BOOLEAN : x = Item(v[1], v[2], -1)
      BY Zenon, <2>3
    <3>2. v[1] \in VisualIds /\ v[2] \in BOOLEAN
      BY <3>1
    <3>3. v[1] # "artifact"
      BY <3>2, ReportNames
    <3>4. Item(v[1], v[2], -1) \in ItemRecord /\ Item(v[1], v[2], -1).id = v[1]
      BY ONLY <1>1, <1>2, <3>2
    <3> QED BY ONLY <3>1, <3>3, <3>4
  <2>4. CASE x \in {Item(r[1], TRUE, r[2]) : r \in ReportIds \X Digests}
    <3>1. PICK r \in ReportIds \X Digests : x = Item(r[1], TRUE, r[2])
      BY Zenon, <2>4
    <3>2. r[1] \in ReportIds /\ r[2] \in Digests
      BY <3>1
    <3> QED BY <1>1, <1>2, <3>1, <3>2
  <2> QED BY Zenon, <2>1, <2>2, <2>3, <2>4
<1>4. ASSUME NEW n \in 0 .. MaxItems, NEW e \in [1 .. n -> Items]
      PROVE  e \in Evidence
  <2>1. n \in Nat /\ e \in [1 .. n -> ItemRecord]
    BY <1>3
  <2> QED BY <2>1, SequenceOf DEF Evidence
<1> QED BY <1>1, <1>2, <1>3, <1>4 DEF Supplied

(* A report added at the end, unless the caller supplied it.               *)
LEMMA AddReportIs ==
  ASSUME NEW e \in Evidence, NEW id \in ReportIds, bytes \in Digests,
         NEW R, R \intersect ReportIds = {}, WellShaped(R, e), Digested(e)
  PROVE  /\ AddReport(e, id) \in Evidence
         /\ WellShaped(R, AddReport(e, id)) /\ Digested(AddReport(e, id))
         /\ Has(AddReport(e, id), id)
         /\ \A other : Has(e, other) => Has(AddReport(e, id), other)
<1>1. CASE Has(e, id)
  BY <1>1 DEF AddReport
<1>2. CASE ~Has(e, id)
  <2> DEFINE x == Item(id, TRUE, bytes)
             t == Append(e, x)
  <2>1. x \in ItemRecord /\ x.id = id /\ Len(e) \in Nat
    BY ItemsTyped, EvidenceIs DEF Item
  <2> HIDE DEF x
  <2>2. /\ t \in Evidence /\ Len(t) = Len(e) + 1
        /\ \A j \in 1 .. Len(e) : t[j] = e[j]
        /\ t[Len(e) + 1] = x
    BY <2>1 DEF Evidence
  <2> HIDE DEF t
  <2>3. /\ Unique(e)
        /\ \A i \in 1 .. Len(e) : e[i].id \in R \union ReportIds
        /\ \A n \in R : \E i \in 1 .. Len(e) : e[i].id = n /\ e[i].ok
    BY ShapeIs
  <2>4. \A j \in 1 .. Len(e) : e[j].id # id
    BY <1>2, HasIs
  <2>5. /\ Len(e) + 1 \in 1 .. Len(t)
        /\ \A j \in 1 .. Len(t) : (j \in 1 .. Len(e) \/ j = Len(e) + 1)
        /\ \A j \in 1 .. Len(e) : j \in 1 .. Len(t)
    BY <2>1, <2>2
  <2>6. Unique(t)
    BY <2>1, <2>2, <2>3, <2>4, <2>5 DEF Unique
  <2>7. \A j \in 1 .. Len(t) : t[j].id \in R \union ReportIds
    BY <2>1, <2>2, <2>3, <2>5
  <2>8. ASSUME NEW n \in R
        PROVE  \E j \in 1 .. Len(t) : t[j].id = n /\ t[j].ok
    BY <2>2, <2>3, <2>5
  <2>9. Has(t, id) /\ \A other : Has(e, other) => Has(t, other)
    BY <2>1, <2>2, <2>5, HasIs
  <2>10. Digested(t)
    <3>1. \A j \in 1 .. Len(e) : e[j].id = "artifact" => e[j].digest # -1
      BY DigestedIs
    <3>2. x.id # "artifact"
      BY <2>1, ReportNames
    <3> QED BY <2>2, <2>5, <3>1, <3>2, DigestedIs
  <2>11. AddReport(e, id) = t
    BY <1>2 DEF AddReport, t, x
  <2> QED BY <2>2, <2>6, <2>7, <2>8, <2>9, <2>10, <2>11, ShapeIs
<1> QED BY <1>1, <1>2

LEMMA MeasuredIs ==
  ASSUME NEW e \in Evidence, bytes \in Digests, NEW R, WellShaped(R, e)
  PROVE  /\ Measured(e) \in Evidence
         /\ WellShaped(R, Measured(e)) /\ Digested(Measured(e))
<1> DEFINE m(x) == IF x.id = "artifact" THEN [x EXCEPT !.digest = bytes] ELSE x
<1>1. bytes \in Int /\ bytes # -1
  BY DEF Digests
<1>2. \A x \in ItemRecord :
        /\ m(x) \in ItemRecord /\ m(x).id = x.id /\ m(x).ok = x.ok
        /\ x.id = "artifact" => m(x).digest = bytes
  BY <1>1 DEF ItemRecord
<1>3. /\ Measured(e) = [i \in 1 .. Len(e) |-> m(e[i])]
      /\ Len(e) \in Nat /\ \A i \in 1 .. Len(e) : e[i] \in ItemRecord
  BY EvidenceIs DEF Measured
<1> HIDE DEF m
<1>4. Measured(e) \in [1 .. Len(e) -> ItemRecord]
  BY <1>2, <1>3
<1>5. Measured(e) \in Evidence /\ Len(Measured(e)) = Len(e)
  BY <1>3, <1>4, SequenceOf DEF Evidence
<1>6. \A i \in 1 .. Len(e) :
        /\ Measured(e)[i].id = e[i].id /\ Measured(e)[i].ok = e[i].ok
        /\ e[i].id = "artifact" => Measured(e)[i].digest = bytes
  BY <1>2, <1>3
<1>7. /\ Unique(e)
      /\ \A i \in 1 .. Len(e) : e[i].id \in R \union ReportIds
      /\ \A n \in R : \E i \in 1 .. Len(e) : e[i].id = n /\ e[i].ok
  BY ShapeIs
<1>8. Unique(Measured(e))
  BY <1>5, <1>6, <1>7 DEF Unique
<1>9. /\ \A i \in 1 .. Len(Measured(e)) : Measured(e)[i].id \in R \union ReportIds
      /\ \A n \in R : \E i \in 1 .. Len(Measured(e)) :
           Measured(e)[i].id = n /\ Measured(e)[i].ok
  BY <1>5, <1>6, <1>7
<1>10. Digested(Measured(e))
  BY <1>1, <1>5, <1>6, DigestedIs
<1> QED BY <1>5, <1>8, <1>9, <1>10, ShapeIs

(* What a new completion accepts is a receipt that passes.                 *)
LEMMA AcceptedIsReceipt ==
  ASSUME NEW e \in Evidence, bytes \in Digests, Accept(e) # Rejected
  PROVE  Legible(Accept(e)) /\ Published(Accept(e))
<1>1. WellShaped(Contract, e) /\ Contract \intersect ReportIds = {}
  BY ReportNames DEF Accept, Contract
<1>2. PICK m \in Evidence :
        m = Measured(e) /\ WellShaped(Contract, m) /\ Digested(m)
  BY <1>1, MeasuredIs
<1>3. Reported[1] \in ReportIds /\ Reported[2] \in ReportIds
  BY DEF ReportIds
<1>4. PICK a \in Evidence :
        /\ a = AddReport(m, Reported[1]) /\ WellShaped(Contract, a)
        /\ Digested(a) /\ Has(a, Reported[1])
  BY <1>1, <1>2, <1>3, AddReportIs
<1>5. PICK b \in Evidence :
        /\ b = AddReport(a, Reported[2]) /\ WellShaped(Contract, b)
        /\ Digested(b) /\ Has(b, Reported[1])
  BY <1>1, <1>3, <1>4, AddReportIs
<1>6. Accept(e) = b
  BY <1>1, <1>2, <1>4, <1>5, Zenon DEF Accept
<1>7. Legible(b)
  <2>1. "artifact" \in Contract
    BY DEF Contract
  <2>2. Unique(b) /\ \E i \in 1 .. Len(b) : b[i].id = "artifact" /\ b[i].ok
    BY <1>5, <2>1, ShapeIs
  <2> QED BY <2>2 DEF Legible
<1> QED BY <1>5, <1>6, <1>7 DEF Published

LEMMA FoundIs ==
  ASSUME NEW p \in Found
  PROVE  Legible(p)
<1>1. /\ p \in UNION {[1 .. n -> Items] : n \in 0 .. MaxFound}
      /\ Has(p, "artifact")
      /\ \A i, j \in DOMAIN p : p[i].id = p[j].id => i = j
  BY Zenon DEF Found
<1>2. PICK n \in 0 .. MaxFound : p \in [1 .. n -> Items]
  BY <1>1
<1>3. p \in Evidence
  <2>1. n \in Nat /\ p \in [1 .. n -> ItemRecord]
    BY <1>2, ItemsTyped
  <2> QED BY <2>1, SequenceOf DEF Evidence
<1>4. DOMAIN p = 1 .. Len(p) /\ \A i \in 1 .. Len(p) : p[i] \in Items
  BY <1>2, <1>3, EvidenceIs
<1>5. PICK i \in 1 .. Len(p) : p[i].id = "artifact"
  BY <1>1, <1>3, HasIs
<1>6. p[i].ok
  BY <1>4, <1>5, ItemsTyped
<1> QED BY <1>1, <1>3, <1>4, <1>5, <1>6 DEF Legible, Unique

LEMMA ReplayInvInit == ReplayInit => ReplayInv
<1> SUFFICES ASSUME ReplayInit PROVE ReplayInv
  OBVIOUS
<1>1. bytes \in Digests /\ inherited \in BOOLEAN
  BY ReplayAssumption DEF ReplayInit, Digests
<1>2. IF inherited THEN Legible(durable) ELSE durable = NoReceiptYet
  BY FoundIs DEF ReplayInit
<1> QED BY <1>1, <1>2 DEF ReplayInv

LEMMA ReplayInvStep == ReplayInv /\ [ReplayNext]_replayVars => ReplayInv'
<1> SUFFICES ASSUME ReplayInv, [ReplayNext]_replayVars PROVE ReplayInv'
  OBVIOUS
<1>1. ASSUME NEW e \in Supplied, CompleteAnew(e) PROVE ReplayInv'
  <2>1. PICK p : p = Accept(e) /\ Legible(p) /\ Published(p)
    <3>1. e \in Evidence
      BY ItemsTyped
    <3> QED BY <1>1, <3>1, AcceptedIsReceipt DEF CompleteAnew, ReplayInv
  <2>2. UNCHANGED <<bytes, inherited>> /\ durable' = p
    BY <1>1, <2>1 DEF CompleteAnew
  <2> QED BY <2>1, <2>2 DEF ReplayInv
<1>2. CASE UNCHANGED <<inherited, durable>> /\ bytes' \in Digests
  BY <1>2 DEF ReplayInv
<1>3. ASSUME \E e \in Supplied : CompleteAgain(e) PROVE ReplayInv'
  BY <1>2, <1>3 DEF CompleteAgain, ReplayInv
<1>4. CASE EditArtifact
  <2>1. bytes' \in Digests
    BY <1>4, ReplayAssumption DEF EditArtifact, ReplayInv, Digests
  <2> QED BY <1>2, <1>4, <2>1 DEF EditArtifact
<1>5. CASE UNCHANGED replayVars
  BY <1>2, <1>5 DEF replayVars, ReplayInv
<1> QED BY <1>1, <1>3, <1>4, <1>5 DEF ReplayNext

(* A completion that crashed behind its receipt is recognised by exactly   *)
(* the evidence that makes the same claims, whatever happened to the files *)
(* since; a receipt that was there before, only if it may count            *)
(* (validateCompletionEvidence with persistedEvidence).                    *)
THEOREM RetriesAreRecognised == ReplaySpec => []RetryRecognised
<1>1. ReplayInv => RetryRecognised
  <2> SUFFICES ASSUME ReplayInv, durable # NoReceiptYet, NEW e \in Supplied
               PROVE  (Replay(e, durable) = durable)
                        <=> SameClaims(e, durable) /\ (inherited => Vouched(durable))
    BY DEF RetryRecognised, SameClaims
  <2>1. /\ e \in Evidence /\ Legible(durable) /\ inherited \in BOOLEAN
        /\ ~inherited => Published(durable)
    BY ItemsTyped DEF ReplayInv
  <2>2. Replay(e, durable) = durable
          <=> /\ SameClaims(e, durable) /\ Digested(durable)
              /\ WellShaped(HistoricalContract(durable), durable)
    BY <2>1, ReplayRecognises
  <2>3. CASE inherited
    BY <2>1, <2>2, <2>3, VouchedIs
  <2>4. CASE ~inherited
    BY <2>1, <2>2, <2>4, PublishedIs
  <2> QED BY <2>1, <2>3, <2>4
<1> QED BY <1>1, ReplayInvInit, ReplayInvStep, PTL DEF ReplaySpec

=============================================================================
