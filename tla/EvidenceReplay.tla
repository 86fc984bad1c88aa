---------------------------- MODULE EvidenceReplay ----------------------------
(***************************************************************************)
(* Completing a step whose receipt may already be there: the evidence of a *)
(* completion, its receipt, and the retry after a crash between receipt    *)
(* and state (validateCompletionEvidence and its helpers, acceptance.mjs,  *)
(* called by complete, workflow.mjs).                                      *)
(*                                                                         *)
(* The step is the final one of the legacy profile, 50.  It declares       *)
(* artifacts, for which "artifact" stands, and the final visual evidence,  *)
(* which older plugins did not know; the runtime measures two reports and  *)
(* adds them itself.  What is said of the artifact's digest holds for the  *)
(* screenshots as well; theirs is left out.  A digest is the number of the *)
(* edit that made the bytes, -1 for none.  When the runtime accepts its    *)
(* reports is FinalEvidence's question; here they are accepted.            *)
(*                                                                         *)
(* A definition whose comment starts with "Variant:" is a change that a    *)
(* property must rule out; no specification uses it.                       *)
(***************************************************************************)
EXTENDS Integers, Sequences

CONSTANTS
  VisualIds,        \* the declarations of the final visual evidence
  MaxItems,         \* bound on the items a caller supplies
  MaxFound,         \* bound on the items of a receipt that was there before
  MaxArtifactEdits  \* bound on edits of the artifact and the reports

VARIABLES
  bytes,     \* the artifact and the reports on disk
  inherited, \* the receipt was there before this plugin (history)
  durable,   \* the evidence of the durable receipt, or NoReceiptYet
  concluded  \* the state names the step as completed

replayVars == <<bytes, inherited, durable, concluded>>

Digests == 0 .. MaxArtifactEdits
Item(id, ok, digest) == [id |-> id, ok |-> ok, digest |-> digest]

Reported == <<"measured-quality-report", "final-regression-report">>
ReportIds == {Reported[1], Reported[2]}

ASSUME ReplayAssumption ==
  /\ {MaxItems, MaxFound, MaxArtifactEdits} \subseteq Nat
  /\ VisualIds \intersect
       (ReportIds \union {"artifact", "none", "rejected"}) = {}

Items ==
  {Item("artifact", TRUE, d) : d \in Digests \union {-1}} \union
  {Item(visual[1], visual[2], -1) : visual \in VisualIds \X BOOLEAN} \union
  {Item(reported[1], TRUE, reported[2]) : reported \in ReportIds \X Digests}

(* What a caller may supply, duplicates and omissions included.            *)
Supplied == UNION {[1 .. n -> Items] : n \in 0 .. MaxItems}

NoReceiptYet == <<Item("none", FALSE, -1)>>
Rejected     == <<Item("rejected", FALSE, -1)>>

Has(evidence, id) == \E i \in DOMAIN evidence : evidence[i].id = id

(* Receipts that an older plugin, or another hand, left behind: the        *)
(* artifact of that time, with or without its digest, and any other items. *)
Found ==
  {old \in UNION {[1 .. n -> Items] : n \in 0 .. MaxFound} :
     /\ Has(old, "artifact")
     /\ \A i \in DOMAIN old : old[i].digest \in {-1, 0}
     /\ \A i, j \in DOMAIN old : old[i].id = old[j].id => i = j}

ReplayInit ==
  /\ bytes = 0
  /\ inherited \in BOOLEAN
  /\ IF inherited THEN durable \in Found ELSE durable = NoReceiptYet
  /\ concluded = FALSE

-----------------------------------------------------------------------------
(* The declarations that must have a successful item.                      *)
Contract == {"artifact"} \union VisualIds

(* A receipt that names none of the visual evidence and no report is older *)
(* than both and proves what was asked for then.                           *)
HistoricalContract(evidence) ==
  IF \E id \in VisualIds \union ReportIds : Has(evidence, id)
  THEN Contract ELSE Contract \ VisualIds

(* validateEvidenceShape: one item for a declaration, every required one   *)
(* successful.  An item without a declaration is refused.                  *)
WellShaped(required, evidence) ==
  /\ \A i, j \in DOMAIN evidence :
       evidence[i].id = evidence[j].id => i = j
  /\ \A i \in DOMAIN evidence :
       evidence[i].id \in required \union ReportIds
  /\ \A id \in required :
       \E i \in DOMAIN evidence : evidence[i].id = id /\ evidence[i].ok

-----------------------------------------------------------------------------
(* A new completion: the stable digest is added to the artifact and must   *)
(* be the one supplied, a report supplied must be the one measured, and    *)
(* the reports not supplied are appended.                                  *)
Measured(evidence) ==
  [i \in DOMAIN evidence |->
     IF evidence[i].id = "artifact" THEN [evidence[i] EXCEPT !.digest = bytes]
     ELSE evidence[i]]

Truthful(evidence) ==
  \A i \in DOMAIN evidence :
    /\ evidence[i].id = "artifact" => evidence[i].digest \in {-1, bytes}
    /\ evidence[i].id \in ReportIds => evidence[i].digest = bytes

AddReport(evidence, id) ==
  IF Has(evidence, id) THEN evidence
  ELSE Append(evidence, Item(id, TRUE, bytes))

Accept(evidence) ==
  IF WellShaped(Contract, evidence) /\ Truthful(evidence)
  THEN AddReport(AddReport(Measured(evidence), Reported[1]), Reported[2])
  ELSE Rejected

-----------------------------------------------------------------------------
(* Variant: reports the caller left out are appended.                      *)
RestoreLast(evidence, persisted) ==
  evidence \o SelectSeq(persisted, LAMBDA item :
                item.id \in ReportIds /\ ~Has(evidence, item.id))

(* splice: the item is put at its place in the receipt, or at the end.     *)
PutAt(evidence, i, item) ==
  LET n == IF i <= Len(evidence) THEN i ELSE Len(evidence) + 1
  IN  [j \in 1 .. Len(evidence) + 1 |->
         IF j < n THEN evidence[j] ELSE IF j = n THEN item ELSE evidence[j - 1]]

LeftOut(evidence, persisted) ==
  {i \in DOMAIN persisted : /\ persisted[i].id \in ReportIds
                            /\ ~Has(evidence, persisted[i].id)}

(* Reports of the receipt that the caller left out come back in its order. *)
(* A receipt has each report once: there is a first and a last one, if any.*)
Restore(evidence, persisted) ==
  LET out   == LeftOut(evidence, persisted)
      first == CHOOSE i \in out : \A j \in out : i <= j
      last  == CHOOSE i \in out : \A j \in out : j <= i
      begun == PutAt(evidence, first, persisted[first])
  IN  IF out = {} THEN evidence
      ELSE IF first = last THEN begun
      ELSE PutAt(begun, last, persisted[last])

(* So do the digests he left out.                                          *)
Completed(evidence, persisted) ==
  [i \in DOMAIN evidence |->
     IF /\ i \in DOMAIN persisted
        /\ evidence[i].id = "artifact" /\ persisted[i].id = "artifact"
        /\ evidence[i].digest = -1
     THEN [evidence[i] EXCEPT !.digest = persisted[i].digest]
     ELSE evidence[i]]

Digested(persisted) ==
  \A i \in DOMAIN persisted :
    persisted[i].id = "artifact" => persisted[i].digest # -1

(* A retry answers with the receipt or not at all; no file is looked at.   *)
(* The receipt itself must pass, with the digest of its artifact.          *)
Replay(evidence, persisted) ==
  LET required == HistoricalContract(persisted)
  IN  IF /\ WellShaped(required, evidence)
         /\ WellShaped(required, persisted)
         /\ Digested(persisted)
         /\ Completed(Restore(evidence, persisted), persisted) = persisted
      THEN persisted ELSE Rejected

-----------------------------------------------------------------------------
(* complete without a receipt publishes one ...                            *)
CompleteAnew(evidence) ==
  /\ durable = NoReceiptYet
  /\ Accept(evidence) # Rejected
  /\ durable' = Accept(evidence)
  /\ UNCHANGED <<bytes, inherited, concluded>>

(* ... and writes the state behind it, in the same call or, after a crash, *)
(* in the one that repeats it.                                             *)
CompleteAgain(evidence) ==
  /\ durable # NoReceiptYet
  /\ Replay(evidence, durable) = durable
  /\ concluded' = TRUE
  /\ UNCHANGED <<bytes, inherited, durable>>

EditArtifact ==
  /\ bytes < MaxArtifactEdits
  /\ bytes' = bytes + 1
  /\ UNCHANGED <<inherited, durable, concluded>>

ReplayNext ==
  \/ \E evidence \in Supplied : CompleteAnew(evidence)
  \/ \E evidence \in Supplied : CompleteAgain(evidence)
  \/ EditArtifact

ReplaySpec == ReplayInit /\ [][ReplayNext]_replayVars

-----------------------------------------------------------------------------
(* A receipt without some of its reports.                                 *)
Without(persisted, i) ==
  [j \in 1 .. Len(persisted) - 1 |->
     IF j < i THEN persisted[j] ELSE persisted[j + 1]]

Shortened(persisted) ==
  LET reports == {i \in DOMAIN persisted : persisted[i].id \in ReportIds}
  IN  {persisted}
      \union {Without(persisted, i) : i \in reports}
      \union {Without(Without(persisted, p[2]), p[1]) :
                p \in {q \in reports \X reports : q[1] < q[2]}}

(* The same item, or one that leaves the digest of the artifact out.       *)
Repeats(item, kept) ==
  \/ item = kept
  \/ kept.id = "artifact" /\ item = [kept EXCEPT !.digest = -1]

(* The same claims in the same order, the digest of the artifact left out  *)
(* or not; which reports may be left out, Shortened says.                  *)
Repeated(evidence, persisted) ==
  /\ Len(evidence) = Len(persisted)
  /\ \A i \in 1 .. Len(persisted) : Repeats(evidence[i], persisted[i])

(* A receipt that may count: its artifact has a digest, and it has all of  *)
(* the visual evidence, or is from before it and the reports.              *)
Vouched(persisted) ==
  /\ Digested(persisted)
  /\ \/ \A id \in VisualIds :
          \E i \in DOMAIN persisted : persisted[i].id = id /\ persisted[i].ok
     \/ \A id \in VisualIds \union ReportIds : ~Has(persisted, id)

(* A completion that crashed behind its receipt can be repeated: whatever  *)
(* happened to the files since, the receipt is recognised by every evidence *)
(* that makes the same claims, and by no other; in particular the reports  *)
(* the runtime added need not, and cannot, be guessed by the caller.  One  *)
(* found there is recognised so only if it may count; part of the visual   *)
(* evidence, or reports without it, is never taken for an old receipt      *)
(* (validateCompletionEvidence with persistedEvidence).                    *)
RetryRecognised ==
  durable # NoReceiptYet =>
    LET rests  == Shortened(durable)
        counts == inherited => Vouched(durable)
    IN  \A evidence \in Supplied :
          (Replay(evidence, durable) = durable)
            <=> counts /\ \E rest \in rests : Repeated(evidence, rest)
=============================================================================
