------------------------------- MODULE JevJudge -------------------------------
(***************************************************************************)
(* The advisory questions to the Jev service, in their three forms:        *)
(*   judge   jev-judge.mjs: excerpts of files below step_archive/, bound   *)
(*           to the generation of the workflow;                            *)
(*   review  jev-review.mjs: the same for the topic and the planning files *)
(*           of a workspace of the legacy profile, without a generation;   *)
(*   ask     jev-ask.mjs: a text given inline, nothing is read or kept.    *)
(*                                                                         *)
(* The command takes no lock.  It reads its source files one by one, checks *)
(* them before the request and after the answer, and keeps a report.       *)
(* Agents edit the files and the workflow is replaced in between.  A file  *)
(* is the number of its edits, so an edit that restores old bytes, which   *)
(* no hash can notice, is left out.  A report file is named after the hash *)
(* of its bytes.                                                           *)
(*                                                                         *)
(* A definition whose comment starts with "Variant:" is a change that a    *)
(* property must rule out; no specification uses it.                       *)
(***************************************************************************)
EXTENDS Integers

CONSTANTS
  Sources,       \* number of source files of a question
  MaxDocEdits,   \* bound on edits of them
  MaxEras,       \* bound on generations of the workflow
  MaxQuestions,  \* bound on commands
  MaxReportLoss  \* bound on crashes and failed writes of a report

ASSUME JevAssumption ==
  {Sources, MaxDocEdits, MaxEras, MaxQuestions, MaxReportLoss} \subseteq Nat

VARIABLES
  docs,       \* the source files
  era,        \* generation of the workflow, 0: legacy profile, without one
  judgments,  \* the report files
  asking,     \* the command under way
  asked,      \* commands started
  inspected,  \* the last answer of inspect
  docEdits,   \* how much of MaxDocEdits is used
  reportLoss  \* how much of MaxReportLoss is used

jevVars ==
  <<docs, era, judgments, asking, asked, inspected, docEdits, reportLoss>>

Docs     == [1 .. Sources -> 0 .. MaxDocEdits]
NoDocs   == [i \in 1 .. Sources |-> -1]
Verdicts == {"reviewed", "needs_review", "unverified"}

(* next: the file read next, 0: the workflow is looked at first; bound:    *)
(* the files as bound to the question; status: the verdict so far; real:   *)
(* history, whether the files were those bound when the question was sent  *)
(* and when its answer arrived, or when an inspection began.               *)
NotAsking ==
  [at |-> "rest", kind |-> "ask", era |-> 0, next |-> 0, bound |-> NoDocs,
   status |-> "unverified", real |-> TRUE]

NotInspected == [answer |-> "none", real |-> TRUE]

Asking(phase)     == asking.at = phase
Proceed(phase)    == asking' = [asking EXCEPT !.at = phase, !.next = 0]
Real(bound)       == bound = docs
LoseReport        == reportLoss < MaxReportLoss /\ reportLoss' = reportLoss + 1

JevInit ==
  /\ docs = [i \in 1 .. Sources |-> 0]
  /\ era = 0
  /\ judgments = {}
  /\ asking = NotAsking
  /\ asked = 0
  /\ inspected = NotInspected
  /\ docEdits = 0 /\ reportLoss = 0

-----------------------------------------------------------------------------
(* bind                                                                    *)

StartAsking(kind, phase) ==
  /\ Asking("rest")
  /\ asked < MaxQuestions
  /\ asked' = asked + 1
  /\ asking' = [NotAsking EXCEPT !.at = phase, !.kind = kind, !.era = era,
                                 !.next = 1]
  /\ UNCHANGED <<docs, era, judgments, inspected, docEdits, reportLoss>>

JudgeStart  == StartAsking("judge", "bind")
ReviewStart == era = 0 /\ StartAsking("review", "bind")
AskStart    == StartAsking("ask", "choose")

BindSource ==
  /\ Asking("bind")
  /\ asking.next <= Sources
  /\ asking' = [asking EXCEPT !.next = @ + 1,
       !.bound = [@ EXCEPT ![asking.next] = docs[asking.next]]]
  /\ UNCHANGED <<docs, era, judgments, asked, inspected, docEdits, reportLoss>>

(* An excerpt that is not in its file ends the command.                    *)
BindRefused ==
  /\ Asking("bind")
  /\ asking' = NotAsking
  /\ UNCHANGED <<docs, era, judgments, asked, inspected, docEdits, reportLoss>>

(* Without leave to use the network or without a key nothing is sent.  The *)
(* answer to an inline question is not kept.                               *)
Conclude ==
  IF asking.kind = "ask" THEN asking' = NotAsking ELSE Proceed("persist")

Choose(online) ==
  /\ \/ Asking("choose")
     \/ Asking("bind") /\ asking.next = Sources + 1
  /\ IF ~online THEN Conclude
     ELSE IF asking.kind = "ask" THEN Proceed("send") ELSE Proceed("check")
  /\ UNCHANGED <<docs, era, judgments, asked, inspected, docEdits, reportLoss>>

-----------------------------------------------------------------------------
(* unchanged, before the request ("check") and after the answer ("recheck") *)

AfterCheck == IF Asking("check") THEN Proceed("send") ELSE Proceed("persist")

Changed ==
  asking' = [asking EXCEPT !.at = "persist", !.next = 0,
                           !.status = "unverified"]

(* Variant: the files are compared before the request only.                *)
UnchangedOnce ==
  /\ Asking("check") \/ Asking("recheck")
  /\ \/ Asking("recheck") /\ Proceed("persist")
     \/ /\ Asking("check")
        /\ IF asking.next = 0
           THEN IF asking.kind = "judge" /\ era # asking.era THEN Changed
                ELSE asking' = [asking EXCEPT !.next = 1]
           ELSE IF asking.next > Sources THEN AfterCheck
           ELSE IF docs[asking.next] # asking.bound[asking.next] THEN Changed
           ELSE asking' = [asking EXCEPT !.next = @ + 1]
  /\ UNCHANGED <<docs, era, judgments, asked, inspected, docEdits, reportLoss>>

(* A judgment first looks at the workflow, then both read file by file.    *)
UnchangedSources ==
  /\ Asking("check") \/ Asking("recheck")
  /\ IF asking.next = 0
     THEN IF asking.kind = "judge" /\ era # asking.era THEN Changed
          ELSE asking' = [asking EXCEPT !.next = 1]
     ELSE IF asking.next > Sources THEN AfterCheck
     ELSE IF docs[asking.next] # asking.bound[asking.next] THEN Changed
     ELSE asking' = [asking EXCEPT !.next = @ + 1]
  /\ UNCHANGED <<docs, era, judgments, asked, inspected, docEdits, reportLoss>>

-----------------------------------------------------------------------------
(* send: the request, the headers and the body of the answer, or the       *)
(* deadline, whichever comes first                                         *)

SendRequest ==
  /\ Asking("send")
  /\ asking' = [asking EXCEPT !.at = "headers", !.real = Real(asking.bound)]
  /\ UNCHANGED <<docs, era, judgments, asked, inspected, docEdits, reportLoss>>

(* Status 200: the body is read.                                           *)
ServiceAccepts ==
  /\ Asking("headers")
  /\ Proceed("body")
  /\ UNCHANGED <<docs, era, judgments, asked, inspected, docEdits, reportLoss>>

Answered(status) ==
  asking' = IF asking.kind = "ask" THEN NotAsking
            ELSE [asking EXCEPT !.at = "recheck", !.next = 0,
                    !.status = status, !.real = @ /\ Real(asking.bound)]

(* authentication, rate_limit, transport                                   *)
ServiceRefuses ==
  /\ Asking("headers") \/ Asking("body")
  /\ Answered("unverified")
  /\ UNCHANGED <<docs, era, judgments, asked, inspected, docEdits, reportLoss>>

(* What validateResponse and the thresholds make of a body: a planning     *)
(* review knows no doubt, malformed answers are unverified.                *)
ServiceAnswers(status) ==
  /\ Asking("body")
  /\ asking.kind = "review" => status # "needs_review"
  /\ Answered(status)
  /\ UNCHANGED <<docs, era, judgments, asked, inspected, docEdits, reportLoss>>

(* Variant: the timer is cleared as soon as the headers have arrived.      *)
DeadlineOfHeaders ==
  /\ Asking("headers")
  /\ Answered("unverified")
  /\ UNCHANGED <<docs, era, judgments, asked, inspected, docEdits, reportLoss>>

(* The deadline aborts the request; what arrives later is not looked at.   *)
Deadline ==
  /\ Asking("headers") \/ Asking("body")
  /\ Answered("unverified")
  /\ UNCHANGED <<docs, era, judgments, asked, inspected, docEdits, reportLoss>>

-----------------------------------------------------------------------------
(* persist: a judgment of another generation is not kept.  A write that    *)
(* fails or dies may leave a torn file, which its name betrays.            *)

Judgment(whole) ==
  [kind |-> asking.kind, era |-> asking.era, bound |-> asking.bound,
   status |-> asking.status, real |-> asking.real, whole |-> whole]

Persist ==
  /\ Asking("persist")
  /\ judgments' = IF asking.kind = "judge" /\ era # asking.era THEN judgments
                  ELSE judgments \union {Judgment(TRUE)}
  /\ asking' = NotAsking
  /\ UNCHANGED <<docs, era, asked, inspected, docEdits, reportLoss>>

PersistFails ==
  /\ Asking("persist")
  /\ LoseReport
  /\ judgments' \in {judgments, judgments \union {Judgment(FALSE)}}
  /\ asking' = NotAsking
  /\ UNCHANGED <<docs, era, asked, inspected, docEdits>>

-----------------------------------------------------------------------------
(* inspect: a report of the active workflow, whole; workflow and files     *)
(* then compared as above                                                  *)

InspectStarts(r) ==
  /\ Asking("rest")
  /\ asked < MaxQuestions
  /\ asked' = asked + 1
  /\ IF r.whole /\ r.era = era
     THEN /\ asking' = [NotAsking EXCEPT !.at = "inspect", !.kind = r.kind,
                          !.era = era, !.bound = r.bound,
                          !.real = Real(r.bound)]
          /\ UNCHANGED inspected
     ELSE /\ inspected' = [NotInspected EXCEPT !.answer = "invalid"]
          /\ UNCHANGED asking
  /\ UNCHANGED <<docs, era, judgments, docEdits, reportLoss>>

InspectAs(answer) ==
  /\ inspected' = [answer |-> answer, real |-> asking.real]
  /\ asking' = NotAsking

InspectDiffers ==
  IF asking.next = 0 THEN asking.kind = "judge" /\ era # asking.era
  ELSE docs[asking.next] # asking.bound[asking.next]

InspectSources ==
  /\ Asking("inspect")
  /\ \/ /\ asking.next > Sources
        /\ InspectAs("current")
     \/ /\ asking.next <= Sources /\ InspectDiffers
        /\ InspectAs("stale")
     \/ /\ asking.next <= Sources /\ ~InspectDiffers
        /\ asking' = [asking EXCEPT !.next = @ + 1]
        /\ UNCHANGED inspected
  /\ UNCHANGED <<docs, era, judgments, asked, docEdits, reportLoss>>

-----------------------------------------------------------------------------
(* An agent edits a source file.                                           *)
EditDoc(i) ==
  /\ docEdits < MaxDocEdits
  /\ docEdits' = docEdits + 1
  /\ docs' = [docs EXCEPT ![i] = @ + 1]
  /\ UNCHANGED <<era, judgments, asking, asked, inspected, reportLoss>>

(* The workflow is replaced.                                               *)
NewEra ==
  /\ era < MaxEras
  /\ era' = era + 1
  /\ UNCHANGED <<docs, judgments, asking, asked, inspected, docEdits,
                 reportLoss>>

(* The command dies; only while it writes does it leave anything behind.   *)
AskerDies ==
  /\ ~Asking("rest")
  /\ LoseReport
  /\ asking' = NotAsking
  /\ UNCHANGED <<docs, era, judgments, asked, inspected, docEdits>>

(* What the command does by itself, its timer included.                    *)
AskerSteps ==
  \/ BindSource
  \/ \E online \in BOOLEAN : Choose(online)
  \/ UnchangedSources \/ SendRequest \/ Deadline \/ Persist
  \/ InspectSources

Service ==
  \/ ServiceAccepts \/ ServiceRefuses
  \/ \E status \in Verdicts : ServiceAnswers(status)

JevNext ==
  \/ JudgeStart \/ ReviewStart \/ AskStart
  \/ \E r \in judgments : InspectStarts(r)
  \/ AskerSteps \/ Service
  \/ BindRefused \/ PersistFails \/ AskerDies
  \/ (\E i \in 1 .. Sources : EditDoc(i))
  \/ NewEra

(* A command that runs takes its steps and its timer fires.  The service   *)
(* owes nothing.                                                           *)
JevSpec == JevInit /\ [][JevNext]_jevVars /\ WF_jevVars(AskerSteps)

-----------------------------------------------------------------------------
JevPhases == {"rest", "bind", "choose", "check", "send", "headers", "body",
              "recheck", "persist", "inspect"}
Bounds    == [1 .. Sources -> -1 .. MaxDocEdits]

(* The variables keep their types.                                         *)
JevTypeOK ==
  /\ docs \in Docs
  /\ era \in 0 .. MaxEras
  /\ asking \in [at : JevPhases, kind : {"judge", "review", "ask"},
                 era : 0 .. MaxEras, next : 0 .. Sources + 1,
                 bound : Bounds, status : Verdicts, real : BOOLEAN]
  /\ judgments \subseteq
       [kind : {"judge", "review"}, era : 0 .. MaxEras, bound : Bounds,
        status : Verdicts, real : BOOLEAN, whole : BOOLEAN]
  /\ asked \in 0 .. MaxQuestions
  /\ docEdits \in 0 .. MaxDocEdits
  /\ reportLoss \in 0 .. MaxReportLoss

(* A verdict is about files that existed: the sources a reviewed report    *)
(* names are those of the workspace at the moment the question was sent    *)
(* and still at the moment its answer arrived, although they are read one  *)
(* after another; and a report that inspect calls current describes one    *)
(* moment of the inspection (bind, unchanged).                             *)
JudgedAsOne ==
  /\ \A r \in judgments : r.status # "unverified" => r.real
  /\ inspected.answer = "current" => inspected.real

(* Every command comes to an end, whatever the service does: the deadline  *)
(* covers the headers and the body of the answer (send).                   *)
AskingEnds == ~Asking("rest") ~> Asking("rest")
=============================================================================
