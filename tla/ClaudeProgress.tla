--------------------------- MODULE ClaudeProgress ---------------------------
(***************************************************************************)
(* The Claude side: step_archive/progress.json and the programs that read  *)
(* and replace it.  At the end of a turn run-hook.mjs runs the writer      *)
(* (step-progress-writer); at a session start the loader; at a "/webapp"   *)
(* prompt the trigger; inside a turn or from a terminal                    *)
(* scripts/harness-pause.mjs.  Inside one session they run one after the   *)
(* other; two sessions on the same workspace interleave.  Only the writer  *)
(* takes a lock, and only against other writers; everyone replaces the     *)
(* whole object.                                                           *)
(*                                                                         *)
(* A claim is a line "Step n done" the model wrote, with the time it was   *)
(* written; times and runs (run_started_at) are counted by the same clock, *)
(* which moves when a run starts.  Sound step bodies and metadata are      *)
(* assumed; last_updated, metrics and pause details are left out.          *)
(*                                                                         *)
(* A definition whose comment starts with "Variant:" is a change that a    *)
(* property must rule out; no specification uses it.                       *)
(***************************************************************************)
EXTENDS Integers, FiniteSets

CONSTANTS
  TotalSteps,  \* steps of the profile (36 or 50)
  Gated,       \* the quality, QA and final milestones: inspected when claimed
  Sessions,    \* Claude Code sessions open on the workspace
  Flock,       \* whether the flock command exists: on macOS it does not
  MaxRuns,     \* bound on the runs started in the workspace
  MaxEvents    \* bound on session starts, commands, hand edits and timeouts

ASSUME ConstantsAssumption ==
  /\ TotalSteps \in Nat \ {0}
  /\ Gated \subseteq 1 .. TotalSteps
  /\ Flock \in BOOLEAN
  /\ MaxRuns \in Nat \ {0}
  /\ MaxEvents \in Nat

Steps == 1 .. TotalSteps
Runs  == 1 .. MaxRuns
Tries == 3   \* ATTEMPTS of harness-pause.mjs

VARIABLES
  progress,   \* progress.json
  refusals,   \* progress-refusals.json
  codex,      \* whether the Codex state file exists
  clock,      \* the last run started
  said,       \* transcript of each session: claims with their time
  last,       \* the claim in the message a session wrote last
  job,        \* the program each session has running
  passed,     \* history: inspections passed, a step and its run
  events      \* how much of MaxEvents is used

vars == <<progress, refusals, codex, clock, said, last, job, passed, events>>

-----------------------------------------------------------------------------
(* progress.json.  Torn is the file between its truncation and its         *)
(* contents: the trigger writes it in place.                               *)

Progress == [kind : {"absent", "torn", "run"}, run : 0 .. MaxRuns,
             done : SUBSET Steps, cursor : 0 .. TotalSteps + 1, paused : BOOLEAN]

Absent == [kind |-> "absent", run |-> 0, done |-> {}, cursor |-> 0,
           paused |-> FALSE]
Torn   == [Absent EXCEPT !.kind = "torn"]
Fresh(run, paused) ==
  [kind |-> "run", run |-> run, done |-> {}, cursor |-> 1, paused |-> paused]

Readable(p) == p.kind = "run"
AllDone(p)  == p.done = Steps
Next1(p)    == CHOOSE n \in Steps \ p.done : \A m \in Steps \ p.done : n <= m
Aligned(p)  == AllDone(p) \/ p.cursor = Next1(p)

(* harness-activity.mjs: the phase the gates of run-hook.mjs judge by.     *)
Phase ==
  IF codex THEN "codex"
  ELSE IF ~Readable(progress) THEN "none"
  ELSE IF AllDone(progress) THEN "finished"
  ELSE IF progress.paused THEN "paused"
  ELSE IF Aligned(progress) THEN "active" ELSE "drift"

-----------------------------------------------------------------------------
(* Jobs                                                                    *)

Pcs == {"idle", "lock", "read", "resolve", "inspect", "replace",
        "load", "boot", "fill", "cli read", "cli compare", "cli write"}

Job == [pc : Pcs, op : {"none", "pause", "resume", "reset"}, seen : Progress,
        final : SUBSET Steps, new : SUBSET Steps, tries : 0 .. Tries]

Idle == [pc |-> "idle", op |-> "none", seen |-> Absent, final |-> {},
         new |-> {}, tries |-> 0]

At(s, pc) == job[s].pc = pc

Goto(s, pc) == job' = [job EXCEPT ![s].pc = pc]
Finish(s)   == job' = [job EXCEPT ![s] = Idle]

InWriter(s) == job[s].pc \in {"lock", "read", "resolve", "inspect", "replace"}
HasLock(s)  == job[s].pc \in {"read", "resolve", "inspect", "replace"}
LockFree    == Flock => \A s \in Sessions : ~HasLock(s)

Event == events < MaxEvents /\ events' = events + 1

NoRefusals == [run |-> 0, steps |-> {}]

(* An empty workspace, or one whose first run goes on.                     *)
Init ==
  /\ progress \in {Absent, Fresh(1, FALSE)}
  /\ refusals = NoRefusals
  /\ codex = FALSE
  /\ clock = progress.run
  /\ said = [s \in Sessions |-> {}]
  /\ last = [s \in Sessions |-> {}]
  /\ job = [s \in Sessions |-> Idle]
  /\ passed = {}
  /\ events = 0

-----------------------------------------------------------------------------
(* The model and the user                                                  *)

(* The model claims an unfinished step; the line may end up in the final   *)
(* message.                                                                *)
Say(s, n) ==
  /\ At(s, "idle")
  /\ Readable(progress)
  /\ n \notin progress.done
  /\ <<n, clock>> \notin said[s]
  /\ said' = [said EXCEPT ![s] = @ \union {<<n, clock>>}]
  /\ last' = [last EXCEPT ![s] = {n}]
  /\ UNCHANGED <<progress, refusals, codex, clock, job, passed, events>>

(* Somebody moves current_step by hand.                                    *)
HandEdit(n) ==
  /\ Readable(progress)
  /\ Event
  /\ progress' = [progress EXCEPT !.cursor = n]
  /\ UNCHANGED <<refusals, codex, clock, said, last, job, passed>>

(* The Codex import adopts the run: from now on Codex owns the workspace.  *)
CodexImports ==
  /\ ~codex
  /\ Readable(progress)
  /\ Event
  /\ codex' = TRUE
  /\ UNCHANGED <<progress, refusals, clock, said, last, job, passed>>

-----------------------------------------------------------------------------
(* Stop: the writer, first part of run-hook.mjs stop-advance               *)

Transcript(s, from) ==
  {n \in Steps : \E r \in from .. clock : <<n, r>> \in said[s]}

(* Variant: only claims written after the run started count.               *)
CountedAfter(s, final, p) == final \union Transcript(s, p.run + 1)

(* The claims that count for a run: those of the transcript written since  *)
(* it started, and the final message whatever its time.                    *)
Counted(s, final, p) == final \union Transcript(s, p.run)

(* The probe of a paused run: nothing new but what was refused before.     *)
NothingNew(s) ==
  LET before == IF refusals.run = progress.run THEN refusals.steps ELSE {}
  IN  Counted(s, last[s], progress) \subseteq progress.done \union before

WriterStarts(s) ==
  \/ Phase \in {"active", "drift"}
  \/ Phase = "paused" /\ ~(NothingNew(s) /\ Aligned(progress))

(* The gate, the Codex check and the probe read the same files moments     *)
(* apart: one action.  A Stop that starts no writer changes nothing.       *)
EndTurn(s) ==
  /\ At(s, "idle")
  /\ WriterStarts(s)
  /\ job' = [job EXCEPT ![s].pc = "lock", ![s].final = last[s]]
  /\ last' = [last EXCEPT ![s] = {}]
  /\ UNCHANGED <<progress, refusals, codex, clock, said, passed, events>>

WriterLock(s) ==
  /\ At(s, "lock")
  /\ LockFree
  /\ Goto(s, "read")
  /\ UNCHANGED <<progress, refusals, codex, clock, said, last, passed, events>>

(* flock -w 5 gives up while another writer inspects.                      *)
WriterLockTimeout(s) ==
  /\ At(s, "lock")
  /\ ~LockFree
  /\ Event
  /\ refusals' = NoRefusals
  /\ Finish(s)
  /\ UNCHANGED <<progress, codex, clock, said, last, passed>>

WriterRead(s) ==
  /\ At(s, "read")
  /\ IF Readable(progress)
     THEN /\ job' = [job EXCEPT ![s].pc = "resolve", ![s].seen = progress]
          /\ UNCHANGED refusals
     ELSE Finish(s) /\ refusals' = NoRefusals
  /\ UNCHANGED <<progress, codex, clock, said, last, passed, events>>

(* The profile and the run are resolved again and compared with the record *)
(* read before; on a mismatch nothing is written.                          *)
WriterResolve(s) ==
  /\ At(s, "resolve")
  /\ IF Readable(progress) /\ progress.run = job[s].seen.run
     THEN Goto(s, "inspect")
     ELSE Finish(s)
  /\ UNCHANGED <<progress, refusals, codex, clock, said, last, passed, events>>

NewSteps(s) ==
  Counted(s, job[s].final, job[s].seen) \ job[s].seen.done
GatedSteps(s) == NewSteps(s) \intersect Gated

(* Variant: a step whose inspection fails is noted but still counted.      *)
WriterInspectLenient(s, ok) ==
  /\ At(s, "inspect")
  /\ ok \subseteq GatedSteps(s)
  /\ refusals' = IF ok = GatedSteps(s) THEN NoRefusals
                 ELSE [run |-> job[s].seen.run, steps |-> GatedSteps(s) \ ok]
  /\ job' = [job EXCEPT ![s].pc = "replace", ![s].new = NewSteps(s)]
  /\ passed' = passed \union (ok \X {job[s].seen.run})
  /\ UNCHANGED <<progress, codex, clock, said, last, events>>

(* Up to 20 s of inspections: ok are the gated steps that pass.            *)
WriterInspect(s, ok) ==
  /\ At(s, "inspect")
  /\ ok \subseteq GatedSteps(s)
  /\ refusals' = IF ok = GatedSteps(s) THEN NoRefusals
                 ELSE [run |-> job[s].seen.run, steps |-> GatedSteps(s) \ ok]
  /\ job' = [job EXCEPT ![s].pc = "replace",
                        ![s].new = NewSteps(s) \ (GatedSteps(s) \ ok)]
  /\ passed' = passed \union (ok \X {job[s].seen.run})
  /\ UNCHANGED <<progress, codex, clock, said, last, events>>

(* Variant: the cursor moves only with a new completion.                   *)
RecordedDrifting(p, new) ==
  LET q == [p EXCEPT !.done = @ \union new]
  IN  IF new = {} THEN p
      ELSE [q EXCEPT !.cursor = IF AllDone(q) THEN TotalSteps ELSE Next1(q)]

Recorded(p, new) ==
  LET q == [p EXCEPT !.done = @ \union new]
  IN  IF new = {} /\ Aligned(p) THEN p
      ELSE [q EXCEPT !.cursor = IF AllDone(q) THEN TotalSteps ELSE Next1(q)]

(* The object read before the inspections replaces the file.               *)
WriterReplace(s) ==
  /\ At(s, "replace")
  /\ progress' = Recorded(job[s].seen, job[s].new)
  /\ Finish(s)
  /\ UNCHANGED <<refusals, codex, clock, said, last, passed, events>>

(* The budget of 28 s ran out: run-hook.mjs kills the writer and goes on.  *)
WriterStopped(s) ==
  /\ InWriter(s)
  /\ Event
  /\ Finish(s)
  /\ UNCHANGED <<progress, refusals, codex, clock, said, last, passed>>

-----------------------------------------------------------------------------
(* SessionStart: the loader counts the session and replaces the object     *)

(* A cleared session starts with an empty transcript.                      *)
SessionStart(s, cleared) ==
  /\ At(s, "idle")
  /\ Event
  /\ job' = IF Phase = "active"
            THEN [job EXCEPT ![s].pc = "load", ![s].seen = progress] ELSE job
  /\ said' = IF cleared THEN [said EXCEPT ![s] = {}] ELSE said
  /\ last' = [last EXCEPT ![s] = {}]
  /\ UNCHANGED <<progress, refusals, codex, clock, passed>>

LoaderReplace(s) ==
  /\ At(s, "load")
  /\ progress' = job[s].seen
  /\ Finish(s)
  /\ UNCHANGED <<refusals, codex, clock, said, last, passed, events>>

-----------------------------------------------------------------------------
(* "/webapp <topic>": the trigger starts a run where none has progress     *)

Webapp(s) ==
  /\ At(s, "idle")
  /\ Event
  /\ ~codex
  /\ progress.kind = "absent" \/ (Readable(progress) /\ progress.done = {})
  /\ Goto(s, "boot")
  /\ last' = [last EXCEPT ![s] = {}]
  /\ UNCHANGED <<progress, refusals, codex, clock, said, passed>>

(* Bodies and topic are copied meanwhile; then the file is truncated.      *)
TriggerTruncate(s) ==
  /\ At(s, "boot")
  /\ clock < MaxRuns
  /\ clock' = clock + 1
  /\ progress' = Torn
  /\ job' = [job EXCEPT ![s].pc = "fill", ![s].seen = Fresh(clock + 1, FALSE)]
  /\ UNCHANGED <<refusals, codex, said, last, passed, events>>

TriggerFill(s) ==
  /\ At(s, "fill")
  /\ progress' = job[s].seen
  /\ Finish(s)
  /\ UNCHANGED <<refusals, codex, clock, said, last, passed, events>>

(* The budget of 9 s ran out, or the bootstrap failed.                     *)
TriggerStopped(s) ==
  /\ At(s, "boot") \/ At(s, "fill")
  /\ Finish(s)
  /\ UNCHANGED <<progress, refusals, codex, clock, said, last, passed, events>>

-----------------------------------------------------------------------------
(* scripts/harness-pause.mjs: pause, resume, reset                         *)

(* The check for a Codex workspace is made once, here.                     *)
CliStart(s, op) ==
  /\ At(s, "idle")
  /\ Event
  /\ ~codex
  /\ job' = [job EXCEPT ![s] =
                 [Idle EXCEPT !.pc = "cli read", !.op = op, !.tries = 1]]
  /\ last' = [last EXCEPT ![s] = {}]
  /\ UNCHANGED <<progress, refusals, codex, clock, said, passed>>

(* Nothing to do, or nothing to do it to.                                  *)
CliDeclines(op) ==
  \/ ~Readable(progress)
  \/ op = "pause" /\ (AllDone(progress) \/ progress.paused)
  \/ op = "resume" /\ ~progress.paused

CliRead(s) ==
  /\ At(s, "cli read")
  /\ ~CliDeclines(job[s].op)
  /\ job[s].op = "reset" => clock < MaxRuns
  /\ clock' = IF job[s].op = "reset" THEN clock + 1 ELSE clock
  /\ job' = [job EXCEPT ![s].pc = "cli compare", ![s].seen = progress]
  /\ UNCHANGED <<progress, refusals, codex, said, last, passed, events>>

CliDone(s) ==
  /\ At(s, "cli read")
  /\ CliDeclines(job[s].op) \/ (job[s].op = "reset" /\ clock = MaxRuns)
  /\ Finish(s)
  /\ UNCHANGED <<progress, refusals, codex, clock, said, last, passed, events>>

(* Variant: the loop of the retries never ends.                            *)
CliCompareForever(s) ==
  /\ At(s, "cli compare")
  /\ IF codex \/ ~Readable(progress) \/ progress.run # job[s].seen.run
       THEN Finish(s)
     ELSE IF progress = job[s].seen THEN Goto(s, "cli write")
     ELSE job' = [job EXCEPT ![s].pc = "cli read", ![s].tries = @ + 1]
  /\ UNCHANGED <<progress, refusals, codex, clock, said, last, passed, events>>

(* recheckWorkflowContext throws where the run changed; where only the     *)
(* content did, the change is computed again, three times at most.         *)
CliCompare(s) ==
  /\ At(s, "cli compare")
  /\ IF codex \/ ~Readable(progress) \/ progress.run # job[s].seen.run
       THEN Finish(s)
     ELSE IF progress = job[s].seen THEN Goto(s, "cli write")
     ELSE IF job[s].tries = Tries THEN Finish(s)
     ELSE job' = [job EXCEPT ![s].pc = "cli read", ![s].tries = @ + 1]
  /\ UNCHANGED <<progress, refusals, codex, clock, said, last, passed, events>>

Applied(p, op) ==
  CASE op = "pause"  -> [p EXCEPT !.paused = TRUE]
    [] op = "resume" -> [p EXCEPT !.paused = FALSE]
    [] op = "reset"  -> Fresh(clock, TRUE)

(* The rename follows the comparison; nothing keeps others out in between. *)
CliWrite(s) ==
  /\ At(s, "cli write")
  /\ progress' = Applied(job[s].seen, job[s].op)
  /\ Finish(s)
  /\ UNCHANGED <<refusals, codex, clock, said, last, passed, events>>

-----------------------------------------------------------------------------
Writer(s) ==
  \/ WriterLock(s) \/ WriterRead(s) \/ WriterResolve(s)
  \/ \E ok \in SUBSET Gated : WriterInspect(s, ok)
  \/ WriterReplace(s)

Trigger(s) == TriggerTruncate(s) \/ TriggerFill(s) \/ TriggerStopped(s)

Cli(s) == CliRead(s) \/ CliDone(s) \/ CliCompare(s) \/ CliWrite(s)

Session(s) ==
  \/ EndTurn(s) \/ Writer(s)
  \/ \E b \in BOOLEAN : SessionStart(s, b)
  \/ LoaderReplace(s)
  \/ Webapp(s) \/ Trigger(s)
  \/ \E op \in {"pause", "resume", "reset"} : CliStart(s, op)
  \/ Cli(s)
  \/ WriterLockTimeout(s) \/ WriterStopped(s)
  \/ \E n \in Steps : Say(s, n)

Next ==
  \/ \E s \in Sessions : Session(s)
  \/ \E n \in 1 .. TotalSteps + 1 : HandEdit(n)
  \/ CodexImports

Spec == Init /\ [][Next]_vars

-----------------------------------------------------------------------------
(* Properties                                                              *)

TypeOK ==
  /\ progress \in Progress
  /\ refusals \in [run : 0 .. MaxRuns, steps : SUBSET Gated]
  /\ codex \in BOOLEAN
  /\ clock \in 0 .. MaxRuns
  /\ said \in [Sessions -> SUBSET (Steps \X Runs)]
  /\ last \in [Sessions -> SUBSET Steps]
  /\ job \in [Sessions -> Job]
  /\ passed \in SUBSET (Steps \X Runs)
  /\ events \in 0 .. MaxEvents

(* A gated step counts as completed in a run only if an inspection passed  *)
(* it in that very run, whoever replaced whose object in between, through  *)
(* resets and restarts: no stale write carries a verdict into another run. *)
Inspected ==
  \A n \in progress.done \intersect Gated : <<n, progress.run>> \in passed

(* Liveness.  Every program that runs goes on unless it is stopped; a lock *)
(* that is free again and again is won in the end; a session ends its      *)
(* turns.  Lock timeouts and kills are among the bounded events.           *)
Fairness ==
  \A s \in Sessions :
    /\ SF_vars(WriterLock(s))
    /\ WF_vars(Writer(s) \/ LoaderReplace(s) \/ Trigger(s) \/ Cli(s))
    /\ WF_vars(EndTurn(s))

FairSpec == Spec /\ Fairness

(* A claim of an ungated step that stands in a transcript is recorded in   *)
(* the end, whichever writes lost it before: the writer reads the whole    *)
(* transcript at every Stop.  Unless the run is replaced or Codex takes    *)
(* over, the session is cleared, or the file is left torn.                 *)
Claimed(s, n, r) ==
  Readable(progress) /\ ~codex /\ progress.run = r /\ <<n, r>> \in said[s]

ClaimsRecorded ==
  \A s \in Sessions, n \in Steps \ Gated, r \in Runs :
    Claimed(s, n, r) ~> (n \in progress.done \/ ~Claimed(s, n, r))

(* A cursor moved by hand is put back, or the run is over.                 *)
DriftRepaired == (Phase = "drift") ~> (Phase # "drift")

-----------------------------------------------------------------------------
(* A claim of the comments that the code does not keep                     *)

(* "Named pause.  Only scripts/harness-pause.mjs sets or clears it": a     *)
(* pause ends by a resume, a reset or a new run, never by another program. *)
PauseKept ==
  [][progress.paused /\ Readable(progress') /\ ~progress'.paused =>
       \E s \in Sessions : CliWrite(s)]_vars
=============================================================================
