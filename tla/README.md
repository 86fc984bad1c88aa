# Harness50 in TLA+

Harness50 drives a coding agent through a fixed list of steps (36, 39 or 50, by
profile).  It exists twice: a **Codex plugin** (`codex/`) whose state manager
is the only writer of `.harness50-codex/`, and a set of **Claude Code hooks**
(`hooks/`, `scripts/`) that share `step_archive/progress.json`.  What makes
either hard is that nobody is in charge.  Hooks, commands, second sessions and
a user with an editor all act on the same files, any of them can be killed
between two writes, and the agent at the centre does what it likes.

This directory holds TLA+ models of those two halves, the TLC configurations
that check them, and TLAPS proofs of all their safety properties.

| Module | Models | Checked by | Proved in |
|---|---|---|---|
| `Workflow` | the Codex state manager, the Stop and prompt hooks, the host | `workflow_control`, `workflow_receipts`, `workflow_settles`, `gap_recoverable`, `human_prompt_pauses` | `WorkflowProofs`, `WorkflowLedgerProofs` |
| `StepLedger` | abstract: what the manager promises about progress | `workflow_receipts` (refinement) | `WorkflowLedgerProofs` |
| `RunLock` | the lock directory, one action per file-system call | `run_lock`, `restore_only_observed` | `RunLockProofs` |
| `WorkspaceStore` | init, import, completion, topic repair and reset, one action per durable write | `workspace_store`, `reset_recovers` | `WorkspaceStoreProofs` |
| `EventLog` | `events.jsonl`, chunk by chunk, and what its three kinds of writers make of a failure | `workspace_store` | `EventLogProofs` |
| `QaReports` | snapshot, record and inspect of the QA reports | `workspace_store` | `EvidenceProofs` |
| `FinalEvidence` | quality gate, browser report and the completion of the final step, among edits | `workspace_store` | `EvidenceProofs` |
| `EvidenceReplay` | the retry of a completion whose receipt is already there | `workspace_store` | `EvidenceProofs` |
| `JevJudge` | the questions to the Jev service and their reports | `workspace_store` | `EvidenceProofs` |
| `StopBlocks` | the two Claude hooks that keep a turn from ending | `workspace_store` | `StopBlocksProofs` |
| `ClaudeProgress` | the Claude hooks and the pause script on `progress.json` | `claude_progress`, `claude_records`, `pause_kept` | `ClaudeProgressProofs` |

`MCWorkflow`, `MCRunLock`, `MCWorkspaceStore` and `MCClaudeProgress` extend
these for TLC (symmetry sets); each cfg file gives the constants their values.
`MCStores` puts seven specifications side by side in one run: `WorkspaceStore`
and the six modules below it in the table, from `EventLog` to `StopBlocks`.
`Init` chooses one of eight parts ("gates" and "final" are both
`FinalEvidence`), no step leaves its part, and each specification keeps its own
variables: the behaviours are exactly those of the parts, each by itself.
`MCWorkspaceStore` checks the store alone, for `reset_recovers`.

To run one: `tlc -config WorkflowControl.cfg MCWorkflow`.  To check proofs:
`tlapm WorkflowProofs.tla`.

## 1. Inventory

### Codex side

| Part | State it keeps | Operations |
|---|---|---|
| Workflow manager, `workflow.mjs` | `state.json`: status, completed prefix, current attempt, failures, continuation marker, Stop delivery, owner | init, begin, complete, fail, pause, resume, reconcile, reset, repair-topic, processStop, acceptStopDelivery |
| Schema and owner lease, `schema.mjs`, `ownership.mjs` | none | validate; claim, assert, renew, transfer |
| Receipts, `receipts.mjs` | `receipts/stepNNN.json` | exclusive write, read, reconcile |
| State store, `state-store.mjs` | `state.json`, `events.jsonl`, `backups/` | atomic write, append, pinned event batch, archive with undo |
| Run lock, `lock.mjs` | `lock/` with one claim file | acquire, reclaim, release |
| Import, `importer.mjs` | `imports/`, `import-error.json` | import of Claude progress |
| Topic, `topic.mjs` | `TOPIC.md` | derive the topic contract |
| Acceptance, `acceptance.mjs` | none | accept the evidence of a completion; measure the reports of the final step; replay a durable receipt |
| Tool guard, `guard.mjs`, `pre-tool-use.mjs` | none | classify commands and patches |
| Hooks: `stop`, `user-prompt-submit`, `session-start`, `hook-io` | none | translate host events into operations |
| CLI, step validator | none | argument parsing, build-time checks |

### Claude side

| Part | State it keeps | Operations |
|---|---|---|
| Writer, `step-progress-writer` | `progress.json`, writer lock | record the claims of a turn, pass gates, repair a drifted cursor |
| Loader, `step-progress-loader` | `progress.json` | at a session start, set the active session |
| Trigger, `webapp-trigger` | `progress.json`, step bodies | start a run |
| Auto-continue, `step-auto-continue` | stall file of a session | keep a turn going |
| Obedience guard, other edit hooks | none | read-only checks, text transformations |
| Pause script, `harness-pause.mjs`, `pause-state.mjs` | `progress.json` | pause, resume, reset |
| Activity gate, `harness-activity.mjs` and relatives | none | decide whether a hook may act |
| QA reports, `qa-report.mjs` | snapshots, claims, reports, the pointer `latest` | snapshot, record, inspect |
| Quality gate, `quality.mjs`, `quality-gate.mjs` | `quality-gate.json`, the coverage file | run the checks, inspect the report, block a Stop |
| Browser and regression reports, `verify-output.mjs`, `browser-report.mjs`, `final-regression.mjs` | `browser-output.json`, the QA report of the last step | verify the build, record, inspect |
| Jev, `jev-judge.mjs`, `jev-review.mjs`, `jev-ask.mjs` | one file per report | bind sources, ask a network service, keep the verdict, inspect |
| Final summary, `final-summary.mjs` | none | collect all reports in one text |
| Browser backends | a record of the backend of a run | drive a browser |
| Command and approval guards | none | classify commands |

### How they interact

The host (Codex or Claude Code) calls hooks at fixed moments: a prompt, a tool
use, the end of a turn.  The agent calls the CLI.  On the Codex side every
mutation goes through `withMutation`: take the run lock, capture the identity
of the storage directories, read the state, compute, write the state, append
events.  The Stop hook answers `block` with a *continuation marker*; the agent
must hand that marker back with `begin`, works, and calls `complete`, which
publishes an immutable *receipt* and then the state.  Ownership is a lease of
five minutes.  On the Claude side there is no such discipline: each program
reads the whole of `progress.json`, works on the object and renames its own
over it; only the writer locks, against writers.  The two sides meet in the
import (Codex takes a Claude run over) and in the activity gate (a Claude hook
rests once there is a Codex state).  The commands around the outputs (QA, gate,
browser, Jev) serve both sides.  They take no lock at all: each reads and
hashes files one after the other while agents edit them, and relies on hashing
them again.  The completion of the final step holds the run lock and inspects
what those commands left, which does not keep them from going on.

### What is hard, and what correct means

* **Crash between two writes.**  Receipt before state, snapshot before
  receipts before state, state moved before receipts.  Correct: a state never
  speaks of what is not on disk, and nothing is lost or mixed.
* **Markers and turns out of order.**  Stop hooks repeat, prompts arrive late,
  two sessions act.  Correct: a marker opens one attempt, a live attempt
  belongs to the owner, one failure counts once.
* **A hook that holds the host.**  Correct: bounded pressure, and a run settles.
* **A lock made of a directory.**  `rename` replaces an empty directory, every
  check is a call apart from what it guards.  Correct: one holder, nobody's
  lock taken, a dead one's reclaimed.
* **A log that cannot take its lines.**  It is full, its disk accepts half a
  write, somebody else appends to it or removes it.  Correct: an event is there
  whole or not at all, foreign lines survive a rollback, and a Stop that is
  refused has changed nothing.
* **Evidence about files that move.**  Artifacts, evidence, coverage and sources
  are read one by one while they are edited.  Correct: a verdict is about files
  as they were together at some moment, and a receipt names reports of one build.
* **A retry of what is already durable.**  Correct: it is recognised by what it
  claims, and no other claim passes for it.
* **A service that never answers.**  Correct: the one timer ends every command.
* **Whole-object replacement without locks** (Claude side).  Correct: a claim
  the writer saw is recorded sooner or later and only with its inspection.

`PROJECT.json` lists the hazards line by line with the properties that cover
them, and says so where none does.

## 2. The models

A definition whose comment starts with "Variant:" is a plausible defect of the
definition after it.  No specification uses variants.  Every property of a
passing run is violated when a variant takes its original's place.

### Workflow

One action per exported operation and per hook.  The run lock makes each
atomic up to its durable writes, so an operation that writes twice is two
actions with `inflight` between them: init (`InitTopic`, then `InitState` or
`InitRollback`) and complete (`PublishReceipt`, then `CommitCompletion`); a
crash between the latter is what the reconciliation is written for.  The prompt
hook is two mutations under two locks (`SubmitPrompt`, then `PromptPause`), and
anything may happen in between.  The variables are:

* `state`, the contents of `state.json` (`completed` is the length of
  `completed_steps`, which the schema forces to be a prefix; the owner's lease
  is an age in ticks);
* `receipts`, what `readReceipts` would find per step, damaged files included,
  and in one more slot for all higher numbers, where no operation writes and only
  an unreadable file may be left (`TamperReceipt`).  Such a file is how a workflow
  whose receipts are all trusted comes to be blocked, and why the fallback keeps
  a step open (`Fallback`);
* `shared`, whose `TOPIC.md` the workspace has;
* `inflight` and `prompt`, the operations between two writes or mutations;
* `nonces`, the markers issued so far; history: the last one consumed
  (`spent`), how often a Stop held the host back since the last progress
  (`pressed`), receipts lost from outside (`tampered`).

`state` has the fields of the schema and the operators have the names of its
functions: `Issued` is `issueContinuation`, `Claimed`/`Renewed`/`Resumed` the
lease operations, `TrustedPrefix`/`BlockedAt`/`Reconciled` the reconciliation,
`StopRelease`, `StopReplay`, `StopRequest` and `StopFail` the branches of
`processStop`.  `SchemaValid` is
`validateState`, stated of every state that an operation writes.

Abstracted: texts, digests, evidence, event contents.  Events are taken to be
appendable (`WorkspaceStore` has the crash before them, `EventLog` what follows
when they are not).

### StepLedger

What a reader of the design document expects of progress: a prefix of
completed steps with their receipts; one step at a time, only while running;
nothing skipped; fall-back only when receipts are lost; a paused run stays
paused whatever is recovered.  A completed run may be refused with all its
proofs there (`Reopen`): then its last step is open again.  `Workflow` implements it under the mapping in
`Workflow!Ledger`; `ImplementsLedger` is checked as a property.

### RunLock

`acquireLock`, `reclaimIfSafe`, `releaseLock` with one action per call that
touches the file system: look, publish a prepared directory by rename, observe,
confirm, rename of the claim, verify, rmdir, restore by link.  A directory is
known by its generation (inode) and the claims in it.  `rmdir` may be refused
(`MaxFaults`), a process may die anywhere.  Whether an observed lock is old
enough is left open at each look.

### WorkspaceStore

The same operations as `Workflow` seen from the disk.  `disk` is the active
directory (`state`, `receipts`, `imports`, `events`, `error`), `backups` the
directories that resets moved things to.  Init is topic link, unlink, state,
event.  Import is snapshot, metadata, receipts one by one, state, event, or
the error record.  Reset keeps the set of entries to move and the set it has
moved, and takes the next one (`MoveNext`) in the order of `ACTIVE_METADATA`; the
undo takes the last one back first.  A reset also fails, everything moved, when the
flush behind its last rename does.  `InitialState` is what init and import begin
with.  Topic repair is copy link, unlink, topic, state, event.  A crash or a
failed write can come at each.  An exclusive publication (link, then unlink)
leaves a file with two names if it dies in between; `Guarded` is the check of
`assertUnaliasedControlFiles` that refuses such files.

It shows what `Workflow` assumes when it takes import and reset for one step:
`StateComplete`, `OneWorkflow`, `NeverReissued`.  Directories which are empty
count as absent; the code is a little stricter there only for `init`, where
`TOPIC.md` refuses already.

### EventLog

`log` is the contents under the name `events.jsonl` in cells, `node` the file
under that name, `names` its links; an operation under way (`job`) knows the
node it opened, so a removed and re-created log is another file.  The three
kinds of writers are: a Stop (`commitStopTransition`: `StopOpen` opens and
measures the log before the mutation, `StopMutate` writes the state, `StopCheck`
measures again), an ordinary operation (`OpCommit` writes the state, then
`OpOpen` per event) and the acceptance of a delivery (the same, but
`Softened` drops every error except an unsafe path).  All three then share
`appendPreparedBytes`: `WriteChunk` of any length, `WriteFails`, `Sync`,
`Verify`, and on an error the rollback in three steps, `Inspect` (is what lies
behind the old end ours?), `Cut`, `Restored`.  `Outside` appends a line, links
the file or removes it between any two of these.  `answer` keeps what each
caller was told.

### QaReports

Three commands, `Commands` of which run at once, one action per file that is
read, hashed or written.  `snapshot` hashes the artifacts and writes them under
a random name.  `record` hashes evidence (`RecordHash`), compares the artifacts
with the snapshot before and after (`RecordCompare`, `RecordRecheck`), creates
the claim exclusively (`RecordClaim`), fills it (`RecordFill`), writes the
report under the hash of its bytes and renames the pointer over `latest`.
`inspect` follows pointer, report, snapshot and claim and hashes the evidence
between two looks at the artifacts.  Edits, a new run and the death of a
command, which leaves a torn claim between creation and filling, come in
between.

### FinalEvidence

`build` and `source` count the edits of `dist/index.html` and of the other
fingerprinted files; a report carries the tree it names.  A gate is
`GateClear` (the old coverage goes), `GateTest`/`GateTested` (the test command
runs and may write coverage of the tree it ran on), `GateRead`, `GateAfter`,
`GateReread`, `GateWrite`.  The browser verifier works between two hashes of
the build.  The completion is one action per call of `measuredReports` and of
the final build item, from `CompleteHash` to `PublishFinalReceipt`; it holds
the run lock, which neither gates nor agents ask for.  `alone` remembers
whether another gate ran at the same time: two gates share the path of the
coverage file, and then one may read what the other's test wrote.  The HTML
item of the evidence is hashed before the reports are inspected and not after
(`acceptance.mjs` 712–717), so it can be an older build than theirs; the
property speaks of the reports.

### EvidenceReplay

Pure algorithms behind one question: is a retry of `complete` recognised?
`Accept` turns what a caller supplies into durable evidence (shape, digests,
measured reports added by the runtime); `Restore`, `Completed` and `Replay` are
the path of a retry, which knows neither digests nor reports.  `Restore` puts the
first and the last report that the caller left out back at their places: a
receipt names each of the two reports once, so there are no others.

The step is the final one of the legacy profile, whose contract once grew by the
final visual evidence (`VisualIds`).  `HistoricalContract` waives that evidence
for a receipt that names none of it and neither report, as step 50's case of
`historicalReplayContract` does, and for no other.  Behaviours start without a
receipt or with one that was there before (`inherited`): every shape an older plugin,
or somebody's editor, may have left, with some, all or none of the visual
evidence and of the reports, with or without a digest.

`RetryRecognised` compares `Replay` with a reference definition over every
sequence of up to `MaxItems` items, duplicates and omissions included.  The
reference goes the other way: it takes reports out of the receipt (`Shortened`),
in every way, and asks whether what is left is repeated, with or without the
digest (`Repeated`).  A receipt that was found is recognised so exactly if it
may count (`Vouched`): its artifact has its digest, and it has all of the visual
evidence or nothing of it and no report.

### JevJudge

A command is bind (file by file), check, send, headers, body, recheck (file by
file), persist.  `Deadline` is the timer, which is armed for headers and body.
`judge` is bound to the generation of the workflow, `review` belongs to the
legacy profile, `ask` keeps nothing.  `inspect` compares a kept report file by
file.  The service is an action that may happen or not.  `real` is history:
whether the files were the bound ones when the question was sent and still when
its answer came.

### StopBlocks

The host asks both hooks at every Stop and goes on with the turn if one blocks
(`Settle`), with `stop_hook_active` from then on.  `AutoRead` and `AutoAnswer`
are the auto-continue hook with its stall file, one per session; `AutoDies` is
its failure or its budget, before or after the file was replaced.
`QualityAnswer` is the gate as a hook.  Sessions share the record, which they,
a pause or an import move in between.

### ClaudeProgress

One action per read and per replacement of each program, so that everything
between a read and the rename can interleave: writer (lock, read, inspect,
recheck, replace), loader, trigger (truncate, then write), pause script (three
rounds of read, compute, recheck, compare, rename).  The phase gate, the
comparison of claim times with the start of the run, the cursor that turns
auto-continue off when it was moved by hand, and the gated milestones are kept.
`Flock` says whether the `flock` command exists; without it the writer runs
unlocked (macOS).  `CodexImports` lets the Codex side take over at any moment.

## 3. The runs

| Run | Question | Size |
|---|---|---|
| `workflow_control` | Two sessions, two turns, two disruptions: is the state always valid, are markers, failures and owners right, does Stop let go? | 2 steps |
| `workflow_receipts` | Three disruptions: does progress stay behind its receipts, and does the manager implement the ledger? | 3 steps |
| `workflow_settles` | Does a running workflow always come to rest, even if the agent never completes anything? | 2 steps, 1 session, 1 turn |
| `run_lock` | One holder, nobody robbed, dead locks reclaimed? | 3 processes, 3 calls |
| `workspace_store`: store | Is the disk consistent through any three crashes or failed writes? | 2 steps, 2 workflows |
| … log | Is every event whole, behind its state, and are foreign lines kept? | 3 operations of 2 cells, limit 5, 2 failures, 1 change from outside |
| … qa | Is a snapshot assessed once, with its own evidence, and is "current" true? | 2 commands, 1 snapshot per run, 2 runs, 2 edits, 1 mishap |
| … gates, final | Does a gate measure the tree it names, and does a final receipt agree with itself? | 2 gates, or 1 gate with browser, regression and completion; 2 workflows |
| … replay | Is exactly the same claim recognised on a retry? | 2 visual items, all sequences of up to 4 items, 1 edit, receipts found of up to 3 items |
| … jev | Is a verdict about one state of its files, and does every command end? | 2 sources, 2 edits, 2 generations, 2 commands |
| … blocks | How often is a turn without progress held back? | 2 sessions, 2 steps, 2 prompts, 1 pause or import |
| `claude_progress` | Is a gated step recorded only when it was inspected in its run? | 2 sessions, 2 runs |
| `claude_records` | Is every claim recorded in the end, and a drifted cursor repaired? | 1 step, 2 sessions |

**Why these bounds.**  Nothing in the manager depends on the number of steps
beyond "first", "last" and "some earlier one": two steps have the first and the
last, three add one before that is lost while a later one is present.  Two
sessions are an owner and another; two turns are this and an earlier one.  The
liveness run has one of each: more would only add operations that nobody is
assumed to call.
`MaxDisruptions` counts resumes, resets, damage and crashes.
Three are needed for the ledger: with two, a lost receipt, a resume and a crash
never meet, and a ledger that is too strict goes unnoticed.  Stop deliveries
are left out of `workflow_receipts` (no turns), because they only reconcile,
which `reconcile` does there too.  Three lock users are an abandoned holder, a
reclaimer and a newcomer.  `WorkspaceStore` needs two workflows to mix and
three faults for a reset that fails, cannot be undone and then dies.
`claude_records` uses one ungated step, since its question is about a single
claim against all interleavings; gates are `claude_progress`'s question.
In the log, a write of two cells can be short by one; a limit of five leaves
room for two events, a foreign line and a third that does not fit; two failures
are a failed write and a failed or dead rollback of it.  Two QA commands are the
two recorders of one snapshot, or one and an inspection; a second run is what
the generation is for; two edits take artifacts and evidence once each or the
artifacts twice.  Two gates are needed to share a coverage path.  Edits and
workflows together are at most three beside two gates and two beside the
completion (`Edits`, `Workflow` in `MCStores`): one edit makes a report stale, a
second one falls behind the next look, and a workflow makes the report another's.
Two visual items
are the fewest of which a receipt can have some but not all.  Four items are the
artifact, both visual items and one report; a receipt then has up to five, and only
the evidence that repeats all five, reports included, is left to the theorem.
Three items make a found receipt with all, a part or none of the visual evidence,
or with both reports.  Two sources can be read in a mixed state, and two edits put one change before the
question and one behind it.  Two commands of Jev are a question and an
inspection, which needs a report to inspect.  In `StopBlocks` two sessions are
needed for one to move what the other counts, and the stall file is read again
after a prompt.  Every
counter that is bounded only to keep the state space finite is named in the
module that bounds it.

**Deadlock** is not checked where the system may really stop: all calls or
events used up, all processes dead, or a workspace that no operation accepts
any more, which is a fact about the code and described below.

**Fairness.**

* `Workflow!FairSpec`: the host answers a turn that was held back with another
  Stop at its end (`stop_hook_active`); an agent that was given a marker begins
  with it; whoever holds the run lock goes on or crashes, and so does the
  prompt hook.  The first is how the host runs hooks, the second what a blocked
  turn asks of the agent, the third is how processes run.  Nothing is assumed
  of agents completing anything, of users or of leases.  A Stop that finds the
  event log full is refused before its mutation and releases the host
  (`EventLog`): the turn ends, although the workflow is still running.
* `RunLock!FairSpec`: a process that is alive takes its next step (weak); one
  that looks at an abandoned lock again and again finds it old enough at last
  (strong), since staleness is by time.
* `JevJudge!JevSpec`: a command that runs takes its next step, and its timer is
  such a step while it waits (weak).  The service owes nothing.  `MCStores`
  keeps this fairness; its other parts make no promise that something happens.
* `ClaudeProgress!FairSpec`: a started program goes on, sessions end their
  turns, the lock is granted sooner or later to who keeps asking (strong).
  Timeouts and kills are bounded by `MaxEvents`: a hook that is always killed
  records nothing, and nothing in the code promises otherwise.

**A file is the number of its edits** in `QaReports`, `FinalEvidence` and
`JevJudge`.  An edit that puts old bytes back is left out: no hash can notice
it, and without it an equal hash means that nothing happened in between.  The
profile is one that binds evidence to a generation, except in `EvidenceReplay`,
where the legacy profile is the one that has old receipts to recognise, and in the `review` form of `JevJudge`.

**What the runs that are violated show** (the lines are in `PROJECT.json`):

1. `gap_recoverable`: the design says that a crash between receipt and state is
   recovered by reconcile.  It is, until a `resume` or `fail` happens first.
   These forget or spoil the attempt that the receipt names; the step is then
   blocked (`RECEIPT_ATTEMPT_MISMATCH`) and cannot be repeated either.
2. `human_prompt_pauses`: the design says that a user's prompt pauses automatic
   progress.  After the lease ran out `pauseWorkflow` throws, the hook swallows
   it, and the workflow goes on.
3. `restore_only_observed`: a claim that a refused `rmdir` restores can land in
   a successor's directory, against the comment above the restore.  The
   directory then has two claims and is never reclaimed.  Mutual exclusion
   still holds.
4. `pause_kept`: on the Claude side a pause written between a hook's read and
   its replacement is overwritten.
5. `reset_recovers`: importer.mjs sends a user with the artifacts of a failed
   import to reset.  If the import died between the link and the unlink of its
   error file, reset refuses too (two names), and so does everything else.  The
   same holds for `TOPIC.md` in `init`.  Only the copy made by a topic repair
   is recovered from this.

Four more facts that the models show and no document contradicts: a crash of
`init` between topic and state leaves a workspace that `init`, `reset` and
`import` all refuse; an import takes over an event log that a half-done reset left,
so one log can speak of two workflows; a topic repair that died between topic
and state can be overtaken by `begin` and `complete`, after which the pinned
digest disagrees with `TOPIC.md` for good.  Two quality gates at once can pass
on each other's coverage, which is why `GateMeasured` is about a gate that ran
alone.

## 4. The proofs

TLC's runs say something about two or three sessions.  The theorems hold for
every value of the constants that satisfies the modules' assumptions, which are
only the types of the constants (a positive number of steps, a positive lease,
a name outside the set of sessions).

**`WorkflowProofs`.**  `WorkflowInv` is inductive.  Its parts are the type
invariant; `Good(state)`: the schema, completed steps backed by receipts, live
attempts owned by their session, markers ordered (the open one is newer than
every consumed one), a live attempt with at most the receipt of the current
step, and never a marker and a live attempt at once; what an operation between
two writes still relies on (`Pending`); attempts of native receipts distinct;
no receipt naming an attempt that was not begun.  Each part is there because
another needs it.  That `CommitCompletion` keeps `ReceiptsBeforeState` needs
`Pending`; that a new receipt does not repeat an attempt needs that the live
attempt has no receipt but the current step's; that a new attempt has none
needs the order of markers.  The lemmas first show for each *operator* of the
manager (`Paused`, `Resumed`, `Advanced`, `Reconciled`, ...) that it maps good
states to good states; then there is a step for every action.  From the
invariant follow `TypeCorrect`, `SchemaValidHolds`, `ReceiptsBeforeStateHolds`,
`OneGenerationHolds`, `AttemptOwnerHolds`, `AttemptsDistinctHolds`, and the
action properties `MarkersUsedOnceHolds` and `ReceiptsImmutableHolds`.

**`RunLockProofs`.**  `LockInv` has four parts: types; a token in use was given
out, to its user (`TokensMade`); a claim about to be renamed away belongs to a
dead process (`TargetsDead`); whoever is inside owns the directory until its
claim is renamed away (`InsideOwns`).  The last is what everything rests on: a
claim in the directory makes `rmdir` and the replacing `rename` fail, so all
that could hurt a holder is a rename of its claim, which by `TargetsDead` only
the dead suffer.  Any number of processes, calls and refused `rmdir`s.

**`WorkflowLedgerProofs`** extends `WorkflowProofs` to the abstract
specification.  `WorkflowInv` is not enough for it: whether a fall-back is a
step of the ledger depends on which receipts lie under the completed steps.
`LedgerInv` adds that these are imported ones up to the imported prefix and
native ones behind it (`KindsFit`), that a blocked workflow has no receipt of
its live attempt, so that no work is recovered out of a block (`Earned`), and
that nothing is in hand without a state (`Clear`).  With it every action is a
step of `StepLedger` or leaves it as it is (`ImplementsLedgerHolds`), and counts
a failure at most once per attempt (`FailureCountedOnceHolds`).
`StopPressBoundedHolds` rests on `PressInv`: once an agent was asked for the
open marker, the host was held back at most once more than there were failures,
and a failure beyond the limit blocks the workflow.

**`EventLogProofs`.**  `LogInv` says for every phase of a write what lies behind
the old end of the open file: cells of the event at hand, as far as they were
acknowledged, and foreign lines with the moment they came.  The rollback
inspects exactly that, so what it cuts is its own, except for a line that comes
between the inspection and the truncation, which the property names.  From it
follow `LogStaysInLimit`, `EventsAreWhole`, `EventsFollowStates` and
`OutsideLinesStay`, for any size of a write and any limit.

**`WorkspaceStoreProofs`.**  A crash may stop every operation before every one of
its writes, so `StoreInv` says two things.  `Files` is true of the directory
between any two writes: it belongs to one workflow, the state's steps have
their receipts, its topic is the pinned one or the original copy explains why
not.  The other parts say, phase by phase, what the writes still to come rely
on: that nothing was there (`Creating`), how far an import came (`Importing`),
that the receipt is there (`Completing`), that the original was copied
(`Repairing`).  A reset is the hard one, since halfway through it neither the
directory nor the backup is complete.  `Whole` is what the directory would be if
everything were moved back.  A move and an undo leave `Whole` alone, so
`Resetting` states completeness of it, and `Moving` that the state is the first
to go: whatever else was moved, what remains on disk has no state to be wrong.
`StoreTypeOK`, `StateIsComplete`, `OnlyOneWorkflow`, `ReceiptsAreKept`,
`PinnedTopicStays`, and the action property `NotReissued`, for any profile, any
number of workflows and any number of crashes and failed writes.

**`EvidenceProofs`** has four sections.

* QA reports.  `QaInv` has, for each command, what its phase still
  holds (`Named`, `Claimed`, `Paired`), and that two recorders of one snapshot are
  not both past the claim (`Apart`).  Artifacts only move on, so if they equal the
  snapshot after the evidence was hashed, they did so while it was.  `RunInv`
  adds the runs: what a command has in hand is of the run it began in, and a run
  does not come back, so an inspection that ends in its run was in it all along.
  `SnapshotsAreAssessedOnce`, `EvidenceBelongsToSnapshot`, `CurrentAnswersAreTrue`.
* Jev.  `JevInv`: bound files are never ahead of those on disk,
  and a file that already differed at the question is one that the comparison
  still has before it.  `VerdictsAreJudgedAsOne`.
* The final step.  `GateInv`: the coverage a lone gate holds was
  measured between its two fingerprints.  `CompletionInv`: what a completion has
  in hand after each look.  `GatesMeasureTheTree`, `FinalReceiptsAgree`.
* The retry.  The invariant says only what a receipt is: every item named
  once (`Legible`), and one this plugin wrote has the shape of its contract, the
  digest and both reports (`Published`).  The argument
  is about sequences: putting an item back at the place it was taken from gives
  the sequence back (`PutBack`), for one report and, in this order, for two; and
  as names are unique, the reports that are missing from an evidence that
  repeats the rest are the ones that were taken out (`LeftOutIs`).  So `Restore`
  and `Shortened` undo each other (`RestoredRepeats`).  What is then left is
  whether the receipt itself passes under the contract it is held to: always for
  one that was published (`PublishedIs`), exactly if it may count for one that was
  found (`VouchedIs`).  `RetriesAreRecognised` holds for evidence of any length
  and any set of visual declarations.

**`ClaudeProgressProofs`.**  Every program replaces the whole object with one it
read some time ago, so an invariant about the file alone says nothing.
`ClaudeInv` says it of the file and of every object a program still holds: its
gated completions were inspected in its own run (`Sound`) and that run was
started (`Started`); a program past its read holds a readable object
(`HoldsRun`), and a writer about to replace adds only what was inspected for the
run of the object it replaces (`Adding`).  The verdict belongs to the run, not
to the file, which is why a loader or a pause that writes an old object back
cannot break it.  `OnlyInspected`, `ClaudeTypeOK`; and `WritersExclude`: where
`flock` exists, one writer at a time.

**`StopBlocksProofs`.**  `BlocksInv` relates the blocks of a turn to the stall
file of its session: every block without progress is counted there, and a file
that speaks of later steps ends the series.  `BlocksAreBounded`.

**Only model-checked** is everything about liveness: `RunSettles`,
`AbandonedIsReclaimed`, `ClaimsRecorded`, `DriftRepaired` and `AskingEnds`, since
TLAPS proves neither fairness arguments nor `ENABLED`.  What a recursive
definition computes for every input would need induction over a predicate
parameter, which the provers do not offer; the models avoid recursion.

## 5. Not modelled

* Stateless classification and text: tool guard, command and approval guards,
  obedience guard, topic parser, loading of contracts, bundler, validators,
  report layout, the excerpts and answer formats of Jev.  There is no sequence
  of steps in them for a model checker to explore.
* Final summary: it only reads.  One detail met on the way: `collectJev`
  (`scripts/lib/final-summary.mjs`) shows the best result of an input whatever
  its time, stale ones included, while its comment at 206 speaks of a later
  current result that hides an older failure.
* Browser drivers.  The backend of a run is one exclusive create.
* The PowerShell twins of the Claude hooks: same control, another lock.
* Reentrancy of the run lock inside one process and locks of other hosts.
* The temporary file of `writeStateAtomic`, Windows sharing errors and retries
  of `renameAtomic`: the rename is one action.
* What the quality checks compute, and the validation of the answers that a
  regression report carries.

## 6. What is left

A composition of `Workflow` with an explicit event log, so that a Stop refused
by a full log meets leases and markers, and of the import with
`ClaudeProgress`, so that a claim recorded during an import is followed into
the Codex state.
