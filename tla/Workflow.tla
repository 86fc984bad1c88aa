------------------------------ MODULE Workflow ------------------------------
(***************************************************************************)
(* The Codex state manager: codex/scripts/lib/workflow.mjs with the parts  *)
(* of schema.mjs, ownership.mjs, receipts.mjs and importer.mjs it calls,   *)
(* and the Stop and UserPromptSubmit hooks that drive it.                  *)
(*                                                                         *)
(* A workflow runs TotalSteps steps in order.  Its control state is one    *)
(* file (state.json); each finished step leaves a receipt file that is     *)
(* never rewritten.  Every mutation holds the workspace run lock from its  *)
(* first read to its last write, so an operation is one action, except     *)
(* where a crash can fall between two durable writes: init publishes TOPIC *)
(* and then the state, complete publishes the receipt and then the state.  *)
(* Between the two, inflight names the operation that holds the lock.      *)
(*                                                                         *)
(* Event-log appends are telemetry and left out.  A rejected operation     *)
(* (a thrown HarnessError) writes nothing and is no action.                *)
(*                                                                         *)
(* A definition under a comment "Variant" is a wrong form of the one that  *)
(* follows it; no action uses it.  It shows that a property can fail.      *)
(***************************************************************************)
EXTENDS Integers, FiniteSets

CONSTANTS
  TotalSteps,      \* steps of the selected workflow profile (36 or 50)
  Sessions,        \* host sessions that may own a workflow
  NoSession,       \* the anonymous caller (session_id = null)
  Turns,           \* host turn ids carried by Stop events
  NoTurn,          \* requested_turn_id = null
  Contents,        \* what a completion says: summary and evidence
  NoContent,       \* no such content: the receipt is absent or imported
  Lease,           \* OWNER_LEASE_MS, in clock ticks
  MaxDisruptions   \* bound on resumes, resets, crashes and damaged receipts

ASSUME ConstantsAssumption ==
  /\ TotalSteps \in Nat \ {0}
  /\ Lease \in Nat \ {0}
  /\ MaxDisruptions \in Nat
  /\ NoSession \notin Sessions
  /\ NoTurn \notin Turns
  /\ NoContent \notin Contents

Steps == 1 .. TotalSteps

(* The places a receipt file can be in: one per step, and one that stands  *)
(* for those of higher numbers, where no operation ever puts a receipt.    *)
Slots == 1 .. TotalSteps + 1

Callers == Sessions \union {NoSession}
RetryLimit == 3    \* failures in a row that block a workflow

VARIABLES
  state,        \* state.json, or NoState
  receipts,     \* receipts/stepNNN.json
  shared,       \* TOPIC.md and the Claude progress: "absent", "codex", "claude"
  inflight,     \* "init" or "complete" between its two durable writes
  prompt,       \* "pausing" between the two mutations of UserPromptSubmit
  nonces,       \* continuation nonces issued so far; a nonce is a fresh number
  spent,        \* history: the last nonce a begin consumed
  pressed,      \* history: Stops with stop_hook_active held back since progress
  tampered,     \* history: slots whose receipt was lost or damaged
  disruptions   \* how much of MaxDisruptions is used

vars == <<state, receipts, shared, inflight, prompt, nonces, spent, pressed,
          tampered, disruptions>>

-----------------------------------------------------------------------------
(* The records.  A null field of the code is the record or number below.   *)

NoOwner    == [session |-> NoSession, age |-> 0]
NoAttempt  == [id |-> 0, session |-> NoSession, failed |-> FALSE]
NoDelivery == [open |-> FALSE, turn |-> NoTurn, accepted |-> FALSE, allow |-> FALSE]
NoReceipt  == [kind |-> "none", attempt |-> 0, content |-> NoContent]

(* attempt.id is the nonce the begin consumed: the code hashes that        *)
(* continuation into the id.  owner.age is the clock minus                 *)
(* lease_updated_at, up to Lease.  imported is imported_from.prefix_length.*)
Attempt  == [id : Nat, session : Callers, failed : BOOLEAN]
Owner    == [session : Callers, age : 0 .. Lease]
Delivery == [open : BOOLEAN, turn : Turns \union {NoTurn},
             accepted : BOOLEAN, allow : BOOLEAN]
Receipt  == [kind : {"none", "native", "imported", "damaged"},
             attempt : Nat, content : Contents \union {NoContent}]
Statuses == {"absent", "running", "paused", "blocked", "completed"}
Reasons  == {"none", "THREE_CONSECUTIVE_FAILURES", "RECEIPT_AUTHORITY",
             "STATE_AHEAD_OF_RECEIPTS"}

State == [status : Statuses, completed : 0 .. TotalSteps, attempt : Attempt,
          failures : Nat, reason : Reasons, owner : Owner, continuation : Nat,
          delivery : Delivery, imported : 0 .. TotalSteps]

NoState == [status |-> "absent", completed |-> 0, attempt |-> NoAttempt,
            failures |-> 0, reason |-> "none", owner |-> NoOwner,
            continuation |-> 0, delivery |-> NoDelivery, imported |-> 0]

Present(i) == receipts[i].kind \in {"native", "imported"}
Damaged    == \E i \in Slots : receipts[i].kind = "damaged"
Live(s)    == s.attempt # NoAttempt /\ ~s.attempt.failed
Current(s) == s.completed + 1    \* current_step while one is left
AllDone(s) == s.completed = TotalSteps

-----------------------------------------------------------------------------
(* ownership.mjs                                                           *)

Expired(owner) == owner.age >= Lease

(* assertOwner: an anonymous caller only where nobody owns the workflow.   *)
OwnerAdmits(s, session) ==
  IF s.owner = NoOwner THEN session = NoSession
                       ELSE s.owner.session = session /\ ~Expired(s.owner)

Renewed(s) == [s EXCEPT !.owner.age = 0]

Claimed(s, session) ==
  [s EXCEPT !.owner = IF session = NoSession THEN NoOwner
                                             ELSE [session |-> session, age |-> 0]]

-----------------------------------------------------------------------------
(* Continuations and failures                                              *)

FreshDelivery(allow) ==
  [open |-> TRUE, turn |-> NoTurn, accepted |-> FALSE, allow |-> allow]

Issued(s, allow) ==
  [s EXCEPT !.continuation = nonces + 1, !.delivery = FreshDelivery(allow)]

Withdrawn(s) == [s EXCEPT !.continuation = 0, !.delivery = NoDelivery]

Failed(s) == [s EXCEPT !.failures = @ + 1, !.attempt.failed = TRUE]

(* Variant: the retry is offered under the nonce already used.             *)
RecordFailureSameNonce(s) ==
  IF s.failures + 1 >= RetryLimit
  THEN Withdrawn([Failed(s) EXCEPT !.status = "blocked",
                                   !.reason = "THREE_CONSECUTIVE_FAILURES"])
  ELSE [Issued(Failed(s), TRUE) EXCEPT !.continuation = s.attempt.id]

RecordFailure(s) ==
  IF s.failures + 1 >= RetryLimit
  THEN Withdrawn([Failed(s) EXCEPT !.status = "blocked",
                                   !.reason = "THREE_CONSECUTIVE_FAILURES"])
  ELSE Issued(Failed(s), TRUE)

(* Variant: the finished attempt stays the current one.                    *)
AdvancedKeepsAttempt(s) ==
  LET done == Withdrawn([s EXCEPT !.completed = @ + 1, !.failures = 0])
  IN  IF AllDone(done) THEN [done EXCEPT !.status = "completed"]
                       ELSE Issued(done, TRUE)

Advanced(s) ==
  LET done == Withdrawn([s EXCEPT !.completed = @ + 1, !.attempt = NoAttempt,
                                  !.failures = 0])
  IN  IF AllDone(done) THEN [done EXCEPT !.status = "completed"]
                       ELSE Issued(done, TRUE)

(* Variant: the interrupted attempt survives the hand-over.                *)
ResumedKeepsAttempt(s, session) ==
  Issued(Claimed([s EXCEPT !.status = "running", !.failures = 0,
                           !.reason = "none"], session), FALSE)

Resumed(s, session) ==
  Issued(Claimed([s EXCEPT !.status = "running", !.attempt = NoAttempt,
                           !.failures = 0, !.reason = "none"], session), FALSE)

-----------------------------------------------------------------------------
(* Reconciliation of the state with the receipts on disk                   *)

(* receiptAuthorityCode: an imported prefix, native receipts after it, and *)
(* past the state only the receipt of the current unfailed attempt.        *)
Trusted(s, i) ==
  /\ receipts[i].kind = (IF i <= s.imported THEN "imported" ELSE "native")
  /\ i > s.completed => /\ i = Current(s)
                        /\ receipts[i].kind = "native"
                        /\ Live(s)
                        /\ receipts[i].attempt = s.attempt.id

TrustedPrefix(s) == {i \in Steps : \A j \in 1 .. i : Trusted(s, j)}
TrustedLength(s) == Cardinality(TrustedPrefix(s))

(* The trusted prefix a blocked state falls back to.  It keeps one step    *)
(* open, because only a completed state has none: what is refused may be a *)
(* file behind a receipt of every step.                                    *)
FallbackBelow(s) == TrustedLength(s) - 1    \* Variant: off by one
FallbackWhole(s) == TrustedLength(s)        \* Variant: no step kept open

Fallback(s) == IF TrustedLength(s) = TotalSteps THEN TotalSteps - 1
                                                ELSE TrustedLength(s)

BlockedAt(s, reason) ==
  Withdrawn([s EXCEPT !.status = "blocked", !.reason = reason,
                      !.completed = Fallback(s),
                      !.imported = IF s.imported < Fallback(s) THEN s.imported
                                                               ELSE Fallback(s)])

(* Some receipt is malformed, missing before a later one, or not the       *)
(* workflow's own: blockForReceiptError.  The attempt survives where the   *)
(* refused receipt is that of the current step.                            *)
Refused(s) == Damaged \/ \E i \in Steps : /\ i > TrustedLength(s)
                                          /\ receipts[i].kind # "none"

RefusedState(s) ==
  IF ~Damaged /\ TrustedLength(s) = s.completed
  THEN BlockedAt(s, "RECEIPT_AUTHORITY")
  ELSE [BlockedAt(s, "RECEIPT_AUTHORITY") EXCEPT !.attempt = NoAttempt]

StateAhead(s) == s.completed > TrustedLength(s)
AheadState(s) ==
  [BlockedAt(s, "STATE_AHEAD_OF_RECEIPTS") EXCEPT !.attempt = NoAttempt,
                                                  !.failures = 0]

RecoversForward(s) == ~Refused(s) /\ TrustedLength(s) > s.completed

(* Variant: recovered work ends a pause.                                   *)
ForwardStatusUnpaused(s) ==
  IF TrustedLength(s) = TotalSteps THEN "completed" ELSE "running"

ForwardStatus(s) ==
  IF TrustedLength(s) = TotalSteps THEN "completed"
  ELSE IF s.status = "paused" THEN "paused" ELSE "running"

ForwardState(s) ==
  Withdrawn([s EXCEPT !.completed = TrustedLength(s), !.attempt = NoAttempt,
                      !.failures = 0, !.status = ForwardStatus(s),
                      !.reason = "none"])

ReceiptsApplied(s) ==
  IF Refused(s) THEN RefusedState(s)
  ELSE IF StateAhead(s) THEN AheadState(s)
  ELSE IF RecoversForward(s) THEN ForwardState(s)
  ELSE s

OwnerReleased(s) == IF Expired(s.owner) THEN [s EXCEPT !.owner = NoOwner] ELSE s

Reconciled(s) ==
  LET r == OwnerReleased(ReceiptsApplied(s))
  IN  IF RecoversForward(s) /\ r.status = "running" THEN Issued(r, TRUE) ELSE r

-----------------------------------------------------------------------------
(* The initial states: an empty workspace, or one Claude Code has used.    *)

Init ==
  /\ state = NoState
  /\ receipts = [i \in Slots |-> NoReceipt]
  /\ shared \in {"absent", "claude"}
  /\ inflight = "none"
  /\ prompt = "idle"
  /\ nonces = 0
  /\ spent = 0
  /\ pressed = 0
  /\ tampered = {}
  /\ disruptions = 0

(* What every mutation starts from: the run lock free, a state to read.    *)
LockFree == inflight = "none"
Active   == LockFree /\ state.status # "absent"
Running  == LockFree /\ state.status = "running"

(* guardedWriteState: the nonce counter follows the state it publishes.    *)
Write(s) ==
  /\ state' = s
  /\ nonces' = IF s.continuation > nonces THEN s.continuation ELSE nonces

Disrupt == disruptions < MaxDisruptions /\ disruptions' = disruptions + 1

NoActiveMetadata ==
  state.status = "absent" /\ \A i \in Slots : receipts[i] = NoReceipt

-----------------------------------------------------------------------------
(* initWorkflow, importClaudeProgress, resetWorkflow                       *)

(* init refuses shared work; it publishes TOPIC, then the first state.     *)
InitTopic ==
  /\ LockFree
  /\ NoActiveMetadata
  /\ shared = "absent"
  /\ shared' = "codex"
  /\ inflight' = "init"
  /\ UNCHANGED <<state, receipts, prompt, nonces, spent, pressed, tampered,
                 disruptions>>

InitState ==
  /\ inflight = "init"
  /\ Write(Issued([NoState EXCEPT !.status = "running"], FALSE))
  /\ inflight' = "none"
  /\ pressed' = 0
  /\ UNCHANGED <<receipts, shared, prompt, spent, tampered, disruptions>>

(* The state could not be written: the topic is withdrawn again.           *)
InitRollback ==
  /\ inflight = "init"
  /\ shared' = "absent"
  /\ inflight' = "none"
  /\ UNCHANGED <<state, receipts, prompt, nonces, spent, pressed, tampered,
                 disruptions>>

(* import adopts the first p steps of the Claude progress as receipts and  *)
(* writes the state last; nothing is running until a resume.               *)
ImportClaude(p) ==
  /\ LockFree
  /\ NoActiveMetadata
  /\ shared = "claude"
  /\ receipts' = [i \in Slots |-> IF i <= p THEN [NoReceipt EXCEPT !.kind = "imported"]
                                            ELSE NoReceipt]
  /\ Write([NoState EXCEPT !.completed = p, !.imported = p,
                           !.status = IF p = TotalSteps THEN "completed"
                                                        ELSE "running"])
  /\ pressed' = 0
  /\ UNCHANGED <<shared, inflight, prompt, spent, tampered, disruptions>>

(* reset moves the state and the receipts into a backup; TOPIC stays.      *)
ResetWorkflow ==
  /\ LockFree
  /\ ~NoActiveMetadata
  /\ Disrupt
  /\ Write(NoState)
  /\ receipts' = [i \in Slots |-> NoReceipt]
  /\ tampered' = {}
  /\ UNCHANGED <<shared, inflight, prompt, spent, pressed>>

-----------------------------------------------------------------------------
(* beginStep: consume the marker, claim or confirm the owner, open an      *)
(* attempt.  A live attempt refuses before and after the marker is read.   *)

BeginStep(session, marker) ==
  /\ Running
  /\ marker = state.continuation
  /\ marker # 0
  /\ state.owner # NoOwner => OwnerAdmits(state, session)
  /\ ~Damaged
  /\ ~Live(state)
  /\ Write([Claimed(state, session) EXCEPT
              !.attempt = [id |-> marker, session |-> session, failed |-> FALSE],
              !.continuation = 0])
  /\ spent' = marker
  /\ UNCHANGED <<receipts, shared, inflight, prompt, pressed, tampered,
                 disruptions>>

-----------------------------------------------------------------------------
(* completeStep: receipt first, state second                               *)

MayComplete(attempt) ==
  /\ Running
  /\ Live(state)
  /\ state.attempt.id = attempt
  /\ ~Damaged

(* Variant: the state goes first, the receipt has yet to be written.       *)
PublishReceiptLater(attempt, content) ==
  /\ MayComplete(attempt)
  /\ receipts[Current(state)] = NoReceipt
  /\ OwnerAdmits(state, state.attempt.session)
  /\ inflight' = "complete"
  /\ UNCHANGED <<state, receipts, shared, prompt, nonces, spent, pressed,
                 tampered, disruptions>>

(* Variant: what lies in the receipt's place is overwritten.               *)
PublishReceiptOver(attempt, content) ==
  /\ MayComplete(attempt)
  /\ OwnerAdmits(state, state.attempt.session)
  /\ receipts' = [receipts EXCEPT ![Current(state)] =
                    [kind |-> "native", attempt |-> attempt, content |-> content]]
  /\ tampered' = tampered \ {Current(state)}
  /\ inflight' = "complete"
  /\ UNCHANGED <<state, shared, prompt, nonces, spent, pressed, disruptions>>

PublishReceipt(attempt, content) ==
  /\ MayComplete(attempt)
  /\ receipts[Current(state)] = NoReceipt
  /\ OwnerAdmits(state, state.attempt.session)
  /\ receipts' = [receipts EXCEPT ![Current(state)] =
                    [kind |-> "native", attempt |-> attempt, content |-> content]]
  /\ tampered' = tampered \ {Current(state)}
  /\ inflight' = "complete"
  /\ UNCHANGED <<state, shared, prompt, nonces, spent, pressed, disruptions>>

CommitCompletion ==
  /\ inflight = "complete"
  /\ Write(Advanced(Renewed(state)))
  /\ inflight' = "none"
  /\ pressed' = 0
  /\ UNCHANGED <<receipts, shared, prompt, spent, tampered, disruptions>>

(* A repeated complete after a crash finds its own receipt: an owner whose *)
(* lease ran out is released, any other must be the attempt's session.     *)
RetryCompletion(attempt, content) ==
  /\ MayComplete(attempt)
  /\ receipts[Current(state)] =
       [kind |-> "native", attempt |-> attempt, content |-> content]
  /\ state.owner # NoOwner => state.owner.session = state.attempt.session
  /\ Write(Advanced(IF Expired(state.owner) THEN OwnerReleased(state)
                                            ELSE Renewed(state)))
  /\ pressed' = 0
  /\ UNCHANGED <<receipts, shared, inflight, prompt, spent, tampered, disruptions>>

-----------------------------------------------------------------------------
(* failStep, pauseWorkflow, resumeWorkflow, reconcileWorkflow              *)

(* Variant: an attempt that already failed may fail again.                 *)
FailStepTwice(attempt) ==
  /\ Running
  /\ state.attempt.id = attempt
  /\ OwnerAdmits(state, state.attempt.session)
  /\ Write(RecordFailure(Renewed(state)))
  /\ UNCHANGED <<receipts, shared, inflight, prompt, spent, pressed, tampered,
                 disruptions>>

FailStep(attempt) ==
  /\ Running
  /\ Live(state)
  /\ state.attempt.id = attempt
  /\ OwnerAdmits(state, state.attempt.session)
  /\ Write(RecordFailure(Renewed(state)))
  /\ UNCHANGED <<receipts, shared, inflight, prompt, spent, pressed, tampered,
                 disruptions>>

(* The guard of pauseWorkflow: running, and an owner's lease still valid.  *)
MayPause == Running /\ ~Expired(state.owner)

Paused(s) == Withdrawn([Renewed(s) EXCEPT !.status = "paused"])

PauseWorkflow ==
  /\ MayPause
  /\ Write(Paused(state))
  /\ UNCHANGED <<receipts, shared, inflight, prompt, spent, pressed, tampered,
                 disruptions>>

ResumeWorkflow(session) ==
  /\ Active
  /\ state.status # "completed"
  /\ Disrupt
  /\ Write(Resumed(state, session))
  /\ pressed' = 0
  /\ UNCHANGED <<receipts, shared, inflight, prompt, spent, tampered>>

ReconcileWorkflow ==
  /\ Active
  /\ Write(Reconciled(state))
  /\ pressed' = IF RecoversForward(state) THEN 0 ELSE pressed
  /\ UNCHANGED <<receipts, shared, inflight, prompt, spent, tampered, disruptions>>

-----------------------------------------------------------------------------
(* processStop.  It reconciles first; r is the state it decides on.        *)

(* Variant: a Stop of the turn that got the marker never counts.           *)
StopReleasesTurn(r, turn, active) ==
  \/ r.status # "running"
  \/ /\ r.continuation # 0
     /\ IF r.delivery.turn # NoTurn THEN r.delivery.accepted \/ active
                                    ELSE active /\ ~r.delivery.allow
  \/ /\ r.continuation = 0
     /\ r.attempt = NoAttempt \/ r.attempt.failed \/ r.delivery.turn = turn

(* Nothing to hold the host for, or this generation was already handed out.*)
StopReleases(r, turn, active) ==
  \/ r.status # "running"
  \/ /\ r.continuation # 0
     /\ IF r.delivery.turn # NoTurn THEN r.delivery.accepted \/ active
                                    ELSE active /\ ~r.delivery.allow
  \/ /\ r.continuation = 0
     /\ \/ r.attempt = NoAttempt
        \/ r.attempt.failed
        \/ r.delivery.turn = turn /\ ~active

(* Variant: replayed to an active Stop too.                                *)
StopReplaysActive(r, active) ==
  /\ r.status = "running"
  /\ r.continuation # 0
  /\ r.delivery.turn # NoTurn
  /\ ~r.delivery.accepted

(* The same marker again: requested before, not accepted, a plain Stop.    *)
StopReplays(r, active) ==
  /\ r.status = "running"
  /\ r.continuation # 0
  /\ r.delivery.turn # NoTurn
  /\ ~r.delivery.accepted
  /\ ~active

StopRequests(r, active) ==
  /\ r.status = "running"
  /\ r.continuation # 0
  /\ r.delivery.turn = NoTurn
  /\ active => r.delivery.allow

(* An attempt that a Stop finds unfinished counts as failed, if its        *)
(* session still owns the workflow; otherwise the Stop throws.             *)
StopFails(r, turn, active) ==
  /\ r.status = "running"
  /\ ~StopReleases(r, turn, active)
  /\ r.continuation = 0
  /\ OwnerAdmits(r, r.attempt.session)

Requested(s, turn) == [s EXCEPT !.delivery.turn = turn]

StopFailure(r, turn) ==
  LET f == RecordFailure(Renewed(r))
  IN  IF f.status = "blocked" THEN f ELSE Requested(f, turn)

(* How often an active Stop has been held back since the last progress.    *)
Pressed(held, active) ==
  LET base == IF RecoversForward(state) THEN 0 ELSE pressed
  IN  IF held /\ active THEN base + 1 ELSE base

StopEffect(s, held, active) ==
  /\ Write(s)
  /\ pressed' = Pressed(held, active)
  /\ UNCHANGED <<receipts, shared, inflight, prompt, spent, tampered, disruptions>>

StopRelease(turn, active) ==
  LET r == Reconciled(state)
  IN  Active /\ StopReleases(r, turn, active) /\ StopEffect(r, FALSE, active)

StopReplay(active) ==
  LET r == Reconciled(state)
  IN  Active /\ StopReplays(r, active) /\ StopEffect(r, TRUE, active)

StopRequest(turn, active) ==
  LET r == Reconciled(state)
  IN  Active /\ StopRequests(r, active) /\ StopEffect(Requested(r, turn), TRUE, active)

StopFail(turn, active) ==
  LET r == Reconciled(state)
      f == StopFailure(r, turn)
  IN  /\ Active
      /\ StopFails(r, turn, active)
      /\ StopEffect(f, f.status = "running", active)

ProcessStop(turn, active) ==
  \/ StopRelease(turn, active)
  \/ StopReplay(active)
  \/ StopRequest(turn, active)
  \/ StopFail(turn, active)

-----------------------------------------------------------------------------
(* UserPromptSubmit.  acceptStopDelivery and, if it declines,              *)
(* pauseWorkflow: two mutations, each under the lock of its own.  A marker *)
(* of 0 stands for a prompt that is no marker.                             *)

Accepts(marker) ==
  /\ state.status = "running"
  /\ state.continuation # 0
  /\ marker = state.continuation
  /\ state.delivery.turn # NoTurn
  /\ ~state.delivery.accepted

SubmitPrompt(marker) ==
  /\ Active
  /\ prompt = "idle"
  /\ IF Accepts(marker)
     THEN state' = [state EXCEPT !.delivery.accepted = TRUE] /\ prompt' = "idle"
     ELSE prompt' = "pausing" /\ UNCHANGED state
  /\ UNCHANGED <<receipts, shared, inflight, nonces, spent, pressed, tampered,
                 disruptions>>

(* The hook swallows a refused pause: a prompt is never held back.         *)
PromptPause ==
  /\ LockFree
  /\ prompt = "pausing"
  /\ IF MayPause THEN Write(Paused(state)) ELSE UNCHANGED <<state, nonces>>
  /\ prompt' = "idle"
  /\ UNCHANGED <<receipts, shared, inflight, spent, pressed, tampered, disruptions>>

(* Or it never gets that far: the lock stays busy for too long, or another *)
(* mutation commits after this one read its clock and before it holds the  *)
(* lock (CLOCK_REGRESSION).                                                *)
PromptPauseRefused ==
  /\ prompt = "pausing"
  /\ prompt' = "idle"
  /\ UNCHANGED <<state, receipts, shared, inflight, nonces, spent, pressed,
                 tampered, disruptions>>

-----------------------------------------------------------------------------
(* The environment: time, crashes and damaged files                        *)

(* The clock advances one tick between two mutations.                      *)
Tick ==
  /\ LockFree
  /\ state.owner # NoOwner
  /\ ~Expired(state.owner)
  /\ state' = [state EXCEPT !.owner.age = @ + 1]
  /\ UNCHANGED <<receipts, shared, inflight, prompt, nonces, spent, pressed,
                 tampered, disruptions>>

(* The process dies between two durable writes, or between the two         *)
(* mutations of the prompt hook; for complete a failed state write leaves  *)
(* the same files.                                                         *)
Crash ==
  /\ inflight # "none" \/ prompt # "idle"
  /\ Disrupt
  /\ inflight' = "none"
  /\ prompt' = "idle"
  /\ UNCHANGED <<state, receipts, shared, nonces, spent, pressed, tampered>>

(* Somebody deletes a receipt file or leaves one that does not parse, in   *)
(* the place of a receipt or beyond the last step.                         *)
TamperReceipt(i, kind) ==
  /\ LockFree
  /\ receipts[i] # NoReceipt \/ (i \notin Steps /\ kind = "damaged")
  /\ Disrupt
  /\ receipts' = [receipts EXCEPT ![i] = [NoReceipt EXCEPT !.kind = kind]]
  /\ tampered' = tampered \union {i}
  /\ UNCHANGED <<state, shared, inflight, prompt, nonces, spent, pressed>>

-----------------------------------------------------------------------------
Agent ==
  \/ \E c \in Callers, m \in 1 .. nonces : BeginStep(c, m)
  \/ \E a \in 1 .. spent, c \in Contents : PublishReceipt(a, c)
  \/ \E a \in 1 .. spent, c \in Contents : RetryCompletion(a, c)
  \/ CommitCompletion
  \/ \E a \in 1 .. spent : FailStep(a)

Operator ==
  \/ InitTopic \/ InitState \/ InitRollback
  \/ \E p \in 0 .. TotalSteps : ImportClaude(p)
  \/ PauseWorkflow
  \/ \E c \in Callers : ResumeWorkflow(c)
  \/ ReconcileWorkflow
  \/ ResetWorkflow

Host ==
  \/ \E t \in Turns, b \in BOOLEAN : ProcessStop(t, b)
  \/ \E m \in 0 .. nonces : SubmitPrompt(m)
  \/ PromptPause
  \/ PromptPauseRefused

Environment ==
  \/ Tick
  \/ Crash
  \/ \E i \in Slots, k \in {"none", "damaged"} : TamperReceipt(i, k)

Next == Agent \/ Operator \/ Host \/ Environment

Spec == Init /\ [][Next]_vars
-----------------------------------------------------------------------------
(* Properties                                                              *)

TypeOK ==
  /\ state \in State
  /\ receipts \in [Slots -> Receipt]
  /\ shared \in {"absent", "codex", "claude"}
  /\ inflight \in {"none", "init", "complete"}
  /\ prompt \in {"idle", "pausing"}
  /\ nonces \in Nat
  /\ spent \in Nat
  /\ pressed \in Nat
  /\ tampered \in SUBSET Slots
  /\ disruptions \in 0 .. MaxDisruptions

(* schema.mjs validateState accepts every state an operation writes: no    *)
(* sequence of operations makes the manager write, or reject, its own      *)
(* state file.                                                             *)
Valid(s) ==
  /\ s.status = "completed" => /\ AllDone(s)
                               /\ s.attempt = NoAttempt
                               /\ s.continuation = 0
  /\ s.status # "completed" => ~AllDone(s)
  /\ s.status = "blocked" <=> s.reason # "none"
  /\ s.imported <= s.completed
  /\ s.delivery.accepted => s.delivery.turn # NoTurn
  /\ s.delivery.open <=>
       s.status = "running" /\ (s.continuation # 0 \/ s.attempt # NoAttempt)

SchemaValid == Valid(state)

(* A step counts as completed only after its receipt is on disk, whatever  *)
(* operation moved the state and wherever a crash fell; only a receipt     *)
(* lost from outside can be missing.                                       *)
Backed(s) == \A i \in 1 .. s.completed : i \notin tampered => Present(i)

ReceiptsBeforeState == Backed(state)

(* The workflow never waits for a marker and for an attempt at once: of    *)
(* one generation either the continuation is open or the attempt is live,  *)
(* so no second begin can start while work is going on.                    *)
Waiting(s) == s.continuation # 0

OneGeneration == ~(Waiting(state) /\ Live(state))

(* A live attempt is never left to an owner of another session: no         *)
(* hand-over of ownership keeps the former session's attempt alive.        *)
Owned(s) == Live(s) /\ s.owner # NoOwner => s.owner.session = s.attempt.session

AttemptOwner == Owned(state)

(* Two native receipts never come from the same attempt: one marker pays   *)
(* for one step, also across crashes, resumes and recoveries.              *)
AttemptsDistinct ==
  \A i, j \in Steps :
    /\ receipts[i].kind = "native"
    /\ receipts[j].kind = "native"
    /\ receipts[i].attempt = receipts[j].attempt
    => i = j

(* What makes the properties above inductive.  Markers only ever grow: the *)
(* open one is newer than every consumed one, and no receipt or attempt is *)
(* newer than the last consumed.                                           *)
Marked(s) ==
  /\ s.continuation = 0 \/ s.continuation > spent
  /\ s.attempt.id <= spent
  /\ s.attempt # NoAttempt => s.attempt.id # 0

(* The live attempt has at most the receipt of the current step.           *)
PaysOnce(s) ==
  \A i \in Steps :
    Live(s) /\ receipts[i].kind = "native" /\ receipts[i].attempt = s.attempt.id
      => i = Current(s)

Good(s) ==
  /\ s \in State
  /\ Valid(s) /\ Backed(s) /\ Owned(s) /\ Marked(s) /\ PaysOnce(s)
  /\ ~(Waiting(s) /\ Live(s))

(* Between two durable writes the operation that holds the lock still has  *)
(* what it checked.                                                        *)
Pending ==
  /\ inflight = "init" => state.status = "absent"
  /\ inflight = "complete" => /\ state.status = "running"
                              /\ Live(state)
                              /\ receipts[Current(state)].kind = "native"

WorkflowInv ==
  /\ TypeOK
  /\ Good(state)
  /\ Pending
  /\ AttemptsDistinct
  /\ spent <= nonces
  /\ \A i \in Steps : receipts[i].attempt <= spent

(* consumeContinuation: every attempt opens on a marker no attempt opened  *)
(* on before; a replayed prompt or a second begin cannot reuse one.        *)
MarkersUsedOnce ==
  [][Live(state') /\ state'.attempt # state.attempt => state'.attempt.id > spent]_vars

(* writeReceiptExclusive: a receipt is never rewritten or removed by the   *)
(* program except by reset, which moves all of them away.                  *)
ReceiptsImmutable ==
  [][\A i \in Steps :
       \/ receipts[i] = NoReceipt
       \/ receipts'[i] = receipts[i]
       \/ state'.status = "absent"
       \/ i \in tampered' /\ ~Present(i)']_vars

(* One attempt adds at most one failure, whoever reports it: failStep by   *)
(* the agent, or the Stop hook that finds the attempt unfinished.          *)
FailureCountedOnce ==
  [][state'.failures > state.failures =>
       /\ state'.failures = state.failures + 1
       /\ Live(state)
       /\ state'.attempt = [state.attempt EXCEPT !.failed = TRUE]]_vars

(* Without progress the Stop hook holds the host back at most RetryLimit   *)
(* times in one turn (stop_hook_active): it can never loop for ever.       *)
StopPressBounded == pressed <= RetryLimit

(* The workflow implements the step ledger: done advances one step at a    *)
(* time and only over a receipt, falls back only into blocked, because a   *)
(* receipt was lost or, by one step, because a finished run is refused,    *)
(* and a pause or a failure block ends by a resume or by recovered work    *)
(* alone.                                                                  *)
Ledger == INSTANCE StepLedger WITH
            phase  <- state.status,
            done   <- state.completed,
            proofs <- {i \in Steps : Present(i)}

ImplementsLedger == Ledger!Spec

-----------------------------------------------------------------------------
(* Liveness.  The host answers every end of a turn with a Stop, an agent   *)
(* that was given the marker begins its step, and a process that holds the *)
(* lock goes on unless it crashes.  No agent is assumed ever to complete   *)
(* a step.                                                                 *)

Fairness ==
  /\ WF_vars(InitState)
  /\ WF_vars(CommitCompletion)
  /\ WF_vars(PromptPause \/ PromptPauseRefused)
  /\ WF_vars(\E t \in Turns : ProcessStop(t, TRUE))
  /\ WF_vars(\E c \in Callers : BeginStep(c, state.continuation))

FairSpec == Spec /\ Fairness

(* Nobody may finish or fail the attempt any more: its owner's lease ran   *)
(* out, and only a resume leads on.                                        *)
Stranded == Live(state) /\ ~OwnerAdmits(state, state.attempt.session)

(* An import that no resume has started yet.                               *)
Unstarted == state.continuation = 0 /\ state.attempt = NoAttempt

(* A running workflow never hangs in between: it completes, blocks, is     *)
(* paused or discarded, or waits for a resume.                             *)
RunSettles ==
  (state.status = "running") ~>
    (state.status # "running" \/ Stranded \/ Unstarted)

-----------------------------------------------------------------------------
(* Claims of the documentation that the code does not keep                 *)

(* "valid receipt와 state 사이 crash gap은 reconcile로 복구한다" (the       *)
(* design specification): a sound receipt published just before a crash    *)
(* stays recoverable, its attempt being the live one.                      *)
GapRecoverable ==
  LET next == Current(state)
  IN  /\ state.status \in {"running", "paused"}
      /\ ~AllDone(state)
      /\ next \notin tampered
      /\ receipts[next].kind = "native"
      => Live(state) /\ receipts[next].attempt = state.attempt.id

(* "user prompts always outrank the automatic workflow": when the hook is  *)
(* done with a prompt that is no marker, the workflow runs no more.        *)
HumanPromptPauses ==
  [][PromptPause => state'.status # "running"]_vars
=============================================================================
