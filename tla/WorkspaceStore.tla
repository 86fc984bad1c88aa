---------------------------- MODULE WorkspaceStore ----------------------------
(***************************************************************************)
(* The files of the Codex state manager and how they are written: state,   *)
(* receipts, import artifacts, event log and import error under            *)
(* .harness50-codex, TOPIC.md beside it, and the backups of a reset.       *)
(* Sources: state-store.mjs, importer.mjs, receipts.mjs and the init,      *)
(* complete, Stop and reset operations of workflow.mjs.                    *)
(*                                                                         *)
(* Workflow takes import and reset for one step each.  Here every durable  *)
(* write is a step: the process can die, or the write fail, at each.  The  *)
(* run lock keeps other operations out meanwhile.  A workflow is known by  *)
(* a number; contents, owners and attempts are left out, an empty          *)
(* directory counts as none, and the log always has room.                  *)
(*                                                                         *)
(* A definition whose comment starts with "Variant:" is a change that a    *)
(* property must rule out; no specification uses it.                       *)
(*                                                                         *)
(* A file published exclusively is linked from a temporary name which is   *)
(* then removed.  In between it has two names (aliased), and no mutation   *)
(* of workflow.mjs accepts it (assertUnaliasedControlFiles).               *)
(***************************************************************************)
EXTENDS Integers, FiniteSets, Sequences

CONSTANTS
  TotalSteps,   \* steps of the workflow profile
  MaxIds,       \* bound on workflows started in the workspace
  MaxFaults     \* bound on crashes and failed writes

ASSUME ConstantsAssumption ==
  /\ TotalSteps \in Nat \ {0}
  /\ MaxIds \in Nat \ {0}
  /\ MaxFaults \in Nat

Ids   == 1 .. MaxIds
Steps == 1 .. TotalSteps

VARIABLES
  disk,      \* the active files
  backups,   \* the backup directories, oldest first
  topic,     \* TOPIC.md: who wrote it, its text, its names in the directory
  original,  \* the copy of the topic that a repair keeps among the backups
  op,        \* the operation that holds the run lock, and what it does next
  ids,       \* workflows started
  issued,    \* history: receipts published
  split,     \* history: a reset reported that it could not be undone
  faults     \* how much of MaxFaults is used

vars == <<disk, backups, topic, original, op, ids, issued, split, faults>>

-----------------------------------------------------------------------------
NoState == [id |-> 0, done |-> 0, imported |-> FALSE, topic |-> "none"]

(* createInitialState of schema.mjs                                        *)
InitialState(id, text) ==
  [id |-> id, done |-> 0, imported |-> FALSE, topic |-> text]

Empty == [state |-> NoState, receipts |-> {}, imports |-> {},
          events |-> FALSE, error |-> "absent"]

Names == {"state", "receipts", "imports", "events", "error"}

Active(d) == {n \in Names : d[n] # Empty[n]}

Idle == [at |-> "idle", id |-> 0, prefix |-> 0, moves |-> {}, moved |-> {}]

Free         == op = Idle
At(phase)    == op.at = phase
Goto(phase)  == op' = [op EXCEPT !.at = phase]
Finish       == op' = Idle
Start(phase, id) ==
  op' = [at |-> phase, id |-> id, prefix |-> 0, moves |-> {}, moved |-> {}]
Fault        == faults < MaxFaults /\ faults' = faults + 1

(* assertUnaliasedControlFiles, around every guarded operation.            *)
Guarded == topic.names = 1 /\ disk.error # "aliased"

(* A fresh workspace, one with Claude progress, or one in which an earlier *)
(* release began a workflow on a topic without the present contract.       *)
Init ==
  /\ \/ /\ disk = Empty
        /\ topic = [by |-> "nobody", text |-> "none", names |-> 1]
        /\ ids = 0
     \/ /\ disk = Empty
        /\ topic = [by |-> "claude", text |-> "plain", names |-> 1]
        /\ ids = 0
     \/ /\ disk = [Empty EXCEPT !.state = InitialState(1, "plain"),
                                !.events = TRUE]
        /\ topic = [by |-> "codex", text |-> "plain", names |-> 1]
        /\ ids = 1
  /\ backups = <<>>
  /\ original = "none"
  /\ op = Idle
  /\ issued = {}
  /\ split = FALSE
  /\ faults = 0

-----------------------------------------------------------------------------
(* The event log.  Its lines follow the state, which the operation already *)
(* wrote: one that cannot append reports an error but took effect.         *)
AppendEvents ==
  /\ At("events")
  /\ disk' = [disk EXCEPT !.events = TRUE]
  /\ Finish
  /\ UNCHANGED <<backups, topic, original, ids, issued, split, faults>>

-----------------------------------------------------------------------------
(* initWorkflow: topic, state, event                                       *)

InitTopic ==
  /\ Free
  /\ Guarded
  /\ Active(disk) = {}
  /\ topic.by = "nobody"
  /\ ids < MaxIds
  /\ ids' = ids + 1
  /\ topic' = [by |-> "codex", text |-> "contract", names |-> 2]
  /\ Start("topic", ids + 1)
  /\ UNCHANGED <<disk, backups, original, issued, split, faults>>

InitTopicPublished ==
  /\ At("topic")
  /\ topic' = [topic EXCEPT !.names = 1]
  /\ Goto("state")
  /\ UNCHANGED <<disk, backups, original, ids, issued, split, faults>>

InitState ==
  /\ At("state")
  /\ disk' = [disk EXCEPT !.state = InitialState(op.id, topic.text)]
  /\ Goto("events")
  /\ UNCHANGED <<backups, topic, original, ids, issued, split, faults>>

(* The state write fails: if no state is visible the topic is taken back.  *)
InitStateFails ==
  /\ At("state")
  /\ Fault
  /\ topic' = [by |-> "nobody", text |-> "none", names |-> 1]
  /\ Finish
  /\ UNCHANGED <<disk, backups, original, ids, issued, split>>

-----------------------------------------------------------------------------
(* importClaudeProgress: snapshot, metadata, receipts, state, event        *)

(* Variant: receipts of an earlier import are not looked for.              *)
ImportOverReceipts ==
  /\ Free
  /\ disk.state.id = 0
  /\ disk.imports = {}
  /\ disk.error = "absent"
  /\ ids < MaxIds
  /\ ids' = ids + 1
  /\ Start("snapshot", ids + 1)
  /\ UNCHANGED <<disk, backups, topic, original, issued, split, faults>>

(* assertNoExistingImport; an event log left behind is no obstacle.        *)
ImportStart ==
  /\ Free
  /\ Active(disk) \subseteq {"events"}
  /\ ids < MaxIds
  /\ ids' = ids + 1
  /\ Start("snapshot", ids + 1)
  /\ UNCHANGED <<disk, backups, topic, original, issued, split, faults>>

(* An exclusive publication refuses a name that exists.                    *)
ImportPublish(artifact, before, after) ==
  /\ At(before)
  /\ topic.by = "claude"
  /\ disk' = [disk EXCEPT !.imports = @ \union {<<op.id, artifact>>}]
  /\ Goto(after)
  /\ UNCHANGED <<backups, topic, original, ids, issued, split, faults>>

ImportSnapshot == ImportPublish("snapshot", "snapshot", "metadata")

(* The normalised prefix may be of any length.                             *)
ImportMetadata(prefix) ==
  /\ At("metadata")
  /\ disk' = [disk EXCEPT !.imports = @ \union {<<op.id, "metadata">>}]
  /\ op' = [op EXCEPT !.at = "receipts", !.prefix = prefix]
  /\ UNCHANGED <<backups, topic, original, ids, issued, split, faults>>

Imported(id) == {r \in disk.receipts : r[1] = id}

ImportReceipt ==
  LET step == Cardinality(Imported(op.id)) + 1
  IN  /\ At("receipts")
      /\ step <= op.prefix
      /\ disk' = [disk EXCEPT !.receipts = @ \union {<<op.id, step>>}]
      /\ issued' = issued \union {<<op.id, step>>}
      /\ UNCHANGED <<backups, topic, original, op, ids, split, faults>>

ImportState ==
  /\ At("receipts")
  /\ Cardinality(Imported(op.id)) = op.prefix
  /\ disk' = [disk EXCEPT !.state =
                [id |-> op.id, done |-> op.prefix, imported |-> TRUE,
                 topic |-> topic.text]]
  /\ Goto("events")
  /\ UNCHANGED <<backups, topic, original, ids, issued, split, faults>>

(* The source is missing or invalid, the topic or the step definitions are:*)
(* no fault of the machine.  Everything published so far stays.            *)
ImportRejected ==
  /\ op.at \in {"snapshot", "metadata"}
  /\ Goto("error")
  /\ UNCHANGED <<disk, backups, topic, original, ids, issued, split, faults>>

(* A write fails before the state is visible.                              *)
ImportWriteFails ==
  /\ op.at \in {"snapshot", "metadata", "receipts"}
  /\ Fault
  /\ Goto("error")
  /\ UNCHANGED <<disk, backups, topic, original, ids, issued, split>>

(* A path changed under the import: nothing more is written.               *)
ImportUnsafe ==
  /\ op.at \in {"snapshot", "metadata", "receipts"}
  /\ Fault
  /\ Finish
  /\ UNCHANGED <<disk, backups, topic, original, ids, issued, split>>

ImportError ==
  /\ At("error")
  /\ disk' = [disk EXCEPT !.error = "aliased"]
  /\ Goto("error published")
  /\ UNCHANGED <<backups, topic, original, ids, issued, split, faults>>

ImportErrorPublished ==
  /\ At("error published")
  /\ disk' = [disk EXCEPT !.error = "present"]
  /\ Finish
  /\ UNCHANGED <<backups, topic, original, ids, issued, split, faults>>

-----------------------------------------------------------------------------
(* The operations of a running workflow.  Only what they write matters.    *)

(* The contiguous receipts of the workflow: what reconciliation trusts.    *)
Backed ==
  {i \in Steps : \A j \in 1 .. i : <<disk.state.id, j>> \in disk.receipts}

(* begin, fail, pause: the state, then the event.  resume, reconcile, Stop *)
(* and a completion tried again bring the state in line with the receipts. *)
Mutate(done) ==
  /\ Free
  /\ Guarded
  /\ disk.state.id # 0
  /\ disk' = [disk EXCEPT !.state.done = done]
  /\ Start("events", disk.state.id)
  /\ UNCHANGED <<backups, topic, original, ids, issued, split, faults>>

NextReceipt == <<disk.state.id, disk.state.done + 1>>

(* Variant: the last step of the profile is not the last.                  *)
CompleteReceiptPastEnd ==
  /\ Free
  /\ Guarded
  /\ disk.state.id # 0
  /\ NextReceipt \notin disk.receipts
  /\ disk' = [disk EXCEPT !.receipts = @ \union {NextReceipt}]
  /\ issued' = issued \union {NextReceipt}
  /\ Start("complete", disk.state.id)
  /\ UNCHANGED <<backups, topic, original, ids, split, faults>>

CompleteReceipt ==
  /\ Free
  /\ Guarded
  /\ disk.state.id # 0
  /\ disk.state.done < TotalSteps
  /\ NextReceipt \notin disk.receipts
  /\ disk' = [disk EXCEPT !.receipts = @ \union {NextReceipt}]
  /\ issued' = issued \union {NextReceipt}
  /\ Start("complete", disk.state.id)
  /\ UNCHANGED <<backups, topic, original, ids, split, faults>>

CompleteState ==
  /\ At("complete")
  /\ disk' = [disk EXCEPT !.state.done = @ + 1]
  /\ Goto("events")
  /\ UNCHANGED <<backups, topic, original, ids, issued, split, faults>>

-----------------------------------------------------------------------------
(* repairTopicWorkflow: copy of the topic, topic, state, event             *)

(* Variant: the topic is replaced first.                                   *)
RepairTopicFirst ==
  /\ Free
  /\ Guarded
  /\ disk.state.id # 0
  /\ ~disk.state.imported
  /\ disk.state.done = 0
  /\ disk.receipts = {}
  /\ disk.events
  /\ disk.state.topic = "plain"
  /\ Start("repair topic", disk.state.id)
  /\ UNCHANGED <<disk, backups, topic, original, ids, issued, split, faults>>

(* Only before the first completion, and only if the pinned text is at     *)
(* hand: in the copy an earlier attempt left, or still in TOPIC.md.  The   *)
(* log must exist, it is pinned first.                                     *)
RepairStart ==
  /\ Free
  /\ Guarded
  /\ disk.state.id # 0
  /\ ~disk.state.imported
  /\ disk.state.done = 0
  /\ disk.receipts = {}
  /\ disk.events
  /\ disk.state.topic = "plain"
  /\ original = "none" => topic.text = disk.state.topic
  /\ Start(IF original = "kept" THEN "repair topic" ELSE "repair copy",
           disk.state.id)
  /\ UNCHANGED <<disk, backups, topic, original, ids, issued, split, faults>>

(* A copy with two names was interrupted; the second name is taken away.   *)
RepairCopy ==
  /\ At("repair copy")
  /\ original' = IF original = "none" THEN "aliased" ELSE "kept"
  /\ Goto(IF original = "none" THEN "repair copy" ELSE "repair topic")
  /\ UNCHANGED <<disk, backups, topic, ids, issued, split, faults>>

RepairTopic ==
  /\ At("repair topic")
  /\ topic' = [topic EXCEPT !.text = "contract"]
  /\ Goto("repair state")
  /\ UNCHANGED <<disk, backups, original, ids, issued, split, faults>>

RepairState ==
  /\ At("repair state")
  /\ disk' = [disk EXCEPT !.state.topic = topic.text]
  /\ Goto("events")
  /\ UNCHANGED <<backups, topic, original, ids, issued, split, faults>>

-----------------------------------------------------------------------------
(* resetWorkflow and archiveActiveState                                    *)

(* Variant: the state is moved last.                                       *)
MoveOrderStateLast ==
  [receipts |-> 1, imports |-> 2, events |-> 3, error |-> 4, state |-> 5]

MoveOrder ==
  [state |-> 1, receipts |-> 2, imports |-> 3, events |-> 4, error |-> 5]

MoveNext ==
  CHOOSE n \in op.moves : \A m \in op.moves : MoveOrder[n] <= MoveOrder[m]

ResetStart ==
  /\ Free
  /\ Guarded
  /\ Active(disk) # {}
  /\ backups' = Append(backups, Empty)
  /\ op' = [at |-> "move", id |-> 0, prefix |-> 0,
            moves |-> Active(disk), moved |-> {}]
  /\ UNCHANGED <<disk, topic, original, ids, issued, split, faults>>

Last == Len(backups)

ResetMove ==
  /\ At("move")
  /\ op.moves # {}
  /\ LET name == MoveNext
     IN  /\ backups' = [backups EXCEPT ![Last][name] = disk[name]]
         /\ disk' = [disk EXCEPT ![name] = Empty[name]]
         /\ op' = [op EXCEPT !.moves = @ \ {name},
                            !.moved = @ \union {name}]
  /\ UNCHANGED <<topic, original, ids, issued, split, faults>>

ResetDone ==
  /\ At("move")
  /\ op.moves = {}
  /\ Finish
  /\ UNCHANGED <<disk, backups, topic, original, ids, issued, split, faults>>

(* A rename fails, or the flush behind the last one: what was moved is     *)
(* moved back, last things first.                                          *)
ResetFails ==
  /\ At("move")
  /\ Fault
  /\ Goto("undo")
  /\ UNCHANGED <<disk, backups, topic, original, ids, issued, split>>

(* Variant: first things first.                                            *)
UndoNextForward ==
  CHOOSE n \in op.moved : \A m \in op.moved : MoveOrder[n] <= MoveOrder[m]

UndoNext ==
  CHOOSE n \in op.moved : \A m \in op.moved : MoveOrder[m] <= MoveOrder[n]

Undone(name) == [op EXCEPT !.moved = @ \ {name}]

ResetUndo ==
  /\ At("undo")
  /\ op.moved # {}
  /\ LET name == UndoNext
     IN  /\ disk' = [disk EXCEPT ![name] = backups[Last][name]]
         /\ backups' = [backups EXCEPT ![Last][name] = Empty[name]]
         /\ op' = Undone(name)
  /\ UNCHANGED <<topic, original, ids, issued, split, faults>>

(* ARCHIVE_INTEGRITY_ERROR, after the others were tried.                   *)
ResetUndoFails ==
  /\ At("undo")
  /\ op.moved # {}
  /\ Fault
  /\ op' = Undone(UndoNext)
  /\ split' = TRUE
  /\ UNCHANGED <<disk, backups, topic, original, ids, issued>>

(* Variant: the backup directory is removed with what it still holds.      *)
ResetUndoneAll ==
  /\ At("undo")
  /\ op.moved = {}
  /\ backups' = SubSeq(backups, 1, Last - 1)
  /\ Finish
  /\ UNCHANGED <<disk, topic, original, ids, issued, split, faults>>

(* An empty backup directory is removed.                                   *)
ResetUndone ==
  /\ At("undo")
  /\ op.moved = {}
  /\ backups' = IF backups[Last] = Empty THEN SubSeq(backups, 1, Last - 1)
                                         ELSE backups
  /\ Finish
  /\ UNCHANGED <<disk, topic, original, ids, issued, split, faults>>

-----------------------------------------------------------------------------
(* The process dies between two writes.                                    *)
Crash ==
  /\ ~Free
  /\ Fault
  /\ Finish
  /\ UNCHANGED <<disk, backups, topic, original, ids, issued, split>>

Create == InitTopic \/ InitTopicPublished \/ InitState \/ InitStateFails
Import ==
  \/ ImportStart \/ ImportSnapshot
  \/ \E p \in 0 .. TotalSteps : ImportMetadata(p)
  \/ ImportReceipt \/ ImportState
  \/ ImportRejected \/ ImportWriteFails \/ ImportUnsafe
  \/ ImportError \/ ImportErrorPublished
Work   ==
  \/ \E n \in {disk.state.done, Cardinality(Backed)} : Mutate(n)
  \/ CompleteReceipt \/ CompleteState
Repair == RepairStart \/ RepairCopy \/ RepairTopic \/ RepairState
Reset  ==
  \/ ResetStart \/ ResetMove \/ ResetDone
  \/ ResetFails \/ ResetUndo \/ ResetUndoFails \/ ResetUndone

Next == Create \/ Import \/ Work \/ Repair \/ Reset \/ AppendEvents \/ Crash

Spec == Init /\ [][Next]_vars

-----------------------------------------------------------------------------
Receipt == Ids \X Steps

Dir ==
  [state    : [id : 0 .. MaxIds, done : 0 .. TotalSteps, imported : BOOLEAN,
               topic : {"none", "plain", "contract"}],
   receipts : SUBSET Receipt,
   imports  : SUBSET (Ids \X {"snapshot", "metadata"}),
   events   : BOOLEAN,
   error    : {"absent", "aliased", "present"}]

(* The variables keep their types; steps and workflows stay in their       *)
(* ranges whatever is written (requireStep and validateState).             *)
TypeOK ==
  /\ disk \in Dir
  /\ \A i \in DOMAIN backups : backups[i] \in Dir
  /\ topic \in [by : {"nobody", "claude", "codex"},
                 text : {"none", "plain", "contract"}, names : 1 .. 2]
  /\ original \in {"none", "aliased", "kept"}
  /\ op.id \in 0 .. MaxIds
  /\ op.prefix \in 0 .. TotalSteps
  /\ ids \in 0 .. MaxIds
  /\ issued \in SUBSET Receipt
  /\ split \in BOOLEAN
  /\ faults \in 0 .. MaxFaults

(* A state on disk has all it speaks of beside it, whatever import, reset  *)
(* or undo died on the way: the receipts of its completed steps and, if it *)
(* was imported, the preserved source.  Only a reset that said it could    *)
(* not restore everything may leave less.                                  *)
StateComplete ==
  disk.state.id # 0 /\ ~split =>
    /\ 1 .. disk.state.done \subseteq Backed
    /\ disk.state.imported =>
         {disk.state.id} \X {"snapshot", "metadata"} \subseteq disk.imports

(* State, receipts and import artifacts on disk belong to one workflow:    *)
(* what a dead import left is never taken up by the next one.              *)
OneWorkflow ==
  LET workflows == {r[1] : r \in disk.receipts}
                     \union {i[1] : i \in disk.imports}
                     \union ({disk.state.id} \ {0})
  IN  \A a, b \in workflows : a = b

(* No receipt that was published is ever lost: it is among the active      *)
(* files or in a backup, in the middle of a reset and of its undo too.     *)
ReceiptsPreserved ==
  \A r \in issued :
    r \in disk.receipts \/ \E i \in DOMAIN backups : r \in backups[i].receipts

(* The text that the state pins by its digest is in TOPIC.md or in the     *)
(* copy beside the backups, at every point of a repair.                    *)
PinnedTopicKept ==
  disk.state.id # 0 =>
    topic.text = disk.state.topic \/ original \in {"aliased", "kept"}

(* Unless a reset could not be undone, a step that has its receipt is not  *)
(* completed a second time: receipts come back only by moving.             *)
NeverReissued ==
  [][~split /\ ~At("undo") => disk'.receipts \intersect issued \subseteq disk.receipts]_vars

(* What importer.mjs promises when it refuses to go on over the artifacts  *)
(* of an earlier import: they can be moved away by reset.                  *)
ResetRecovers == Free /\ Active(disk) # {} => Guarded
=============================================================================
