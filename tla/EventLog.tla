------------------------------- MODULE EventLog -------------------------------
(***************************************************************************)
(* events.jsonl, the log of the Codex workflow, written chunk by chunk     *)
(* (state-store.mjs), and what its three kinds of writers make of a write  *)
(* that fails (workflow.mjs, hooks/stop.mjs):                              *)
(*   stop    commitStopTransition: the log is opened and measured before   *)
(*           the state is written, the events follow the state;            *)
(*   op      begin, complete, fail, pause, ...: the state, then each event *)
(*           in a write of its own; an error reaches the caller;           *)
(*   accept  acceptStopDelivery: the same, but only an unsafe path is an   *)
(*           error, every other failure of the log is dropped.             *)
(*                                                                         *)
(* The lines of one write are cut into BatchLen cells, the unit in which   *)
(* the disk accepts them.  A line somebody else appends is one cell.  The  *)
(* run lock keeps the writers apart, so one operation is under way at a    *)
(* time.  An open handle is modelled by the node it was opened on.         *)
(*                                                                         *)
(* A definition whose comment starts with "Variant:" is a change that a    *)
(* property must rule out; no specification uses it.                       *)
(***************************************************************************)
EXTENDS Integers, Sequences

CONSTANTS
  BatchLen,    \* cells of one write
  LogLimit,    \* EVENT_LOG_LIMIT in cells
  MaxWrites,   \* bound on operations
  MaxTrouble,  \* bound on failed calls and crashes
  MaxOutside   \* bound on changes from outside

ASSUME LogAssumption ==
  /\ BatchLen \in Nat \ {0}
  /\ {LogLimit, MaxWrites, MaxTrouble, MaxOutside} \subseteq Nat

VARIABLES
  log,        \* the cells under the name events.jsonl
  node,       \* the file under that name, 0 if there is none
  names,      \* its links
  job,        \* the operation under way
  jobs,       \* operations started
  committed,  \* the operations whose state was written
  answer,     \* history: what each operation told its caller
  lost,       \* history: <<when, how>> lines from outside that disappeared
  trouble,    \* how much of MaxTrouble is used
  outside     \* how much of MaxOutside is used

logVars ==
  <<log, node, names, job, jobs, committed, answer, lost, trouble, outside>>

Writes  == 1 .. MaxWrites
Kinds   == {"stop", "op", "accept"}
Answers == {"none", "done", "dropped", "ignored", "quiet", "io", "limit",
            "unsafe", "integrity", "rollback", "state", "crash"}

(* A cell: the operation, which of its events, which cell of the event;    *)
(* from outside: 0 and what the job was about to do when it appeared.      *)
Own(w, e, i)  == [by |-> w, event |-> e, part |-> i, when |-> "own"]
Foreign(when) == [by |-> 0, event |-> 0, part |-> 0, when |-> when]

NoJob == [at |-> "idle", kind |-> "op", event |-> 1, left |-> 0,
          node |-> 0, base |-> 0, acked |-> 0]

Quiet      == job.at = "idle"
Doing(p)   == job.at = p
GoOn(p)    == job' = [job EXCEPT !.at = p]
Troubled   == trouble < MaxTrouble /\ trouble' = trouble + 1

(* The handle still is the only file of that name: both stats, by handle   *)
(* and by path, show the same node with one link.                          *)
Pinned == node = job.node /\ names = 1

(* The answer ends the operation.                                          *)
Tell(what) ==
  /\ answer' = [answer EXCEPT ![jobs] = what]
  /\ job' = NoJob

(* Failures of the log that the accepted delivery does not report.         *)
Softened(code) ==
  IF job.kind = "accept" /\ code # "unsafe" THEN "ignored" ELSE code

LogInit ==
  /\ log = <<>> /\ node = 1 /\ names = 1
  /\ job = NoJob /\ jobs = 0
  /\ committed = {}
  /\ answer = [w \in Writes |-> "none"]
  /\ lost = {}
  /\ trouble = 0 /\ outside = 0

-----------------------------------------------------------------------------
(* withPinnedEventBatch and appendEvent up to the first byte               *)

(* Variant: what the log holds is measured, not what it will hold.         *)
FitsBefore == Len(log) <= LogLimit

Fits == Len(log) + BatchLen <= LogLimit

Pin(next) ==
  job' = [NoJob EXCEPT !.at = next, !.kind = "stop", !.node = node,
                       !.base = Len(log)]

(* Variant: the room is measured only after the state was written.         *)
StopOpenUnmeasured ==
  /\ Quiet
  /\ jobs < MaxWrites
  /\ jobs' = jobs + 1
  /\ node # 0 /\ names = 1
  /\ Pin("mutate")
  /\ UNCHANGED <<log, node, names, committed, answer, lost, trouble, outside>>

(* A Stop opens the log before it changes anything.                        *)
StopOpen ==
  /\ Quiet
  /\ jobs < MaxWrites
  /\ jobs' = jobs + 1
  /\ node # 0 /\ names = 1
  /\ Fits
  /\ Pin("mutate")
  /\ UNCHANGED <<log, node, names, committed, answer, lost, trouble, outside>>

(* EVENT_LOG_LIMIT is among the errors that the hook answers with silence, *)
(* a missing or aliased log is not.                                        *)
StopRefused ==
  /\ Quiet
  /\ jobs < MaxWrites
  /\ jobs' = jobs + 1
  /\ \/ /\ node = 0 \/ names # 1
        /\ answer' = [answer EXCEPT ![jobs + 1] = "unsafe"]
     \/ /\ node # 0 /\ names = 1 /\ ~Fits
        /\ answer' = [answer EXCEPT ![jobs + 1] = "quiet"]
  /\ UNCHANGED <<log, node, names, job, committed, lost, trouble, outside>>

(* A Stop that has nothing to announce does not look at the log.           *)
StopSilently ==
  /\ Quiet
  /\ jobs < MaxWrites
  /\ jobs' = jobs + 1
  /\ committed' = committed \union {jobs + 1}
  /\ answer' = [answer EXCEPT ![jobs + 1] = "done"]
  /\ UNCHANGED <<log, node, names, job, lost, trouble, outside>>

StopMutate ==
  /\ Doing("mutate")
  /\ committed' = committed \union {jobs}
  /\ GoOn("check")
  /\ UNCHANGED <<log, node, names, jobs, answer, lost, trouble, outside>>

StopMutateFails ==
  /\ Doing("mutate")
  /\ Troubled
  /\ Tell("state")
  /\ UNCHANGED <<log, node, names, jobs, committed, lost, outside>>

(* Between opening and writing nobody may have touched the file.           *)
StopCheck ==
  /\ Doing("check")
  /\ \/ /\ ~Pinned \/ Len(log) # job.base
        /\ Tell("unsafe")
     \/ /\ Pinned /\ Len(log) = job.base /\ ~Fits
        /\ Tell("quiet")
     \/ /\ Pinned /\ Len(log) = job.base /\ Fits
        /\ GoOn("write")
        /\ UNCHANGED answer
  /\ UNCHANGED <<log, node, names, jobs, committed, lost, trouble, outside>>

(* Variant: the event is announced before the state is written.            *)
OpCommitLater(kind, events) ==
  /\ Quiet
  /\ jobs < MaxWrites
  /\ jobs' = jobs + 1
  /\ job' = [NoJob EXCEPT !.at = "open", !.kind = kind, !.left = events - 1]
  /\ UNCHANGED <<log, node, names, committed, answer, lost, trouble, outside>>

(* The others write their state first.                                     *)
OpCommit(kind, events) ==
  /\ Quiet
  /\ jobs < MaxWrites
  /\ jobs' = jobs + 1
  /\ committed' = committed \union {jobs + 1}
  /\ job' = [NoJob EXCEPT !.at = "open", !.kind = kind, !.left = events - 1]
  /\ UNCHANGED <<log, node, names, answer, lost, trouble, outside>>

(* appendEvent makes a log that is missing.                                *)
OpOpen ==
  /\ Doing("open")
  /\ \/ /\ names # 1
        /\ Tell("unsafe")
        /\ UNCHANGED <<node, names>>
     \/ /\ names = 1 /\ ~Fits
        /\ Tell(Softened("limit"))
        /\ UNCHANGED <<node, names>>
     \/ /\ names = 1 /\ Fits
        /\ node' = IF node = 0 THEN outside + 2 ELSE node
        /\ job' = [job EXCEPT !.at = "write", !.node = node',
                              !.base = Len(log), !.acked = 0]
        /\ UNCHANGED <<names, answer>>
  /\ UNCHANGED <<log, jobs, committed, lost, trouble, outside>>

-----------------------------------------------------------------------------
(* writeAll, sync and the final look                                       *)

Cell(i) == Own(jobs, job.event, i)

(* n cells land behind the acknowledged ones, over whatever is there.      *)
Landed(n) ==
  LET from == job.base + job.acked
      long == IF Len(log) < from + n THEN from + n ELSE Len(log)
  IN  [i \in 1 .. long |->
         IF i \in from + 1 .. from + n THEN Cell(i - job.base) ELSE log[i]]

(* Lines from outside that disappear when the log becomes next.            *)
Gone(next, how) ==
  lost' = lost \union
    {<<log[i].when, how>> : i \in {j \in DOMAIN log :
        log[j].by = 0 /\ (j \notin DOMAIN next \/ next[j].by # 0)}}

(* What the handle writes is seen under the name only if it is the file.   *)
Write(n) ==
  IF node = job.node
  THEN log' = Landed(n) /\ Gone(Landed(n), "overwritten")
  ELSE UNCHANGED <<log, lost>>

WriteChunk(n) ==
  /\ Doing("write")
  /\ n \in 1 .. BatchLen - job.acked
  /\ Write(n)
  /\ job' = [job EXCEPT !.acked = @ + n]
  /\ UNCHANGED <<node, names, jobs, committed, answer, trouble, outside>>

(* The call fails; a part it does not speak of may have landed.            *)
WriteFails(n) ==
  /\ Doing("write")
  /\ n \in 0 .. BatchLen - job.acked
  /\ Troubled
  /\ Write(n)
  /\ GoOn("inspect")
  /\ UNCHANGED <<node, names, jobs, committed, answer, outside>>

Sync ==
  /\ Doing("write")
  /\ job.acked = BatchLen
  /\ GoOn("verify")
  /\ UNCHANGED <<log, node, names, jobs, committed, answer, lost, trouble,
                 outside>>

SyncFails ==
  /\ Doing("write")
  /\ job.acked = BatchLen
  /\ Troubled
  /\ GoOn("inspect")
  /\ UNCHANGED <<log, node, names, jobs, committed, answer, lost, outside>>

Verify ==
  /\ Doing("verify")
  /\ \/ /\ ~Pinned \/ Len(log) # job.base + BatchLen
        /\ Tell("unsafe")
     \/ /\ Pinned /\ Len(log) = job.base + BatchLen
        /\ job.left = 0
        /\ Tell("done")
     \/ /\ Pinned /\ Len(log) = job.base + BatchLen
        /\ job.left > 0
        /\ job' = [job EXCEPT !.at = "open", !.event = @ + 1, !.left = @ - 1]
        /\ UNCHANGED answer
  /\ UNCHANGED <<log, node, names, jobs, committed, lost, trouble, outside>>

-----------------------------------------------------------------------------
(* rollbackPreparedAppend                                                  *)

Delta == Len(log) - job.base

(* Variant: only the number of bytes is compared, not what they are.       *)
SizeOnly == Delta >= job.acked

OwnBytes ==
  /\ Delta >= job.acked
  /\ \A i \in 1 .. Delta : log[job.base + i] = Cell(i)

(* What is behind the old end must be a beginning of the batch.  The size  *)
(* is compared once more after the bytes were read.                        *)
Inspect ==
  /\ Doing("inspect")
  /\ \/ /\ ~Pinned \/ Delta \notin 0 .. BatchLen
        /\ Tell("unsafe")
     \/ /\ Pinned /\ Delta \in 0 .. BatchLen /\ ~OwnBytes
        /\ Tell(Softened("integrity"))
     \/ /\ Pinned /\ Delta \in 0 .. BatchLen /\ OwnBytes
        /\ GoOn("cut")
        /\ UNCHANGED answer
  /\ UNCHANGED <<log, node, names, jobs, committed, lost, trouble, outside>>

Truncated == SubSeq(log, 1, job.base)

Truncate ==
  IF node = job.node
  THEN log' = Truncated /\ Gone(Truncated, "cut")
  ELSE UNCHANGED <<log, lost>>

(* Variant: the failure is passed on as it is, nothing is taken back.      *)
CutNothing ==
  /\ Doing("cut")
  /\ Tell(IF job.kind = "op" THEN "io" ELSE "dropped")
  /\ UNCHANGED <<log, node, names, jobs, committed, lost, trouble, outside>>

Cut ==
  /\ Doing("cut")
  /\ Truncate
  /\ GoOn("restored")
  /\ UNCHANGED <<node, names, jobs, committed, answer, trouble, outside>>

(* The truncation or its sync fails: EVENT_ROLLBACK_FAILED.                *)
CutFails ==
  /\ Doing("cut")
  /\ Troubled
  /\ Truncate \/ UNCHANGED <<log, lost>>
  /\ Tell(Softened("rollback"))
  /\ UNCHANGED <<node, names, jobs, committed, outside>>

(* The first failure is thrown again.  Only behind a written state a Stop  *)
(* drops it, as optional telemetry; so does the accepted delivery.         *)
Restored ==
  /\ Doing("restored")
  /\ \/ /\ ~Pinned \/ Len(log) # job.base
        /\ Tell("unsafe")
     \/ /\ Pinned /\ Len(log) = job.base
        /\ Tell(IF job.kind = "op" THEN "io" ELSE "dropped")
  /\ UNCHANGED <<log, node, names, jobs, committed, lost, trouble, outside>>

-----------------------------------------------------------------------------
(* The process dies.                                                       *)
LogCrash ==
  /\ ~Quiet
  /\ Troubled
  /\ Tell("crash")
  /\ UNCHANGED <<log, node, names, jobs, committed, lost, outside>>

(* Another program appends a line, links the log or takes it away.         *)
Outside ==
  /\ outside < MaxOutside
  /\ outside' = outside + 1
  /\ node # 0
  /\ \/ /\ log' = Append(log, Foreign(job.at))
        /\ UNCHANGED <<node, names>>
     \/ /\ names' = 2
        /\ names = 1
        /\ UNCHANGED <<log, node>>
     \/ /\ node' = 0 /\ names' = 1 /\ log' = <<>>
  /\ UNCHANGED <<job, jobs, committed, answer, lost, trouble>>

StopWrites == StopOpen \/ StopRefused \/ StopSilently \/ StopMutate
                \/ StopMutateFails \/ StopCheck
OpWrites   == \/ \E k \in {"op", "accept"}, e \in 1 .. 2 :
                   (k = "accept" => e = 1) /\ OpCommit(k, e)
              \/ OpOpen
Appending  == \/ \E n \in 0 .. BatchLen : WriteChunk(n) \/ WriteFails(n)
              \/ Sync \/ SyncFails \/ Verify
RollBack   == Inspect \/ Cut \/ CutFails \/ Restored

LogNext == StopWrites \/ OpWrites \/ Appending \/ RollBack \/ LogCrash \/ Outside

LogSpec == LogInit /\ [][LogNext]_logVars

-----------------------------------------------------------------------------
Phases == {"idle", "mutate", "check", "open", "write", "verify", "inspect",
           "cut", "restored"}

CellType ==
  [by : 0 .. MaxWrites, event : 0 .. 2, part : 0 .. BatchLen,
   when : Phases \union {"own"}]

(* The variables keep their types, and a write lies inside the limit that  *)
(* was measured: the log outgrows it only by lines from outside.           *)
LogTypeOK ==
  /\ log \in Seq(CellType)
  /\ Len(log) <= LogLimit + outside
  /\ node \in 0 .. MaxOutside + 2
  /\ names \in 1 .. 2
  /\ job \in [at : Phases, kind : Kinds, event : 1 .. 2, left : 0 .. 1,
              node : 0 .. MaxOutside + 2, base : Nat, acked : 0 .. BatchLen]
  /\ jobs \in 0 .. MaxWrites
  /\ committed \subseteq 1 .. jobs
  /\ answer \in [Writes -> Answers]
  /\ lost \subseteq (Phases \X {"overwritten", "cut"})
  /\ trouble \in 0 .. MaxTrouble
  /\ outside \in 0 .. MaxOutside

InLog(w, e) == {c.part : c \in {log[i] : i \in DOMAIN log} \cap
                               {Own(w, e, i) : i \in 1 .. BatchLen}}

(* A torn event is left in the log only by an operation that died or found *)
(* the log unsafe, altered or impossible to restore, and said so unless it *)
(* was the accepted delivery.  In particular a Stop that drops the failure *)
(* of its write as optional telemetry left nothing of it behind            *)
(* (rollbackPreparedAppend, commitStopTransition).                         *)
NoTornEvent ==
  \A w \in 1 .. jobs, e \in 1 .. 2 :
    answer[w] \in {"done", "dropped", "io", "quiet", "limit", "state"}
      => InLog(w, e) \in {{}, 1 .. BatchLen}

(* Nothing is announced that did not happen: an event in the log belongs   *)
(* to an operation whose state was written, and a Stop that falls silent   *)
(* over a full log has written neither.                                    *)
EventAfterState ==
  /\ \A i \in DOMAIN log : log[i].by \in committed \union {0}
  /\ \A w \in 1 .. jobs : answer[w] = "quiet" => w \notin committed

(* A line that another program appended is lost only in the two windows    *)
(* no check can close: during the write itself, or between the last look   *)
(* and the truncation of a rollback.                                       *)
OutsideLinesKept ==
  lost \subseteq {<<"write", "overwritten">>, <<"cut", "cut">>}
=============================================================================
