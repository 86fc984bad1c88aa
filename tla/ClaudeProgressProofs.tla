------------------------ MODULE ClaudeProgressProofs ------------------------
(***************************************************************************)
(* Proofs about ClaudeProgress, for any set of sessions, any profile and   *)
(* any choice of gated steps, with and without flock.                      *)
(*                                                                         *)
(* Everybody replaces the whole object, with one that was read some time   *)
(* ago.  What keeps the verdicts in their runs is therefore not a fact     *)
(* about the file alone: every object that a program still holds must be   *)
(* sound by itself, and its completions and its run must stay together.    *)
(***************************************************************************)
EXTENDS ClaudeProgress, WellFoundedInduction, TLAPS

(* The completions of an object went through the inspections of its run.   *)
Sound(p) == \A n \in p.done \intersect Gated : <<n, p.run>> \in passed

(* An object somebody could read: it belongs to a run that was started.    *)
Started(p) == Readable(p) => p.run \in Runs /\ p.run <= clock

(* The object a program holds in the given phases is a readable one.       *)
HoldsRun(j) ==
  j.pc \in {"resolve", "inspect", "replace", "load", "fill",
            "cli compare", "cli write"} => Readable(j.seen)

(* The writer is about to add only what was inspected for that run.        *)
Adding(j) ==
  j.pc = "replace" =>
    \A n \in j.new \intersect Gated : <<n, j.seen.run>> \in passed

(* The commands of harness-pause.mjs know which one they are.              *)
Commanded(j) ==
  j.pc \in {"cli read", "cli compare", "cli write"} =>
    j.op \in {"pause", "resume", "reset"}

Held(j) == Sound(j.seen) /\ Started(j.seen) /\ HoldsRun(j) /\ Adding(j)
             /\ Commanded(j)

ClaudeInv ==
  /\ TypeOK
  /\ Sound(progress)
  /\ Started(progress)
  /\ \A s \in Sessions : Held(job[s])

(* Where flock exists, one writer at a time.                               *)
OneWriter ==
  Flock => \A s, t \in Sessions : HasLock(s) /\ HasLock(t) => s = t

USE ConstantsAssumption DEF Steps, Runs

-----------------------------------------------------------------------------
(* Objects                                                                 *)

LEMMA LeastStep ==
  ASSUME NEW S \in SUBSET Steps, S # {}
  PROVE  \E n \in S : \A m \in S : n <= m
<1> DEFINE R == OpToRel(<, Nat)
<1>1. IsWellFoundedOn(R, Nat)
  BY NatLessThanWellFounded
<1> HIDE DEF R
<1>2. S \subseteq Nat
  OBVIOUS
<1>3. PICK n \in S : \A m \in S : ~ (<<m, n>> \in R)
  BY <1>1, <1>2, WFMin
<1>4. \A m \in S : ~ (m < n)
  BY <1>2, <1>3 DEF R, OpToRel
<1>5. \A m \in S : n <= m
  BY <1>2, <1>4
<1> QED BY <1>5

LEMMA NextStep ==
  ASSUME NEW p \in Progress, ~AllDone(p)
  PROVE  Next1(p) \in Steps
<1> DEFINE S == Steps \ p.done
<1>1. S \in SUBSET Steps /\ S # {}
  BY DEF AllDone, Progress
<1> HIDE DEF S
<1>2. \E n \in S : \A m \in S : n <= m
  BY <1>1, LeastStep
<1> QED BY <1>1, <1>2 DEF Next1, S

LEMMA RecordedProgress ==
  ASSUME NEW p \in Progress, NEW new \in SUBSET Steps
  PROVE  /\ Recorded(p, new) \in Progress
         /\ Recorded(p, new).kind = p.kind
         /\ Recorded(p, new).run = p.run
         /\ Recorded(p, new).done \subseteq p.done \union new
<1> DEFINE q == [p EXCEPT !.done = @ \union new]
           c == IF AllDone(q) THEN TotalSteps ELSE Next1(q)
<1>1. /\ q \in Progress /\ q.kind = p.kind /\ q.run = p.run
      /\ q.done = p.done \union new
  BY DEF Progress
<1> HIDE DEF q
<1>2. c \in 0 .. TotalSteps + 1
  <2>1. TotalSteps \in 0 .. TotalSteps + 1 /\ \A n \in Steps : n \in 0 .. TotalSteps + 1
    OBVIOUS
  <2> QED BY <1>1, <2>1, NextStep
<1> HIDE DEF c
<1>3. [q EXCEPT !.cursor = c] \in Progress
      /\ [q EXCEPT !.cursor = c].kind = q.kind
      /\ [q EXCEPT !.cursor = c].run = q.run
      /\ [q EXCEPT !.cursor = c].done = q.done
  BY <1>1, <1>2 DEF Progress
<1>4. Recorded(p, new) = IF new = {} /\ Aligned(p) THEN p
                         ELSE [q EXCEPT !.cursor = c]
  BY DEF Recorded, q, c
<1> QED BY <1>1, <1>3, <1>4

LEMMA FreshProgress ==
  ASSUME NEW r \in Runs, NEW b \in BOOLEAN
  PROVE  /\ Fresh(r, b) \in Progress /\ Fresh(r, b).done = {}
         /\ Fresh(r, b).run = r /\ Readable(Fresh(r, b))
  BY DEF Fresh, Progress, Readable

LEMMA NoProgress ==
  /\ Absent \in Progress /\ Absent.done = {} /\ ~Readable(Absent)
  /\ Torn \in Progress /\ Torn.done = {} /\ ~Readable(Torn)
<1>1. Absent \in Progress /\ Absent.done = {} /\ ~Readable(Absent)
  BY DEF Absent, Progress, Readable
<1>2. ASSUME NEW p \in Progress
      PROVE  /\ [p EXCEPT !.kind = "torn"] \in Progress
             /\ [p EXCEPT !.kind = "torn"].done = p.done
             /\ [p EXCEPT !.kind = "torn"].kind = "torn"
  BY DEF Progress
<1>3. Torn \in Progress /\ Torn.done = Absent.done /\ Torn.kind = "torn"
  BY <1>1, <1>2, Zenon DEF Torn
<1> QED BY <1>1, <1>3 DEF Readable

LEMMA IdleJob ==
  /\ Idle \in Job /\ Idle.pc = "idle" /\ Idle.seen = Absent
  /\ Held(Idle) /\ Held(Idle)'
<1>1. Idle \in Job /\ Idle.pc = "idle" /\ Idle.seen = Absent
  BY NoProgress DEF Idle, Job, Pcs, Tries
<1> QED BY <1>1, NoProgress DEF Held, Sound, Started, HoldsRun, Adding, Commanded

LEMMA ClockType ==
  ASSUME ClaudeInv
  PROVE  clock \in 0 .. MaxRuns /\ clock \in Int /\ MaxRuns \in Int
<1>1. clock \in 0 .. MaxRuns /\ MaxRuns \in Int
  BY DEF ClaudeInv, TypeOK
<1> QED BY <1>1

LEMMA SameClock ==
  ASSUME ClaudeInv, clock' = clock
  PROVE  clock' \in 0 .. MaxRuns /\ clock <= clock'
<1>1. clock \in 0 .. MaxRuns /\ clock \in Int
  BY ClockType
<1>2. clock <= clock
  BY ONLY <1>1
<1> QED BY ONLY <1>1, <1>2, clock' = clock

LEMMA StartedLater ==
  ASSUME NEW p \in Progress, Started(p), clock \in Int,
         clock' \in 0 .. MaxRuns, clock <= clock'
  PROVE  Started(p)'
<1>1. p.run \in Int /\ clock' \in Int
  BY DEF Progress
<1>2. CASE Readable(p)
  <2>1. p.run \in Runs /\ p.run <= clock
    BY <1>2 DEF Started
  <2>2. p.run <= clock'
    BY ONLY <1>1, <2>1, clock \in Int, clock <= clock'
  <2> QED BY <2>1, <2>2 DEF Started
<1>3. CASE ~Readable(p)
  BY <1>3 DEF Started
<1> QED BY <1>2, <1>3

LEMMA SameSaid ==
  ASSUME ClaudeInv, said' = said
  PROVE  said' \in [Sessions -> SUBSET (Steps \X Runs)]
  BY DEF ClaudeInv, TypeOK

-----------------------------------------------------------------------------
(* Steps                                                                   *)

(* Steps of session s: the others keep what they hold.                     *)
LEMMA OthersHold ==
  ASSUME ClaudeInv, NEW s \in Sessions, TypeOK',
         passed \subseteq passed', clock <= clock',
         \A t \in Sessions : t # s => job'[t] = job[t],
         Held(job[s])', Sound(progress)', Started(progress)'
  PROVE  ClaudeInv'
<1>1. ASSUME NEW t \in Sessions, t # s PROVE Held(job[t])'
  <2>1. job'[t] = job[t]
    BY <1>1
  <2>2. clock \in Int /\ clock' \in Int /\ job[t].seen \in Progress
    BY DEF ClaudeInv, TypeOK, Job
  <2>3. Held(job[t])
    BY DEF ClaudeInv
  <2>4. Sound(job[t].seen)'
    BY <2>1, <2>3 DEF Held, Sound
  <2>5. Started(job[t].seen)'
    BY <2>1, <2>2, <2>3 DEF Held, Started, Progress
  <2>6. HoldsRun(job[t])' /\ Commanded(job[t])'
    BY <2>1, <2>3 DEF Held, HoldsRun, Readable, Commanded
  <2>7. Adding(job[t])'
    BY <2>1, <2>3 DEF Held, Adding
  <2> QED BY <2>4, <2>5, <2>6, <2>7 DEF Held
<1> QED BY <1>1 DEF ClaudeInv

(* The file is left alone.                                                 *)
LEMMA FileKept ==
  ASSUME ClaudeInv, TypeOK', UNCHANGED progress,
         passed \subseteq passed', clock <= clock'
  PROVE  Sound(progress)' /\ Started(progress)'
<1>1. clock \in Int /\ clock' \in Int /\ progress.run \in Int
  BY DEF ClaudeInv, TypeOK, Progress
<1> QED BY <1>1 DEF ClaudeInv, Sound, Started

(* A program ends.                                                         *)
LEMMA FinishStep ==
  ASSUME ClaudeInv, NEW s \in Sessions, Finish(s),
         progress' \in Progress, Sound(progress)', Started(progress)',
         refusals' \in [run : 0 .. MaxRuns, steps : SUBSET Gated],
         events' \in 0 .. MaxEvents,
         UNCHANGED <<codex, clock, said, last, passed>>
  PROVE  ClaudeInv'
<1>1. /\ job' \in [Sessions -> Job] /\ job'[s] = Idle
      /\ \A t \in Sessions : t # s => job'[t] = job[t]
  BY IdleJob DEF ClaudeInv, TypeOK, Finish
<1>2. TypeOK'
  BY <1>1 DEF ClaudeInv, TypeOK
<1>3. Held(job[s])'
  BY <1>1, IdleJob
<1>4. clock <= clock'
  BY DEF ClaudeInv, TypeOK
<1> QED BY <1>1, <1>2, <1>3, <1>4, OthersHold

(* A program goes on; all it changes is what it holds and does next.       *)
LEMMA JobStep ==
  ASSUME ClaudeInv, NEW s \in Sessions, NEW j \in Job,
         job' = [job EXCEPT ![s] = j], Held(j)',
         said' \in [Sessions -> SUBSET (Steps \X Runs)],
         last' \in [Sessions -> SUBSET Steps],
         clock' \in 0 .. MaxRuns, clock <= clock', events' \in 0 .. MaxEvents,
         UNCHANGED <<progress, refusals, codex, passed>>
  PROVE  ClaudeInv'
<1>1. /\ job' \in [Sessions -> Job] /\ job'[s] = j
      /\ \A t \in Sessions : t # s => job'[t] = job[t]
  BY DEF ClaudeInv, TypeOK
<1>2. TypeOK'
  BY <1>1 DEF ClaudeInv, TypeOK
<1>3. Held(job[s])'
  BY <1>1
<1>4. Sound(progress)' /\ Started(progress)'
  BY <1>2, FileKept
<1> QED BY <1>1, <1>2, <1>3, <1>4, OthersHold

(* A program goes on to its next phase with what it holds.                 *)
LEMMA GotoStep ==
  ASSUME ClaudeInv, NEW s \in Sessions, NEW pc \in Pcs \ {"replace"}, Goto(s, pc),
         pc \in {"resolve", "inspect", "load", "fill", "cli compare", "cli write"}
           => Readable(job[s].seen),
         pc \in {"cli read", "cli compare", "cli write"} =>
           job[s].op \in {"pause", "resume", "reset"},
         last' \in [Sessions -> SUBSET Steps], events' \in 0 .. MaxEvents,
         UNCHANGED <<progress, refusals, codex, clock, said, passed>>
  PROVE  ClaudeInv'
<1>0. job \in [Sessions -> Job] /\ job[s] \in Job
  BY DEF ClaudeInv, TypeOK
<1>1. PICK j \in Job : /\ job' = [job EXCEPT ![s] = j] /\ j.pc = pc
                       /\ j.seen = job[s].seen /\ j.op = job[s].op
  <2>1. /\ [job[s] EXCEPT !.pc = pc] \in Job
        /\ [job[s] EXCEPT !.pc = pc].pc = pc
        /\ [job[s] EXCEPT !.pc = pc].seen = job[s].seen
        /\ [job[s] EXCEPT !.pc = pc].op = job[s].op
        /\ job' = [job EXCEPT ![s] = [job[s] EXCEPT !.pc = pc]]
    BY <1>0 DEF Job, Goto
  <2> QED BY <2>1
<1>2. Held(job[s])
  BY DEF ClaudeInv
<1>3. Held(j)'
  <2>1. Sound(j.seen)' /\ Started(j.seen)'
    BY <1>1, <1>2 DEF Held, Sound, Started
  <2>2. HoldsRun(j)' /\ Adding(j)' /\ Commanded(j)'
    BY <1>1 DEF HoldsRun, Adding, Commanded, Readable
  <2> QED BY <2>1, <2>2 DEF Held
<1>4. clock' \in 0 .. MaxRuns /\ clock <= clock'
        /\ said' \in [Sessions -> SUBSET (Steps \X Runs)]
  BY SameClock, SameSaid
<1> QED BY <1>1, <1>3, <1>4, JobStep

-----------------------------------------------------------------------------
(* The model, the user and the Stop                                        *)

LEMMA SayStep ==
  ASSUME ClaudeInv, NEW s \in Sessions, NEW n \in Steps, Say(s, n)
  PROVE  ClaudeInv'
<1>1. UNCHANGED <<progress, refusals, codex, clock, job, passed, events>>
  BY DEF Say
<1>2. <<n, clock>> \in Steps \X Runs
  BY DEF Say, ClaudeInv, Started, TypeOK
<1>3. said' \in [Sessions -> SUBSET (Steps \X Runs)]
        /\ last' \in [Sessions -> SUBSET Steps]
  BY <1>2 DEF Say, ClaudeInv, TypeOK
<1>4. TypeOK'
  BY <1>1, <1>3 DEF ClaudeInv, TypeOK
<1>5. Held(job[s])'
  BY <1>1 DEF ClaudeInv, Held, Sound, Started, HoldsRun, Adding, Commanded
<1>6. clock <= clock'
  BY <1>1 DEF ClaudeInv, TypeOK
<1>7. Sound(progress)' /\ Started(progress)'
  BY <1>1, <1>4, <1>6, FileKept
<1> QED BY <1>1, <1>4, <1>5, <1>6, <1>7, OthersHold

(* Steps of nobody: the programs keep what they hold.                      *)
LEMMA AllHold ==
  ASSUME ClaudeInv, TypeOK', UNCHANGED <<job, clock, passed>>,
         Sound(progress)', Started(progress)'
  PROVE  ClaudeInv'
<1>1. ASSUME NEW t \in Sessions PROVE Held(job[t])'
  BY DEF ClaudeInv, Held, Sound, Started, HoldsRun, Adding, Commanded
<1> QED BY <1>1 DEF ClaudeInv

LEMMA HandEditStep ==
  ASSUME ClaudeInv, NEW n \in 1 .. TotalSteps + 1, HandEdit(n)
  PROVE  ClaudeInv'
<1>1. /\ progress' = [progress EXCEPT !.cursor = n] /\ events' \in 0 .. MaxEvents
      /\ UNCHANGED <<refusals, codex, clock, said, last, job, passed>>
  BY DEF HandEdit, Event, ClaudeInv, TypeOK
<1>2. /\ progress' \in Progress /\ progress'.done = progress.done
      /\ progress'.run = progress.run /\ progress'.kind = progress.kind
  <2>1. progress \in Progress /\ n \in 0 .. TotalSteps + 1
    BY DEF ClaudeInv, TypeOK
  <2> QED BY <1>1, <2>1 DEF Progress
<1>3. TypeOK'
  BY <1>1, <1>2 DEF ClaudeInv, TypeOK
<1>4. Sound(progress)' /\ Started(progress)'
  BY <1>1, <1>2 DEF ClaudeInv, Sound, Started, Readable
<1> QED BY <1>1, <1>3, <1>4, AllHold

LEMMA CodexImportsStep ==
  ASSUME ClaudeInv, CodexImports
  PROVE  ClaudeInv'
<1>1. /\ codex' = TRUE /\ events' \in 0 .. MaxEvents
      /\ UNCHANGED <<progress, refusals, clock, said, last, job, passed>>
  BY DEF CodexImports, Event, ClaudeInv, TypeOK
<1>2. TypeOK'
  BY <1>1 DEF ClaudeInv, TypeOK
<1>3. Sound(progress)' /\ Started(progress)'
  BY <1>1 DEF ClaudeInv, Sound, Started
<1> QED BY <1>1, <1>2, <1>3, AllHold

LEMMA EndTurnStep ==
  ASSUME ClaudeInv, NEW s \in Sessions, EndTurn(s)
  PROVE  ClaudeInv'
<1>0. /\ job \in [Sessions -> Job] /\ job[s] \in Job /\ last[s] \in SUBSET Steps
      /\ Held(job[s])
  BY DEF ClaudeInv, TypeOK
<1>1. /\ job' = [job EXCEPT ![s].pc = "lock", ![s].final = last[s]]
      /\ last' \in [Sessions -> SUBSET Steps]
      /\ UNCHANGED <<progress, refusals, codex, clock, said, passed, events>>
  BY DEF EndTurn, ClaudeInv, TypeOK
<1>2. PICK j \in Job : /\ job' = [job EXCEPT ![s] = j] /\ j.pc = "lock"
                       /\ j.seen = job[s].seen
  <2> DEFINE e == [job[s] EXCEPT !.pc = "lock", !.final = last[s]]
  <2>1. e \in Job /\ e.pc = "lock" /\ e.seen = job[s].seen
    BY <1>0 DEF Job, Pcs
  <2>2. job' = [job EXCEPT ![s] = e]
    BY <1>0, <1>1
  <2> QED BY <2>1, <2>2
<1>3. Held(j)'
  BY <1>0, <1>1, <1>2 DEF Held, Sound, Started, HoldsRun, Adding, Commanded
<1>4. /\ clock' \in 0 .. MaxRuns /\ clock <= clock' /\ events' \in 0 .. MaxEvents
      /\ said' \in [Sessions -> SUBSET (Steps \X Runs)]
  BY <1>1 DEF ClaudeInv, TypeOK
<1> QED BY <1>1, <1>2, <1>3, <1>4, JobStep

-----------------------------------------------------------------------------
(* The writer                                                              *)

LEMMA WriterLockStep ==
  ASSUME ClaudeInv, NEW s \in Sessions, WriterLock(s)
  PROVE  ClaudeInv'
<1>1. /\ Goto(s, "read") /\ "read" \in Pcs \ {"replace"}
      /\ UNCHANGED <<progress, refusals, codex, clock, said, last, passed, events>>
  BY DEF WriterLock, Pcs
<1>2. last' \in [Sessions -> SUBSET Steps] /\ events' \in 0 .. MaxEvents
  BY <1>1 DEF ClaudeInv, TypeOK
<1> QED BY <1>1, <1>2, GotoStep

LEMMA NoRefusalsType ==
  NoRefusals \in [run : 0 .. MaxRuns, steps : SUBSET Gated]
  BY DEF NoRefusals

LEMMA WriterLockTimeoutStep ==
  ASSUME ClaudeInv, NEW s \in Sessions, WriterLockTimeout(s)
  PROVE  ClaudeInv'
<1>1. /\ Finish(s) /\ refusals' = NoRefusals /\ events' \in 0 .. MaxEvents
      /\ UNCHANGED <<progress, codex, clock, said, last, passed>>
  BY DEF WriterLockTimeout, Event, ClaudeInv, TypeOK
<1>2. progress' \in Progress /\ Sound(progress)' /\ Started(progress)'
  BY <1>1 DEF ClaudeInv, TypeOK, Sound, Started
<1> QED BY <1>1, <1>2, NoRefusalsType, FinishStep

LEMMA WriterReadStep ==
  ASSUME ClaudeInv, NEW s \in Sessions, WriterRead(s)
  PROVE  ClaudeInv'
<1>1. UNCHANGED <<progress, codex, clock, said, last, passed, events>>
  BY DEF WriterRead
<1>2. CASE Readable(progress)
  <2>1. /\ job \in [Sessions -> Job] /\ job[s] \in Job /\ progress \in Progress
        /\ Held(job[s]) /\ Sound(progress) /\ Started(progress)
    BY DEF ClaudeInv, TypeOK
  <2>2. job' = [job EXCEPT ![s].pc = "resolve", ![s].seen = progress]
          /\ UNCHANGED refusals
    BY <1>2 DEF WriterRead
  <2>3. PICK j \in Job : /\ job' = [job EXCEPT ![s] = j] /\ j.pc = "resolve"
                         /\ j.seen = progress
    <3> DEFINE e == [job[s] EXCEPT !.pc = "resolve", !.seen = progress]
    <3>1. e \in Job /\ e.pc = "resolve" /\ e.seen = progress
      BY <2>1 DEF Job, Pcs
    <3>2. job' = [job EXCEPT ![s] = e]
      BY <2>1, <2>2
    <3> QED BY <3>1, <3>2
  <2>4. Held(j)'
    BY <1>1, <1>2, <2>1, <2>3
       DEF Held, Sound, Started, HoldsRun, Adding, Commanded, Readable
  <2>5. /\ clock' \in 0 .. MaxRuns /\ clock <= clock' /\ events' \in 0 .. MaxEvents
        /\ said' \in [Sessions -> SUBSET (Steps \X Runs)]
        /\ last' \in [Sessions -> SUBSET Steps]
    BY <1>1 DEF ClaudeInv, TypeOK
  <2> QED BY <1>1, <2>2, <2>3, <2>4, <2>5, JobStep
<1>3. CASE ~Readable(progress)
  <2>1. Finish(s) /\ refusals' = NoRefusals
    BY <1>3 DEF WriterRead
  <2>2. progress' \in Progress /\ Sound(progress)' /\ Started(progress)'
          /\ events' \in 0 .. MaxEvents
    BY <1>1 DEF ClaudeInv, TypeOK, Sound, Started
  <2> QED BY <1>1, <2>1, <2>2, NoRefusalsType, FinishStep
<1> QED BY <1>2, <1>3

(* A program gives up and leaves everything as it is.                      *)
LEMMA LeavesStep ==
  ASSUME ClaudeInv, NEW s \in Sessions, Finish(s), events' \in 0 .. MaxEvents,
         UNCHANGED <<progress, refusals, codex, clock, said, last, passed>>
  PROVE  ClaudeInv'
<1>1. progress' \in Progress /\ Sound(progress)' /\ Started(progress)'
        /\ refusals' \in [run : 0 .. MaxRuns, steps : SUBSET Gated]
  BY DEF ClaudeInv, TypeOK, Sound, Started
<1> QED BY <1>1, FinishStep

LEMMA WriterResolveStep ==
  ASSUME ClaudeInv, NEW s \in Sessions, WriterResolve(s)
  PROVE  ClaudeInv'
<1>1. UNCHANGED <<progress, refusals, codex, clock, said, last, passed, events>>
  BY DEF WriterResolve
<1>2. last' \in [Sessions -> SUBSET Steps] /\ events' \in 0 .. MaxEvents
  BY <1>1 DEF ClaudeInv, TypeOK
<1>3. CASE Finish(s)
  BY <1>1, <1>2, <1>3, LeavesStep
<1>4. CASE Goto(s, "inspect")
  <2>1. Readable(job[s].seen)
    BY DEF ClaudeInv, Held, HoldsRun, WriterResolve, At
  <2>2. "inspect" \in Pcs \ {"replace"}
    BY DEF Pcs
  <2> QED BY <1>1, <1>2, <1>4, <2>1, <2>2, GotoStep
<1> QED BY <1>3, <1>4 DEF WriterResolve

LEMMA WriterInspectStep ==
  ASSUME ClaudeInv, NEW s \in Sessions, NEW ok \in SUBSET Gated,
         WriterInspect(s, ok)
  PROVE  ClaudeInv'
<1> DEFINE run == job[s].seen.run
           new == NewSteps(s) \ (GatedSteps(s) \ ok)
<1>0. /\ job \in [Sessions -> Job] /\ job[s] \in Job /\ Held(job[s])
      /\ Readable(job[s].seen) /\ run \in Runs
      /\ ok \subseteq GatedSteps(s)
  BY DEF ClaudeInv, TypeOK, Held, HoldsRun, Started, WriterInspect, At
<1>1. /\ job' = [job EXCEPT ![s].pc = "replace", ![s].new = new]
      /\ passed' = passed \union (ok \X {run})
      /\ UNCHANGED <<progress, codex, clock, said, last, events>>
      /\ refusals' = IF ok = GatedSteps(s) THEN NoRefusals
                     ELSE [run |-> run, steps |-> GatedSteps(s) \ ok]
  BY DEF WriterInspect
<1>2. /\ NewSteps(s) \in SUBSET Steps /\ GatedSteps(s) = NewSteps(s) \intersect Gated
      /\ new \in SUBSET Steps /\ new \intersect Gated \subseteq ok
  <2>1. job[s].final \in SUBSET Steps
    BY <1>0 DEF Job
  <2>2. Transcript(s, run) \subseteq Steps
    BY DEF Transcript
  <2>3. NewSteps(s) \in SUBSET Steps
    BY <2>1, <2>2 DEF NewSteps, Counted
  <2> HIDE DEF run
  <2> QED BY <2>3 DEF GatedSteps
<1> HIDE DEF new, run
<1>3. PICK j \in Job : /\ job' = [job EXCEPT ![s] = j] /\ j.pc = "replace"
                       /\ j.seen = job[s].seen /\ j.new = new
  <2> DEFINE e == [job[s] EXCEPT !.pc = "replace", !.new = new]
  <2>1. e \in Job /\ e.pc = "replace" /\ e.seen = job[s].seen /\ e.new = new
    BY <1>0, <1>2 DEF Job, Pcs
  <2>2. job' = [job EXCEPT ![s] = e]
    BY <1>0, <1>1
  <2> QED BY <2>1, <2>2
<1>4. /\ job' \in [Sessions -> Job] /\ job'[s] = j
      /\ \A t \in Sessions : t # s => job'[t] = job[t]
  BY <1>0, <1>3
<1>5. passed' \in SUBSET (Steps \X Runs) /\ passed \subseteq passed'
  BY <1>0, <1>1, <1>2 DEF ClaudeInv, TypeOK
<1>6. refusals' \in [run : 0 .. MaxRuns, steps : SUBSET Gated]
  BY <1>0, <1>1, <1>2, NoRefusalsType
<1>7. TypeOK'
  BY <1>1, <1>4, <1>5, <1>6 DEF ClaudeInv, TypeOK
<1>8. clock <= clock'
  BY <1>1 DEF ClaudeInv, TypeOK
<1>9. Sound(progress)' /\ Started(progress)'
  BY <1>1, <1>5, <1>7, <1>8, FileKept
<1>10. Held(job[s])'
  <2>1. Sound(job[s].seen)' /\ Started(job[s].seen)'
    BY <1>0, <1>1, <1>3, <1>4, <1>5 DEF Held, Sound, Started
  <2>2. Adding(job[s])'
    BY <1>1, <1>2, <1>3, <1>4 DEF Adding, run
  <2>3. HoldsRun(job[s])' /\ Commanded(job[s])'
    BY <1>0, <1>3, <1>4 DEF HoldsRun, Commanded, Readable
  <2> QED BY <2>1, <2>2, <2>3 DEF Held
<1> QED BY <1>4, <1>5, <1>7, <1>8, <1>9, <1>10, OthersHold

(* The object is written by a program that ends with that.                 *)
LEMMA WriteStep ==
  ASSUME ClaudeInv, NEW s \in Sessions, Finish(s), NEW p \in Progress,
         progress' = p, Sound(p), Started(p),
         UNCHANGED <<refusals, codex, clock, said, last, passed, events>>
  PROVE  ClaudeInv'
<1>1. Sound(progress)' /\ Started(progress)' /\ progress' \in Progress
  BY DEF Sound, Started
<1>2. events' \in 0 .. MaxEvents
        /\ refusals' \in [run : 0 .. MaxRuns, steps : SUBSET Gated]
  BY DEF ClaudeInv, TypeOK
<1> QED BY <1>1, <1>2, FinishStep

LEMMA WriterReplaceStep ==
  ASSUME ClaudeInv, NEW s \in Sessions, WriterReplace(s)
  PROVE  ClaudeInv'
<1>0. /\ job[s] \in Job /\ job[s].seen \in Progress /\ job[s].new \in SUBSET Steps
      /\ Held(job[s]) /\ job[s].pc = "replace"
  BY DEF ClaudeInv, TypeOK, Job, WriterReplace, At
<1>1. PICK p \in Progress : /\ p = Recorded(job[s].seen, job[s].new)
                            /\ p.kind = job[s].seen.kind
                            /\ p.run = job[s].seen.run
                            /\ p.done \subseteq job[s].seen.done \union job[s].new
  BY <1>0, RecordedProgress
<1>2. Sound(p) /\ Started(p)
  BY <1>0, <1>1 DEF Held, Sound, Started, Adding, Readable
<1>3. /\ progress' = p /\ Finish(s)
      /\ UNCHANGED <<refusals, codex, clock, said, last, passed, events>>
  BY <1>1 DEF WriterReplace
<1> QED BY <1>2, <1>3, WriteStep

LEMMA WriterStoppedStep ==
  ASSUME ClaudeInv, NEW s \in Sessions, WriterStopped(s)
  PROVE  ClaudeInv'
<1>1. /\ Finish(s) /\ events' \in 0 .. MaxEvents
      /\ UNCHANGED <<progress, refusals, codex, clock, said, last, passed>>
  BY DEF WriterStopped, Event, ClaudeInv, TypeOK
<1> QED BY <1>1, LeavesStep

-----------------------------------------------------------------------------
(* The loader and the trigger                                              *)

(* A program takes the object that is on disk.                             *)
LEMMA HoldStep ==
  ASSUME ClaudeInv, NEW s \in Sessions, NEW pc \in {"load", "cli compare"},
         Readable(progress),
         pc = "cli compare" => job[s].op \in {"pause", "resume", "reset"},
         job' = [job EXCEPT ![s].pc = pc, ![s].seen = progress],
         said' \in [Sessions -> SUBSET (Steps \X Runs)],
         last' \in [Sessions -> SUBSET Steps],
         clock' \in 0 .. MaxRuns, clock <= clock', events' \in 0 .. MaxEvents,
         UNCHANGED <<progress, refusals, codex, passed>>
  PROVE  ClaudeInv'
<1>1. /\ job \in [Sessions -> Job] /\ job[s] \in Job /\ progress \in Progress
      /\ Sound(progress) /\ Started(progress)
  BY DEF ClaudeInv, TypeOK
<1>2. PICK j \in Job : /\ job' = [job EXCEPT ![s] = j] /\ j.pc = pc
                       /\ j.seen = progress /\ j.op = job[s].op
  <2> DEFINE e == [job[s] EXCEPT !.pc = pc, !.seen = progress]
  <2>1. e \in Job /\ e.pc = pc /\ e.seen = progress /\ e.op = job[s].op
    BY <1>1 DEF Job, Pcs
  <2>2. job' = [job EXCEPT ![s] = e]
    BY <1>1
  <2> QED BY <2>1, <2>2
<1>3. Held(j)'
  <2>1. Sound(j.seen)' /\ HoldsRun(j)' /\ Adding(j)' /\ Commanded(j)'
    BY <1>1, <1>2 DEF Sound, HoldsRun, Adding, Commanded, Readable
  <2>2. PICK p \in Progress : p = progress
    BY <1>1
  <2>3. clock \in Int
    BY ClockType
  <2>4. Started(p)'
    BY <1>1, <2>2, <2>3, StartedLater
  <2>5. Started(j.seen)'
    BY <1>2, <2>2, <2>4
  <2> QED BY <2>1, <2>5 DEF Held
<1> QED BY <1>2, <1>3, JobStep

LEMMA SessionStartStep ==
  ASSUME ClaudeInv, NEW s \in Sessions, NEW b \in BOOLEAN, SessionStart(s, b)
  PROVE  ClaudeInv'
<1>1. /\ events' \in 0 .. MaxEvents
      /\ UNCHANGED <<progress, refusals, codex, clock, passed>>
      /\ said' \in [Sessions -> SUBSET (Steps \X Runs)]
      /\ last' \in [Sessions -> SUBSET Steps]
  BY DEF SessionStart, Event, ClaudeInv, TypeOK
<1>2. clock' \in 0 .. MaxRuns /\ clock <= clock'
  BY <1>1 DEF ClaudeInv, TypeOK
<1>3. CASE Phase = "active"
  <2>1. Readable(progress)
    BY <1>3 DEF Phase
  <2>2. job' = [job EXCEPT ![s].pc = "load", ![s].seen = progress]
    BY <1>3 DEF SessionStart
  <2> QED BY <1>1, <1>2, <2>1, <2>2, HoldStep
<1>4. CASE Phase # "active"
  <2>1. job' = job
    BY <1>4 DEF SessionStart
  <2>2. TypeOK'
    BY <1>1, <1>2, <2>1 DEF ClaudeInv, TypeOK
  <2>3. Sound(progress)' /\ Started(progress)'
    BY <1>1 DEF ClaudeInv, Sound, Started
  <2> QED BY <1>1, <2>1, <2>2, <2>3, AllHold
<1> QED BY <1>3, <1>4

(* A program puts back the object it holds.                                *)
LEMMA PutBackStep ==
  ASSUME ClaudeInv, NEW s \in Sessions, Finish(s), progress' = job[s].seen,
         UNCHANGED <<refusals, codex, clock, said, last, passed, events>>
  PROVE  ClaudeInv'
<1>1. PICK p \in Progress : p = job[s].seen
  BY DEF ClaudeInv, TypeOK, Job
<1>2. Sound(p) /\ Started(p)
  BY <1>1 DEF ClaudeInv, Held
<1> QED BY <1>1, <1>2, WriteStep

LEMMA LoaderReplaceStep ==
  ASSUME ClaudeInv, NEW s \in Sessions, LoaderReplace(s)
  PROVE  ClaudeInv'
  BY PutBackStep DEF LoaderReplace

LEMMA WebappStep ==
  ASSUME ClaudeInv, NEW s \in Sessions, Webapp(s)
  PROVE  ClaudeInv'
<1>1. /\ Goto(s, "boot") /\ "boot" \in Pcs \ {"replace"}
      /\ events' \in 0 .. MaxEvents
      /\ last' \in [Sessions -> SUBSET Steps]
      /\ UNCHANGED <<progress, refusals, codex, clock, said, passed>>
  BY DEF Webapp, Pcs, Event, ClaudeInv, TypeOK
<1> QED BY <1>1, GotoStep

LEMMA TriggerTruncateStep ==
  ASSUME ClaudeInv, NEW s \in Sessions, TriggerTruncate(s)
  PROVE  ClaudeInv'
<1>0. /\ job \in [Sessions -> Job] /\ job[s] \in Job
      /\ clock \in 0 .. MaxRuns /\ clock < MaxRuns
  BY DEF ClaudeInv, TypeOK, TriggerTruncate
<1>1. /\ clock' = clock + 1 /\ progress' = Torn
      /\ job' = [job EXCEPT ![s].pc = "fill", ![s].seen = Fresh(clock + 1, FALSE)]
      /\ UNCHANGED <<refusals, codex, said, last, passed, events>>
  BY DEF TriggerTruncate
<1>2. PICK f \in Progress : /\ f = Fresh(clock + 1, FALSE) /\ f.done = {}
                            /\ f.run = clock + 1 /\ Readable(f)
  <2>1. clock + 1 \in Runs /\ FALSE \in BOOLEAN
    BY <1>0
  <2> QED BY ONLY <2>1, FreshProgress
<1>3. PICK j \in Job : /\ job' = [job EXCEPT ![s] = j] /\ j.pc = "fill"
                       /\ j.seen = f
  <2> DEFINE e == [job[s] EXCEPT !.pc = "fill", !.seen = f]
  <2>1. e \in Job /\ e.pc = "fill" /\ e.seen = f
    BY <1>0 DEF Job, Pcs
  <2>2. job' = [job EXCEPT ![s] = e]
    BY <1>0, <1>1, <1>2
  <2> QED BY <2>1, <2>2
<1>4. /\ job' \in [Sessions -> Job] /\ job'[s] = j
      /\ \A t \in Sessions : t # s => job'[t] = job[t]
  BY <1>0, <1>3
<1>5. clock' \in 0 .. MaxRuns /\ clock <= clock' /\ clock + 1 \in Runs
  BY <1>0, <1>1
<1>6. TypeOK'
  BY <1>1, <1>4, <1>5, NoProgress DEF ClaudeInv, TypeOK
<1>7. Held(job[s])'
  <2>1. Sound(job[s].seen)'
    BY <1>2, <1>3, <1>4 DEF Sound
  <2>3. Started(job[s].seen)'
    <3>1. job'[s].seen.run = clock'
      BY <1>1, <1>2, <1>3, <1>4
    <3>2. clock' \in Runs /\ clock' <= clock'
      BY <1>0, <1>1
    <3> QED BY <3>1, <3>2 DEF Started
  <2>2. HoldsRun(job[s])' /\ Adding(job[s])' /\ Commanded(job[s])'
    BY <1>2, <1>3, <1>4 DEF HoldsRun, Adding, Commanded, Readable
  <2> QED BY <2>1, <2>2, <2>3 DEF Held
<1>8. Sound(progress)' /\ Started(progress)'
  BY <1>1, NoProgress DEF Sound, Started, Readable
<1>9. passed \subseteq passed'
  BY <1>1
<1> QED BY <1>4, <1>5, <1>6, <1>7, <1>8, <1>9, OthersHold

LEMMA TriggerFillStep ==
  ASSUME ClaudeInv, NEW s \in Sessions, TriggerFill(s)
  PROVE  ClaudeInv'
  BY PutBackStep DEF TriggerFill

LEMMA TriggerStoppedStep ==
  ASSUME ClaudeInv, NEW s \in Sessions, TriggerStopped(s)
  PROVE  ClaudeInv'
<1>1. /\ Finish(s) /\ events' \in 0 .. MaxEvents
      /\ UNCHANGED <<progress, refusals, codex, clock, said, last, passed>>
  BY DEF TriggerStopped, ClaudeInv, TypeOK
<1> QED BY <1>1, LeavesStep

-----------------------------------------------------------------------------
(* harness-pause.mjs                                                       *)

LEMMA CliStartStep ==
  ASSUME ClaudeInv, NEW s \in Sessions,
         NEW o \in {"pause", "resume", "reset"}, CliStart(s, o)
  PROVE  ClaudeInv'
<1>0. job \in [Sessions -> Job]
  BY DEF ClaudeInv, TypeOK
<1>1. /\ events' \in 0 .. MaxEvents
      /\ last' \in [Sessions -> SUBSET Steps]
      /\ UNCHANGED <<progress, refusals, codex, clock, said, passed>>
  BY DEF CliStart, Event, ClaudeInv, TypeOK
<1>2. PICK i \in Job : i = Idle
  BY IdleJob
<1>3. PICK j \in Job : /\ job' = [job EXCEPT ![s] = j] /\ j.pc = "cli read"
                       /\ j.op = o /\ j.seen = Absent
  <2> DEFINE e == [i EXCEPT !.pc = "cli read", !.op = o, !.tries = 1]
  <2>0. 1 \in 0 .. Tries /\ o \in {"none", "pause", "resume", "reset"}
          /\ "cli read" \in Pcs
    BY DEF Tries, Pcs
  <2>1. e \in Job /\ e.pc = "cli read" /\ e.op = o /\ e.seen = i.seen
    BY ONLY <2>0, i \in Job DEF Job
  <2>2. e = [Idle EXCEPT !.pc = "cli read", !.op = o, !.tries = 1]
    BY <1>2, Zenon
  <2>3. job' = [job EXCEPT ![s] = [Idle EXCEPT !.pc = "cli read", !.op = o,
                                               !.tries = 1]]
    BY Zenon DEF CliStart
  <2>4. job' = [job EXCEPT ![s] = e]
    BY <2>2, <2>3, Zenon
  <2> QED BY <1>2, <2>1, <2>4, IdleJob
<1>4. Held(j)'
  BY <1>3, NoProgress
     DEF Held, Sound, Started, HoldsRun, Adding, Commanded
<1>5. clock' \in 0 .. MaxRuns /\ clock <= clock'
        /\ said' \in [Sessions -> SUBSET (Steps \X Runs)]
  BY <1>1 DEF ClaudeInv, TypeOK
<1> QED BY <1>1, <1>3, <1>4, <1>5, JobStep

LEMMA CliReadStep ==
  ASSUME ClaudeInv, NEW s \in Sessions, CliRead(s)
  PROVE  ClaudeInv'
<1>1. Readable(progress) /\ job[s].op \in {"pause", "resume", "reset"}
  BY DEF CliRead, CliDeclines, ClaudeInv, Held, Commanded, At
<1>2. /\ job' = [job EXCEPT ![s].pc = "cli compare", ![s].seen = progress]
      /\ UNCHANGED <<progress, refusals, codex, said, last, passed, events>>
  BY DEF CliRead
<1>3. clock' \in 0 .. MaxRuns /\ clock <= clock'
  <2>1. clock \in 0 .. MaxRuns /\ clock \in Int /\ MaxRuns \in Int
    BY ClockType
  <2>2. clock' = clock \/ (clock' = clock + 1 /\ clock < MaxRuns)
    BY DEF CliRead
  <2> QED BY ONLY <2>1, <2>2
<1>4. /\ said' \in [Sessions -> SUBSET (Steps \X Runs)]
      /\ last' \in [Sessions -> SUBSET Steps] /\ events' \in 0 .. MaxEvents
  BY <1>2 DEF ClaudeInv, TypeOK
<1> QED BY <1>1, <1>2, <1>3, <1>4, HoldStep

LEMMA CliDoneStep ==
  ASSUME ClaudeInv, NEW s \in Sessions, CliDone(s)
  PROVE  ClaudeInv'
<1>1. /\ Finish(s) /\ events' \in 0 .. MaxEvents
      /\ UNCHANGED <<progress, refusals, codex, clock, said, last, passed>>
  BY DEF CliDone, ClaudeInv, TypeOK
<1> QED BY <1>1, LeavesStep

LEMMA CliCompareStep ==
  ASSUME ClaudeInv, NEW s \in Sessions, CliCompare(s)
  PROVE  ClaudeInv'
<1>0. /\ job \in [Sessions -> Job] /\ job[s] \in Job /\ Held(job[s])
      /\ job[s].op \in {"pause", "resume", "reset"} /\ Readable(job[s].seen)
  BY DEF ClaudeInv, TypeOK, Held, HoldsRun, Commanded, CliCompare, At
<1>1. UNCHANGED <<progress, refusals, codex, clock, said, last, passed, events>>
  BY DEF CliCompare
<1>2. /\ last' \in [Sessions -> SUBSET Steps] /\ events' \in 0 .. MaxEvents
      /\ said' \in [Sessions -> SUBSET (Steps \X Runs)]
      /\ clock' \in 0 .. MaxRuns /\ clock <= clock'
  BY <1>1 DEF ClaudeInv, TypeOK
<1>3. CASE Finish(s)
  BY <1>1, <1>2, <1>3, LeavesStep
<1>4. CASE Goto(s, "cli write")
  <2>1. "cli write" \in Pcs \ {"replace"}
    BY DEF Pcs
  <2> QED BY <1>0, <1>1, <1>2, <1>4, <2>1, GotoStep
<1>5. CASE /\ job[s].tries # Tries
           /\ job' = [job EXCEPT ![s].pc = "cli read", ![s].tries = @ + 1]
  <2>1. PICK j \in Job : /\ job' = [job EXCEPT ![s] = j] /\ j.pc = "cli read"
                         /\ j.seen = job[s].seen /\ j.op = job[s].op
    <3>0. job[s].tries \in 0 .. 3 /\ job[s].tries # 3
      BY <1>0, <1>5 DEF Job, Tries
    <3>1. PICK t \in 0 .. Tries : t = job[s].tries + 1
      <4>1. job[s].tries + 1 \in 0 .. 3
        BY ONLY <3>0
      <4> QED BY <4>1 DEF Tries
    <3> DEFINE e == [job[s] EXCEPT !.pc = "cli read", !.tries = t]
    <3>2. e \in Job /\ e.pc = "cli read" /\ e.seen = job[s].seen
            /\ e.op = job[s].op
      BY <1>0 DEF Job, Pcs
    <3>3. job' = [job EXCEPT ![s] = e]
      BY <1>0, <1>5, <3>1
    <3> QED BY <3>2, <3>3
  <2>2. Held(j)'
    BY <1>0, <1>1, <2>1
       DEF Held, Sound, Started, HoldsRun, Adding, Commanded, Readable
  <2> QED BY <1>1, <1>2, <2>1, <2>2, JobStep
<1> QED BY <1>3, <1>4, <1>5 DEF CliCompare

LEMMA CliWriteStep ==
  ASSUME ClaudeInv, NEW s \in Sessions, CliWrite(s)
  PROVE  ClaudeInv'
<1>0. /\ job[s].seen \in Progress /\ Held(job[s]) /\ Readable(job[s].seen)
      /\ job[s].op \in {"pause", "resume", "reset"}
      /\ job[s].seen.run \in Runs /\ job[s].seen.run <= clock
      /\ clock \in 0 .. MaxRuns
  BY DEF ClaudeInv, TypeOK, Job, Held, HoldsRun, Commanded, Started, CliWrite, At
<1>1. /\ progress' = Applied(job[s].seen, job[s].op) /\ Finish(s)
      /\ UNCHANGED <<refusals, codex, clock, said, last, passed, events>>
  BY DEF CliWrite
<1>2. clock \in Runs
  BY <1>0
<1>3. PICK q \in Progress : q = job[s].seen
  BY <1>0
<1>4. Sound(q) /\ Started(q)
  BY <1>0, <1>3 DEF Held
<1>5. \E p \in Progress : progress' = p /\ Sound(p) /\ Started(p)
  <2>1. CASE job[s].op = "reset"
    <3>1. progress' = Fresh(clock, TRUE)
      BY <1>1, <2>1 DEF Applied
    <3>2. PICK p \in Progress : /\ p = Fresh(clock, TRUE) /\ p.done = {}
                                /\ p.run = clock
      BY <1>2, FreshProgress
    <3>3. clock <= clock
      BY <1>0
    <3>4. Sound(p) /\ Started(p)
      BY <1>2, <3>2, <3>3 DEF Sound, Started
    <3> QED BY <3>1, <3>2, <3>4
  <2>2. ASSUME NEW b \in BOOLEAN, progress' = [q EXCEPT !.paused = b]
        PROVE  progress' \in Progress /\ Sound(progress') /\ Started(progress')
    <3>1. /\ progress' \in Progress /\ progress'.done = q.done
          /\ progress'.run = q.run /\ progress'.kind = q.kind
      BY <2>2 DEF Progress
    <3> QED BY <1>4, <3>1 DEF Sound, Started, Readable
  <2>3. CASE job[s].op = "pause"
    BY <1>1, <1>3, <2>2, <2>3 DEF Applied
  <2>4. CASE job[s].op = "resume"
    BY <1>1, <1>3, <2>2, <2>4 DEF Applied
  <2> QED BY <1>0, <2>1, <2>3, <2>4
<1> QED BY <1>1, <1>5, WriteStep

-----------------------------------------------------------------------------
(* The theorems                                                            *)

LEMMA ClaudeInit == Init => ClaudeInv
<1> SUFFICES ASSUME Init PROVE ClaudeInv
  OBVIOUS
<1>1. /\ Fresh(1, FALSE) \in Progress /\ Fresh(1, FALSE).done = {}
      /\ Fresh(1, FALSE).run = 1
  <2>1. 1 \in Runs /\ FALSE \in BOOLEAN
    OBVIOUS
  <2> QED BY ONLY <2>1, FreshProgress
<1>2. Absent.run = 0
  BY DEF Absent
<1>3. progress \in Progress /\ progress.done = {}
        /\ progress.run \in {0, 1} /\ clock = progress.run
        /\ (Readable(progress) => progress.run = 1)
  BY <1>1, <1>2, NoProgress DEF Init
<1>4. TypeOK
  <2>1. job \in [Sessions -> Job]
    BY IdleJob DEF Init
  <2>2. said \in [Sessions -> SUBSET (Steps \X Runs)]
          /\ last \in [Sessions -> SUBSET Steps]
    BY DEF Init
  <2>3. codex \in BOOLEAN /\ passed \in SUBSET (Steps \X Runs)
          /\ refusals \in [run : 0 .. MaxRuns, steps : SUBSET Gated]
    BY NoRefusalsType DEF Init
  <2>4. events \in 0 .. MaxEvents
    BY DEF Init
  <2>5. clock \in 0 .. MaxRuns
    BY <1>3
  <2> QED BY <1>3, <2>1, <2>2, <2>3, <2>4, <2>5 DEF TypeOK
<1>5. \A s \in Sessions : Held(job[s])
  BY IdleJob DEF Init
<1> QED BY <1>3, <1>4, <1>5 DEF ClaudeInv, Sound, Started

LEMMA ClaudeStep == ClaudeInv /\ [Next]_vars => ClaudeInv'
<1> SUFFICES ASSUME ClaudeInv, [Next]_vars PROVE ClaudeInv'
  OBVIOUS
<1>1. ASSUME NEW s \in Sessions, Session(s) PROVE ClaudeInv'
  <2>1. CASE Writer(s)
    BY <2>1, WriterLockStep, WriterReadStep, WriterResolveStep,
       WriterInspectStep, WriterReplaceStep DEF Writer
  <2>2. CASE Trigger(s)
    BY <2>2, TriggerTruncateStep, TriggerFillStep, TriggerStoppedStep DEF Trigger
  <2>3. CASE Cli(s)
    BY <2>3, CliReadStep, CliDoneStep, CliCompareStep, CliWriteStep DEF Cli
  <2>4. CASE EndTurn(s) \/ LoaderReplace(s) \/ Webapp(s)
              \/ WriterLockTimeout(s) \/ WriterStopped(s)
    BY <2>4, EndTurnStep, LoaderReplaceStep, WebappStep, WriterLockTimeoutStep,
       WriterStoppedStep
  <2>5. CASE \E b \in BOOLEAN : SessionStart(s, b)
    BY <2>5, SessionStartStep
  <2>6. CASE \E o \in {"pause", "resume", "reset"} : CliStart(s, o)
    BY <2>6, CliStartStep
  <2>7. CASE \E n \in Steps : Say(s, n)
    BY <2>7, SayStep
  <2> QED BY <1>1, <2>1, <2>2, <2>3, <2>4, <2>5, <2>6, <2>7 DEF Session
<1>2. CASE \E n \in 1 .. TotalSteps + 1 : HandEdit(n)
  BY <1>2, HandEditStep
<1>3. CASE CodexImports
  BY <1>3, CodexImportsStep
<1>4. CASE UNCHANGED vars
  <2>1. UNCHANGED <<progress, refusals, codex, clock, said, last, job, passed,
                    events>>
    BY <1>4 DEF vars
  <2>2. TypeOK'
    BY <2>1 DEF ClaudeInv, TypeOK
  <2>3. Sound(progress)' /\ Started(progress)'
    BY <2>1 DEF ClaudeInv, Sound, Started
  <2> QED BY <2>1, <2>2, <2>3, AllHold
<1> QED BY <1>1, <1>2, <1>3, <1>4 DEF Next

(* What the file and every object that a program holds have in common,     *)
(* through stale writes, torn files, resets and stopped programs.          *)
THEOREM ClaudeInvariant == Spec => []ClaudeInv
  BY ClaudeInit, ClaudeStep, PTL DEF Spec

(* The files and the programs keep their types: the cursor stays within    *)
(* the profile whatever is written over whatever.                          *)
THEOREM ClaudeTypeOK == Spec => []TypeOK
<1>1. ClaudeInv => TypeOK
  BY DEF ClaudeInv
<1> QED BY <1>1, ClaudeInvariant, PTL

(* A gated step counts as completed in a run only if an inspection passed  *)
(* it in that run, for any number of sessions that replace each other's    *)
(* objects, with and without flock.                                        *)
THEOREM OnlyInspected == Spec => []Inspected
<1>1. ClaudeInv => Inspected
  BY DEF ClaudeInv, Sound, Inspected
<1> QED BY <1>1, ClaudeInvariant, PTL

-----------------------------------------------------------------------------
(* The lock                                                                *)

(* Who has the lock after a step of s: those who had it, or s alone.       *)
LEMMA LockStep ==
  ASSUME OneWriter, NEW s \in Sessions,
         \A t \in Sessions : t # s => job'[t].pc = job[t].pc,
         HasLock(s)' => HasLock(s) \/ LockFree
  PROVE  OneWriter'
<1>1. \A t \in Sessions : t # s => (HasLock(t)' <=> HasLock(t))
  BY DEF HasLock
<1>2. CASE HasLock(s)' => HasLock(s)
  BY <1>1, <1>2 DEF OneWriter
<1>3. CASE HasLock(s)' /\ LockFree
  BY <1>1, <1>3 DEF OneWriter, LockFree
<1> QED BY <1>2, <1>3

LEMMA SessionLock ==
  ASSUME ClaudeInv, NEW s \in Sessions, Session(s)
  PROVE  /\ \A t \in Sessions : t # s => job'[t].pc = job[t].pc
         /\ HasLock(s)' => HasLock(s) \/ LockFree
<1>0. job \in [Sessions -> Job]
  BY DEF ClaudeInv, TypeOK
<1> DEFINE Good == /\ \A t \in Sessions : t # s => job'[t].pc = job[t].pc
                   /\ HasLock(s)' => HasLock(s) \/ LockFree
<1>1. ASSUME Finish(s) PROVE Good
  BY <1>0, <1>1, IdleJob DEF Finish, HasLock
<1>2. ASSUME NEW pc, Goto(s, pc),
             pc \in {"read", "resolve", "inspect", "replace"}
               => HasLock(s) \/ LockFree
      PROVE  Good
  <2>1. job'[s].pc = pc /\ \A t \in Sessions : t # s => job'[t] = job[t]
    BY <1>0, <1>2 DEF Goto, Job
  <2> QED BY <1>2, <2>1 DEF HasLock
<1>3. CASE \E o \in {"pause", "resume", "reset"} : CliStart(s, o)
  BY <1>0, <1>3 DEF CliStart, HasLock, At, Idle
<1>4. CASE \/ WriterReplace(s) \/ WriterLockTimeout(s) \/ WriterStopped(s)
           \/ LoaderReplace(s) \/ TriggerFill(s) \/ TriggerStopped(s)
           \/ CliDone(s) \/ CliWrite(s)
  BY <1>1, <1>4 DEF WriterReplace, WriterLockTimeout, WriterStopped,
     LoaderReplace, TriggerFill, TriggerStopped, CliDone, CliWrite
<1>5. CASE WriterLock(s)
  BY <1>2, <1>5 DEF WriterLock
<1>6. CASE Webapp(s)
  BY <1>2, <1>6 DEF Webapp
<1>7. CASE WriterResolve(s)
  BY <1>1, <1>2, <1>7 DEF WriterResolve, HasLock, At
<1>8. CASE WriterRead(s) \/ \E ok \in SUBSET Gated : WriterInspect(s, ok)
  <2>1. HasLock(s)
    BY <1>8 DEF WriterRead, WriterInspect, At, HasLock
  <2>2. \A t \in Sessions : t # s => job'[t] = job[t]
    BY <1>0, <1>8 DEF WriterRead, WriterInspect, Finish
  <2> QED BY <2>1, <2>2
<1>9. CASE EndTurn(s) \/ TriggerTruncate(s) \/ CliRead(s)
             \/ \E b \in BOOLEAN : SessionStart(s, b)
  <2>1. \A t \in Sessions : t # s => job'[t] = job[t]
    BY <1>0, <1>9 DEF EndTurn, TriggerTruncate, CliRead, SessionStart
  <2>2. ASSUME NEW pc \in {"lock", "load", "fill", "cli compare"}, NEW j,
               \/ job' = [job EXCEPT ![s].pc = pc, ![s].seen = j]
               \/ job' = [job EXCEPT ![s].pc = pc, ![s].final = j]
        PROVE  ~HasLock(s)'
    <3>1. job'[s].pc = pc
      BY <1>0, <2>2 DEF Job
    <3> QED BY <3>1 DEF HasLock
  <2>3. CASE job' = job /\ At(s, "idle")
    BY <2>1, <2>3 DEF HasLock, At
  <2>4. CASE ~(job' = job /\ At(s, "idle"))
    BY <1>9, <2>1, <2>2, <2>4 DEF EndTurn, TriggerTruncate, CliRead, SessionStart
  <2> QED BY <2>3, <2>4
<1>10. CASE CliCompare(s)
  <2>1. CASE Finish(s) \/ Goto(s, "cli write")
    BY <1>1, <1>2, <2>1
  <2>2. CASE job' = [job EXCEPT ![s].pc = "cli read", ![s].tries = @ + 1]
    BY <1>0, <2>2 DEF HasLock, Job
  <2> QED BY <1>10, <2>1, <2>2 DEF CliCompare
<1>11. CASE \E n \in Steps : Say(s, n)
  BY <1>11 DEF Say, HasLock
<1> QED BY <1>3, <1>4, <1>5, <1>6, <1>7, <1>8, <1>9, <1>10, <1>11
        DEF Session, Writer, Trigger, Cli

(* Inspections of two writers never overlap where flock exists: a verdict  *)
(* is not written over one that was reached meanwhile by another writer.   *)
THEOREM WritersExclude == Spec => []OneWriter
<1>1. Init => OneWriter
  BY IdleJob DEF Init, OneWriter, HasLock
<1>2. ClaudeInv /\ OneWriter /\ [Next]_vars => OneWriter'
  <2> SUFFICES ASSUME ClaudeInv, OneWriter, [Next]_vars PROVE OneWriter'
    OBVIOUS
  <2>1. ASSUME NEW s \in Sessions, Session(s) PROVE OneWriter'
    BY <2>1, SessionLock, LockStep
  <2>2. CASE job' = job
    BY <2>2 DEF OneWriter, HasLock
  <2> QED BY <2>1, <2>2 DEF Next, HandEdit, CodexImports, vars
<1> QED BY <1>1, <1>2, ClaudeInvariant, PTL DEF Spec
=============================================================================
