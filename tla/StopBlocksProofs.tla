--------------------------- MODULE StopBlocksProofs ---------------------------
(***************************************************************************)
(* That the Stop hooks let a turn go, for any number of sessions, steps    *)
(* and prompts.  The invariant speaks of one session at a time: every      *)
(* block without progress leaves the stall file of the session at least    *)
(* one ahead of what the next block needs.                                 *)
(***************************************************************************)
EXTENDS StopBlocks, TLAPS

Turns ==
  [at : {"idle", "works", "stops"}, active : BOOLEAN,
   auto : {"silent", "asked", "read", "block"},
   quality : {"silent", "asked", "block"}, saw : Nat]
Stalls == [steps : Nat \union {-1}, count : 0 .. StallLimit]
Blocks == [steps : Nat \union {-1}, auto : Nat, quality : Nat]

(* Hooks run only at a Stop.                                               *)
Asked(t) == t.at # "stops" => t.auto = "silent" /\ t.quality = "silent"

(* What a hook read and what its file says is not ahead of the record n.   *)
Behind(n, t, f) ==
  /\ t.saw <= n /\ f.steps <= n
  /\ t.auto = "read" => f.steps <= t.saw

(* Once auto has blocked in a turn, the turn is active and the file counts *)
(* the block, unless it already speaks of later steps.                     *)
Counted(t, f, b) ==
  t.at # "idle" /\ b.steps # -1 =>
    /\ t.active \/ t.auto = "block"
    /\ b.steps <= f.steps
    /\ b.steps = f.steps => b.auto - 1 <= f.count

(* quality blocks only in a turn that is not active yet.                   *)
Once(t, b) ==
  t.at # "idle" /\ ~t.active /\ t.quality # "block" => b.quality = 0

Held(b) == b.auto <= StallLimit /\ b.quality <= 1

Good(n, t, f, b) ==
  /\ t \in Turns /\ f \in Stalls /\ b \in Blocks
  /\ Asked(t) /\ Behind(n, t, f) /\ Counted(t, f, b) /\ Once(t, b) /\ Held(b)

BlocksTypeOK ==
  /\ recorded \in Nat
  /\ turn \in [Sessions -> Turns]
  /\ stallFile \in [Sessions -> Stalls]
  /\ blocked \in [Sessions -> Blocks]

BlocksInv ==
  /\ BlocksTypeOK
  /\ \A s \in Sessions : Good(recorded, turn[s], stallFile[s], blocked[s])

LEMMA BlocksInvInit == BlocksInit => BlocksInv
<1> SUFFICES ASSUME BlocksInit PROVE BlocksInv
  OBVIOUS
<1>1. NoTurn \in Turns /\ NoStall \in Stalls /\ NoBlocks \in Blocks
  BY DEF NoTurn, NoStall, NoBlocks, Turns, Stalls, Blocks, StallLimit
<1>2. Good(0, NoTurn, NoStall, NoBlocks)
  BY <1>1 DEF Good, Asked, Behind, Counted, Once, Held, StallLimit, NoTurn,
              NoStall, NoBlocks
<1> QED BY <1>1, <1>2 DEF BlocksInit, BlocksInv, BlocksTypeOK

LEMMA NoTurnIs ==
  /\ NoTurn \in Turns
  /\ NoTurn.at = "idle" /\ NoTurn.active = FALSE /\ NoTurn.auto = "silent"
  /\ NoTurn.quality = "silent" /\ NoTurn.saw = 0
  BY DEF NoTurn, Turns

(* A step of one session keeps the invariant if it leaves that session in  *)
(* a good state.                                                           *)
LEMMA OneSession ==
  ASSUME BlocksInv, NEW s \in Sessions, NEW t, NEW f, NEW b,
         recorded' = recorded, turn' = [turn EXCEPT ![s] = t],
         stallFile' = [stallFile EXCEPT ![s] = f],
         blocked' = [blocked EXCEPT ![s] = b], Good(recorded, t, f, b)
  PROVE  BlocksInv'
<1>1. BlocksTypeOK'
  BY DEF BlocksInv, BlocksTypeOK, Good
<1>2. ASSUME NEW r \in Sessions
      PROVE  Good(recorded, turn[r], stallFile[r], blocked[r])'
  <2>1. CASE r = s
    <3>1. turn'[r] = t /\ stallFile'[r] = f /\ blocked'[r] = b
      BY <2>1 DEF BlocksInv, BlocksTypeOK
    <3> QED BY <3>1
  <2>2. CASE r # s
    <3>1. /\ turn'[r] = turn[r] /\ stallFile'[r] = stallFile[r]
          /\ blocked'[r] = blocked[r]
      BY <2>2 DEF BlocksInv, BlocksTypeOK
    <3> QED BY <3>1 DEF BlocksInv
  <2> QED BY <2>1, <2>2
<1> QED BY <1>1, <1>2 DEF BlocksInv

(* What OneSession needs of a variable that a step does not change.        *)
LEMMA Unmoved ==
  ASSUME BlocksInv, NEW s \in Sessions
  PROVE  /\ turn = [turn EXCEPT ![s] = turn[s]]
         /\ stallFile = [stallFile EXCEPT ![s] = stallFile[s]]
         /\ blocked = [blocked EXCEPT ![s] = blocked[s]]
         /\ Good(recorded, turn[s], stallFile[s], blocked[s])
         /\ recorded \in Nat
  BY DEF BlocksInv, BlocksTypeOK

LEMMA PromptKeeps ==
  ASSUME BlocksInv, NEW s \in Sessions, Prompt(s)
  PROVE  BlocksInv'
<1> DEFINE t == [NoTurn EXCEPT !.at = "works"]
<1>0. /\ t \in Turns /\ t.at = "works" /\ t.active = FALSE
      /\ t.auto = "silent" /\ t.quality = "silent" /\ t.saw = 0
  BY NoTurnIs DEF Turns
<1> HIDE DEF t
<1>1. Good(recorded, t, stallFile[s], NoBlocks)
  BY <1>0, Unmoved DEF Good, Turns, Stalls, Blocks, Asked, Behind, Counted,
                       Once, Held, StallLimit, NoBlocks
<1>2. /\ turn' = [turn EXCEPT ![s] = t]
      /\ blocked' = [blocked EXCEPT ![s] = NoBlocks]
      /\ stallFile' = [stallFile EXCEPT ![s] = stallFile[s]]
      /\ recorded' = recorded
  BY Unmoved DEF Prompt, t
<1> QED BY <1>1, <1>2, OneSession

LEMMA StopKeeps ==
  ASSUME BlocksInv, NEW s \in Sessions, Stop(s)
  PROVE  BlocksInv'
<1> DEFINE t == [turn[s] EXCEPT !.at = "stops", !.auto = "asked",
                                !.quality = "asked"]
<1>1. Good(recorded, t, stallFile[s], blocked[s])
  BY Unmoved DEF Stop, Good, Turns, Stalls, Blocks, Asked, Behind, Counted,
                 Once, Held, StallLimit
<1>2. /\ turn' = [turn EXCEPT ![s] = t]
      /\ blocked' = [blocked EXCEPT ![s] = blocked[s]]
      /\ stallFile' = [stallFile EXCEPT ![s] = stallFile[s]]
      /\ recorded' = recorded
  BY Unmoved DEF Stop
<1> HIDE DEF t
<1> QED BY <1>1, <1>2, OneSession

LEMMA SettleKeeps ==
  ASSUME BlocksInv, NEW s \in Sessions, Settle(s)
  PROVE  BlocksInv'
<1> DEFINE go == [NoTurn EXCEPT !.at = "works", !.active = TRUE]
           t  == IF "block" \in {turn[s].auto, turn[s].quality}
                 THEN go ELSE NoTurn
<1>0. /\ go \in Turns /\ go.at = "works" /\ go.active = TRUE
      /\ go.auto = "silent" /\ go.quality = "silent" /\ go.saw = 0
  BY NoTurnIs DEF Turns
<1> HIDE DEF go
<1>1. Good(recorded, go, stallFile[s], blocked[s])
         \/ "block" \notin {turn[s].auto, turn[s].quality}
  BY <1>0, Unmoved DEF Settle, Good, Turns, Stalls, Blocks, Asked, Behind,
                       Counted, Once, Held, StallLimit
<1>2. Good(recorded, NoTurn, stallFile[s], blocked[s])
  BY NoTurnIs, Unmoved DEF Good, Stalls, Blocks, Asked, Behind, Counted, Once
<1>3. /\ turn' = [turn EXCEPT ![s] = t]
      /\ blocked' = [blocked EXCEPT ![s] = blocked[s]]
      /\ stallFile' = [stallFile EXCEPT ![s] = stallFile[s]]
      /\ recorded' = recorded
  BY Unmoved DEF Settle, go
<1>4. Good(recorded, t, stallFile[s], blocked[s])
  BY <1>1, <1>2
<1> HIDE DEF t
<1> QED BY <1>3, <1>4, OneSession

LEMMA AutoReadKeeps ==
  ASSUME BlocksInv, NEW s \in Sessions, AutoRead(s)
  PROVE  BlocksInv'
<1> DEFINE let  == [turn[s] EXCEPT !.auto = "silent"]
           read == [turn[s] EXCEPT !.auto = "read", !.saw = recorded]
<1>1. Good(recorded, let, stallFile[s], blocked[s])
  BY Unmoved DEF AutoRead, Good, Turns, Stalls, Blocks, Asked, Behind,
                 Counted, Once, Held, StallLimit
<1>2. Good(recorded, read, stallFile[s], blocked[s])
  <2>1. /\ read \in Turns /\ read.at = turn[s].at
        /\ read.active = turn[s].active /\ read.auto = "read"
        /\ read.quality = turn[s].quality /\ read.saw = recorded
    BY Unmoved DEF Good, Turns
  <2> HIDE DEF read
  <2> QED BY <2>1, Unmoved
     DEF AutoRead, Good, Turns, Stalls, Blocks, Asked, Behind, Counted, Once,
         Held, StallLimit
<1>3. /\ turn' = [turn EXCEPT ![s] = let] \/ turn' = [turn EXCEPT ![s] = read]
      /\ blocked' = [blocked EXCEPT ![s] = blocked[s]]
      /\ stallFile' = [stallFile EXCEPT ![s] = stallFile[s]]
      /\ recorded' = recorded
  BY Unmoved DEF AutoRead
<1> HIDE DEF let, read
<1> QED BY <1>1, <1>2, <1>3, OneSession

(* The file auto leaves counts what it answers.                            *)
LEMMA Saved ==
  ASSUME BlocksInv, NEW s \in Sessions, NEW f, turn[s].auto = "read",
         f = [steps |-> turn[s].saw,
              count |-> Least(NextStall(s), StallLimit)]
  PROVE  /\ f \in Stalls /\ f.steps = turn[s].saw
         /\ NextStall(s) \in Nat
         /\ f.count = Least(NextStall(s), StallLimit)
         /\ turn[s].active /\ stallFile[s].steps = turn[s].saw =>
              NextStall(s) = stallFile[s].count + 1
<1>1. NextStall(s) \in Nat
  BY Unmoved DEF NextStall, Stall, Good, Turns, Stalls, StallLimit
<1>2. Least(NextStall(s), StallLimit) \in 0 .. StallLimit
  BY <1>1 DEF Least, StallLimit
<1>3. turn[s].saw \in Nat
  BY Unmoved DEF Good, Turns
<1>4. f \in Stalls
  BY <1>2, <1>3 DEF Stalls
<1> QED BY <1>1, <1>4 DEF NextStall, Stall

LEMMA AutoAnswerKeeps ==
  ASSUME BlocksInv, NEW s \in Sessions, AutoAnswer(s)
  PROVE  BlocksInv'
<1> DEFINE f == [steps |-> turn[s].saw,
                 count |-> Least(NextStall(s), StallLimit)]
<1>1. turn[s].auto = "read" /\ SaveStall(s) /\ recorded' = recorded
  BY DEF AutoAnswer
<1>2. stallFile' = [stallFile EXCEPT ![s] = f]
  BY <1>1 DEF SaveStall
<1>3. /\ f \in Stalls /\ f.steps = turn[s].saw /\ NextStall(s) \in Nat
      /\ f.count = Least(NextStall(s), StallLimit)
      /\ turn[s].active /\ stallFile[s].steps = turn[s].saw =>
           NextStall(s) = stallFile[s].count + 1
  BY <1>1, Saved
<1> HIDE DEF f
<1>4. CASE NextStall(s) >= StallLimit
  <2> DEFINE t == [turn[s] EXCEPT !.auto = "silent", !.saw = 0]
  <2>1. /\ t \in Turns /\ t.at = turn[s].at /\ t.active = turn[s].active
        /\ t.auto = "silent" /\ t.quality = turn[s].quality /\ t.saw = 0
    BY Unmoved DEF Good, Turns
  <2>2. /\ turn' = [turn EXCEPT ![s] = t]
        /\ blocked' = [blocked EXCEPT ![s] = blocked[s]]
    BY <1>4, Unmoved DEF AutoAnswer
  <2> HIDE DEF t
  <2>3. Good(recorded, t, f, blocked[s])
    BY <1>1, <1>3, <1>4, <2>1, Unmoved
       DEF Least, Good, Turns, Stalls, Blocks, Asked, Behind, Counted, Once,
           Held, StallLimit
  <2> QED BY <1>1, <1>2, <2>2, <2>3, OneSession
<1>5. CASE ~(NextStall(s) >= StallLimit)
  <2> DEFINE t == [turn[s] EXCEPT !.auto = "block", !.saw = 0]
             n == IF blocked[s].steps = turn[s].saw
                  THEN blocked[s].auto + 1 ELSE 1
             b == [blocked[s] EXCEPT !.steps = turn[s].saw, !.auto = n]
  <2>1. /\ t \in Turns /\ t.at = turn[s].at /\ t.active = turn[s].active
        /\ t.auto = "block" /\ t.quality = turn[s].quality /\ t.saw = 0
    BY Unmoved DEF Good, Turns
  <2>2. /\ b \in Blocks /\ b.steps = turn[s].saw /\ b.auto = n
        /\ b.quality = blocked[s].quality
    <3>1. n \in Nat /\ turn[s].saw \in Nat
      BY Unmoved DEF Good, Turns, Blocks
    <3> HIDE DEF n
    <3> QED BY <3>1, Unmoved DEF Good, Blocks
  <2>3. /\ turn' = [turn EXCEPT ![s] = t]
        /\ blocked' = [blocked EXCEPT ![s] = b]
    BY <1>5 DEF AutoAnswer
  <2> HIDE DEF t, b
  <2>4. turn[s].saw <= recorded
    BY Unmoved DEF Good, Behind
  <2>5. n <= StallLimit /\ n - 1 <= f.count
    <3>1. f.count = NextStall(s)
      BY <1>3, <1>5 DEF Least, StallLimit
    <3>2. CASE blocked[s].steps # turn[s].saw
      BY <1>3, <3>1, <3>2 DEF StallLimit
    <3>3. CASE blocked[s].steps = turn[s].saw
      <4>1. blocked[s].steps # -1 /\ turn[s].at = "stops"
        BY <1>1, <3>3, Unmoved DEF Good, Turns, Asked
      <4>2. turn[s].active /\ stallFile[s].steps = turn[s].saw
        BY <1>1, <3>3, <4>1, Unmoved
           DEF Good, Turns, Stalls, Blocks, Behind, Counted
      <4>3. blocked[s].auto - 1 <= stallFile[s].count
        BY <1>1, <3>3, <4>1, <4>2, Unmoved DEF Good, Counted
      <4>4. blocked[s].auto \in Nat /\ stallFile[s].count \in Nat
        BY Unmoved DEF Good, Blocks, Stalls, StallLimit
      <4> QED BY <1>3, <1>5, <3>1, <3>3, <4>2, <4>3, <4>4 DEF StallLimit
    <3> QED BY <3>2, <3>3
  <2> HIDE DEF n
  <2>6. Good(recorded, t, f, b)
    BY <1>1, <1>3, <2>1, <2>2, <2>4, <2>5, Unmoved
       DEF Good, Turns, Stalls, Blocks, Asked, Behind, Counted, Once, Held,
           StallLimit
  <2> QED BY <1>1, <1>2, <2>3, <2>6, OneSession
<1> QED BY <1>4, <1>5

LEMMA AutoDiesKeeps ==
  ASSUME BlocksInv, NEW s \in Sessions, AutoDies(s)
  PROVE  BlocksInv'
<1> DEFINE t == [turn[s] EXCEPT !.auto = "silent", !.saw = 0]
           f == [steps |-> turn[s].saw,
                 count |-> Least(NextStall(s), StallLimit)]
<1>1. /\ turn' = [turn EXCEPT ![s] = t]
      /\ blocked' = [blocked EXCEPT ![s] = blocked[s]]
      /\ recorded' = recorded /\ turn[s].auto \in {"asked", "read"}
  BY Unmoved DEF AutoDies
<1>2. /\ t \in Turns /\ t.at = turn[s].at /\ t.active = turn[s].active
      /\ t.auto = "silent" /\ t.quality = turn[s].quality /\ t.saw = 0
  BY Unmoved DEF Good, Turns
<1> HIDE DEF t
<1>3. CASE turn[s].auto = "read" /\ SaveStall(s)
  <2>1. /\ f \in Stalls /\ f.steps = turn[s].saw /\ NextStall(s) \in Nat
        /\ f.count = Least(NextStall(s), StallLimit)
        /\ turn[s].active /\ stallFile[s].steps = turn[s].saw =>
             NextStall(s) = stallFile[s].count + 1
    BY <1>3, Saved
  <2>2. stallFile' = [stallFile EXCEPT ![s] = f]
    BY <1>3 DEF SaveStall
  <2> HIDE DEF f
  <2>3. Good(recorded, t, f, blocked[s])
    BY <1>2, <1>3, <2>1, Unmoved
       DEF Least, Good, Turns, Stalls, Blocks, Asked, Behind, Counted, Once,
           Held, StallLimit
  <2> QED BY <1>1, <2>2, <2>3, OneSession
<1>4. CASE stallFile' = stallFile
  <2>1. Good(recorded, t, stallFile[s], blocked[s])
    BY <1>1, <1>2, Unmoved
       DEF Good, Turns, Stalls, Blocks, Asked, Behind, Counted, Once, Held,
           StallLimit
  <2>2. stallFile' = [stallFile EXCEPT ![s] = stallFile[s]]
    BY <1>4, Unmoved
  <2> QED BY <1>1, <2>1, <2>2, OneSession
<1> QED BY <1>3, <1>4 DEF AutoDies

LEMMA QualityAnswerKeeps ==
  ASSUME BlocksInv, NEW s \in Sessions, NEW passes \in BOOLEAN,
         QualityAnswer(s, passes)
  PROVE  BlocksInv'
<1> DEFINE silent == \/ steering # "claude" \/ recorded < Milestone
                     \/ passes \/ ~QualityMayBlock(s)
           t == [turn[s] EXCEPT !.quality = IF silent THEN "silent"
                                            ELSE "block"]
           b == IF silent THEN blocked[s]
                ELSE [blocked[s] EXCEPT !.quality = blocked[s].quality + 1]
<1>1. Good(recorded, t, stallFile[s], b)
  BY Unmoved DEF QualityAnswer, QualityMayBlock, Good, Turns, Stalls, Blocks,
                 Asked, Behind, Counted, Once, Held, StallLimit
<1>2. /\ turn' = [turn EXCEPT ![s] = t]
      /\ blocked' = [blocked EXCEPT ![s] = b]
      /\ stallFile' = [stallFile EXCEPT ![s] = stallFile[s]]
      /\ recorded' = recorded
  BY Unmoved DEF QualityAnswer
<1> HIDE DEF t, b
<1> QED BY <1>1, <1>2, OneSession

LEMMA RecordStepKeeps ==
  ASSUME BlocksInv, NEW s \in Sessions, RecordStep(s)
  PROVE  BlocksInv'
<1>1. ASSUME NEW r \in Sessions
      PROVE  Good(recorded', turn[r], stallFile[r], blocked[r])
  BY Unmoved DEF RecordStep, Good, Turns, Stalls, Behind
<1> QED BY <1>1 DEF BlocksInv, BlocksTypeOK, RecordStep

LEMMA BlocksInvStep == BlocksInv /\ [BlocksNext]_blockVars => BlocksInv'
<1> SUFFICES ASSUME BlocksInv, [BlocksNext]_blockVars PROVE BlocksInv'
  OBVIOUS
<1>1. ASSUME NEW s \in Sessions, SessionSteps(s) PROVE BlocksInv'
  BY <1>1, PromptKeeps, StopKeeps, SettleKeeps, AutoReadKeeps,
     AutoAnswerKeeps, AutoDiesKeeps, QualityAnswerKeeps, RecordStepKeeps
     DEF SessionSteps
<1>2. CASE PauseOrResume \/ CodexTakesOver
  BY <1>2 DEF PauseOrResume, CodexTakesOver, BlocksInv, BlocksTypeOK
<1>3. CASE UNCHANGED blockVars
  BY <1>3 DEF blockVars, BlocksInv, BlocksTypeOK
<1> QED BY <1>1, <1>2, <1>3 DEF BlocksNext

-----------------------------------------------------------------------------
(* Without progress a turn is sent back at most three times for open steps *)
(* and once for quality evidence (step-auto-continue.sh, quality-gate.mjs  *)
(* --hook), with any number of sessions, steps and prompts.                *)
THEOREM BlocksAreBounded == BlocksSpec => []BlocksBounded
<1>1. BlocksInv => BlocksBounded
  BY DEF BlocksInv, Good, Held, BlocksBounded
<1> QED BY <1>1, BlocksInvInit, BlocksInvStep, PTL DEF BlocksSpec
===============================================================================
