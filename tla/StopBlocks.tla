------------------------------ MODULE StopBlocks ------------------------------
(***************************************************************************)
(* The two hooks of the Claude side that keep a turn from ending:          *)
(*   auto     step-auto-continue.sh, while steps are open; the number of   *)
(*            blocks without progress is kept in a file of the session;    *)
(*   quality  quality-gate.mjs --hook, behind the first quality milestone, *)
(*            while the measured evidence is missing.                      *)
(*                                                                         *)
(* The host runs both at every Stop of a session and goes on with the turn *)
(* if one blocks; from then on it sets stop_hook_active.  Sessions share   *)
(* the progress record.  What the hooks do to it is ClaudeProgress' part:  *)
(* here it is the number of recorded steps, pause and Codex ownership.     *)
(*                                                                         *)
(* A definition whose comment starts with "Variant:" is a change that a    *)
(* property must rule out; no specification uses it.                       *)
(***************************************************************************)
EXTENDS Integers

CONSTANTS
  Sessions,    \* Claude sessions in the workspace
  OpenSteps,   \* steps of the run
  Milestone,   \* the first quality milestone
  MaxPrompts,  \* bound on turns
  MaxPauses    \* bound on pauses, resumptions and imports

ASSUME BlocksAssumption ==
  {OpenSteps, Milestone, MaxPrompts, MaxPauses} \subseteq Nat

VARIABLES
  recorded,    \* steps the record names as completed
  steering,    \* who steers the run: "claude", "paused" or "codex"
  turn,        \* session -> where its turn is
  stallFile,   \* session -> the recorded steps and the count of its file
  blocked,     \* history: session -> the steps auto saw at its last block,
               \* its blocks in a row there, the blocks of quality
  prompts,     \* how much of MaxPrompts is used
  pauses       \* how much of MaxPauses is used

blockVars == <<recorded, steering, turn, stallFile, blocked, prompts,
               pauses>>

StallLimit == 3

(* auto, quality: what the hook of the Stop under way has answered so far; *)
(* saw: the steps that auto read.                                          *)
NoTurn == [at |-> "idle", active |-> FALSE, auto |-> "silent",
           quality |-> "silent", saw |-> 0]

NoStall   == [steps |-> -1, count |-> 0]
NoBlocks  == [steps |-> -1, auto |-> 0, quality |-> 0]

BlocksInit ==
  /\ recorded = 0 /\ steering = "claude"
  /\ turn = [s \in Sessions |-> NoTurn]
  /\ stallFile = [s \in Sessions |-> NoStall]
  /\ blocked = [s \in Sessions |-> NoBlocks]
  /\ prompts = 0 /\ pauses = 0

-----------------------------------------------------------------------------
(* The host                                                                *)

Prompt(s) ==
  /\ turn[s].at = "idle"
  /\ prompts < MaxPrompts
  /\ prompts' = prompts + 1
  /\ turn' = [turn EXCEPT ![s] = [NoTurn EXCEPT !.at = "works"]]
  /\ blocked' = [blocked EXCEPT ![s] = NoBlocks]
  /\ UNCHANGED <<recorded, steering, stallFile, pauses>>

Stop(s) ==
  /\ turn[s].at = "works"
  /\ turn' = [turn EXCEPT ![s].at = "stops", ![s].auto = "asked",
                          ![s].quality = "asked"]
  /\ UNCHANGED <<recorded, steering, stallFile, blocked, prompts,
                 pauses>>

Settle(s) ==
  /\ turn[s].at = "stops"
  /\ {turn[s].auto, turn[s].quality} \subseteq {"block", "silent"}
  /\ turn' = [turn EXCEPT ![s] =
       IF "block" \in {turn[s].auto, turn[s].quality}
       THEN [NoTurn EXCEPT !.at = "works", !.active = TRUE] ELSE NoTurn]
  /\ UNCHANGED <<recorded, steering, stallFile, blocked, prompts,
                 pauses>>

-----------------------------------------------------------------------------
(* step-auto-continue.sh                                                   *)

AutoRead(s) ==
  /\ turn[s].auto = "asked"
  /\ turn' = IF steering # "claude" \/ recorded >= OpenSteps
             THEN [turn EXCEPT ![s].auto = "silent"]
             ELSE [turn EXCEPT ![s].auto = "read", ![s].saw = recorded]
  /\ UNCHANGED <<recorded, steering, stallFile, blocked, prompts,
                 pauses>>

(* Variant: the sessions of a workspace share one file.                    *)
SharedStall(s) == stallFile[CHOOSE t \in Sessions : \A u \in Sessions :
                    stallFile[t].count <= stallFile[u].count]

Stall(s) == stallFile[s]

(* Only a Stop behind a block without progress counts.                     *)
NextStall(s) ==
  IF turn[s].active /\ Stall(s).steps = turn[s].saw
  THEN Stall(s).count + 1 ELSE 0

Least(i, j) == IF i <= j THEN i ELSE j

SaveStall(s) ==
  stallFile' = [stallFile EXCEPT ![s] =
    [steps |-> turn[s].saw, count |-> Least(NextStall(s), StallLimit)]]

AutoAnswer(s) ==
  /\ turn[s].auto = "read"
  /\ SaveStall(s)
  /\ IF NextStall(s) >= StallLimit
     THEN /\ turn' = [turn EXCEPT ![s].auto = "silent", ![s].saw = 0]
          /\ UNCHANGED blocked
     ELSE /\ turn' = [turn EXCEPT ![s].auto = "block", ![s].saw = 0]
          /\ blocked' = [blocked EXCEPT ![s].steps = turn[s].saw,
               ![s].auto = IF blocked[s].steps = turn[s].saw THEN @ + 1 ELSE 1]
  /\ UNCHANGED <<recorded, steering, prompts, pauses>>

(* run-hook.mjs does not start the hook, the hook fails, or it is stopped  *)
(* at its budget, before or after it replaced its file.                    *)
AutoDies(s) ==
  /\ turn[s].auto \in {"asked", "read"}
  /\ turn' = [turn EXCEPT ![s].auto = "silent", ![s].saw = 0]
  /\ (turn[s].auto = "read" /\ SaveStall(s)) \/ UNCHANGED stallFile
  /\ UNCHANGED <<recorded, steering, blocked, prompts, pauses>>

-----------------------------------------------------------------------------
(* quality-gate.mjs --hook                                                 *)

(* Variant: missing evidence blocks every Stop.                            *)
QualityMayBlockAlways(s) == TRUE

QualityMayBlock(s) == ~turn[s].active

(* A run that is paused, owned by Codex or before the milestone is let go. *)
QualityAnswer(s, passes) ==
  /\ turn[s].quality = "asked"
  /\ IF steering # "claude" \/ recorded < Milestone \/ passes
          \/ ~QualityMayBlock(s)
     THEN /\ turn' = [turn EXCEPT ![s].quality = "silent"]
          /\ UNCHANGED blocked
     ELSE /\ turn' = [turn EXCEPT ![s].quality = "block"]
          /\ blocked' = [blocked EXCEPT ![s].quality = @ + 1]
  /\ UNCHANGED <<recorded, steering, stallFile, prompts, pauses>>

-----------------------------------------------------------------------------
(* A session records a step; the run is paused and resumed; Codex imports  *)
(* it.                                                                     *)
RecordStep(s) ==
  /\ turn[s].at = "works"
  /\ recorded < OpenSteps
  /\ recorded' = recorded + 1
  /\ UNCHANGED <<steering, turn, stallFile, blocked, prompts, pauses>>

PauseOrResume ==
  /\ pauses < MaxPauses
  /\ pauses' = pauses + 1
  /\ steering' = [claude |-> "paused", paused |-> "claude",
                  codex |-> "codex"][steering]
  /\ UNCHANGED <<recorded, turn, stallFile, blocked, prompts>>

CodexTakesOver ==
  /\ pauses < MaxPauses
  /\ pauses' = pauses + 1
  /\ steering' = "codex"
  /\ UNCHANGED <<recorded, turn, stallFile, blocked, prompts>>

SessionSteps(s) ==
  \/ Prompt(s) \/ Stop(s) \/ Settle(s)
  \/ AutoRead(s) \/ AutoAnswer(s) \/ AutoDies(s)
  \/ \E passes \in BOOLEAN : QualityAnswer(s, passes)
  \/ RecordStep(s)

BlocksNext ==
  (\E s \in Sessions : SessionSteps(s)) \/ PauseOrResume \/ CodexTakesOver

BlocksSpec == BlocksInit /\ [][BlocksNext]_blockVars

-----------------------------------------------------------------------------
(* The hooks do not hold a turn for ever: without progress a turn is sent  *)
(* back at most three times for its open steps, whatever other sessions do *)
(* at the same time and however hooks of it died, and once for its quality *)
(* evidence (the stall file, stop_hook_active).                            *)
BlocksBounded ==
  \A s \in Sessions : blocked[s].auto <= StallLimit /\ blocked[s].quality <= 1
=============================================================================
