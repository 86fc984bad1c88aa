------------------------------ MODULE RunLock -------------------------------
(***************************************************************************)
(* The workspace run lock of the Codex runtime: codex/scripts/lib/lock.mjs.*)
(*                                                                         *)
(* The lock is a directory that holds one claim file, owner-<token>.json.  *)
(* A caller stages directory and claim under a name of its own and renames *)
(* both into place.  It releases by renaming the claim away and removing   *)
(* the empty directory.  A directory left behind, with the claim of a dead *)
(* process or with none, is reclaimed by whoever wants the lock.  Each     *)
(* file-system call is an action of its own.                               *)
(*                                                                         *)
(* A token stands for the directory it was published with too: dev, inode  *)
(* and birth time are as unique as the token.  There is no clock: what may *)
(* be old enough to reclaim may be found so or not, each time it is seen.  *)
(*                                                                         *)
(* A definition whose comment starts with "Variant:" is a change that a    *)
(* property must rule out; no specification uses it.                       *)
(***************************************************************************)
EXTENDS Integers, FiniteSets

CONSTANTS
  Procs,      \* processes of this host that use the workspace
  NoProc,     \* the maker of a token not given out yet
  MaxCalls,   \* bound on calls of withRunLock
  MaxFaults   \* bound on rmdir calls the system refuses for reasons of its own

ASSUME ConstantsAssumption ==
  /\ NoProc \notin Procs
  /\ MaxCalls \in Nat
  /\ MaxFaults \in Nat

VARIABLES
  dir,      \* the lock directory: its generation (0 = none) and its claims
  pc,       \* what each process does next
  mine,     \* the token of each process's current call
  seen,     \* the directory and claim a process is taking down (claim 0 = none)
  maker,    \* the process behind each token: the pid in the claim
  alive,    \* processes that did not crash
  calls,    \* calls so far; the next token is calls + 1
  faults    \* how much of MaxFaults is used

vars == <<dir, pc, mine, seen, maker, alive, calls, faults>>

Tokens == 1 .. MaxCalls
NoDir  == [gen |-> 0, claims |-> {}]
Phases == {"idle", "check", "publish", "observe", "critical", "retire",
           "confirm", "archive", "verify", "remove", "restore"}

-----------------------------------------------------------------------------
Init ==
  /\ dir = NoDir
  /\ pc = [p \in Procs |-> "idle"]
  /\ mine = [p \in Procs |-> 0]
  /\ seen = [p \in Procs |-> [gen |-> 0, claim |-> 0]]
  /\ maker = [t \in Tokens |-> NoProc]
  /\ alive = Procs
  /\ calls = 0
  /\ faults = 0

At(p, phase)   == p \in alive /\ pc[p] = phase
Goto(p, phase) == pc' = [pc EXCEPT ![p] = phase]

(* acquireLock: an attempt that failed is repeated until the wait is over  *)
(* (LOCK_TIMEOUT).  A release that takes down its own claim just ends.     *)
Releasing(p) == seen[p].claim = mine[p]
Retry(p) == \E phase \in (IF Releasing(p) THEN {"idle"} ELSE {"check", "idle"}) :
              Goto(p, phase)

Look(p, claim) == seen' = [seen EXCEPT ![p] = [gen |-> dir.gen, claim |-> claim]]

-----------------------------------------------------------------------------
(* createLock                                                              *)

(* A fresh token, its claim staged where nobody looks.                     *)
Call(p) ==
  /\ At(p, "idle")
  /\ calls < MaxCalls
  /\ calls' = calls + 1
  /\ maker' = [maker EXCEPT ![calls + 1] = p]
  /\ mine' = [mine EXCEPT ![p] = calls + 1]
  /\ seen' = [seen EXCEPT ![p] = [gen |-> 0, claim |-> 0]]
  /\ Goto(p, "check")
  /\ UNCHANGED <<dir, alive, faults>>

Check(p) ==
  /\ At(p, "check")
  /\ Goto(p, IF dir.gen = 0 THEN "publish" ELSE "observe")
  /\ UNCHANGED <<dir, mine, seen, maker, alive, calls, faults>>

(* Variant: whatever directory has the name is replaced.                   *)
PublishOver(p) ==
  /\ At(p, "publish")
  /\ dir' = [gen |-> mine[p], claims |-> {mine[p]}]
  /\ Goto(p, "critical")
  /\ UNCHANGED <<mine, seen, maker, alive, calls, faults>>

(* POSIX renames over an empty directory, never over one with a claim.     *)
Publish(p) ==
  /\ At(p, "publish")
  /\ dir.claims = {}
  /\ dir' = [gen |-> mine[p], claims |-> {mine[p]}]
  /\ Goto(p, "critical")
  /\ UNCHANGED <<mine, seen, maker, alive, calls, faults>>

(* Windows refuses any existing directory.                                 *)
PublishRefused(p) ==
  /\ At(p, "publish")
  /\ dir.gen # 0
  /\ Goto(p, "observe")
  /\ UNCHANGED <<dir, mine, seen, maker, alive, calls, faults>>

-----------------------------------------------------------------------------
(* reclaimIfSafe                                                           *)

(* readObservedLock finds nothing it may take down, or nothing old enough. *)
ObserveBusy(p) ==
  /\ At(p, "observe")
  /\ Retry(p)
  /\ UNCHANGED <<dir, mine, seen, maker, alive, calls, faults>>

(* Variant: the process behind the claim is not looked for.                *)
ObserveAnyClaim(p) ==
  /\ At(p, "observe")
  /\ \E t \in dir.claims : dir.claims = {t} /\ Look(p, t)
  /\ Goto(p, "confirm")
  /\ UNCHANGED <<dir, mine, maker, alive, calls, faults>>

(* One claim, its process provably absent.                                 *)
ObserveDead(p) ==
  /\ At(p, "observe")
  /\ \E t \in dir.claims : dir.claims = {t} /\ maker[t] \notin alive /\ Look(p, t)
  /\ Goto(p, "confirm")
  /\ UNCHANGED <<dir, mine, maker, alive, calls, faults>>

(* Variant: an empty directory is taken for one being set up.              *)
ObserveEmptyBusy(p) ==
  /\ At(p, "observe")
  /\ dir.gen # 0
  /\ dir.claims = {}
  /\ Goto(p, "check")
  /\ UNCHANGED <<dir, mine, seen, maker, alive, calls, faults>>

(* No claim: a release or a reclaim stopped half-way.                      *)
ObserveEmpty(p) ==
  /\ At(p, "observe")
  /\ dir.gen # 0
  /\ dir.claims = {}
  /\ Look(p, 0)
  /\ Goto(p, "confirm")
  /\ UNCHANGED <<dir, mine, maker, alive, calls, faults>>

Confirm(p) ==
  /\ At(p, "confirm")
  /\ IF dir.gen # seen[p].gen THEN Retry(p)
     ELSE Goto(p, IF seen[p].claim = 0 THEN "verify" ELSE "archive")
  /\ UNCHANGED <<dir, mine, seen, maker, alive, calls, faults>>

(* The dead claim is renamed away; a file that is gone fails.              *)
Archive(p) ==
  /\ At(p, "archive")
  /\ IF seen[p].claim \in dir.claims
     THEN dir' = [dir EXCEPT !.claims = @ \ {seen[p].claim}] /\ Goto(p, "verify")
     ELSE UNCHANGED dir /\ Retry(p)
  /\ UNCHANGED <<mine, seen, maker, alive, calls, faults>>

-----------------------------------------------------------------------------
(* removeObservedDirectory, of a reclaim and of a release alike            *)

Verify(p) ==
  /\ At(p, "verify")
  /\ IF dir.gen = seen[p].gen THEN Goto(p, "remove") ELSE Retry(p)
  /\ UNCHANGED <<dir, mine, seen, maker, alive, calls, faults>>

(* Variant: the directory goes with all that is in it.                     *)
RemoveAll(p) ==
  /\ At(p, "remove")
  /\ dir' = NoDir
  /\ IF Releasing(p) THEN Goto(p, "idle") ELSE Goto(p, "check")
  /\ UNCHANGED <<mine, seen, maker, alive, calls, faults>>

(* rmdir: whichever directory has the name now, if it is empty.            *)
Remove(p) ==
  /\ At(p, "remove")
  /\ dir.claims = {}
  /\ dir' = NoDir
  /\ IF Releasing(p) THEN Goto(p, "idle") ELSE Goto(p, "check")
  /\ UNCHANGED <<mine, seen, maker, alive, calls, faults>>

(* The directory is not empty, or the system refuses.  If it is still the  *)
(* observed one, the claim that was taken out goes back.                   *)
RemoveFails(p) ==
  /\ At(p, "remove")
  /\ dir.gen # 0
  /\ IF dir.claims # {} THEN UNCHANGED faults
     ELSE faults < MaxFaults /\ faults' = faults + 1
  /\ IF dir.gen = seen[p].gen /\ seen[p].claim # 0 THEN Goto(p, "restore") ELSE Retry(p)
  /\ UNCHANGED <<dir, mine, seen, maker, alive, calls>>

(* restoreClaim: the link lands in whichever directory has the name now.   *)
Restore(p) ==
  /\ At(p, "restore")
  /\ dir' = IF dir.gen = 0 THEN dir
                           ELSE [dir EXCEPT !.claims = @ \union {seen[p].claim}]
  /\ Retry(p)
  /\ UNCHANGED <<mine, seen, maker, alive, calls, faults>>

-----------------------------------------------------------------------------
(* releaseLock                                                             *)

Release(p) ==
  /\ At(p, "critical")
  /\ IF dir.gen = mine[p] THEN Goto(p, "retire") /\ Look(p, mine[p])
                          ELSE Goto(p, "idle") /\ UNCHANGED seen
  /\ UNCHANGED <<dir, mine, maker, alive, calls, faults>>

Retire(p) ==
  /\ At(p, "retire")
  /\ IF mine[p] \in dir.claims
     THEN dir' = [dir EXCEPT !.claims = @ \ {mine[p]}] /\ Goto(p, "verify")
     ELSE UNCHANGED dir /\ Goto(p, "idle")
  /\ UNCHANGED <<mine, seen, maker, alive, calls, faults>>

(* The process dies, wherever it is; what it knew is gone.                 *)
Crash(p) ==
  /\ p \in alive
  /\ alive' = alive \ {p}
  /\ Goto(p, "idle")
  /\ mine' = [mine EXCEPT ![p] = 0]
  /\ seen' = [seen EXCEPT ![p] = [gen |-> 0, claim |-> 0]]
  /\ UNCHANGED <<dir, maker, calls, faults>>

-----------------------------------------------------------------------------
Reclaim(p) == ObserveDead(p) \/ ObserveEmpty(p)

Step(p) ==
  \/ Check(p) \/ Publish(p) \/ PublishRefused(p)
  \/ ObserveBusy(p)
  \/ Confirm(p) \/ Archive(p)
  \/ Verify(p) \/ Remove(p) \/ RemoveFails(p) \/ Restore(p)
  \/ Release(p) \/ Retire(p)

Next == \E p \in Procs : Call(p) \/ Step(p) \/ Reclaim(p) \/ Crash(p)

Spec == Init /\ [][Next]_vars

(* A process goes on unless it crashes, and sooner or later what it looks  *)
(* at again and again is old enough to reclaim.                            *)
FairSpec == Spec /\ \A p \in Procs : WF_vars(Step(p)) /\ SF_vars(Reclaim(p))

-----------------------------------------------------------------------------
(* Properties                                                              *)

TypeOK ==
  /\ dir \in [gen : 0 .. MaxCalls, claims : SUBSET Tokens]
  /\ pc \in [Procs -> Phases]
  /\ mine \in [Procs -> 0 .. MaxCalls]
  /\ seen \in [Procs -> [gen : 0 .. MaxCalls, claim : 0 .. MaxCalls]]
  /\ maker \in [Tokens -> Procs \union {NoProc}]
  /\ alive \in SUBSET Procs
  /\ calls \in 0 .. MaxCalls
  /\ faults \in 0 .. MaxFaults

(* Every token in use was given out, to the process that uses it.          *)
TokensMade ==
  /\ dir.gen <= calls
  /\ \A t \in dir.claims : t \in 1 .. calls
  /\ \A p \in Procs : seen[p].claim <= calls
  /\ \A p \in Procs : pc[p] # "idle" => mine[p] \in 1 .. calls /\ maker[mine[p]] = p

(* A claim is renamed away by its own process or after that one's death.   *)
TargetsDead ==
  \A p \in Procs :
    /\ pc[p] \in {"confirm", "archive"} /\ seen[p].claim # 0 => maker[seen[p].claim] \notin alive
    /\ pc[p] \in {"archive", "restore"} => seen[p].claim # 0

(* Whoever is inside owns the directory until its claim is renamed away.   *)
InsideOwns ==
  \A p \in alive : pc[p] \in {"critical", "retire"} =>
    dir.gen = mine[p] /\ mine[p] \in dir.claims

(* The inductive invariant behind the two properties below: no sequence of *)
(* overlapping calls, crashes and reclaims leaves it.                      *)
LockInv == TypeOK /\ TokensMade /\ TargetsDead /\ InsideOwns

Holds(p) == p \in alive /\ pc[p] = "critical"

(* withRunLock runs the callbacks of two live processes one after the      *)
(* other, also while crashed holders are being reclaimed: this is what     *)
(* makes an operation of the workflow manager atomic.                      *)
MutualExclusion == \A p, q \in Procs : Holds(p) /\ Holds(q) => p = q

(* The lock directory of a live holder stays its own until it releases:    *)
(* no reclaim takes the directory or the claim away from it.               *)
HolderKeepsClaim ==
  \A p \in Procs : Holds(p) => dir.gen = mine[p] /\ mine[p] \in dir.claims

(* Nobody alive stands behind the directory.                               *)
Abandoned ==
  /\ dir.gen # 0
  /\ \A t \in dir.claims \union {dir.gen} :
       maker[t] \notin alive \/ mine[maker[t]] # t \/ pc[maker[t]] = "idle"

NobodyTries == \A p \in alive : pc[p] \in {"idle", "critical"}

(* A lock that a crash left behind, with its claim or without, does not    *)
(* stay for ever while somebody wants it.  A refused rmdir can put a       *)
(* second claim beside the first (RestoreOnlyObserved), and a directory    *)
(* with two claims does stay.                                              *)
AbandonedIsReclaimed ==
  Abandoned ~> (~Abandoned \/ NobodyTries \/ faults > 0)

(* "Restore only into the observed generation, never into a successor."    *)
RestoreOnlyObserved ==
  [][\A p \in Procs : Restore(p) /\ dir.gen # 0 => dir.gen = seen[p].gen]_vars
=============================================================================
