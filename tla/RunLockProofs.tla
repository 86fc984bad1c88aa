--------------------------- MODULE RunLockProofs ----------------------------
(***************************************************************************)
(* Mutual exclusion of the run lock, for any number of processes, calls    *)
(* and refused rmdir calls.                                                *)
(***************************************************************************)
EXTENDS RunLock, TLAPS

USE ConstantsAssumption DEF Tokens

(* The initial state of an unused workspace satisfies the invariant.       *)
LEMMA LockInvInit == Init => LockInv
  BY SMT DEF Init, LockInv, TypeOK, TokensMade, TargetsDead, InsideOwns, NoDir, Phases

(* Where a failed attempt or a finished release may continue.              *)
LEMMA RetryGoes ==
  ASSUME NEW p \in Procs, Retry(p)
  PROVE  \E phase \in {"idle", "check"} : pc' = [pc EXCEPT ![p] = phase]
  BY DEF Retry, Goto, Releasing

(* What a change of the claims leaves alone.                               *)
LEMMA ClaimsChanged ==
  ASSUME TypeOK, NEW C \in SUBSET Tokens, dir' = [dir EXCEPT !.claims = C]
  PROVE  /\ dir' \in [gen : 0 .. MaxCalls, claims : SUBSET Tokens]
         /\ dir'.gen = dir.gen
         /\ dir'.claims = C
  BY DEF TypeOK

(* What looking at the directory records.                                  *)
LEMMA Looked ==
  ASSUME TypeOK, NEW p \in Procs, NEW c \in 0 .. MaxCalls, Look(p, c)
  PROVE  /\ seen' \in [Procs -> [gen : 0 .. MaxCalls, claim : 0 .. MaxCalls]]
         /\ seen'[p].claim = c
         /\ \A q \in Procs \ {p} : seen'[q] = seen[q]
<1>1. [gen |-> dir.gen, claim |-> c] \in [gen : 0 .. MaxCalls, claim : 0 .. MaxCalls]
  BY DEF TypeOK
<1> QED BY <1>1 DEF TypeOK, Look

LEMMA CallKeeps ==
  ASSUME LockInv, NEW p \in Procs, Call(p)
  PROVE  LockInv'
<1> USE DEF LockInv, Call, At, Goto
<1>1. TypeOK'
  BY DEF TypeOK, Phases
<1>2. TokensMade'
  BY DEF TypeOK, TokensMade
<1>3. TargetsDead'
  BY DEF TypeOK, TokensMade, TargetsDead
<1>4. InsideOwns'
  BY DEF TypeOK, TokensMade, InsideOwns
<1> QED BY <1>1, <1>2, <1>3, <1>4

(* Steps that only move a process on, outside the lock.                    *)
LEMMA MoveKeeps ==
  ASSUME LockInv, NEW p \in Procs, pc[p] # "idle",
         NEW phase \in {"idle", "check", "publish", "observe", "verify", "remove"},
         pc' = [pc EXCEPT ![p] = phase],
         faults' \in 0 .. MaxFaults,
         UNCHANGED <<dir, mine, seen, maker, alive, calls>>
  PROVE  LockInv'
<1> USE DEF LockInv
<1>1. TypeOK'
  BY DEF TypeOK, Phases
<1>2. TokensMade'
  BY DEF TypeOK, TokensMade
<1>3. TargetsDead'
  BY DEF TypeOK, TargetsDead
<1>4. InsideOwns'
  BY DEF TypeOK, InsideOwns
<1> QED BY <1>1, <1>2, <1>3, <1>4

(* A renamed staging directory: only where no claim was, so nobody alive   *)
(* is inside.                                                              *)
LEMMA PublishKeeps ==
  ASSUME LockInv, NEW p \in Procs, Publish(p)
  PROVE  LockInv'
<1> USE DEF LockInv, Publish, At, Goto
<1>1. TypeOK'
  BY DEF TypeOK, TokensMade, Phases
<1>2. TokensMade'
  BY DEF TypeOK, TokensMade
<1>3. TargetsDead'
  BY DEF TypeOK, TargetsDead
<1>4. InsideOwns'
  BY DEF TypeOK, InsideOwns
<1> QED BY <1>1, <1>2, <1>3, <1>4

(* An observation that starts a reclaim: of a dead claim or of none.       *)
LEMMA ReclaimKeeps ==
  ASSUME LockInv, NEW p \in Procs, Reclaim(p)
  PROVE  LockInv'
<1>0. PICK c \in 0 .. MaxCalls :
        /\ Look(p, c)
        /\ c <= calls
        /\ c # 0 => maker[c] \notin alive
  BY DEF Reclaim, ObserveDead, ObserveEmpty, LockInv, TypeOK, TokensMade
<1>a. /\ p \in alive
      /\ pc[p] = "observe"
      /\ pc' = [pc EXCEPT ![p] = "confirm"]
      /\ UNCHANGED <<dir, mine, maker, alive, calls, faults>>
  BY DEF Reclaim, ObserveDead, ObserveEmpty, At, Goto
<1>b. /\ seen' \in [Procs -> [gen : 0 .. MaxCalls, claim : 0 .. MaxCalls]]
      /\ seen'[p].claim = c
      /\ \A q \in Procs \ {p} : seen'[q] = seen[q]
  BY <1>0, Looked DEF LockInv
<1> USE <1>a, <1>b DEF LockInv
<1>1. TypeOK'
  BY DEF TypeOK, Phases
<1>2. TokensMade'
  BY <1>0 DEF TypeOK, TokensMade
<1>3. TargetsDead'
  BY <1>0 DEF TypeOK, TokensMade, TargetsDead
<1>4. InsideOwns'
  BY DEF TypeOK, InsideOwns
<1> QED BY <1>1, <1>2, <1>3, <1>4

LEMMA ConfirmKeeps ==
  ASSUME LockInv, NEW p \in Procs, Confirm(p)
  PROVE  LockInv'
<1>1. CASE dir.gen # seen[p].gen
  <2>1. PICK phase \in {"idle", "check"} : pc' = [pc EXCEPT ![p] = phase]
    BY <1>1, RetryGoes DEF Confirm
  <2> QED BY <2>1, MoveKeeps DEF Confirm, At, LockInv, TypeOK
<1>2. CASE dir.gen = seen[p].gen /\ seen[p].claim = 0
  BY <1>2, MoveKeeps DEF Confirm, Goto, At, LockInv, TypeOK
<1>3. CASE dir.gen = seen[p].gen /\ seen[p].claim # 0
  <2> USE <1>3 DEF LockInv, Confirm, At, Goto
  <2>1. TypeOK'
    BY DEF TypeOK, Phases
  <2>2. TokensMade'
    BY DEF TypeOK, TokensMade
  <2>3. TargetsDead'
    BY DEF TypeOK, TargetsDead
  <2>4. InsideOwns'
    BY DEF TypeOK, InsideOwns
  <2> QED BY <2>1, <2>2, <2>3, <2>4
<1> QED BY <1>1, <1>2, <1>3

(* The archived claim is a dead process's, never that of one inside.       *)
LEMMA ArchiveKeeps ==
  ASSUME LockInv, NEW p \in Procs, Archive(p)
  PROVE  LockInv'
<1>1. CASE seen[p].claim \notin dir.claims
  <2>1. PICK phase \in {"idle", "check"} : pc' = [pc EXCEPT ![p] = phase]
    BY <1>1, RetryGoes DEF Archive
  <2> QED BY <1>1, <2>1, MoveKeeps DEF Archive, At, LockInv, TypeOK
<1>2. CASE seen[p].claim \in dir.claims
  <2>0. /\ dir' \in [gen : 0 .. MaxCalls, claims : SUBSET Tokens]
        /\ dir'.gen = dir.gen
        /\ dir'.claims = dir.claims \ {seen[p].claim}
    <3>1. dir.claims \ {seen[p].claim} \in SUBSET Tokens
      BY DEF LockInv, TypeOK
    <3> QED BY <1>2, <3>1, ClaimsChanged DEF LockInv, Archive
  <2> USE <1>2, <2>0 DEF LockInv, Archive, At, Goto
  <2>1. TypeOK'
    BY DEF TypeOK, Phases
  <2>2. TokensMade'
    BY DEF TypeOK, TokensMade
  <2>3. TargetsDead'
    BY DEF TypeOK, TargetsDead
  <2>4. InsideOwns'
    BY DEF TypeOK, TokensMade, TargetsDead, InsideOwns
  <2> QED BY <2>1, <2>2, <2>3, <2>4
<1> QED BY <1>1, <1>2

LEMMA VerifyKeeps ==
  ASSUME LockInv, NEW p \in Procs, Verify(p)
  PROVE  LockInv'
<1>1. PICK phase \in {"idle", "check", "remove"} : pc' = [pc EXCEPT ![p] = phase]
  BY RetryGoes DEF Verify, Goto
<1> QED BY <1>1, MoveKeeps DEF Verify, At, LockInv, TypeOK

(* rmdir removes an empty directory only: nobody alive is inside.          *)
LEMMA RemoveKeeps ==
  ASSUME LockInv, NEW p \in Procs, Remove(p)
  PROVE  LockInv'
<1>0. dir' \in [gen : 0 .. MaxCalls, claims : SUBSET Tokens]
  BY DEF Remove, NoDir
<1> USE <1>0 DEF LockInv, Remove, At, Goto, NoDir
<1>1. TypeOK'
  BY DEF TypeOK, Phases
<1>2. TokensMade'
  BY DEF TypeOK, TokensMade
<1>3. TargetsDead'
  BY DEF TypeOK, TargetsDead
<1>4. InsideOwns'
  BY DEF TypeOK, InsideOwns
<1> QED BY <1>1, <1>2, <1>3, <1>4

LEMMA RemoveFailsKeeps ==
  ASSUME LockInv, NEW p \in Procs, RemoveFails(p)
  PROVE  LockInv'
<1>0. faults' \in 0 .. MaxFaults
  BY DEF LockInv, TypeOK, RemoveFails
<1>1. CASE dir.gen = seen[p].gen /\ seen[p].claim # 0
  <2> USE <1>0, <1>1 DEF LockInv, RemoveFails, At, Goto
  <2>1. TypeOK'
    BY DEF TypeOK, Phases
  <2>2. TokensMade'
    BY DEF TypeOK, TokensMade
  <2>3. TargetsDead'
    BY DEF TypeOK, TargetsDead
  <2>4. InsideOwns'
    BY DEF TypeOK, InsideOwns
  <2> QED BY <2>1, <2>2, <2>3, <2>4
<1>2. CASE ~(dir.gen = seen[p].gen /\ seen[p].claim # 0)
  <2>1. PICK phase \in {"idle", "check"} : pc' = [pc EXCEPT ![p] = phase]
    BY <1>2, RetryGoes DEF RemoveFails
  <2> QED BY <1>0, <2>1, MoveKeeps DEF RemoveFails, At, LockInv, TypeOK
<1> QED BY <1>1, <1>2

(* A claim that lands in a successor's directory takes nothing away.       *)
LEMMA RestoreKeeps ==
  ASSUME LockInv, NEW p \in Procs, Restore(p)
  PROVE  LockInv'
<1>0. PICK phase \in {"idle", "check"} : pc' = [pc EXCEPT ![p] = phase]
  BY RetryGoes DEF Restore
<1>a. /\ dir' \in [gen : 0 .. MaxCalls, claims : SUBSET Tokens]
      /\ dir'.gen = dir.gen
      /\ dir.claims \subseteq dir'.claims
      /\ dir'.claims \subseteq dir.claims \union {seen[p].claim}
  <2>1. CASE dir.gen = 0
    BY <2>1 DEF Restore, LockInv, TypeOK
  <2>2. CASE dir.gen # 0
    <3>1. dir.claims \union {seen[p].claim} \in SUBSET Tokens
      BY DEF LockInv, TypeOK, TargetsDead, Restore, At
    <3> QED BY <2>2, <3>1, ClaimsChanged DEF LockInv, Restore
  <2> QED BY <2>1, <2>2
<1> USE <1>0, <1>a DEF LockInv, Restore, At
<1>1. TypeOK'
  BY DEF TypeOK, TokensMade, TargetsDead, Phases
<1>2. TokensMade'
  BY DEF TypeOK, TokensMade, TargetsDead
<1>3. TargetsDead'
  BY DEF TypeOK, TargetsDead
<1>4. InsideOwns'
  BY DEF TypeOK, InsideOwns
<1> QED BY <1>1, <1>2, <1>3, <1>4

LEMMA ReleaseKeeps ==
  ASSUME LockInv, NEW p \in Procs, Release(p)
  PROVE  LockInv'
<1>0. PICK phase \in {"retire", "idle"} : pc' = [pc EXCEPT ![p] = phase]
  BY DEF Release, Goto
<1>a. /\ seen' \in [Procs -> [gen : 0 .. MaxCalls, claim : 0 .. MaxCalls]]
      /\ seen'[p].claim \in {seen[p].claim, mine[p]}
      /\ \A q \in Procs \ {p} : seen'[q] = seen[q]
  <2>1. CASE UNCHANGED seen
    BY <2>1 DEF LockInv, TypeOK
  <2>2. CASE Look(p, mine[p])
    BY <2>2, Looked DEF LockInv, TypeOK
  <2> QED BY <2>1, <2>2 DEF Release
<1>b. /\ p \in alive
      /\ pc[p] = "critical"
      /\ UNCHANGED <<dir, mine, maker, alive, calls, faults>>
  BY DEF Release, At
<1> USE <1>0, <1>a, <1>b DEF LockInv
<1>1. TypeOK'
  BY DEF TypeOK, Phases
<1>2. TokensMade'
  <2>1. mine[p] <= calls /\ \A q \in Procs : seen[q].claim <= calls
    BY DEF TokensMade
  <2>2. \A q \in Procs : seen'[q].claim <= calls
    BY <2>1
  <2>3. \A q \in Procs : pc'[q] # "idle" => pc[q] # "idle"
    BY DEF TypeOK
  <2> QED BY <2>2, <2>3 DEF TokensMade
<1>3. TargetsDead'
  BY DEF TypeOK, TargetsDead
<1>4. InsideOwns'
  BY DEF TypeOK, InsideOwns
<1> QED BY <1>1, <1>2, <1>3, <1>4

(* Renaming one's own claim away: two inside would share a token.          *)
LEMMA RetireKeeps ==
  ASSUME LockInv, NEW p \in Procs, Retire(p)
  PROVE  LockInv'
<1>0. /\ dir' \in [gen : 0 .. MaxCalls, claims : SUBSET Tokens]
      /\ dir'.gen = dir.gen
      /\ dir'.claims = dir.claims \ {mine[p]}
  <2>1. dir.claims \ {mine[p]} \in SUBSET Tokens
    BY DEF LockInv, TypeOK
  <2>2. CASE mine[p] \in dir.claims
    BY <2>1, <2>2, ClaimsChanged DEF LockInv, Retire
  <2>3. CASE mine[p] \notin dir.claims
    BY <2>1, <2>3 DEF LockInv, TypeOK, Retire
  <2> QED BY <2>2, <2>3
<1>a. PICK phase \in {"verify", "idle"} : pc' = [pc EXCEPT ![p] = phase]
  BY DEF Retire, Goto
<1>b. /\ p \in alive
      /\ pc[p] = "retire"
      /\ UNCHANGED <<mine, seen, maker, alive, calls, faults>>
  BY DEF Retire, At
<1> USE <1>0, <1>a, <1>b DEF LockInv
<1>1. TypeOK'
  BY DEF TypeOK, Phases
<1>2. TokensMade'
  BY DEF TypeOK, TokensMade
<1>3. TargetsDead'
  BY DEF TypeOK, TargetsDead
<1>4. InsideOwns'
  BY DEF TypeOK, TokensMade, InsideOwns
<1> QED BY <1>1, <1>2, <1>3, <1>4

LEMMA CrashKeeps ==
  ASSUME LockInv, NEW p \in Procs, Crash(p)
  PROVE  LockInv'
<1> USE DEF LockInv, Crash, Goto
<1>1. TypeOK'
  BY DEF TypeOK, Phases
<1>2. TokensMade'
  BY DEF TypeOK, TokensMade
<1>3. TargetsDead'
  BY DEF TypeOK, TargetsDead
<1>4. InsideOwns'
  BY DEF TypeOK, InsideOwns
<1> QED BY <1>1, <1>2, <1>3, <1>4

(* The invariant of the lock holds for every number of processes, calls    *)
(* and faults.                                                             *)
THEOREM LockInvariant == Spec => []LockInv
<1>1. LockInv /\ [Next]_vars => LockInv'
  <2> SUFFICES ASSUME LockInv, [Next]_vars PROVE LockInv'
    OBVIOUS
  <2>1. ASSUME NEW p \in Procs, Call(p) PROVE LockInv'
    BY <2>1, CallKeeps
  <2>2. ASSUME NEW p \in Procs, Reclaim(p) PROVE LockInv'
    BY <2>2, ReclaimKeeps
  <2>3. ASSUME NEW p \in Procs, Crash(p) PROVE LockInv'
    BY <2>3, CrashKeeps
  <2>4. ASSUME NEW p \in Procs, Step(p) PROVE LockInv'
    <3>1. CASE Check(p)
      BY <3>1, MoveKeeps DEF Check, At, Goto, LockInv, TypeOK
    <3>2. CASE Publish(p)
      BY <3>2, PublishKeeps
    <3>3. CASE PublishRefused(p)
      BY <3>3, MoveKeeps DEF PublishRefused, At, Goto, LockInv, TypeOK
    <3>4. CASE ObserveBusy(p)
      <4>1. PICK phase \in {"idle", "check"} : pc' = [pc EXCEPT ![p] = phase]
        BY <3>4, RetryGoes DEF ObserveBusy
      <4> QED BY <3>4, <4>1, MoveKeeps DEF ObserveBusy, At, LockInv, TypeOK
    <3>5. CASE Confirm(p)
      BY <3>5, ConfirmKeeps
    <3>6. CASE Archive(p)
      BY <3>6, ArchiveKeeps
    <3>7. CASE Verify(p)
      BY <3>7, VerifyKeeps
    <3>8. CASE Remove(p)
      BY <3>8, RemoveKeeps
    <3>9. CASE RemoveFails(p)
      BY <3>9, RemoveFailsKeeps
    <3>10. CASE Restore(p)
      BY <3>10, RestoreKeeps
    <3>11. CASE Release(p)
      BY <3>11, ReleaseKeeps
    <3>12. CASE Retire(p)
      BY <3>12, RetireKeeps
    <3> QED
      BY <2>4, <3>1, <3>2, <3>3, <3>4, <3>5, <3>6, <3>7, <3>8, <3>9, <3>10,
         <3>11, <3>12 DEF Step
  <2>5. CASE UNCHANGED vars
    BY <2>5 DEF vars, LockInv, TypeOK, TokensMade, TargetsDead, InsideOwns
  <2> QED BY <2>1, <2>2, <2>3, <2>4, <2>5 DEF Next
<1> QED BY <1>1, LockInvInit, PTL DEF Spec

(* Two live processes are never inside at the same time.                   *)
THEOREM MutualExclusionHolds == Spec => []MutualExclusion
<1>1. LockInv => MutualExclusion
  BY DEF LockInv, TokensMade, InsideOwns, MutualExclusion, Holds
<1> QED BY <1>1, LockInvariant, PTL

(* No reclaim takes the directory or the claim away from a live holder.    *)
THEOREM HolderKeepsClaimHolds == Spec => []HolderKeepsClaim
<1>1. LockInv => HolderKeepsClaim
  BY DEF LockInv, InsideOwns, HolderKeepsClaim, Holds
<1> QED BY <1>1, LockInvariant, PTL
=============================================================================
