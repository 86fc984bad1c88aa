------------------------ MODULE WorkflowLedgerProofs ------------------------
(***************************************************************************)
(* That the workflow manager implements the step ledger, counts a failure  *)
(* once and never presses the host for ever, for any number of steps,      *)
(* sessions, turns and disruptions.  The invariant of WorkflowProofs is    *)
(* not enough: what the ledger allows depends on which receipts lie under  *)
(* the completed steps (KindsFit), and that no work is recovered out of a  *)
(* block (Earned).                                                         *)
(***************************************************************************)
EXTENDS WorkflowProofs

USE ConstantsAssumption DEF Steps, Slots, Callers

-----------------------------------------------------------------------------
(* What the changes of the state do to the fields the ledger counts        *)

SameCount(t, s) ==
  /\ t.status = s.status
  /\ t.completed = s.completed
  /\ t.imported = s.imported
  /\ t.failures = s.failures
  /\ t.attempt = s.attempt

SameControl(t, s) ==
  /\ SameCount(t, s)
  /\ t.continuation = s.continuation
  /\ t.delivery = s.delivery

(* A marker nobody was asked to answer yet.                                *)
Unasked(s) == Waiting(s) /\ s.delivery.turn = NoTurn

LEMMA RenewedFields ==
  ASSUME NEW s \in State
  PROVE  Renewed(s) \in State /\ SameControl(Renewed(s), s)
  BY DEF Renewed, SameControl, SameCount, State, Owner

LEMMA OwnerReleasedFields ==
  ASSUME NEW s \in State
  PROVE  OwnerReleased(s) \in State /\ SameControl(OwnerReleased(s), s)
<1>1. NoOwner \in Owner
  BY DEF NoOwner, Owner
<1> QED BY <1>1 DEF OwnerReleased, SameControl, SameCount, State

LEMMA IssuedFields ==
  ASSUME NEW s \in State, NEW allow \in BOOLEAN, nonces \in Nat
  PROVE  /\ Issued(s, allow) \in State
         /\ SameCount(Issued(s, allow), s)
         /\ Unasked(Issued(s, allow))
<1> DEFINE n == nonces + 1
           f == FreshDelivery(allow)
<1>1. n \in Nat /\ n # 0 /\ f \in Delivery /\ f.turn = NoTurn
  BY DEF FreshDelivery, Delivery
<1>2. Issued(s, allow) = [s EXCEPT !.continuation = n, !.delivery = f]
  BY DEF Issued
<1> HIDE DEF n, f
<1> QED BY <1>1, <1>2 DEF SameCount, Unasked, Waiting, State

LEMMA RequestedFields ==
  ASSUME NEW s \in State, NEW t \in Turns
  PROVE  /\ Requested(s, t) \in State
         /\ SameCount(Requested(s, t), s)
         /\ Requested(s, t).continuation = s.continuation
         /\ Requested(s, t).delivery.turn = t
<1> DEFINE d == [s.delivery EXCEPT !.turn = t]
<1>1. d \in Delivery /\ d.turn = t
  BY DEF State, Delivery
<1>2. Requested(s, t) = [s EXCEPT !.delivery = d]
  BY DEF Requested
<1> HIDE DEF d
<1>3. Requested(s, t) \in State /\ Requested(s, t).delivery = d
  BY <1>1, <1>2 DEF State
<1>4. SameCount(Requested(s, t), s) /\ Requested(s, t).continuation = s.continuation
  BY <1>1, <1>2 DEF SameCount, State
<1> QED BY <1>1, <1>3, <1>4

(* One failure more; the third in a row blocks.                            *)
LEMMA RecordFailureFields ==
  ASSUME NEW s \in State, nonces \in Nat
  PROVE  LET f == RecordFailure(s)
         IN  /\ f \in State
             /\ f.completed = s.completed
             /\ f.imported = s.imported
             /\ f.failures = s.failures + 1
             /\ f.attempt = [s.attempt EXCEPT !.failed = TRUE]
             /\ IF s.failures + 1 >= RetryLimit
                THEN f.status = "blocked"
                ELSE f.status = s.status /\ Unasked(f)
<1> DEFINE n == s.failures + 1
           g == [s.attempt EXCEPT !.failed = TRUE]
           f == Failed(s)
           b == [f EXCEPT !.status = "blocked", !.reason = "THREE_CONSECUTIVE_FAILURES"]
<1>0. s.failures \in Nat /\ s.attempt \in Attempt
  BY DEF State
<1>1. /\ n \in Nat /\ n = s.failures + 1
      /\ g \in Attempt /\ g = [s.attempt EXCEPT !.failed = TRUE]
  <2>1. n \in Nat
    BY <1>0
  <2>2. g \in Attempt
    BY <1>0 DEF Attempt
  <2> QED BY <2>1, <2>2
<1>2. f = [s EXCEPT !.failures = n, !.attempt = g]
  BY DEF Failed
<1>3. RecordFailure(s) = IF n >= RetryLimit THEN Withdrawn(b) ELSE Issued(f, TRUE)
  BY DEF RecordFailure
<1> HIDE DEF n, g, f
<1>4. /\ f \in State
      /\ f.status = s.status
      /\ f.completed = s.completed
      /\ f.imported = s.imported
      /\ f.failures = n
      /\ f.attempt = g
  BY <1>1, <1>2 DEF State
<1>5. /\ b \in State
      /\ b.status = "blocked"
      /\ b.completed = s.completed
      /\ b.imported = s.imported
      /\ b.failures = n
      /\ b.attempt = g
  BY <1>4 DEF State, Statuses, Reasons
<1> HIDE DEF b
<1>6. CASE n >= RetryLimit
  <2>1. RecordFailure(s) = Withdrawn(b)
    BY <1>3, <1>6
  <2>2. /\ Withdrawn(b) \in State
        /\ Withdrawn(b).status = "blocked"
        /\ Withdrawn(b).completed = s.completed
        /\ Withdrawn(b).imported = s.imported
        /\ Withdrawn(b).failures = n
        /\ Withdrawn(b).attempt = g
    BY <1>5, WithdrawnFields
  <2> QED BY <1>1, <1>6, <2>1, <2>2
<1>7. CASE ~(n >= RetryLimit)
  <2>1. RecordFailure(s) = Issued(f, TRUE)
    BY <1>3, <1>7
  <2>2. /\ Issued(f, TRUE) \in State
        /\ SameCount(Issued(f, TRUE), f)
        /\ Unasked(Issued(f, TRUE))
    BY <1>4, IssuedFields
  <2> QED BY <1>1, <1>4, <1>7, <2>1, <2>2 DEF SameCount
<1> QED BY <1>6, <1>7

LEMMA AdvancedFields ==
  ASSUME NEW s \in State, s.completed < TotalSteps, nonces \in Nat
  PROVE  LET a == Advanced(s)
         IN  /\ a \in State
             /\ a.status = IF s.completed + 1 = TotalSteps THEN "completed"
                                                           ELSE s.status
             /\ a.completed = s.completed + 1
             /\ a.imported = s.imported
             /\ a.failures = 0
             /\ a.attempt = NoAttempt
<1> DEFINE n == s.completed + 1
           a == [s EXCEPT !.completed = n, !.attempt = NoAttempt, !.failures = 0]
           d == Withdrawn(a)
<1>1. n \in 0 .. TotalSteps /\ n = s.completed + 1 /\ NoAttempt \in Attempt
  BY DEF NoAttempt, Attempt, State
<1>2. Advanced(s) = IF d.completed = TotalSteps
                    THEN [d EXCEPT !.status = "completed"] ELSE Issued(d, TRUE)
  BY DEF Advanced, AllDone
<1> HIDE DEF n
<1>3. /\ a \in State
      /\ a.status = s.status
      /\ a.completed = n
      /\ a.imported = s.imported
      /\ a.failures = 0
      /\ a.attempt = NoAttempt
  BY <1>1 DEF State
<1> HIDE DEF a
<1>4. /\ d \in State
      /\ d.status = s.status
      /\ d.completed = n
      /\ d.imported = s.imported
      /\ d.failures = 0
      /\ d.attempt = NoAttempt
  BY <1>3, WithdrawnFields
<1> HIDE DEF d
<1>5. CASE n = TotalSteps
  <2>1. Advanced(s) = [d EXCEPT !.status = "completed"]
    BY <1>2, <1>4, <1>5
  <2> QED BY <1>1, <1>4, <1>5, <2>1 DEF State, Statuses
<1>6. CASE n # TotalSteps
  <2>1. Advanced(s) = Issued(d, TRUE)
    BY <1>2, <1>4, <1>6
  <2>2. Issued(d, TRUE) \in State /\ SameCount(Issued(d, TRUE), d)
    BY <1>4, IssuedFields
  <2> QED BY <1>1, <1>4, <1>6, <2>1, <2>2 DEF SameCount
<1> QED BY <1>5, <1>6

LEMMA PausedFields ==
  ASSUME NEW s \in State
  PROVE  LET p == Paused(s)
         IN  /\ p \in State
             /\ p.status = "paused"
             /\ p.completed = s.completed
             /\ p.imported = s.imported
             /\ p.failures = s.failures
             /\ p.attempt = s.attempt
<1> DEFINE r == Renewed(s)
           u == [r EXCEPT !.status = "paused"]
<1>1. r \in State /\ SameControl(r, s)
  BY RenewedFields
<1> HIDE DEF r
<1>3. /\ u \in State
      /\ u.status = "paused"
      /\ u.completed = s.completed
      /\ u.imported = s.imported
      /\ u.failures = s.failures
      /\ u.attempt = s.attempt
  BY <1>1 DEF SameControl, SameCount, State, Statuses
<1>4. Paused(s) = Withdrawn(u)
  BY DEF Paused, r
<1> HIDE DEF u
<1> QED BY <1>3, <1>4, WithdrawnFields

LEMMA ResumedFields ==
  ASSUME NEW s \in State, NEW c \in Callers, nonces \in Nat
  PROVE  LET r == Resumed(s, c)
         IN  /\ r \in State
             /\ r.status = "running"
             /\ r.completed = s.completed
             /\ r.imported = s.imported
             /\ r.failures = 0
             /\ r.attempt = NoAttempt
<1> DEFINE o == IF c = NoSession THEN NoOwner ELSE [session |-> c, age |-> 0]
           a == [s EXCEPT !.status = "running", !.attempt = NoAttempt,
                          !.failures = 0, !.reason = "none"]
           b == [a EXCEPT !.owner = o]
<1>1. o \in Owner /\ NoAttempt \in Attempt
  BY DEF NoOwner, NoAttempt, Owner, Attempt
<1>2. Resumed(s, c) = Issued(b, FALSE)
  BY DEF Resumed, Claimed, o
<1> HIDE DEF o
<1>3. /\ a \in State
      /\ a.status = "running"
      /\ a.completed = s.completed
      /\ a.imported = s.imported
      /\ a.failures = 0
      /\ a.attempt = NoAttempt
  BY <1>1 DEF State, Statuses, Reasons
<1> HIDE DEF a
<1>4. b \in State /\ SameCount(b, a)
  BY <1>1, <1>3 DEF SameCount, State
<1> HIDE DEF b
<1> QED BY ZenonT(60), <1>2, <1>3, <1>4, IssuedFields DEF SameCount

-----------------------------------------------------------------------------
(* What reconciliation does to them                                        *)

(* The fields of a blocked state, the imported prefix among them.          *)
LEMMA BlockedAtCounts ==
  ASSUME NEW s \in State, NEW reason \in Reasons, reason # "none"
  PROVE  LET b == BlockedAt(s, reason)
         IN  /\ b \in State
             /\ b.status = "blocked"
             /\ b.completed = Fallback(s)
             /\ b.imported = IF s.imported < Fallback(s) THEN s.imported
                                                         ELSE Fallback(s)
             /\ b.attempt = s.attempt
             /\ b.failures = s.failures
<1> DEFINE f == Fallback(s)
           i == IF s.imported < f THEN s.imported ELSE f
           a == [s EXCEPT !.status = "blocked", !.reason = reason,
                          !.completed = f, !.imported = i]
<1>1. f \in 0 .. TotalSteps /\ i \in 0 .. TotalSteps
  BY FallbackBacked DEF State
<1>2. BlockedAt(s, reason) = Withdrawn(a)
  BY DEF BlockedAt
<1>a. f = Fallback(s) /\ i = IF s.imported < f THEN s.imported ELSE f
  OBVIOUS
<1> HIDE DEF f, i
<1>3. /\ a \in State
      /\ a.status = "blocked"
      /\ a.completed = f
      /\ a.imported = i
      /\ a.attempt = s.attempt
      /\ a.failures = s.failures
  BY <1>1 DEF State, Statuses
<1> HIDE DEF a
<1> QED BY <1>a, <1>2, <1>3, WithdrawnFields

(* How far the trusted prefix reaches: at most one step past the state,    *)
(* and then over the receipt of its live attempt; where it ends before the *)
(* last step, the next receipt is not trusted.                             *)
LEMMA TrustedReach ==
  ASSUME NEW s \in State
  PROVE  /\ TrustedLength(s) <= s.completed + 1
         /\ TrustedLength(s) = s.completed + 1 =>
              Trusted(s, s.completed + 1) /\ Live(s)
         /\ TrustedLength(s) < TotalSteps => ~Trusted(s, TrustedLength(s) + 1)
<1> DEFINE k == TrustedLength(s)
           P == TrustedPrefix(s)
<1>1. k \in 0 .. TotalSteps /\ \A i \in 1 .. k : Trusted(s, i)
  BY TrustedLengthCounts
<1>2. s.completed \in 0 .. TotalSteps
  BY DEF State
<1>3. \A i \in 1 .. k : i > s.completed => i = s.completed + 1 /\ Live(s)
  BY <1>1 DEF Trusted, Current
<1>4. \A i \in Steps : i \in P <=> \A j \in 1 .. i : Trusted(s, j)
  BY DEF TrustedPrefix
<1>5. k = Cardinality(P)
  BY DEF TrustedLength
<1>6. ASSUME k < TotalSteps, Trusted(s, k + 1) PROVE FALSE
  <2>1. 1 .. (k + 1) \subseteq P
    BY <1>1, <1>4, <1>6
  <2>2. P \in SUBSET (1 .. TotalSteps)
    BY DEF TrustedPrefix
  <2>a. IsFiniteSet(1 .. TotalSteps)
    BY FS_Interval
  <2>3. IsFiniteSet(P)
    BY <2>2, <2>a, FS_Subset
  <2>4. Cardinality(1 .. (k + 1)) = k + 1
    BY <1>1, FS_Interval
  <2>5. k + 1 <= Cardinality(P)
    BY ZenonT(60), <2>1, <2>3, <2>4, FS_Subset
  <2> QED BY <1>1, <1>5, <2>5
<1> HIDE DEF k, P
<1>7. k <= s.completed + 1
  BY <1>1, <1>2, <1>3
<1>8. k = s.completed + 1 => Trusted(s, k) /\ Live(s)
  BY <1>1, <1>2, <1>3
<1> QED BY <1>6, <1>7, <1>8 DEF k

(* Nothing of the count changes.                                           *)
Kept(r, s) == SameControl(r, s)

(* One more step counts, over the receipt of the live attempt.             *)
Recovered(r, s) ==
  /\ Live(s)
  /\ s.completed < TotalSteps
  /\ Trusted(s, s.completed + 1)
  /\ r.status = ForwardStatus(s)
  /\ TrustedLength(s) = s.completed + 1
  /\ r.completed = s.completed + 1
  /\ r.imported = s.imported
  /\ r.failures = 0
  /\ r.attempt = NoAttempt
  /\ r.status = "running" => Unasked(r)

(* Blocked on what is still trusted; an attempt that survives has no       *)
(* trusted receipt.                                                        *)
Refuses(r, s) ==
  /\ r.status = "blocked"
  /\ r.completed \in 0 .. TotalSteps
  /\ r.completed < TotalSteps
  /\ r.completed <= s.completed + 1
  /\ \A i \in 1 .. r.completed : Trusted(s, i)
  /\ r.completed < s.completed =>
       \/ ~Trusted(s, r.completed + 1)
       \/ s.completed = TotalSteps /\ r.completed = TotalSteps - 1
  /\ r.imported = IF s.imported < r.completed THEN s.imported ELSE r.completed
  /\ r.failures \in {s.failures, 0}
  /\ \/ r.attempt = NoAttempt
     \/ /\ r.attempt = s.attempt
        /\ r.completed = s.completed
        /\ ~Trusted(s, s.completed + 1)

LEMMA RefusedFields ==
  ASSUME NEW s \in State, Refused(s)
  PROVE  RefusedState(s) \in State /\ Refuses(RefusedState(s), s)
<1> DEFINE b == BlockedAt(s, "RECEIPT_AUTHORITY")
           k == TrustedLength(s)
           c == [b EXCEPT !.attempt = NoAttempt]
<1>1. /\ b \in State
      /\ b.status = "blocked"
      /\ b.completed = Fallback(s)
      /\ b.imported = IF s.imported < Fallback(s) THEN s.imported ELSE Fallback(s)
      /\ b.attempt = s.attempt
      /\ b.failures = s.failures
  BY BlockedAtCounts DEF Reasons
<1>2. /\ k \in 0 .. TotalSteps
      /\ \A i \in 1 .. k : Trusted(s, i)
      /\ k <= s.completed + 1
      /\ k < TotalSteps => ~Trusted(s, k + 1)
  BY TrustedLengthCounts, TrustedReach
<1>3. k < TotalSteps \/ (k = TotalSteps /\ Damaged)
  <2>1. CASE ~Damaged
    <3>1. PICK i \in Steps : i > k
      BY <2>1 DEF Refused
    <3> QED BY <1>2, <3>1
  <2> QED BY <1>2, <2>1
<1>4. Fallback(s) = IF k = TotalSteps THEN TotalSteps - 1 ELSE k
  BY DEF Fallback
<1>5. RefusedState(s) = IF ~Damaged /\ k = s.completed THEN b ELSE c
  BY DEF RefusedState
<1>6. s.completed \in 0 .. TotalSteps /\ NoAttempt \in Attempt
  BY DEF State, NoAttempt, Attempt
<1> HIDE DEF b, k
<1>7. /\ c \in State
      /\ c.status = b.status
      /\ c.completed = b.completed
      /\ c.imported = b.imported
      /\ c.failures = b.failures
      /\ c.attempt = NoAttempt
  BY <1>1, <1>6 DEF State
<1> HIDE DEF c
<1>8. CASE ~Damaged /\ k = s.completed
  <2>1. k < TotalSteps /\ Fallback(s) = k
    BY <1>2, <1>3, <1>4, <1>8
  <2> QED BY <1>1, <1>2, <2>1, <1>5, <1>6, <1>8 DEF Refuses
<1>9. CASE ~(~Damaged /\ k = s.completed)
  <2> DEFINE f == Fallback(s)
  <2>1. /\ f \in 0 .. TotalSteps /\ f < TotalSteps /\ f <= s.completed + 1
        /\ \A i \in 1 .. f : Trusted(s, i)
    <3>1. f <= k /\ f \in 0 .. TotalSteps /\ f < TotalSteps
      BY FallbackBacked DEF k
    <3> HIDE DEF f
    <3> QED BY <1>2, <1>6, <3>1
  <2>2. f < s.completed => \/ ~Trusted(s, f + 1)
                           \/ s.completed = TotalSteps /\ f = TotalSteps - 1
    BY <1>2, <1>4, <1>6
  <2> HIDE DEF f
  <2> QED BY <1>1, <1>5, <1>6, <1>7, <1>9, <2>1, <2>2 DEF Refuses, f
<1> QED BY <1>8, <1>9

LEMMA AheadFields ==
  ASSUME NEW s \in State, StateAhead(s)
  PROVE  AheadState(s) \in State /\ Refuses(AheadState(s), s)
<1> DEFINE b == BlockedAt(s, "STATE_AHEAD_OF_RECEIPTS")
           k == TrustedLength(s)
           c == [b EXCEPT !.attempt = NoAttempt, !.failures = 0]
<1>1. /\ b \in State
      /\ b.status = "blocked"
      /\ b.completed = Fallback(s)
      /\ b.imported = IF s.imported < Fallback(s) THEN s.imported ELSE Fallback(s)
  BY BlockedAtCounts DEF Reasons
<1>2. /\ k \in 0 .. TotalSteps
      /\ \A i \in 1 .. k : Trusted(s, i)
      /\ k < TotalSteps => ~Trusted(s, k + 1)
  BY TrustedLengthCounts, TrustedReach
<1>3. s.completed \in 0 .. TotalSteps /\ NoAttempt \in Attempt
  BY DEF State, NoAttempt, Attempt
<1>4. k < s.completed
  BY DEF StateAhead
<1>5. Fallback(s) = k /\ k < TotalSteps
  BY <1>2, <1>3, <1>4 DEF Fallback
<1>6. AheadState(s) = c
  BY DEF AheadState
<1> HIDE DEF b, k
<1>7. /\ c \in State
      /\ c.status = b.status
      /\ c.completed = b.completed
      /\ c.imported = b.imported
      /\ c.failures = 0
      /\ c.attempt = NoAttempt
  BY <1>1, <1>3 DEF State
<1> HIDE DEF c
<1> QED BY <1>1, <1>2, <1>3, <1>4, <1>5, <1>6, <1>7 DEF Refuses

LEMMA ForwardFields ==
  ASSUME NEW s \in State, RecoversForward(s)
  PROVE  LET f == ForwardState(s)
         IN  /\ f \in State
             /\ f.status = ForwardStatus(s)
             /\ TrustedLength(s) = s.completed + 1
             /\ s.completed < TotalSteps
             /\ f.completed = s.completed + 1
             /\ f.imported = s.imported
             /\ f.failures = 0
             /\ f.attempt = NoAttempt
<1> DEFINE k == TrustedLength(s)
           u == ForwardStatus(s)
           a == [s EXCEPT !.completed = k, !.attempt = NoAttempt, !.failures = 0,
                          !.status = u, !.reason = "none"]
<1>1. /\ k \in 0 .. TotalSteps
      /\ k <= s.completed + 1
      /\ k > s.completed
  BY TrustedLengthCounts, TrustedReach DEF RecoversForward
<1>2. s.completed \in 0 .. TotalSteps /\ NoAttempt \in Attempt
  BY DEF State, NoAttempt, Attempt
<1>3. k = s.completed + 1 /\ s.completed < TotalSteps
  BY <1>1, <1>2
<1>4. u \in Statuses
  BY DEF ForwardStatus, Statuses
<1>5. ForwardState(s) = Withdrawn(a)
  BY DEF ForwardState
<1>a. u = ForwardStatus(s) /\ k = TrustedLength(s)
  OBVIOUS
<1> HIDE DEF k, u
<1>6. /\ a \in State
      /\ a.status = u
      /\ a.completed = k
      /\ a.imported = s.imported
      /\ a.failures = 0
      /\ a.attempt = NoAttempt
  BY <1>1, <1>2, <1>4 DEF State, Reasons
<1> HIDE DEF a
<1> QED BY <1>a, <1>3, <1>5, <1>6, WithdrawnFields

LEMMA ReconciledFields ==
  ASSUME NEW s \in State, nonces \in Nat
  PROVE  LET r == Reconciled(s)
         IN  /\ r \in State
             /\ \/ ~RecoversForward(s) /\ Kept(r, s)
                \/ RecoversForward(s) /\ Recovered(r, s)
                \/ ~RecoversForward(s) /\ Refuses(r, s)
<1> DEFINE a == ReceiptsApplied(s)
           o == OwnerReleased(a)
           r == Reconciled(s)
<1>0. a = IF Refused(s) THEN RefusedState(s)
          ELSE IF StateAhead(s) THEN AheadState(s)
          ELSE IF RecoversForward(s) THEN ForwardState(s) ELSE s
  BY DEF ReceiptsApplied
<1>1. r = IF RecoversForward(s) /\ o.status = "running" THEN Issued(o, TRUE) ELSE o
  BY DEF Reconciled
<1> HIDE DEF a, r
<1>2. a \in State => o \in State /\ SameControl(o, a)
  BY OwnerReleasedFields
<1> HIDE DEF o
<1>3. CASE RecoversForward(s)
  <2>1. ~Refused(s) /\ ~StateAhead(s)
    <3>1. TrustedLength(s) > s.completed /\ ~Refused(s)
      BY <1>3 DEF RecoversForward
    <3>2. TrustedLength(s) \in 0 .. TotalSteps /\ s.completed \in 0 .. TotalSteps
      BY TrustedLengthCounts DEF State
    <3> QED BY <3>1, <3>2 DEF StateAhead
  <2>2. a = ForwardState(s)
    BY <1>0, <1>3, <2>1
  <2>3. /\ o \in State
        /\ o.status = ForwardStatus(s)
        /\ TrustedLength(s) = s.completed + 1
        /\ s.completed < TotalSteps
        /\ o.completed = s.completed + 1
        /\ o.imported = s.imported
        /\ o.failures = 0
        /\ o.attempt = NoAttempt
    BY <1>2, <1>3, <2>2, ForwardFields DEF SameControl, SameCount
  <2>4. Live(s) /\ Trusted(s, s.completed + 1)
    BY <2>3, TrustedReach
  <2>5. CASE o.status = "running"
    <3>1. r \in State /\ SameCount(r, o) /\ Unasked(r)
      BY <1>1, <1>3, <2>3, <2>5, IssuedFields
    <3> QED BY <1>3, <2>3, <2>4, <3>1 DEF Recovered, SameCount, r
  <2>6. CASE o.status # "running"
    <3>1. r = o
      BY <1>1, <2>6
    <3> QED BY <1>3, <2>3, <2>4, <2>6, <3>1 DEF Recovered, r
  <2> QED BY <2>5, <2>6
<1>4. CASE ~RecoversForward(s)
  <2>1. r = o
    BY <1>1, <1>4
  <2>2. CASE Refused(s)
    <3>1. a \in State /\ Refuses(a, s)
      BY <1>0, <2>2, RefusedFields
    <3>2. Refuses(o, s)
      BY <1>2, <3>1 DEF Refuses, SameControl, SameCount
    <3> QED BY <1>2, <1>4, <2>1, <3>1, <3>2 DEF r
  <2>3. CASE ~Refused(s) /\ StateAhead(s)
    <3>1. a \in State /\ Refuses(a, s)
      BY <1>0, <2>3, AheadFields
    <3>2. Refuses(o, s)
      BY <1>2, <3>1 DEF Refuses, SameControl, SameCount
    <3> QED BY <1>2, <1>4, <2>1, <3>1, <3>2 DEF r
  <2>4. CASE ~Refused(s) /\ ~StateAhead(s)
    <3>1. a = s
      BY <1>0, <1>4, <2>4
    <3> QED BY <1>2, <1>4, <2>1, <3>1 DEF Kept, r
  <2> QED BY <2>2, <2>3, <2>4
<1> QED BY <1>3, <1>4

-----------------------------------------------------------------------------
(* The invariant                                                           *)

Proof(R, i) == R[i].kind \in {"native", "imported"}

(* Under the completed steps lie imported receipts up to the imported      *)
(* prefix and native ones after it: a receipt that is there is trusted, so *)
(* a prefix only shrinks where one is gone.                                *)
KindsFit(s, R) ==
  \A i \in 1 .. s.completed :
    Proof(R, i) => R[i].kind = IF i <= s.imported THEN "imported" ELSE "native"

(* A blocked workflow has no receipt of its live attempt: a reconcile does *)
(* not lead out of a block.                                                *)
Earned(s, R) ==
  s.status = "blocked" /\ Live(s) /\ s.completed < TotalSteps =>
    ~(/\ R[s.completed + 1].kind = "native"
      /\ R[s.completed + 1].attempt = s.attempt.id)

(* Without a state there are no proofs.                                    *)
Clear(s, R) == s.status = "absent" => \A i \in Steps : ~Proof(R, i)

LedgerInv ==
  /\ KindsFit(state, receipts)
  /\ Earned(state, receipts)
  /\ Clear(state, receipts)

LedgerStep == [Ledger!Next]_(Ledger!vars)

CountsOnce ==
  state'.failures > state.failures =>
    /\ state'.failures = state.failures + 1
    /\ Live(state)
    /\ state'.attempt = [state.attempt EXCEPT !.failed = TRUE]

StepHolds == LedgerStep /\ LedgerInv' /\ CountsOnce

LEMMA StateFacts ==
  ASSUME WorkflowInv
  PROVE  /\ state \in State
         /\ receipts \in [Slots -> Receipt]
         /\ nonces \in Nat
         /\ state.completed \in 0 .. TotalSteps
         /\ state.imported \in 0 .. TotalSteps
         /\ state.imported <= state.completed
         /\ state.failures \in Nat
         /\ state.status \in Statuses
         /\ (state.status = "completed" <=> state.completed = TotalSteps)
         /\ state.status = "completed" => ~Live(state)
<1>1. /\ state \in State
      /\ receipts \in [Slots -> Receipt]
      /\ nonces \in Nat
      /\ Valid(state)
  BY DEF WorkflowInv, TypeOK, Good
<1>2. /\ state.completed \in 0 .. TotalSteps
      /\ state.imported \in 0 .. TotalSteps
      /\ state.failures \in Nat
      /\ state.status \in Statuses
  BY <1>1 DEF State
<1> QED BY <1>1, <1>2 DEF Valid, AllDone, Live, Statuses

(* The moves of the ledger that leave the receipts alone.                  *)
SameDone == state'.completed = state.completed
NextDone == /\ state'.completed = state.completed + 1
            /\ state.completed + 1 \in Steps
            /\ Present(state.completed + 1)

LEMMA LedgerReads ==
  ASSUME receipts' = receipts
  PROVE  LET P == {i \in Steps : Present(i)}
         IN  /\ P' = P
             /\ SameDone /\ state'.status = state.status => LedgerStep
             /\ Ledger!Next => LedgerStep
  BY DEF Present, LedgerStep, Ledger!vars, SameDone

LEMMA StutterMove ==
  ASSUME receipts' = receipts, SameDone, state'.status = state.status
  PROVE  LedgerStep
  BY LedgerReads

LEMMA PauseMove ==
  ASSUME receipts' = receipts, SameDone,
         state.status = "running", state'.status = "paused"
  PROVE  LedgerStep
<1>1. Ledger!Pause
  BY LedgerReads DEF SameDone, Ledger!Pause
<1> QED BY <1>1, LedgerReads DEF Ledger!Next

LEMMA ResumeMove ==
  ASSUME receipts' = receipts, SameDone,
         state.status \in {"paused", "blocked"}, state'.status = "running"
  PROVE  LedgerStep
<1>1. Ledger!Resume
  BY LedgerReads DEF SameDone, Ledger!Resume
<1> QED BY <1>1, LedgerReads DEF Ledger!Next

LEMMA BlockMove ==
  ASSUME receipts' = receipts, SameDone \/ NextDone,
         state.status # "absent", state'.status = "blocked"
  PROVE  LedgerStep
<1>1. Ledger!Block
  BY LedgerReads DEF SameDone, NextDone, Ledger!Block
<1> QED BY <1>1, LedgerReads DEF Ledger!Next

LEMMA AdvanceMove ==
  ASSUME receipts' = receipts, NextDone, state.status \in {"running", "paused"},
         state'.status = IF state'.completed = TotalSteps THEN "completed"
                                                          ELSE state.status
  PROVE  LedgerStep
<1>1. Ledger!Advance
  BY LedgerReads DEF NextDone, Ledger!Advance
<1> QED BY <1>1, LedgerReads DEF Ledger!Next

LEMMA FallBackMove ==
  ASSUME receipts' = receipts, state.status # "absent", state'.status = "blocked",
         state'.completed \in 0 .. TotalSteps, state'.completed < state.completed,
         \A i \in 1 .. state'.completed : i \in Steps /\ Present(i),
         \E i \in 1 .. state.completed : ~Present(i)
  PROVE  LedgerStep
<1>1. Ledger!FallBack(state'.completed)
  BY LedgerReads DEF Ledger!FallBack, Ledger!Backed
<1> QED BY <1>1, LedgerReads DEF Ledger!Next

LEMMA ReopenMove ==
  ASSUME receipts' = receipts, state.status = "completed",
         state'.status = "blocked", state'.completed = state.completed - 1
  PROVE  LedgerStep
<1>1. Ledger!Reopen
  BY LedgerReads DEF Ledger!Reopen
<1> QED BY <1>1, LedgerReads DEF Ledger!Next

-----------------------------------------------------------------------------
(* Steps that leave the receipts alone                                     *)

(* The prefix stays, and nobody new is at work in a block.                 *)
LEMMA SamePrefix ==
  ASSUME LedgerInv, receipts' = receipts, SameDone,
         state'.imported = state.imported,
         state'.status = "absent" => state.status = "absent",
         state'.status = "blocked" /\ Live(state') =>
           state.status = "blocked" /\ state'.attempt = state.attempt
  PROVE  LedgerInv'
<1>1. KindsFit(state', receipts')
  BY DEF LedgerInv, KindsFit, SameDone
<1>2. Earned(state', receipts')
  BY DEF LedgerInv, Earned, SameDone, Live
<1>3. Clear(state', receipts')
  BY DEF LedgerInv, Clear
<1> QED BY <1>1, <1>2, <1>3 DEF LedgerInv

(* One more step counts, over a native receipt.                            *)
LEMMA NextPrefix ==
  ASSUME WorkflowInv, LedgerInv, receipts' = receipts, NextDone,
         receipts[state.completed + 1].kind = "native",
         state'.imported = state.imported,
         state'.status # "absent", ~Live(state')
  PROVE  LedgerInv'
<1>1. KindsFit(state', receipts')
  BY StateFacts DEF LedgerInv, KindsFit, NextDone
<1>2. Earned(state', receipts') /\ Clear(state', receipts')
  BY DEF Earned, Clear
<1> QED BY <1>1, <1>2 DEF LedgerInv

LEMMA NoNewFailure ==
  ASSUME WorkflowInv, state'.failures \in {state.failures, 0}
  PROVE  CountsOnce
  BY StateFacts DEF CountsOnce

LEMMA QuietStep ==
  ASSUME WorkflowInv, LedgerInv, receipts' = receipts, SameDone,
         state'.status = state.status,
         state'.imported = state.imported,
         state'.failures = state.failures,
         state'.attempt = state.attempt \/ state.status = "running"
  PROVE  StepHolds
<1>1. LedgerInv'
  BY SamePrefix DEF Live
<1> QED BY <1>1, StutterMove, NoNewFailure DEF StepHolds

LEMMA AdvanceStep ==
  ASSUME WorkflowInv, LedgerInv, receipts' = receipts,
         NEW r \in State, SameControl(r, state), state' = Advanced(r),
         state.status = "running", receipts[state.completed + 1].kind = "native"
  PROVE  StepHolds
<1>1. /\ state.completed \in 0 .. TotalSteps
      /\ state.completed < TotalSteps
      /\ nonces \in Nat
  BY StateFacts
<1>2. /\ r.completed = state.completed
      /\ r.imported = state.imported
      /\ r.status = "running"
  BY DEF SameControl, SameCount
<1>3. /\ state'.status = IF state.completed + 1 = TotalSteps THEN "completed"
                                                             ELSE "running"
      /\ state'.completed = state.completed + 1
      /\ state'.imported = state.imported
      /\ state'.failures = 0
      /\ state'.attempt = NoAttempt
  BY <1>1, <1>2, AdvancedFields
<1>4. NextDone
  BY <1>1, <1>3 DEF NextDone, Present
<1>5. LedgerStep
  BY <1>3, <1>4, AdvanceMove
<1>6. LedgerInv'
  BY <1>3, <1>4, NextPrefix DEF Live
<1>7. CountsOnce
  BY <1>3, NoNewFailure
<1> QED BY <1>5, <1>6, <1>7 DEF StepHolds

(* A failure counts once and, the third time, blocks.                      *)
LEMMA FailureStep ==
  ASSUME WorkflowInv, LedgerInv, receipts' = receipts,
         NEW r \in State, SameControl(r, state), NEW f \in State,
         f = RecordFailure(r), SameCount(state', f),
         state.status = "running", Live(state)
  PROVE  StepHolds
<1>1. /\ r.completed = state.completed
      /\ r.imported = state.imported
      /\ r.status = "running"
      /\ r.failures = state.failures
      /\ r.attempt = state.attempt
  BY DEF SameControl, SameCount
<1>2. /\ state'.completed = state.completed
      /\ state'.imported = state.imported
      /\ state'.failures = state.failures + 1
      /\ state'.attempt = [state.attempt EXCEPT !.failed = TRUE]
      /\ state'.status \in {"blocked", "running"}
  BY <1>1, StateFacts, RecordFailureFields DEF SameCount
<1>3. state.attempt \in Attempt
  BY StateFacts DEF State
<1>4. ~Live(state') /\ SameDone
  BY <1>2, <1>3 DEF Live, Attempt, SameDone
<1>5. LedgerStep
  BY <1>2, <1>4, StutterMove, BlockMove
<1>6. LedgerInv'
  BY <1>2, <1>4, SamePrefix
<1>7. CountsOnce
  BY <1>2 DEF CountsOnce
<1> QED BY <1>5, <1>6, <1>7 DEF StepHolds

LEMMA PauseStep ==
  ASSUME WorkflowInv, LedgerInv, receipts' = receipts,
         state' = Paused(state), state.status = "running"
  PROVE  StepHolds
<1>1. /\ state'.status = "paused"
      /\ state'.completed = state.completed
      /\ state'.imported = state.imported
      /\ state'.failures = state.failures
  BY StateFacts, PausedFields
<1>2. LedgerStep
  BY <1>1, PauseMove DEF SameDone
<1>3. LedgerInv'
  BY <1>1, SamePrefix DEF SameDone
<1> QED BY <1>1, <1>2, <1>3, NoNewFailure DEF StepHolds

LEMMA ResumeStep ==
  ASSUME WorkflowInv, LedgerInv, receipts' = receipts, NEW c \in Callers,
         state' = Resumed(state, c), state.status \notin {"absent", "completed"}
  PROVE  StepHolds
<1>1. /\ state'.status = "running"
      /\ state'.completed = state.completed
      /\ state'.imported = state.imported
      /\ state'.failures = 0
  BY StateFacts, ResumedFields
<1>2. LedgerStep
  BY <1>1, StateFacts, StutterMove, ResumeMove DEF SameDone, Statuses
<1>3. LedgerInv'
  BY <1>1, SamePrefix DEF SameDone
<1> QED BY <1>1, <1>2, <1>3, NoNewFailure DEF StepHolds

(* Under the completed steps, what is not trusted is not there.            *)
LEMMA UntrustedIsLost ==
  ASSUME WorkflowInv, LedgerInv, NEW i \in 1 .. state.completed,
         ~Trusted(state, i)
  PROVE  ~Present(i)
  BY StateFacts DEF LedgerInv, KindsFit, Proof, Trusted, Present

(* Nobody recovers work out of a block: the next receipt is trusted only   *)
(* while the workflow runs or is paused.                                   *)
LEMMA RecoveryRuns ==
  ASSUME WorkflowInv, LedgerInv, Live(state), state.status # "absent",
         state.completed < TotalSteps, Trusted(state, state.completed + 1)
  PROVE  /\ state.status \in {"running", "paused"}
         /\ receipts[state.completed + 1].kind = "native"
         /\ state.completed + 1 \in Steps
<1>1. state.completed \in 0 .. TotalSteps /\ state.completed + 1 > state.completed
  BY StateFacts
<1>2. /\ receipts[state.completed + 1].kind = "native"
      /\ receipts[state.completed + 1].attempt = state.attempt.id
  BY <1>1 DEF Trusted
<1>3. state.status # "blocked" /\ state.status # "completed"
  BY <1>2, StateFacts DEF LedgerInv, Earned
<1> QED BY <1>1, <1>2, <1>3, StateFacts DEF Statuses

(* reconcile: nothing changes, one step is recovered, or the workflow is   *)
(* blocked on what is still backed.                                        *)
LEMMA ReconcileStep ==
  ASSUME WorkflowInv, LedgerInv, receipts' = receipts, state.status # "absent",
         NEW r, r = Reconciled(state), SameCount(state', r)
  PROVE  StepHolds
<1>1. /\ r \in State
      /\ \/ Kept(r, state)
         \/ Recovered(r, state)
         \/ Refuses(r, state)
  BY StateFacts, ReconciledFields
<1>2. CASE Kept(r, state)
  <2>1. /\ state'.status = state.status
        /\ state'.completed = state.completed
        /\ state'.imported = state.imported
        /\ state'.failures = state.failures
        /\ state'.attempt = state.attempt
    BY <1>2 DEF Kept, SameControl, SameCount
  <2> QED BY <2>1, QuietStep DEF SameDone
<1>3. CASE Recovered(r, state)
  <2>1. /\ Live(state)
        /\ state.completed < TotalSteps
        /\ Trusted(state, state.completed + 1)
        /\ TrustedLength(state) = state.completed + 1
        /\ state'.status = ForwardStatus(state)
        /\ state'.completed = state.completed + 1
        /\ state'.imported = state.imported
        /\ state'.failures = 0
        /\ state'.attempt = NoAttempt
    BY <1>3 DEF Recovered, SameCount
  <2>2. /\ state.status \in {"running", "paused"}
        /\ receipts[state.completed + 1].kind = "native"
        /\ state.completed + 1 \in Steps
    BY <2>1, RecoveryRuns
  <2>3. NextDone
    BY <2>1, <2>2 DEF NextDone, Present
  <2>4. state'.status = IF state'.completed = TotalSteps THEN "completed"
                                                         ELSE state.status
    BY <2>1, <2>2 DEF ForwardStatus
  <2>5. LedgerStep
    BY <2>2, <2>3, <2>4, AdvanceMove
  <2>6. LedgerInv'
    BY <2>1, <2>2, <2>3, <2>4, NextPrefix DEF Live
  <2> QED BY <2>1, <2>5, <2>6, NoNewFailure DEF StepHolds
<1>4. CASE Refuses(r, state)
  <2>1. /\ state'.status = "blocked"
        /\ state'.completed \in 0 .. TotalSteps
        /\ state'.completed < TotalSteps
        /\ state'.completed <= state.completed + 1
        /\ \A i \in 1 .. state'.completed : Trusted(state, i)
        /\ state'.completed < state.completed =>
             \/ ~Trusted(state, state'.completed + 1)
             \/ /\ state.completed = TotalSteps
                /\ state'.completed = TotalSteps - 1
        /\ state'.imported = IF state.imported < state'.completed
                             THEN state.imported ELSE state'.completed
        /\ state'.failures \in {state.failures, 0}
        /\ \/ state'.attempt = NoAttempt
           \/ /\ state'.attempt = state.attempt
              /\ state'.completed = state.completed
              /\ ~Trusted(state, state.completed + 1)
    BY <1>4 DEF Refuses, SameCount
  <2>2. \A i \in 1 .. state'.completed : i \in Steps /\ Present(i)
    BY <2>1, TrustedIsPresent
  <2>3. LedgerStep
    <3>1. CASE state'.completed < state.completed
      <4>1. state'.completed + 1 \in 1 .. state.completed
        BY <2>1, <3>1, StateFacts
      <4>2. CASE ~Trusted(state, state'.completed + 1)
        <5>1. ~Present(state'.completed + 1)
          BY <3>1, <4>1, <4>2, UntrustedIsLost
        <5> QED BY <2>1, <2>2, <3>1, <4>1, <5>1, FallBackMove
      <4>3. CASE /\ state.completed = TotalSteps
                 /\ state'.completed = TotalSteps - 1
        BY <2>1, <4>3, StateFacts, ReopenMove
      <4> QED BY <2>1, <3>1, <4>2, <4>3
    <3>2. CASE state'.completed = state.completed
      BY <2>1, <3>2, BlockMove DEF SameDone
    <3>3. CASE state'.completed = state.completed + 1
      <4>1. NextDone
        BY <2>1, <2>2, <3>3, StateFacts DEF NextDone
      <4> QED BY <2>1, <4>1, BlockMove
    <3> QED BY <2>1, <3>1, <3>2, <3>3, StateFacts
  <2>4. KindsFit(state', receipts')
    <3> SUFFICES ASSUME NEW i \in 1 .. state'.completed
                 PROVE  receipts[i].kind = IF i <= state'.imported THEN "imported"
                                                                   ELSE "native"
      BY DEF KindsFit
    <3>1. Trusted(state, i)
      BY <2>1
    <3>2. receipts[i].kind = IF i <= state.imported THEN "imported" ELSE "native"
      BY <3>1 DEF Trusted
    <3> QED BY <2>1, <3>2, StateFacts
  <2>5. Earned(state', receipts')
    <3>1. CASE state'.attempt = NoAttempt
      BY <3>1 DEF Earned, Live
    <3>2. CASE /\ state'.attempt = state.attempt
               /\ state'.completed = state.completed
               /\ ~Trusted(state, state.completed + 1)
      BY <3>2, StateFacts DEF Earned, Trusted, Live, Current
    <3> QED BY <2>1, <3>1, <3>2
  <2>6. Clear(state', receipts')
    BY <2>1 DEF Clear
  <2> QED BY <2>1, <2>3, <2>4, <2>5, <2>6, NoNewFailure DEF StepHolds, LedgerInv
<1> QED BY <1>1, <1>2, <1>3, <1>4

-----------------------------------------------------------------------------
(* What each action does                                                   *)

LEMMA BeginHolds ==
  ASSUME WorkflowInv, LedgerInv, NEW c, NEW m, BeginStep(c, m)
  PROVE  StepHolds
<1>1. /\ receipts' = receipts
      /\ state.status = "running"
      /\ state'.status = state.status
      /\ state'.completed = state.completed
      /\ state'.imported = state.imported
      /\ state'.failures = state.failures
  BY StateFacts DEF BeginStep, Write, Claimed, Running, State
<1> QED BY <1>1, QuietStep DEF SameDone

(* A receipt is published for the next step of a running workflow.         *)
LEMMA PublishHolds ==
  ASSUME WorkflowInv, LedgerInv, NEW a, NEW c, PublishReceipt(a, c)
  PROVE  StepHolds
<1> DEFINE k == state.completed + 1
           P == {i \in Steps : Present(i)}
<1>1. /\ state' = state
      /\ state.status = "running"
      /\ receipts' = [receipts EXCEPT ![k] =
                        [kind |-> "native", attempt |-> a, content |-> c]]
  BY DEF PublishReceipt, MayComplete, Running, Current
<1>2. k \in Steps /\ k > state.completed
  BY <1>1, StateFacts
<1>3. \A i \in Steps : receipts'[i] =
        IF i = k THEN [kind |-> "native", attempt |-> a, content |-> c] ELSE receipts[i]
  BY <1>1, <1>2, StateFacts
<1>4. P' = P \union {k}
  BY <1>2, <1>3 DEF Present
<1>5. Ledger!Prove
  BY <1>1, <1>4 DEF Ledger!Prove
<1>6. LedgerStep
  BY <1>5 DEF LedgerStep, Ledger!Next
<1>7. KindsFit(state', receipts')
  <2>1. \A i \in 1 .. state.completed : receipts'[i] = receipts[i]
    BY <1>2, <1>3, StateFacts
  <2> QED BY <1>1, <2>1 DEF LedgerInv, KindsFit, Proof
<1>8. Earned(state', receipts') /\ Clear(state', receipts')
  BY <1>1 DEF Earned, Clear
<1>9. CountsOnce
  BY <1>1, NoNewFailure
<1> QED BY <1>6, <1>7, <1>8, <1>9 DEF StepHolds, LedgerInv

LEMMA CompleteHolds ==
  ASSUME WorkflowInv, LedgerInv,
         \/ CommitCompletion
         \/ \E a \in 1 .. spent, c \in Contents : RetryCompletion(a, c)
  PROVE  StepHolds
<1>1. CASE CommitCompletion
  <2>1. /\ receipts' = receipts
        /\ state' = Advanced(Renewed(state))
        /\ state.status = "running"
        /\ receipts[state.completed + 1].kind = "native"
    BY <1>1 DEF CommitCompletion, Write, WorkflowInv, Pending, Current
  <2>2. Renewed(state) \in State /\ SameControl(Renewed(state), state)
    BY StateFacts, RenewedFields
  <2> QED BY <2>1, <2>2, AdvanceStep
<1>2. ASSUME NEW a \in 1 .. spent, NEW c \in Contents, RetryCompletion(a, c)
      PROVE  StepHolds
  <2> DEFINE r == IF Expired(state.owner) THEN OwnerReleased(state) ELSE Renewed(state)
  <2>1. /\ receipts' = receipts
        /\ state' = Advanced(r)
        /\ state.status = "running"
        /\ receipts[state.completed + 1].kind = "native"
    BY <1>2 DEF RetryCompletion, Write, MayComplete, Running, Current
  <2>2. r \in State /\ SameControl(r, state)
    BY StateFacts, RenewedFields, OwnerReleasedFields
  <2> HIDE DEF r
  <2> QED BY <2>1, <2>2, AdvanceStep
<1> QED BY <1>1, <1>2

LEMMA FailHolds ==
  ASSUME WorkflowInv, LedgerInv, NEW a, FailStep(a)
  PROVE  StepHolds
<1>1. /\ receipts' = receipts
      /\ state' = RecordFailure(Renewed(state))
      /\ state.status = "running"
      /\ Live(state)
  BY DEF FailStep, Write, Running
<1>2. Renewed(state) \in State /\ SameControl(Renewed(state), state)
  BY StateFacts, RenewedFields
<1>3. state' \in State /\ SameCount(state', state')
  BY <1>1, <1>2, StateFacts, RecordFailureFields DEF SameCount
<1> QED BY <1>1, <1>2, <1>3, FailureStep

(* init and import open a run over an empty workspace.                     *)
LEMMA InitStateHolds ==
  ASSUME WorkflowInv, LedgerInv, InitState
  PROVE  StepHolds
<1> DEFINE s == [NoState EXCEPT !.status = "running"]
           P == {i \in Steps : Present(i)}
<1>1. /\ receipts' = receipts
      /\ state' = Issued(s, FALSE)
      /\ state.status = "absent"
  BY DEF InitState, Write, WorkflowInv, Pending
<1>2. /\ s \in State
      /\ s.status = "running"
      /\ s.completed = 0
      /\ s.imported = 0
      /\ s.failures = 0
      /\ s.attempt = NoAttempt
  BY NoStateFields DEF NoState, State, Statuses
<1> HIDE DEF s
<1>3. /\ state'.status = "running"
      /\ state'.completed = 0
      /\ state'.imported = 0
      /\ state'.failures = 0
      /\ state'.attempt = NoAttempt
  BY <1>1, <1>2, StateFacts, IssuedFields DEF SameCount
<1>4. P = {}
  BY <1>1 DEF LedgerInv, Clear, Proof, Present
<1>a. P' = P
  BY <1>1 DEF Present
<1>b. P' = 1 .. 0 /\ TotalSteps # 0
  BY <1>4, <1>a
<1>5. Ledger!Open(0)
  BY <1>1, <1>3, <1>4, <1>b DEF Ledger!Open
<1>6. LedgerStep
  BY <1>5 DEF LedgerStep, Ledger!Next
<1>7. LedgerInv'
  BY <1>3 DEF LedgerInv, KindsFit, Earned, Clear
<1> QED BY <1>3, <1>6, <1>7, NoNewFailure DEF StepHolds

LEMMA ImportHolds ==
  ASSUME WorkflowInv, LedgerInv, NEW p \in 0 .. TotalSteps, ImportClaude(p)
  PROVE  StepHolds
<1> DEFINE P == {i \in Steps : Present(i)}
<1>1. /\ state.status = "absent"
      /\ \A i \in Steps : receipts[i] = NoReceipt
      /\ receipts' = [i \in Slots |-> IF i <= p THEN [NoReceipt EXCEPT !.kind = "imported"]
                                                ELSE NoReceipt]
  BY DEF ImportClaude, NoActiveMetadata
<1>2. /\ state'.completed = p
      /\ state'.imported = p
      /\ state'.failures = 0
      /\ state'.attempt = NoAttempt
      /\ state'.status = IF p = TotalSteps THEN "completed" ELSE "running"
  BY DEF ImportClaude, Write, NoState
<1>3. \A i \in Steps : receipts'[i].kind = IF i <= p THEN "imported" ELSE "none"
  BY <1>1 DEF NoReceipt
<1>4. P = {}
  BY <1>1 DEF Present, NoReceipt
<1>5. P' = 1 .. p
  BY <1>3 DEF Present
<1>6. Ledger!Open(p)
  BY <1>1, <1>2, <1>4, <1>5 DEF Ledger!Open
<1>7. LedgerStep
  BY <1>6 DEF LedgerStep, Ledger!Next
<1>8. LedgerInv'
  BY <1>2, <1>3 DEF LedgerInv, KindsFit, Earned, Clear
<1> QED BY <1>2, <1>7, <1>8, NoNewFailure DEF StepHolds

LEMMA ResetHolds ==
  ASSUME WorkflowInv, LedgerInv, ResetWorkflow
  PROVE  StepHolds
<1> DEFINE P == {i \in Steps : Present(i)}
<1>1. /\ state' = NoState
      /\ receipts' = [i \in Slots |-> NoReceipt]
  BY DEF ResetWorkflow, Write
<1>2. \A i \in Steps : receipts'[i].kind = "none"
  BY <1>1 DEF NoReceipt
<1>3. P' = {}
  BY <1>2 DEF Present
<1>4. /\ state'.status = "absent"
      /\ state'.completed = 0
      /\ state'.failures = 0
  BY <1>1 DEF NoState
<1>5. Ledger!Discard
  BY <1>3, <1>4 DEF Ledger!Discard
<1>6. LedgerStep
  BY <1>5 DEF LedgerStep, Ledger!Next
<1>7. LedgerInv'
  BY <1>2, <1>4 DEF LedgerInv, KindsFit, Earned, Clear, Proof
<1> QED BY <1>4, <1>6, <1>7, NoNewFailure DEF StepHolds

(* Every end of a turn reconciles first; only a failure adds to that, and  *)
(* it needs an attempt that reconciliation left alone.                     *)
LEMMA StopHolds ==
  ASSUME WorkflowInv, LedgerInv, NEW t \in Turns, NEW b \in BOOLEAN,
         ProcessStop(t, b)
  PROVE  StepHolds
<1> DEFINE r == Reconciled(state)
<1>1. receipts' = receipts /\ state.status # "absent"
  BY DEF ProcessStop, StopRelease, StopReplay, StopRequest, StopFail, StopEffect,
         Active
<1>2. /\ r \in State
      /\ \/ Kept(r, state)
         \/ Recovered(r, state)
         \/ Refuses(r, state)
  BY StateFacts, ReconciledFields
<1>3. \/ state' = r
      \/ state' = Requested(r, t)
      \/ state' = StopFailure(r, t) /\ StopFails(r, t, b)
  BY DEF ProcessStop, StopRelease, StopReplay, StopRequest, StopFail, StopEffect,
         Write
<1> HIDE DEF r
<1>4. CASE state' = r
  BY <1>1, <1>4, ReconcileStep DEF r, SameCount
<1>5. CASE state' = Requested(r, t)
  <2>1. SameCount(state', r)
    BY <1>2, <1>5, RequestedFields
  <2> QED BY <1>1, <2>1, ReconcileStep DEF r
<1>6. CASE state' = StopFailure(r, t) /\ StopFails(r, t, b)
  <2> DEFINE f == RecordFailure(Renewed(r))
  <2>1. r.status = "running" /\ r.continuation = 0 /\ Live(r)
    BY <1>6 DEF StopFails, StopReleases, Live
  <2>2. Kept(r, state)
    BY <1>2, <2>1 DEF Recovered, Refuses, Unasked, Waiting
  <2>3. Renewed(r) \in State /\ SameControl(Renewed(r), r)
    BY <1>2, RenewedFields
  <2>4. SameControl(Renewed(r), state) /\ state.status = "running" /\ Live(state)
    BY <2>1, <2>2, <2>3 DEF Kept, SameControl, SameCount, Live
  <2>5. f \in State
    BY <2>3, StateFacts, RecordFailureFields
  <2>6. state' = IF f.status = "blocked" THEN f ELSE Requested(f, t)
    BY <1>6 DEF StopFailure
  <2> HIDE DEF f
  <2>7. SameCount(state', f)
    BY <2>5, <2>6, RequestedFields DEF SameCount
  <2> QED BY <1>1, <2>3, <2>4, <2>5, <2>7, FailureStep DEF f
<1> QED BY <1>3, <1>4, <1>5, <1>6

LEMMA PromptHolds ==
  ASSUME WorkflowInv, LedgerInv, (\E m : SubmitPrompt(m)) \/ PromptPause
  PROVE  StepHolds
<1>1. ASSUME NEW m, SubmitPrompt(m) PROVE StepHolds
  <2>1. /\ receipts' = receipts
        /\ state'.status = state.status
        /\ state'.completed = state.completed
        /\ state'.imported = state.imported
        /\ state'.failures = state.failures
        /\ state'.attempt = state.attempt
    BY <1>1, StateFacts DEF SubmitPrompt, State
  <2> QED BY <2>1, QuietStep DEF SameDone
<1>2. CASE PromptPause
  <2>1. receipts' = receipts /\ (state' = state \/ (state' = Paused(state) /\ MayPause))
    BY <1>2 DEF PromptPause, Write
  <2> QED BY <2>1, QuietStep, PauseStep DEF SameDone, MayPause, Running
<1> QED BY <1>1, <1>2

LEMMA TickHolds ==
  ASSUME WorkflowInv, LedgerInv, Tick
  PROVE  StepHolds
<1>1. /\ receipts' = receipts
      /\ state'.status = state.status
      /\ state'.completed = state.completed
      /\ state'.imported = state.imported
      /\ state'.failures = state.failures
      /\ state'.attempt = state.attempt
  BY StateFacts DEF Tick, State
<1> QED BY <1>1, QuietStep DEF SameDone

(* A receipt is lost or damaged.                                           *)
LEMMA TamperHolds ==
  ASSUME WorkflowInv, LedgerInv, NEW i \in Slots, NEW k \in {"none", "damaged"},
         TamperReceipt(i, k)
  PROVE  StepHolds
<1> DEFINE P == {j \in Steps : Present(j)}
           lost == [NoReceipt EXCEPT !.kind = k]
<1>1. state' = state /\ receipts' = [receipts EXCEPT ![i] = lost]
  BY DEF TamperReceipt
<1>2. lost.kind = k
  BY DEF NoReceipt
<1> HIDE DEF lost
<1>3. \A j \in Steps : receipts'[j] = IF j = i THEN lost ELSE receipts[j]
  BY <1>1, StateFacts
<1>4. P' = P \ {i}
  BY <1>2, <1>3 DEF Present
<1>5. ASSUME i \in Steps PROVE LedgerStep
  <2>1. Ledger!Lose(i)
    BY <1>1, <1>4 DEF Ledger!Lose
  <2> QED BY <1>5, <2>1 DEF LedgerStep, Ledger!Next, Ledger!Steps
<1>6. ASSUME i \notin Steps PROVE LedgerStep
  <2>1. P' = P
    BY <1>4, <1>6
  <2> QED BY <1>1, <2>1 DEF LedgerStep, Ledger!vars
<1>7. \A j \in Steps : receipts'[j] = receipts[j] \/ receipts'[j].kind = k
  BY <1>2, <1>3
<1>8. LedgerInv'
  <2>1. KindsFit(state', receipts')
    <3>1. \A j \in 1 .. state.completed : j \in Steps
      BY StateFacts
    <3> QED BY <1>1, <1>7, <3>1 DEF LedgerInv, KindsFit, Proof
  <2>2. Earned(state', receipts')
    <3>1. state.completed < TotalSteps => state.completed + 1 \in Steps
      BY StateFacts
    <3> QED BY <1>1, <1>7, <3>1 DEF LedgerInv, Earned
  <2>3. Clear(state', receipts')
    BY <1>1, <1>7 DEF LedgerInv, Clear, Proof
  <2> QED BY <2>1, <2>2, <2>3 DEF LedgerInv
<1> QED BY <1>1, <1>5, <1>6, <1>8, NoNewFailure DEF StepHolds

(* Steps that touch neither the state nor a receipt.                       *)
LEMMA OtherHolds ==
  ASSUME WorkflowInv, LedgerInv, state' = state, receipts' = receipts
  PROVE  StepHolds
  BY QuietStep DEF SameDone

LEMMA NextHolds ==
  ASSUME WorkflowInv, LedgerInv, [Next]_vars
  PROVE  StepHolds
<1>1. CASE Agent
  BY <1>1, BeginHolds, PublishHolds, CompleteHolds, FailHolds DEF Agent
<1>2. CASE Operator
  <2>1. CASE InitTopic \/ InitRollback
    BY <2>1, OtherHolds DEF InitTopic, InitRollback
  <2>2. CASE PauseWorkflow
    BY <2>2, PauseStep DEF PauseWorkflow, Write, MayPause, Running
  <2>3. ASSUME NEW c \in Callers, ResumeWorkflow(c) PROVE StepHolds
    BY <2>3, ResumeStep DEF ResumeWorkflow, Write, Active
  <2>4. CASE ReconcileWorkflow
    BY <2>4, ReconcileStep DEF ReconcileWorkflow, Write, Active, SameCount
  <2> QED BY <1>2, <2>1, <2>2, <2>3, <2>4, InitStateHolds, ImportHolds, ResetHolds
          DEF Operator
<1>3. CASE Host
  <2>1. CASE PromptPauseRefused
    BY <2>1, OtherHolds DEF PromptPauseRefused
  <2> QED BY <1>3, <2>1, StopHolds, PromptHolds DEF Host
<1>4. CASE Environment
  <2>1. CASE Crash
    BY <2>1, OtherHolds DEF Crash
  <2> QED BY <1>4, <2>1, TickHolds, TamperHolds DEF Environment
<1>5. CASE UNCHANGED vars
  BY <1>5, OtherHolds DEF vars
<1> QED BY <1>1, <1>2, <1>3, <1>4, <1>5 DEF Next

LEMMA LedgerInit ==
  ASSUME Init
  PROVE  LedgerInv /\ Ledger!Init
<1>1. \A i \in Steps : receipts[i].kind = "none"
  BY DEF Init, NoReceipt
<1>2. state.status = "absent" /\ state.completed = 0
  BY NoStateFields DEF Init
<1>3. LedgerInv
  BY <1>1, <1>2 DEF LedgerInv, KindsFit, Earned, Clear, Proof
<1>4. Ledger!Init
  BY <1>1, <1>2 DEF Ledger!Init, Present
<1> QED BY <1>3, <1>4

(* What the refinement needs beside WorkflowInv, by induction.             *)
THEOREM LedgerInvariant == Spec => []LedgerInv
<1>1. Init => LedgerInv
  BY LedgerInit
<1>2. WorkflowInv /\ LedgerInv /\ [Next]_vars => LedgerInv'
  BY NextHolds DEF StepHolds
<1> QED BY <1>1, <1>2, WorkflowInvariant, PTL DEF Spec

(* The manager implements the step ledger: every operation, hook, crash or *)
(* lost receipt is a step of the ledger or leaves it as it is.             *)
THEOREM ImplementsLedgerHolds == Spec => ImplementsLedger
<1>1. Init => Ledger!Init
  BY LedgerInit
<1>2. WorkflowInv /\ LedgerInv /\ [Next]_vars => [Ledger!Next]_(Ledger!vars)
  BY NextHolds DEF StepHolds, LedgerStep
<1> QED BY <1>1, <1>2, WorkflowInvariant, LedgerInvariant, PTL
        DEF Spec, ImplementsLedger, Ledger!Spec

(* failStep and the Stop hook: an attempt adds at most one failure.        *)
THEOREM FailureCountedOnceHolds == Spec => FailureCountedOnce
<1>1. WorkflowInv /\ LedgerInv /\ [Next]_vars => [CountsOnce]_vars
  BY NextHolds DEF StepHolds
<1> QED BY <1>1, WorkflowInvariant, LedgerInvariant, PTL
        DEF Spec, FailureCountedOnce, CountsOnce

-----------------------------------------------------------------------------
(* How often a Stop holds the host back                                    *)

(* Every failure pays for one Stop that is held back, and one more is free *)
(* once the open marker was asked for; n counts the Stops held back.       *)
Paid(s, n) ==
  /\ n \in 0 .. RetryLimit
  /\ s.status = "running" =>
       /\ s.failures < RetryLimit
       /\ n <= s.failures + (IF Unasked(s) THEN 0 ELSE 1)

PressInv == Paid(state, pressed)

LEMMA PaidSame ==
  ASSUME NEW s, NEW t, NEW n, Paid(s, n), t.status = s.status,
         t.failures = s.failures, Unasked(t) => Unasked(s), s.failures \in Nat
  PROVE  Paid(t, n)
  BY DEF Paid, RetryLimit

LEMMA PaidAtRest ==
  ASSUME NEW s, NEW t, NEW n, Paid(s, n), t.status # "running"
  PROVE  Paid(t, n)
  BY DEF Paid

LEMMA PaidAnew ==
  ASSUME NEW t, t.failures = 0
  PROVE  Paid(t, 0)
  BY DEF Paid, RetryLimit

(* After a failure the workflow is blocked, or its new marker is unasked.  *)
LEMMA PaidFailure ==
  ASSUME NEW s \in State, nonces \in Nat, NEW n, Paid(s, n), s.status = "running"
  PROVE  Paid(RecordFailure(s), n)
<1> DEFINE f == RecordFailure(s)
<1>1. /\ f.failures = s.failures + 1
      /\ IF s.failures + 1 >= RetryLimit
         THEN f.status = "blocked" ELSE Unasked(f)
  BY RecordFailureFields
<1>2. s.failures \in Nat
  BY DEF State
<1> HIDE DEF f
<1>3. Paid(f, n)
  BY <1>1, <1>2 DEF Paid, RetryLimit
<1> QED BY <1>3 DEF f

(* reconcile starts the count anew where it recovers a step.               *)
LEMMA PaidReconciled ==
  ASSUME WorkflowInv, PressInv, state.status # "absent"
  PROVE  Paid(Reconciled(state), IF RecoversForward(state) THEN 0 ELSE pressed)
<1> DEFINE r == Reconciled(state)
<1>1. \/ ~RecoversForward(state) /\ Kept(r, state)
      \/ RecoversForward(state) /\ Recovered(r, state)
      \/ ~RecoversForward(state) /\ Refuses(r, state)
  BY StateFacts, ReconciledFields
<1> HIDE DEF r
<1>2. CASE ~RecoversForward(state) /\ Kept(r, state)
  <2>1. Paid(r, pressed)
    BY <1>2, StateFacts, PaidSame
       DEF PressInv, Kept, SameControl, SameCount, Unasked, Waiting
  <2> QED BY <1>2, <2>1 DEF r
<1>3. CASE RecoversForward(state) /\ Recovered(r, state)
  <2>1. Paid(r, 0)
    BY <1>3, PaidAnew DEF Recovered
  <2> QED BY <1>3, <2>1 DEF r
<1>4. CASE ~RecoversForward(state) /\ Refuses(r, state)
  <2>1. Paid(r, pressed)
    BY <1>4, PaidAtRest DEF PressInv, Refuses
  <2> QED BY <1>4, <2>1 DEF r
<1> QED BY <1>1, <1>2, <1>3, <1>4

LEMMA StopPaid ==
  ASSUME WorkflowInv, PressInv, NEW t \in Turns, NEW b \in BOOLEAN,
         ProcessStop(t, b)
  PROVE  PressInv'
<1> DEFINE r == Reconciled(state)
           n == IF RecoversForward(state) THEN 0 ELSE pressed
<1>1. state.status # "absent"
  BY DEF ProcessStop, StopRelease, StopReplay, StopRequest, StopFail, Active
<1>2. r \in State /\ nonces \in Nat
  BY StateFacts, ReconciledFields
<1>3. Paid(r, n)
  BY <1>1, PaidReconciled
<1>4. \A held, active : Pressed(held, active) = IF held /\ active THEN n + 1 ELSE n
  BY DEF Pressed
<1>5. \/ state' = r /\ pressed' = n
      \/ StopRequest(t, b)
      \/ StopFail(t, b)
  BY <1>4 DEF ProcessStop, StopRelease, StopReplay, StopReplays, StopEffect, Write
<1>a. n \in Nat /\ r.failures \in Nat /\ NoTurn \notin Turns
  BY <1>2, <1>3 DEF Paid, RetryLimit, State
<1>6. CASE state' = r /\ pressed' = n
  BY <1>3, <1>6 DEF PressInv
<1>7. CASE StopRequest(t, b)
  <2>1. /\ state' = Requested(r, t)
        /\ pressed' \in {n, n + 1}
        /\ r.status = "running"
        /\ Unasked(r)
    BY <1>4, <1>7 DEF StopRequest, StopRequests, StopEffect, Write, Unasked, Waiting
  <2> HIDE DEF n, r
  <2>2. state'.failures = r.failures /\ state'.status = "running" /\ ~Unasked(state')
    BY <1>2, <1>a, <2>1, RequestedFields DEF SameCount, Unasked
  <2>3. r.failures < RetryLimit /\ n <= r.failures
    BY <1>3, <1>a, <2>1 DEF Paid
  <2> QED BY <1>a, <2>1, <2>2, <2>3 DEF PressInv, Paid, RetryLimit
<1>8. CASE StopFail(t, b)
  <2> DEFINE s == Renewed(r)
             f == RecordFailure(s)
  <2>1. /\ state' = IF f.status = "blocked" THEN f ELSE Requested(f, t)
        /\ r.status = "running"
        /\ r.continuation = 0
        /\ pressed' = IF state'.status = "running" /\ b THEN n + 1 ELSE n
    BY <1>4, <1>8 DEF StopFail, StopFails, StopFailure, StopEffect, Write
  <2> HIDE DEF n, r
  <2>2. s \in State /\ SameControl(s, r)
    BY <1>2, RenewedFields
  <2> HIDE DEF s
  <2>3. /\ f \in State
        /\ f.failures = r.failures + 1
        /\ f.status = IF r.failures + 1 >= RetryLimit THEN "blocked" ELSE "running"
    BY <1>2, <2>1, <2>2, RecordFailureFields DEF SameControl, SameCount
  <2> HIDE DEF f
  <2>4. r.failures < RetryLimit /\ n <= r.failures + 1
    BY <1>3, <1>a, <2>1 DEF Paid, Unasked
  <2>5. CASE f.status = "blocked"
    BY <1>a, <2>1, <2>4, <2>5 DEF PressInv, Paid, RetryLimit
  <2>6. CASE f.status # "blocked"
    <3>1. /\ state'.failures = r.failures + 1
          /\ state'.status = "running"
          /\ ~Unasked(state')
      BY <1>a, <2>1, <2>3, <2>6, RequestedFields DEF SameCount, Unasked
    <3>2. r.failures + 1 < RetryLimit
      BY <1>a, <2>3, <2>6 DEF RetryLimit
    <3>3. pressed' \in {n, n + 1}
      BY <2>1
    <3> QED BY <1>a, <2>4, <3>1, <3>2, <3>3 DEF PressInv, Paid, RetryLimit
  <2> QED BY <2>5, <2>6
<1> QED BY <1>5, <1>6, <1>7, <1>8

LEMMA NextPaid ==
  ASSUME WorkflowInv, PressInv, [Next]_vars
  PROVE  PressInv'
<1>0. state \in State /\ state.failures \in Nat
  BY StateFacts
<1>1. CASE Agent
  <2>1. ASSUME NEW c, NEW m, BeginStep(c, m) PROVE PressInv'
    <3>1. /\ state'.status = state.status
          /\ state'.failures = state.failures
          /\ ~Unasked(state')
          /\ pressed' = pressed
      BY <1>0, <2>1 DEF BeginStep, Write, Claimed, State, Unasked, Waiting
    <3> QED BY <1>0, <3>1, PaidSame DEF PressInv
  <2>2. ASSUME NEW a, NEW c, PublishReceipt(a, c) PROVE PressInv'
    BY <2>2 DEF PublishReceipt, PressInv, Paid, Unasked, Waiting
  <2>3. CASE \/ CommitCompletion
             \/ \E a \in 1 .. spent, c \in Contents : RetryCompletion(a, c)
    <3> DEFINE r == IF Expired(state.owner) THEN OwnerReleased(state) ELSE Renewed(state)
               q == Renewed(state)
    <3>1. pressed' = 0 /\ (state' = Advanced(r) \/ state' = Advanced(q))
      BY <2>3 DEF CommitCompletion, RetryCompletion, Write
    <3>2. /\ r \in State /\ r.completed = state.completed
          /\ q \in State /\ q.completed = state.completed
      BY <1>0, RenewedFields, OwnerReleasedFields DEF SameControl, SameCount
    <3>a. state.status = "running"
      BY <2>3 DEF CommitCompletion, RetryCompletion, MayComplete, Running, WorkflowInv,
                  Pending
    <3>3. state.completed < TotalSteps
      BY <3>a, StateFacts
    <3> HIDE DEF r, q
    <3>4. state'.failures = 0
      BY <3>1, <3>2, <3>3, StateFacts, AdvancedFields
    <3> QED BY <3>1, <3>4, PaidAnew DEF PressInv
  <2>4. ASSUME NEW a, FailStep(a) PROVE PressInv'
    <3>1. /\ state' = RecordFailure(Renewed(state))
          /\ state.status = "running"
          /\ pressed' = pressed
      BY <2>4 DEF FailStep, Write, Running
    <3>2. Renewed(state) \in State /\ SameControl(Renewed(state), state)
      BY <1>0, RenewedFields
    <3>3. Paid(Renewed(state), pressed) /\ Renewed(state).status = "running"
      BY <1>0, <3>1, <3>2, PaidSame
         DEF PressInv, SameControl, SameCount, Unasked, Waiting
    <3> QED BY <3>1, <3>2, <3>3, StateFacts, PaidFailure DEF PressInv
  <2> QED BY <1>1, <2>1, <2>2, <2>3, <2>4 DEF Agent
<1>2. CASE Operator
  <2>1. CASE InitTopic \/ InitRollback
    BY <2>1 DEF InitTopic, InitRollback, PressInv, Paid, Unasked, Waiting
  <2>2. CASE InitState
    <3> DEFINE s == [NoState EXCEPT !.status = "running"]
    <3>1. state' = Issued(s, FALSE) /\ pressed' = 0
      BY <2>2 DEF InitState, Write
    <3>2. s \in State /\ s.failures = 0
      BY NoStateFields DEF NoState, State, Statuses
    <3> HIDE DEF s
    <3>3. state'.failures = 0
      BY <3>1, <3>2, StateFacts, IssuedFields DEF SameCount
    <3> QED BY <3>1, <3>3, PaidAnew DEF PressInv
  <2>3. ASSUME NEW p, ImportClaude(p) PROVE PressInv'
    <3>1. state'.failures = 0 /\ pressed' = 0
      BY <2>3 DEF ImportClaude, Write, NoState
    <3> QED BY <3>1, PaidAnew DEF PressInv
  <2>4. CASE PauseWorkflow
    <3>1. state'.status = "paused" /\ pressed' = pressed
      BY <1>0, <2>4, PausedFields DEF PauseWorkflow, Write
    <3> QED BY <3>1, PaidAtRest DEF PressInv
  <2>5. ASSUME NEW c \in Callers, ResumeWorkflow(c) PROVE PressInv'
    <3>1. state'.failures = 0 /\ pressed' = 0
      BY <2>5, StateFacts, ResumedFields DEF ResumeWorkflow, Write
    <3> QED BY <3>1, PaidAnew DEF PressInv
  <2>6. CASE ReconcileWorkflow
    BY <2>6, PaidReconciled DEF ReconcileWorkflow, Write, Active, PressInv
  <2>7. CASE ResetWorkflow
    <3>1. state'.status # "running" /\ pressed' = pressed
      BY <2>7 DEF ResetWorkflow, Write, NoState
    <3> QED BY <3>1, PaidAtRest DEF PressInv
  <2> QED BY <1>2, <2>1, <2>2, <2>3, <2>4, <2>5, <2>6, <2>7 DEF Operator
<1>3. CASE Host
  <2>1. ASSUME NEW m, SubmitPrompt(m) PROVE PressInv'
    <3>1. /\ state'.status = state.status
          /\ state'.failures = state.failures
          /\ Unasked(state') => Unasked(state)
          /\ pressed' = pressed
      BY <1>0, <2>1 DEF SubmitPrompt, State, Delivery, Unasked, Waiting
    <3> QED BY <1>0, <3>1, PaidSame DEF PressInv
  <2>2. CASE PromptPause
    <3>1. pressed' = pressed /\ (state' = state \/ state' = Paused(state))
      BY <2>2 DEF PromptPause, Write
    <3>2. Paused(state).status = "paused"
      BY <1>0, PausedFields
    <3> QED BY <3>1, <3>2, PaidAtRest DEF PressInv
  <2>3. CASE PromptPauseRefused
    BY <2>3 DEF PromptPauseRefused, PressInv, Paid, Unasked, Waiting
  <2> QED BY <1>3, <2>1, <2>2, <2>3, StopPaid DEF Host
<1>4. CASE Environment
  <2>1. CASE Tick
    <3>1. /\ state'.status = state.status
          /\ state'.failures = state.failures
          /\ Unasked(state') => Unasked(state)
          /\ pressed' = pressed
      BY <1>0, <2>1 DEF Tick, State, Unasked, Waiting
    <3> QED BY <1>0, <3>1, PaidSame DEF PressInv
  <2>2. CASE UNCHANGED <<state, pressed>>
    BY <2>2 DEF PressInv, Paid, Unasked, Waiting
  <2> QED BY <1>4, <2>1, <2>2 DEF Environment, Crash, TamperReceipt
<1>5. CASE UNCHANGED vars
  BY <1>5 DEF vars, PressInv, Paid, Unasked, Waiting
<1> QED BY <1>1, <1>2, <1>3, <1>4, <1>5 DEF Next

(* The Stop hook holds a host that reports stop_hook_active back at most   *)
(* RetryLimit times before the workflow advances, blocks or is resumed.    *)
THEOREM StopPressBoundedHolds == Spec => []StopPressBounded
<1>1. Init => PressInv
  BY PaidAnew, NoStateFields DEF Init, PressInv, NoState
<1>2. WorkflowInv /\ PressInv /\ [Next]_vars => PressInv'
  BY NextPaid
<1>3. PressInv => StopPressBounded
  BY DEF PressInv, Paid, StopPressBounded
<1> QED BY <1>1, <1>2, <1>3, WorkflowInvariant, PTL DEF Spec
=============================================================================
