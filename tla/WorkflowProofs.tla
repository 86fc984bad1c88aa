--------------------------- MODULE WorkflowProofs ---------------------------
(***************************************************************************)
(* The safety of the workflow manager for any number of steps, sessions,   *)
(* turns and disruptions.  First what each change of the state keeps       *)
(* (Good), then what each action keeps (WorkflowInv), then the theorems.   *)
(***************************************************************************)
EXTENDS Workflow, FiniteSetTheorems, TLAPS

USE ConstantsAssumption DEF Steps, Slots, Callers

USE DEF State, Attempt, Owner, Delivery, Statuses, Reasons

-----------------------------------------------------------------------------
(* The trusted prefix                                                      *)

(* TrustedLength really is the length of the longest trusted prefix.       *)
LEMMA TrustedLengthCounts ==
  ASSUME NEW s
  PROVE  /\ TrustedLength(s) \in 0 .. TotalSteps
         /\ \A i \in 1 .. TrustedLength(s) : Trusted(s, i)
<1> DEFINE P == TrustedPrefix(s)
<1>1. P \in SUBSET (1 .. TotalSteps)
  BY DEF TrustedPrefix
<1>2. \A i \in P : \A j \in 1 .. i : j \in P /\ Trusted(s, j)
  BY DEF TrustedPrefix
<1>3. IsFiniteSet(1 .. TotalSteps) /\ Cardinality(1 .. TotalSteps) = TotalSteps
  BY FS_Interval
<1>4. IsFiniteSet(P) /\ Cardinality(P) <= TotalSteps
  BY <1>1, <1>3, FS_Subset
<1>5. Cardinality(P) \in Nat
  BY <1>4, FS_CardinalityType
<1>6. \A i \in 1 .. Cardinality(P) : i \in P
  <2> SUFFICES ASSUME NEW i \in 1 .. Cardinality(P), i \notin P PROVE FALSE
    OBVIOUS
  <2>1. P \in SUBSET (1 .. (i - 1))
    BY <1>1, <1>2, <1>4, <1>5
  <2>2. i - 1 \in Nat /\ i - 1 < Cardinality(P)
    BY <1>5
  <2>3. IsFiniteSet(1 .. (i - 1)) /\ Cardinality(1 .. (i - 1)) = i - 1
    BY <2>2, FS_Interval
  <2>4. Cardinality(P) <= i - 1
    BY <2>1, <2>3, FS_Subset
  <2> QED BY <2>2, <2>4, <1>5
<1>7. \A i \in 1 .. Cardinality(P) : Trusted(s, i)
  BY <1>2, <1>5, <1>6, <1>1
<1> HIDE DEF P
<1> QED BY <1>4, <1>5, <1>7 DEF TrustedLength, P

(* A trusted receipt is present.                                           *)
LEMMA TrustedIsPresent ==
  ASSUME NEW s, NEW i, Trusted(s, i)
  PROVE  Present(i)
  BY DEF Trusted, Present

-----------------------------------------------------------------------------
(* What each change of the state keeps                                     *)

(* Good is a matter of the fields a change leaves or sets.                  *)
LEMMA GoodFields ==
  ASSUME NEW s \in State, Valid(s), NEW r, Good(r),
         s.completed = r.completed,
         s.attempt.id = r.attempt.id,
         s.attempt.session = r.attempt.session,
         s.attempt # NoAttempt <=> r.attempt # NoAttempt,
         Live(s) => Live(r),
         s.continuation \in {0, r.continuation},
         Live(s) /\ s.owner # NoOwner =>
           r.owner # NoOwner /\ s.owner.session = r.owner.session
  PROVE  Good(s)
<1>1. Backed(s)
  BY DEF Good, Backed
<1>2. Owned(s)
  BY DEF Good, Owned
<1>3. Marked(s)
  BY DEF Good, Marked
<1>4. PaysOnce(s)
  BY DEF Good, PaysOnce, Current
<1>5. ~(Waiting(s) /\ Live(s))
  BY DEF Good, Waiting
<1> QED BY <1>1, <1>2, <1>3, <1>4, <1>5 DEF Good

(* Nobody works on a state without a live attempt.                         *)
LEMMA GoodIdle ==
  ASSUME NEW s \in State, Valid(s), Backed(s), Marked(s), ~Live(s)
  PROVE  Good(s)
  BY DEF Good, Owned, PaysOnce

(* A fresh lease, and an expired or a new owner.                           *)
LEMMA RenewedGood ==
  ASSUME NEW s, Good(s)
  PROVE  /\ Good(Renewed(s))
         /\ Renewed(s) = [s EXCEPT !.owner = Renewed(s).owner]
         /\ Renewed(s).owner.session = s.owner.session
<1>1. s \in State /\ Valid(s)
  BY DEF Good
<1>2. /\ Renewed(s) \in State
      /\ Renewed(s) = [s EXCEPT !.owner = Renewed(s).owner]
      /\ Renewed(s).owner # NoOwner => s.owner # NoOwner
      /\ Renewed(s).owner.session = s.owner.session
  BY <1>1 DEF Renewed, NoOwner
<1>3. Valid(Renewed(s)) /\ (Live(Renewed(s)) <=> Live(s))
  BY <1>1, <1>2 DEF Valid, Live, AllDone
<1> QED BY <1>1, <1>2, <1>3, GoodFields

LEMMA OwnerReleasedGood ==
  ASSUME NEW s, Good(s)
  PROVE  /\ Good(OwnerReleased(s))
         /\ OwnerReleased(s) = [s EXCEPT !.owner = OwnerReleased(s).owner]
<1>1. s \in State /\ Valid(s)
  BY DEF Good
<1>2. /\ OwnerReleased(s) \in State
      /\ OwnerReleased(s) = [s EXCEPT !.owner = OwnerReleased(s).owner]
      /\ OwnerReleased(s).owner # NoOwner => OwnerReleased(s).owner = s.owner
  BY <1>1 DEF OwnerReleased, NoOwner
<1>3. Valid(OwnerReleased(s)) /\ (Live(OwnerReleased(s)) <=> Live(s))
  BY <1>1, <1>2 DEF Valid, Live, AllDone
<1> QED BY <1>1, <1>2, <1>3, GoodFields

(* A new marker goes to a running workflow on which nobody works.          *)
LEMMA IssuedGood ==
  ASSUME NEW s \in State, NEW allow \in BOOLEAN, spent \in Nat, nonces \in Nat,
         spent <= nonces, s.status = "running", ~Live(s),
         Backed(s), s.attempt.id <= spent,
         s.attempt # NoAttempt => s.attempt.id # 0,
         ~AllDone(s), s.imported <= s.completed, s.reason = "none"
  PROVE  Good(Issued(s, allow)) /\ Issued(s, allow).attempt = s.attempt
<1> DEFINE t == Issued(s, allow)
           n == nonces + 1
           f == FreshDelivery(allow)
<1>0. n \in Nat /\ f \in Delivery /\ t = [s EXCEPT !.continuation = n, !.delivery = f]
  BY DEF FreshDelivery, Issued
<1> HIDE DEF n, f, t
<1>1. /\ t \in State
      /\ t.status = "running"
      /\ t.completed = s.completed
      /\ t.imported = s.imported
      /\ t.reason = "none"
      /\ t.attempt = s.attempt
      /\ t.continuation = n
      /\ t.delivery = f
  BY <1>0
<1>2. Valid(t)
  BY <1>1 DEF Valid, FreshDelivery, AllDone, n, f
<1>3. Backed(t) /\ Marked(t) /\ ~Live(t)
  BY <1>1 DEF Backed, Marked, Live, n
<1>4. Good(t)
  BY <1>1, <1>2, <1>3, GoodIdle
<1> QED BY <1>1, <1>4 DEF t

(* A marker that is withdrawn with its delivery, the workflow having left  *)
(* the running state.                                                      *)
LEMMA WithdrawnFields ==
  ASSUME NEW s \in State
  PROVE  /\ Withdrawn(s) \in State
         /\ Withdrawn(s) = [s EXCEPT !.continuation = 0, !.delivery = NoDelivery]
         /\ Withdrawn(s).status = s.status
         /\ Withdrawn(s).completed = s.completed
         /\ Withdrawn(s).imported = s.imported
         /\ Withdrawn(s).reason = s.reason
         /\ Withdrawn(s).attempt = s.attempt
         /\ Withdrawn(s).owner = s.owner
         /\ Withdrawn(s).failures = s.failures
         /\ Withdrawn(s).continuation = 0
         /\ Withdrawn(s).delivery = NoDelivery
  BY DEF Withdrawn, NoDelivery

(* Both ways a failure ends: blocked, or one more marker.                  *)
LEMMA RecordFailureGood ==
  ASSUME NEW s, Good(s), spent \in Nat, nonces \in Nat, spent <= nonces,
         s.status = "running", Live(s)
  PROVE  /\ Good(RecordFailure(s))
         /\ RecordFailure(s).attempt = [s.attempt EXCEPT !.failed = TRUE]
<1> DEFINE f == Failed(s)
           g == [s.attempt EXCEPT !.failed = TRUE]
           n == s.failures + 1
<1>0. /\ s \in State
      /\ s.reason = "none"
      /\ n \in Nat
  BY DEF Good, Valid
<1>b. /\ g \in Attempt
      /\ g.id = s.attempt.id
      /\ g.failed = TRUE
  BY <1>0
<1>a. f = [s EXCEPT !.failures = n, !.attempt = g]
  BY <1>0 DEF Failed
<1> HIDE DEF g, n, f
<1>1. /\ f \in State
      /\ f.status = "running"
      /\ f.completed = s.completed
      /\ f.imported = s.imported
      /\ f.reason = "none"
      /\ f.attempt = g
  BY <1>0, <1>a, <1>b
<1>c. /\ ~Live(f)
      /\ f.attempt # NoAttempt
      /\ f.attempt.id = s.attempt.id
  BY <1>b, <1>1 DEF Live, NoAttempt
<1>2. /\ f.attempt.id <= spent
      /\ f.attempt.id # 0
      /\ Backed(f)
      /\ ~AllDone(f)
      /\ f.imported <= f.completed
  BY <1>1, <1>c DEF Good, Valid, Backed, Marked, Live, AllDone
<1>3. CASE s.failures + 1 >= RetryLimit
  <2> DEFINE b == [f EXCEPT !.status = "blocked", !.reason = "THREE_CONSECUTIVE_FAILURES"]
             w == Withdrawn(b)
  <2>1. /\ b \in State
        /\ b.status = "blocked"
        /\ b.reason = "THREE_CONSECUTIVE_FAILURES"
        /\ b.completed = f.completed
        /\ b.imported = f.imported
        /\ b.attempt = f.attempt
    BY <1>1
  <2> HIDE DEF b
  <2>2. /\ w \in State
        /\ w.status = "blocked"
        /\ w.reason = "THREE_CONSECUTIVE_FAILURES"
        /\ w.completed = f.completed
        /\ w.imported = f.imported
        /\ w.attempt = f.attempt
        /\ w.continuation = 0
        /\ w.delivery = NoDelivery
    BY <2>1, WithdrawnFields
  <2>3. RecordFailure(s) = w
    BY <1>3 DEF RecordFailure, w, b, f
  <2> HIDE DEF w
  <2>4. Valid(w) /\ Backed(w) /\ Marked(w) /\ ~Live(w)
    BY <1>1, <1>c, <1>2, <2>2 DEF Valid, Backed, Marked, Live, NoDelivery, AllDone
  <2> QED BY <1>1, <2>2, <2>3, <2>4, GoodIdle DEF g
<1>4. CASE ~(s.failures + 1 >= RetryLimit)
  <2>1. RecordFailure(s) = Issued(f, TRUE)
    BY <1>4 DEF RecordFailure, f
  <2> QED BY <1>1, <1>c, <1>2, <2>1, IssuedGood DEF g
<1> QED BY <1>3, <1>4

(* A finished step: the receipt of the current step is on disk.            *)
LEMMA AdvancedGood ==
  ASSUME NEW s, Good(s), spent \in Nat, nonces \in Nat, spent <= nonces,
         s.status = "running", Present(Current(s))
  PROVE  /\ Good(Advanced(s))
         /\ Advanced(s).attempt = NoAttempt
<1> DEFINE a == [s EXCEPT !.completed = @ + 1, !.attempt = NoAttempt, !.failures = 0]
           d == Withdrawn(a)
           n == s.completed + 1
<1>0. /\ s \in State
      /\ s.reason = "none"
      /\ n \in 0 .. TotalSteps
      /\ NoAttempt \in Attempt
      /\ a = [s EXCEPT !.completed = n, !.attempt = NoAttempt, !.failures = 0]
  BY DEF Good, Valid, NoAttempt, AllDone
<1> HIDE DEF n
<1>1. /\ a \in State
      /\ a.status = "running"
      /\ a.attempt = NoAttempt
      /\ a.completed = s.completed + 1
      /\ a.imported = s.imported
      /\ a.reason = "none"
  BY <1>0 DEF n
<1> HIDE DEF a
<1>2. /\ d \in State
      /\ d.status = "running"
      /\ d.attempt = NoAttempt
      /\ d.completed = s.completed + 1
      /\ d.imported = s.imported
      /\ d.reason = "none"
      /\ d.continuation = 0
      /\ d.delivery = NoDelivery
  BY <1>1, WithdrawnFields
<1>3. Advanced(s) = IF AllDone(d) THEN [d EXCEPT !.status = "completed"]
                                  ELSE Issued(d, TRUE)
  BY DEF Advanced, d, a
<1> HIDE DEF d
<1>4. /\ Backed(d)
      /\ d.imported <= d.completed
      /\ ~Live(d)
      /\ d.attempt.id <= spent
  BY <1>2 DEF Good, Valid, Backed, Current, Live, NoAttempt
<1>5. CASE AllDone(d)
  <2> DEFINE e == [d EXCEPT !.status = "completed"]
  <2>1. /\ e \in State
        /\ e.status = "completed"
        /\ e.attempt = NoAttempt
        /\ e.completed = d.completed
        /\ e.imported = d.imported
        /\ e.reason = "none"
        /\ e.continuation = 0
        /\ e.delivery = NoDelivery
    BY <1>2
  <2> HIDE DEF e
  <2>2. Valid(e) /\ Backed(e) /\ Marked(e) /\ ~Live(e)
    BY <1>2, <1>4, <1>5, <2>1 DEF Valid, Backed, Marked, Live, NoDelivery, NoAttempt, AllDone
  <2>3. Good(e)
    BY <2>1, <2>2, GoodIdle
  <2> QED BY <1>3, <1>5, <2>1, <2>3 DEF e
<1>6. CASE ~AllDone(d)
  <2>1. Good(Issued(d, TRUE)) /\ Issued(d, TRUE).attempt = NoAttempt
    BY <1>2, <1>4, <1>6, IssuedGood
  <2> QED BY <1>3, <1>6, <2>1
<1> QED BY <1>5, <1>6

(* Pausing withdraws the marker.                                           *)
LEMMA PausedGood ==
  ASSUME NEW s, Good(s), s.status = "running"
  PROVE  /\ Good(Paused(s))
         /\ Paused(s).attempt = s.attempt
<1> DEFINE r == Renewed(s)
           u == [r EXCEPT !.status = "paused"]
           w == Withdrawn(u)
<1>1. Good(r) /\ r.attempt = s.attempt /\ r.status = "running"
  BY RenewedGood DEF Good
<1> HIDE DEF r
<1>2. /\ u \in State
      /\ u.status = "paused"
      /\ u.attempt = r.attempt
      /\ u.completed = r.completed
      /\ u.imported = r.imported
      /\ u.reason = r.reason
      /\ u.owner = r.owner
  BY <1>1 DEF Good
<1> HIDE DEF u
<1>3. /\ w \in State
      /\ w.status = "paused"
      /\ w.attempt = r.attempt
      /\ w.completed = r.completed
      /\ w.imported = r.imported
      /\ w.reason = r.reason
      /\ w.owner = r.owner
      /\ w.continuation = 0
      /\ w.delivery = NoDelivery
  BY <1>2, WithdrawnFields
<1>4. Paused(s) = w
  BY DEF Paused, w, u, r
<1> HIDE DEF w
<1>5. Valid(w) /\ (Live(w) <=> Live(r))
  BY <1>1, <1>3 DEF Good, Valid, Live, AllDone, NoDelivery
<1>6. Good(w)
  BY <1>1, <1>3, <1>5, GoodFields
<1> QED BY <1>1, <1>3, <1>4, <1>6

(* Resuming discards the attempt and hands the workflow over.              *)
LEMMA ResumedGood ==
  ASSUME NEW s, Good(s), NEW c \in Callers, spent \in Nat, nonces \in Nat,
         spent <= nonces, s.status # "completed"
  PROVE  /\ Good(Resumed(s, c))
         /\ Resumed(s, c).attempt = NoAttempt
<1> DEFINE a == [s EXCEPT !.status = "running", !.attempt = NoAttempt,
                          !.failures = 0, !.reason = "none"]
           r == Claimed(a, c)
<1>1. /\ a \in State
      /\ a.status = "running"
      /\ a.attempt = NoAttempt
      /\ a.completed = s.completed
      /\ a.imported = s.imported
      /\ a.reason = "none"
  BY DEF Good, NoAttempt
<1> HIDE DEF a
<1>2. /\ r \in State
      /\ r.status = "running"
      /\ r.attempt = NoAttempt
      /\ r.completed = s.completed
      /\ r.imported = s.imported
      /\ r.reason = "none"
  BY <1>1 DEF Claimed, NoOwner
<1>3. Resumed(s, c) = Issued(r, FALSE)
  BY DEF Resumed, r, a
<1> HIDE DEF r
<1>4. /\ ~Live(r)
      /\ Backed(r)
      /\ r.attempt.id <= spent
      /\ ~AllDone(r)
      /\ r.imported <= r.completed
  BY <1>2 DEF Good, Valid, Backed, Live, AllDone, NoAttempt
<1> QED BY <1>2, <1>3, <1>4, IssuedGood

(* Handing the marker to a turn.                                           *)
LEMMA RequestedGood ==
  ASSUME NEW s, Good(s), NEW t \in Turns
  PROVE  /\ Good(Requested(s, t))
         /\ Requested(s, t).attempt = s.attempt
<1> DEFINE d == [s.delivery EXCEPT !.turn = t]
           r == Requested(s, t)
<1>1. s \in State /\ Valid(s) /\ s.delivery \in Delivery
  BY DEF Good
<1>2. /\ d \in Delivery
      /\ d.open = s.delivery.open
      /\ d.turn # NoTurn
  BY <1>1
<1>3. r = [s EXCEPT !.delivery = d]
  BY <1>1 DEF Requested
<1> HIDE DEF d, r
<1>4. /\ r \in State
      /\ r.status = s.status
      /\ r.completed = s.completed
      /\ r.imported = s.imported
      /\ r.reason = s.reason
      /\ r.attempt = s.attempt
      /\ r.owner = s.owner
      /\ r.continuation = s.continuation
      /\ r.delivery = d
  BY <1>1, <1>2, <1>3
<1>5. Valid(r) /\ (Live(r) <=> Live(s))
  BY <1>1, <1>2, <1>4 DEF Valid, Live, AllDone
<1>6. Good(r)
  BY <1>4, <1>5, GoodFields
<1> QED BY <1>4, <1>6 DEF r

-----------------------------------------------------------------------------
(* Reconciliation                                                          *)

LEMMA FallbackBacked ==
  ASSUME NEW s
  PROVE  /\ Fallback(s) \in 0 .. TotalSteps
         /\ Fallback(s) < TotalSteps
         /\ Fallback(s) <= TrustedLength(s)
         /\ \A i \in 1 .. Fallback(s) : Present(i)
<1>1. /\ Fallback(s) \in 0 .. TotalSteps
      /\ Fallback(s) < TotalSteps
      /\ Fallback(s) <= TrustedLength(s)
  BY TrustedLengthCounts DEF Fallback
<1>2. \A i \in 1 .. Fallback(s) : Trusted(s, i)
  BY <1>1, TrustedLengthCounts
<1> QED BY <1>1, <1>2, TrustedIsPresent

(* A blocked state stands on what is trusted.                              *)
LEMMA BlockedAtFields ==
  ASSUME NEW s \in State, NEW reason \in Reasons, reason # "none"
  PROVE  LET b == BlockedAt(s, reason)
         IN  /\ b \in State
             /\ b.status = "blocked"
             /\ b.reason = reason
             /\ b.completed = Fallback(s)
             /\ b.imported <= b.completed
             /\ b.attempt = s.attempt
             /\ b.owner = s.owner
             /\ b.failures = s.failures
             /\ b.continuation = 0
             /\ b.delivery = NoDelivery
<1> DEFINE f == Fallback(s)
           i == IF s.imported < f THEN s.imported ELSE f
           a == [s EXCEPT !.status = "blocked", !.reason = reason,
                          !.completed = f, !.imported = i]
<1>1. f \in 0 .. TotalSteps
  BY FallbackBacked
<1> HIDE DEF f
<1>2. i \in 0 .. TotalSteps /\ i <= f
  BY <1>1
<1>3. BlockedAt(s, reason) = Withdrawn(a)
  BY DEF BlockedAt, f
<1> HIDE DEF i
<1>4. /\ a \in State
      /\ a.status = "blocked"
      /\ a.reason = reason
      /\ a.completed = f
      /\ a.imported = i
      /\ a.attempt = s.attempt
      /\ a.owner = s.owner
      /\ a.failures = s.failures
  BY <1>1, <1>2
<1> HIDE DEF a
<1>5. /\ Withdrawn(a) \in State
      /\ Withdrawn(a).status = "blocked"
      /\ Withdrawn(a).reason = reason
      /\ Withdrawn(a).completed = f
      /\ Withdrawn(a).imported = i
      /\ Withdrawn(a).attempt = s.attempt
      /\ Withdrawn(a).owner = s.owner
      /\ Withdrawn(a).failures = s.failures
      /\ Withdrawn(a).continuation = 0
      /\ Withdrawn(a).delivery = NoDelivery
  BY <1>4, WithdrawnFields
<1>6. Withdrawn(a).imported <= Withdrawn(a).completed
  BY <1>2, <1>5
<1> QED BY <1>3, <1>5, <1>6 DEF f

(* Without an attempt, a blocked state on a trusted prefix is good.        *)
LEMMA BlockedIdleGood ==
  ASSUME NEW s \in State, NEW b \in State,
         b.status = "blocked", b.reason # "none", b.completed = Fallback(s),
         b.imported <= b.completed, b.attempt = NoAttempt, b.continuation = 0,
         b.delivery = NoDelivery, spent \in Nat
  PROVE  Good(b)
<1>1. Valid(b)
  BY FallbackBacked DEF Valid, AllDone, NoDelivery
<1>2. Backed(b)
  BY FallbackBacked DEF Backed
<1>3. Marked(b) /\ ~Live(b)
  BY DEF Marked, Live, NoAttempt
<1> QED BY <1>1, <1>2, <1>3, GoodIdle

LEMMA RefusedGood ==
  ASSUME NEW s, Good(s), Refused(s), spent \in Nat
  PROVE  /\ Good(RefusedState(s))
         /\ RefusedState(s).attempt \in {s.attempt, NoAttempt}
<1> DEFINE b == BlockedAt(s, "RECEIPT_AUTHORITY")
<1>0. s \in State /\ Valid(s)
  BY DEF Good
<1>1. /\ b \in State
      /\ b.status = "blocked"
      /\ b.reason = "RECEIPT_AUTHORITY"
      /\ b.completed = Fallback(s)
      /\ b.imported <= b.completed
      /\ b.attempt = s.attempt
      /\ b.owner = s.owner
      /\ b.continuation = 0
      /\ b.delivery = NoDelivery
  BY <1>0, BlockedAtFields
<1>2. RefusedState(s) = IF ~Damaged /\ TrustedLength(s) = s.completed
                        THEN b ELSE [b EXCEPT !.attempt = NoAttempt]
  BY DEF RefusedState
<1> HIDE DEF b
<1>3. CASE ~Damaged /\ TrustedLength(s) = s.completed
  <2>1. \E i \in Steps : i > TrustedLength(s)
    BY <1>3 DEF Refused
  <2>2. Fallback(s) = s.completed
    BY <1>3, <2>1, TrustedLengthCounts DEF Fallback
  <2>3. Valid(b) /\ (Live(b) <=> Live(s))
    BY <1>1, FallbackBacked DEF Valid, Live, AllDone, NoDelivery
  <2>4. Good(b)
    BY <1>1, <2>2, <2>3, GoodFields
  <2> QED BY <1>1, <1>2, <1>3, <2>4
<1>4. CASE ~(~Damaged /\ TrustedLength(s) = s.completed)
  <2> DEFINE c == [b EXCEPT !.attempt = NoAttempt]
  <2>1. NoAttempt \in Attempt
    BY DEF NoAttempt
  <2>2. /\ c \in State
        /\ c.status = "blocked"
        /\ c.reason = "RECEIPT_AUTHORITY"
        /\ c.completed = Fallback(s)
        /\ c.imported <= c.completed
        /\ c.attempt = NoAttempt
        /\ c.continuation = 0
        /\ c.delivery = NoDelivery
    BY <1>1, <2>1
  <2> HIDE DEF c
  <2>3. Good(c)
    BY <1>0, <2>2, BlockedIdleGood
  <2> QED BY <1>2, <1>4, <2>2, <2>3 DEF c
<1> QED BY <1>3, <1>4

LEMMA AheadGood ==
  ASSUME NEW s, Good(s), spent \in Nat
  PROVE  /\ Good(AheadState(s))
         /\ AheadState(s).attempt = NoAttempt
<1> DEFINE b == BlockedAt(s, "STATE_AHEAD_OF_RECEIPTS")
           c == [b EXCEPT !.attempt = NoAttempt, !.failures = 0]
<1>0. s \in State
  BY DEF Good
<1>1. /\ b \in State
      /\ b.status = "blocked"
      /\ b.reason = "STATE_AHEAD_OF_RECEIPTS"
      /\ b.completed = Fallback(s)
      /\ b.imported <= b.completed
      /\ b.continuation = 0
      /\ b.delivery = NoDelivery
  BY <1>0, BlockedAtFields
<1>2. AheadState(s) = c
  BY DEF AheadState
<1> HIDE DEF b
<1>3. NoAttempt \in Attempt
  BY DEF NoAttempt
<1>4. /\ c \in State
      /\ c.status = "blocked"
      /\ c.reason = "STATE_AHEAD_OF_RECEIPTS"
      /\ c.completed = Fallback(s)
      /\ c.imported <= c.completed
      /\ c.attempt = NoAttempt
      /\ c.continuation = 0
      /\ c.delivery = NoDelivery
  BY <1>1, <1>3
<1> HIDE DEF c
<1> QED BY <1>0, <1>2, <1>4, BlockedIdleGood

(* Recovered work: a longer trusted prefix, nobody at work on it.          *)
LEMMA ForwardGood ==
  ASSUME NEW s, Good(s), RecoversForward(s), s.status # "absent", spent \in Nat
  PROVE  LET f == ForwardState(s)
         IN  /\ Good(f)
             /\ f.attempt = NoAttempt
             /\ f.continuation = 0
<1> DEFINE k == TrustedLength(s)
           u == ForwardStatus(s)
           a == [s EXCEPT !.completed = k, !.attempt = NoAttempt, !.failures = 0,
                          !.status = u, !.reason = "none"]
           f == Withdrawn(a)
<1>0. s \in State /\ Valid(s) /\ NoAttempt \in Attempt
  BY DEF Good, NoAttempt
<1>1. /\ k \in 0 .. TotalSteps
      /\ k > s.completed
      /\ \A i \in 1 .. k : Present(i)
  BY TrustedLengthCounts, TrustedIsPresent DEF RecoversForward
<1>2. /\ u \in {"completed", "paused", "running"}
      /\ u = "completed" <=> k = TotalSteps
  BY DEF ForwardStatus
<1>3. ForwardState(s) = f
  BY DEF ForwardState
<1> HIDE DEF k, u
<1>4. /\ a \in State
      /\ a.status = u
      /\ a.completed = k
      /\ a.imported = s.imported
      /\ a.attempt = NoAttempt
      /\ a.reason = "none"
  BY <1>0, <1>1, <1>2
<1> HIDE DEF a
<1>5. /\ f \in State
      /\ f.status = u
      /\ f.completed = k
      /\ f.imported = s.imported
      /\ f.attempt = NoAttempt
      /\ f.reason = "none"
      /\ f.continuation = 0
      /\ f.delivery = NoDelivery
  BY <1>4, WithdrawnFields
<1> HIDE DEF f
<1>6. s.imported \in Nat /\ s.completed \in Nat /\ s.imported <= s.completed
  BY <1>0 DEF Valid
<1>7. Valid(f)
  BY <1>1, <1>2, <1>5, <1>6 DEF Valid, AllDone, NoDelivery
<1>8. Backed(f) /\ Marked(f) /\ ~Live(f)
  BY <1>1, <1>5 DEF Backed, Marked, Live, NoAttempt
<1>9. Good(f)
  BY <1>5, <1>7, <1>8, GoodIdle
<1> QED BY <1>3, <1>5, <1>9

(* Whatever the receipts say, reconciliation keeps the state good and at   *)
(* most drops the attempt.                                                 *)
LEMMA ReconciledGood ==
  ASSUME NEW s, Good(s), s.status # "absent", spent \in Nat, nonces \in Nat,
         spent <= nonces
  PROVE  /\ Good(Reconciled(s))
         /\ Reconciled(s).attempt \in {s.attempt, NoAttempt}
<1> DEFINE a == ReceiptsApplied(s)
           r == OwnerReleased(a)
<1>1. /\ Good(a)
      /\ a.attempt \in {s.attempt, NoAttempt}
      /\ RecoversForward(s) => a.attempt = NoAttempt
  <2>1. CASE Refused(s)
    BY <2>1, RefusedGood DEF ReceiptsApplied, RecoversForward
  <2>2. CASE ~Refused(s) /\ StateAhead(s)
    BY <2>2, AheadGood DEF ReceiptsApplied
  <2>3. CASE ~Refused(s) /\ ~StateAhead(s) /\ RecoversForward(s)
    BY <2>3, ForwardGood DEF ReceiptsApplied
  <2>4. CASE ~Refused(s) /\ ~StateAhead(s) /\ ~RecoversForward(s)
    BY <2>4 DEF ReceiptsApplied
  <2> QED BY <2>1, <2>2, <2>3, <2>4
<1> HIDE DEF a
<1>2. Good(r) /\ r.attempt = a.attempt
  BY <1>1, OwnerReleasedGood DEF Good
<1>3. Reconciled(s) = IF RecoversForward(s) /\ r.status = "running"
                      THEN Issued(r, TRUE) ELSE r
  BY DEF Reconciled, a
<1> HIDE DEF r
<1>4. CASE RecoversForward(s) /\ r.status = "running"
  <2>1. /\ r \in State
        /\ ~Live(r)
        /\ Backed(r)
        /\ r.attempt = NoAttempt
        /\ r.attempt.id <= spent
        /\ ~AllDone(r)
        /\ r.imported <= r.completed
        /\ r.reason = "none"
    BY <1>1, <1>2, <1>4 DEF Good, Valid, Live, NoAttempt
  <2>2. Good(Issued(r, TRUE)) /\ Issued(r, TRUE).attempt = NoAttempt
    BY <1>4, <2>1, IssuedGood
  <2> QED BY <1>3, <1>4, <2>2
<1>5. CASE ~(RecoversForward(s) /\ r.status = "running")
  BY <1>1, <1>2, <1>3, <1>5
<1> QED BY <1>4, <1>5

(* A Stop that counts a failure: the attempt it found is still live.       *)
LEMMA StopFailureGood ==
  ASSUME NEW r, Good(r), NEW t \in Turns, NEW active \in BOOLEAN,
         StopFails(r, t, active), spent \in Nat, nonces \in Nat, spent <= nonces
  PROVE  /\ Good(StopFailure(r, t))
         /\ StopFailure(r, t).attempt = [r.attempt EXCEPT !.failed = TRUE]
<1> DEFINE n == Renewed(r)
           f == RecordFailure(n)
<1>1. r.status = "running" /\ Live(r)
  BY DEF StopFails, StopReleases, Live
<1>2. Good(n) /\ n.status = "running" /\ Live(n) /\ n.attempt = r.attempt
  BY <1>1, RenewedGood DEF Good, Live
<1> HIDE DEF n
<1>3. Good(f) /\ f.attempt = [r.attempt EXCEPT !.failed = TRUE]
  BY <1>2, RecordFailureGood
<1>4. StopFailure(r, t) = IF f.status = "blocked" THEN f ELSE Requested(f, t)
  BY DEF StopFailure, n
<1> HIDE DEF f
<1> QED BY <1>3, <1>4, RequestedGood

-----------------------------------------------------------------------------
(* What each action keeps                                                  *)

(* A step to one good state that leaves the receipts alone.                *)
LEMMA StateKeeps ==
  ASSUME WorkflowInv, NEW s, Good(s), state' = s, nonces' \in Nat, nonces <= nonces',
         UNCHANGED <<receipts, spent, tampered>>,
         inflight' = "none", shared' \in {"absent", "codex", "claude"},
         prompt' \in {"idle", "pausing"}, pressed' \in Nat,
         disruptions' \in 0 .. MaxDisruptions
  PROVE  WorkflowInv'
<1>1. s \in State
  BY DEF Good
<1>2. TypeOK'
  BY SMTT(20), <1>1 DEF WorkflowInv, TypeOK
<1>3. Good(state)'
  BY <1>1 DEF Good, Valid, AllDone, Backed, Present, Owned, Live, Marked, PaysOnce,
     Current, Waiting
<1>4. Pending' /\ AttemptsDistinct'
  BY DEF WorkflowInv, Pending, AttemptsDistinct
<1>5. (spent <= nonces)' /\ (\A i \in Steps : receipts[i].attempt <= spent)'
  BY DEF WorkflowInv, TypeOK
<1> QED BY <1>2, <1>3, <1>4, <1>5 DEF WorkflowInv

(* An operation that writes one good state and no receipt.                 *)
LEMMA WriteKeeps ==
  ASSUME WorkflowInv, NEW s, Good(s), Write(s), UNCHANGED <<receipts, spent, tampered>>,
         inflight' = "none", shared' \in {"absent", "codex", "claude"},
         prompt' \in {"idle", "pausing"}, pressed' \in Nat,
         disruptions' \in 0 .. MaxDisruptions
  PROVE  WorkflowInv'
<1>1. s \in State /\ state' = s
  BY DEF Good, Write
<1>2. nonces' \in Nat /\ nonces <= nonces'
  BY <1>1 DEF Write, WorkflowInv, TypeOK
<1> QED BY <1>1, <1>2, StateKeeps

(* What WorkflowInv offers the lemmas above.                               *)
LEMMA InvFacts ==
  ASSUME WorkflowInv
  PROVE  /\ Good(state)
         /\ spent \in Nat
         /\ nonces \in Nat
         /\ spent <= nonces
         /\ pressed \in Nat
         /\ disruptions \in 0 .. MaxDisruptions
         /\ shared \in {"absent", "codex", "claude"}
         /\ prompt \in {"idle", "pausing"}
         /\ inflight \in {"none", "init", "complete"}
  BY DEF WorkflowInv, TypeOK

(* The bound on disruptions.                                               *)
LEMMA DisruptBound ==
  ASSUME WorkflowInv, Disrupt
  PROVE  disruptions' \in 0 .. MaxDisruptions
  BY DEF Disrupt, WorkflowInv, TypeOK

(* The empty state and what the first one is made of.                      *)
LEMMA NoStateFields ==
  /\ NoState \in State
  /\ NoState.status = "absent"
  /\ NoState.completed = 0
  /\ NoState.imported = 0
  /\ NoState.attempt = NoAttempt
  /\ NoState.reason = "none"
  /\ NoState.continuation = 0
  /\ NoState.delivery = NoDelivery
<1>1. NoAttempt \in Attempt /\ NoOwner \in Owner /\ NoDelivery \in Delivery
  BY DEF NoAttempt, NoOwner, NoDelivery
<1> QED BY <1>1 DEF NoState

LEMMA NoStateGood ==
  ASSUME spent \in Nat
  PROVE  Good(NoState)
<1>1. Valid(NoState)
  BY NoStateFields DEF NoDelivery, Valid, AllDone
<1>2. Backed(NoState)
  BY NoStateFields DEF Backed
<1>3. Marked(NoState) /\ ~Live(NoState)
  BY NoStateFields DEF NoAttempt, Marked, Live
<1> QED BY <1>1, <1>2, <1>3, NoStateFields, GoodIdle

LEMMA InitKeeps ==
  ASSUME WorkflowInv, InitTopic \/ InitState \/ InitRollback
  PROVE  WorkflowInv'
<1>1. CASE InitTopic
  BY <1>1 DEF InitTopic, NoActiveMetadata, LockFree, WorkflowInv, TypeOK, Good, Valid, Backed,
     Present, Owned, Live, Marked, PaysOnce, Pending, AttemptsDistinct
<1>2. CASE InitRollback
  BY <1>2 DEF InitRollback, WorkflowInv, TypeOK, Good, Valid, Backed,
     Present, Owned, Live, Marked, PaysOnce, Pending, AttemptsDistinct
<1>3. CASE InitState
  <2> DEFINE s == [NoState EXCEPT !.status = "running"]
  <2>1. /\ s \in State
        /\ s.status = "running"
        /\ s.completed = 0
        /\ s.imported = 0
        /\ s.attempt = NoAttempt
        /\ s.reason = "none"
    BY NoStateFields
  <2> HIDE DEF s
  <2>2. ~Live(s) /\ ~AllDone(s) /\ s.attempt.id <= spent /\ s.imported <= s.completed
    BY <2>1, InvFacts DEF Live, NoAttempt, AllDone
  <2>3. Backed(s) /\ (s.attempt # NoAttempt => s.attempt.id # 0)
    BY <2>1 DEF Backed
  <2>4. spent \in Nat /\ nonces \in Nat /\ spent <= nonces /\ FALSE \in BOOLEAN
    BY InvFacts
  <2>5. Good(Issued(s, FALSE))
    BY <2>1, <2>2, <2>3, <2>4, IssuedGood
  <2> QED BY <1>3, <2>5, InvFacts, WriteKeeps DEF InitState, s
<1> QED BY <1>1, <1>2, <1>3

LEMMA ImportKeeps ==
  ASSUME WorkflowInv, NEW p \in 0 .. TotalSteps, ImportClaude(p)
  PROVE  WorkflowInv'
<1> DEFINE s == [NoState EXCEPT !.completed = p, !.imported = p,
                                !.status = IF p = TotalSteps THEN "completed"
                                                             ELSE "running"]
           imported == [NoReceipt EXCEPT !.kind = "imported"]
<1>1. /\ s \in State
      /\ s.status = (IF p = TotalSteps THEN "completed" ELSE "running")
      /\ s.completed = p
      /\ s.imported = p
      /\ s.attempt = NoAttempt
      /\ s.reason = "none"
      /\ s.continuation = 0
      /\ s.delivery = NoDelivery
  BY NoStateFields
<1>2. state' = s /\ nonces' = nonces
  BY <1>1, InvFacts DEF ImportClaude, Write
<1> HIDE DEF s
<1>3. /\ imported \in Receipt /\ imported.kind = "imported" /\ imported.attempt = 0
      /\ NoReceipt \in Receipt /\ NoReceipt.kind = "none" /\ NoReceipt.attempt = 0
  BY DEF NoReceipt, Receipt
<1>4. receipts' = [i \in Slots |-> IF i <= p THEN imported ELSE NoReceipt]
  BY DEF ImportClaude
<1> HIDE DEF imported
<1>a. \A i \in Steps : receipts'[i] = IF i <= p THEN imported ELSE NoReceipt
  BY <1>4
<1>5. receipts' \in [Slots -> Receipt]
  BY <1>3, <1>4
<1>6. \A i \in Steps : receipts'[i].kind # "native" /\ receipts'[i].attempt = 0
  BY <1>3, <1>a
<1>7. \A i \in 1 .. p : receipts'[i].kind = "imported"
  BY <1>3, <1>a
<1>8. TypeOK'
  <2>1. nonces' \in Nat /\ state' \in State
    BY <1>1, <1>2, InvFacts
  <2> QED BY <2>1, <1>5 DEF ImportClaude, WorkflowInv, TypeOK
<1>9. Good(state)'
  <2>1. Valid(s) /\ ~Live(s)
    BY <1>1 DEF Valid, Live, AllDone, NoDelivery
  <2>2. Valid(state') /\ ~Live(state')
    BY <1>2, <2>1
  <2>3. Backed(state)'
    BY <1>1, <1>2, <1>7 DEF Backed, Present
  <2>4. Marked(state)'
    BY <1>1, <1>2, InvFacts DEF Marked, NoAttempt, ImportClaude
  <2>5. Owned(state)' /\ PaysOnce(state)' /\ ~(Waiting(state) /\ Live(state))'
    BY <2>2 DEF Owned, PaysOnce, Live
  <2> QED BY <1>1, <1>2, <2>2, <2>3, <2>4, <2>5 DEF Good, Valid, AllDone
<1>10. Pending' /\ AttemptsDistinct'
  <2>1. inflight' = "none"
    BY DEF ImportClaude, LockFree
  <2>2. Pending'
    BY <2>1 DEF Pending
  <2>3. AttemptsDistinct'
    BY <1>6 DEF AttemptsDistinct
  <2> QED BY <2>2, <2>3
<1>11. (spent <= nonces)' /\ (\A i \in Steps : receipts[i].attempt <= spent)'
  <2>1. spent' = spent /\ spent \in Nat /\ spent <= nonces
    BY InvFacts DEF ImportClaude
  <2> QED BY <1>2, <1>6, <2>1
<1> QED BY <1>8, <1>9, <1>10, <1>11 DEF WorkflowInv

LEMMA ResetKeeps ==
  ASSUME WorkflowInv, ResetWorkflow
  PROVE  WorkflowInv'
<1>1. state' = NoState /\ nonces' = nonces
  BY NoStateFields, InvFacts DEF ResetWorkflow, Write
<1>2. NoReceipt \in Receipt /\ NoReceipt.kind = "none" /\ NoReceipt.attempt = 0
  BY DEF NoReceipt, Receipt
<1>3. receipts' = [i \in Slots |-> NoReceipt]
  BY DEF ResetWorkflow
<1>4. receipts' \in [Slots -> Receipt]
  BY <1>2, <1>3
<1>5. \A i \in Steps : receipts'[i].kind = "none" /\ receipts'[i].attempt = 0
  BY <1>2, <1>3
<1>6. TypeOK'
  <2>1. state' \in State
    BY <1>1, NoStateFields
  <2> QED BY <1>1, <1>4, <2>1, DisruptBound DEF ResetWorkflow, WorkflowInv, TypeOK
<1>7. Good(state)'
  <2>1. Valid(NoState) /\ ~Live(NoState)
    BY NoStateFields DEF Valid, Live, AllDone, NoDelivery
  <2>2. Valid(state') /\ ~Live(state')
    BY <1>1, <2>1
  <2>3. Backed(state)'
    BY <1>1, NoStateFields DEF Backed
  <2>4. Marked(state)'
    BY <1>1, NoStateFields, InvFacts DEF Marked, NoAttempt, ResetWorkflow
  <2>5. Owned(state)' /\ PaysOnce(state)' /\ ~(Waiting(state) /\ Live(state))'
    BY <2>2 DEF Owned, PaysOnce, Live
  <2> QED BY <1>1, NoStateFields, <2>2, <2>3, <2>4, <2>5 DEF Good, Valid, AllDone
<1>8. Pending' /\ AttemptsDistinct'
  BY <1>5 DEF ResetWorkflow, LockFree, Pending, AttemptsDistinct
<1>9. (spent <= nonces)' /\ (\A i \in Steps : receipts[i].attempt <= spent)'
  BY <1>1, <1>5, InvFacts DEF ResetWorkflow
<1> QED BY <1>6, <1>7, <1>8, <1>9 DEF WorkflowInv

(* A begin: the attempt gets the number of the marker, which is newer than *)
(* every receipt.                                                          *)
LEMMA BeginKeeps ==
  ASSUME WorkflowInv, NEW c \in Callers, NEW m \in 1 .. nonces, BeginStep(c, m)
  PROVE  WorkflowInv'
<1> DEFINE o == IF c = NoSession THEN NoOwner ELSE [session |-> c, age |-> 0]
           a == [id |-> m, session |-> c, failed |-> FALSE]
           s == [state EXCEPT !.owner = o, !.attempt = a, !.continuation = 0]
<1>1. /\ state \in State
      /\ state.status = "running"
      /\ m = state.continuation
      /\ m \in Nat
      /\ m > spent
      /\ m <= nonces
      /\ spent \in Nat
      /\ nonces \in Nat
  BY InvFacts DEF BeginStep, Running, Good, Marked
<1>2. /\ o \in Owner
      /\ o # NoOwner => o.session = c
  BY DEF NoOwner
<1>3. /\ a \in Attempt
      /\ a.id = m
      /\ a.session = c
      /\ a.failed = FALSE
      /\ a # NoAttempt
  BY <1>1 DEF NoAttempt
<1>4. [Claimed(state, c) EXCEPT !.attempt = a, !.continuation = 0] = s
  BY <1>1 DEF Claimed
<1>5. Write(s) /\ spent' = m
  BY <1>4 DEF BeginStep
<1> HIDE DEF o, a
<1>6. /\ s \in State
      /\ s.status = "running"
      /\ s.completed = state.completed
      /\ s.imported = state.imported
      /\ s.reason = state.reason
      /\ s.delivery = state.delivery
      /\ s.owner = o
      /\ s.attempt = a
      /\ s.continuation = 0
  BY <1>1, <1>2, <1>3
<1> HIDE DEF s
<1>7. state' = s /\ nonces' = nonces
  BY <1>1, <1>5, <1>6 DEF Write
<1>8. TypeOK'
  <2>1. UNCHANGED <<receipts, shared, inflight, prompt, tampered, disruptions>>
    BY DEF BeginStep
  <2>2. pressed' \in Nat
    BY DEF BeginStep, WorkflowInv, TypeOK
  <2>3. state' \in State /\ nonces' \in Nat /\ spent' \in Nat
    BY <1>1, <1>5, <1>6, <1>7
  <2> QED BY <2>1, <2>2, <2>3 DEF WorkflowInv, TypeOK
<1>9. Good(state)'
  <2>1. Valid(s)
    BY <1>1, <1>3, <1>6 DEF WorkflowInv, Good, Valid, AllDone
  <2>2. Backed(state)'
    BY <1>6, <1>7 DEF BeginStep, WorkflowInv, Good, Backed, Present
  <2>3. Owned(s)
    BY <1>2, <1>3, <1>6 DEF Owned
  <2>4. Marked(state)'
    BY <1>1, <1>3, <1>5, <1>6, <1>7 DEF Marked
  <2>5. \A i \in Steps : receipts[i].attempt \in Nat /\ receipts[i].attempt <= spent
    BY DEF WorkflowInv, TypeOK, Receipt
  <2>6. \A i \in Steps : receipts[i].attempt # m
    BY <1>1, <2>5
  <2>7. PaysOnce(state)'
    BY <1>3, <1>6, <1>7, <2>6 DEF PaysOnce, BeginStep
  <2>8. ~(Waiting(state) /\ Live(state))'
    BY <1>6, <1>7 DEF Waiting
  <2> QED BY <1>6, <1>7, <2>1, <2>2, <2>3, <2>4, <2>7, <2>8
          DEF Good, Valid, AllDone, Owned, Live
<1>10. Pending' /\ AttemptsDistinct'
  BY DEF BeginStep, Running, LockFree, Pending, AttemptsDistinct, WorkflowInv
<1>11. (spent <= nonces)' /\ (\A i \in Steps : receipts[i].attempt <= spent)'
  <2>1. \A i \in Steps : receipts[i].attempt \in Nat /\ receipts[i].attempt <= spent
    BY DEF WorkflowInv, TypeOK, Receipt
  <2>2. receipts' = receipts
    BY DEF BeginStep
  <2> QED BY <1>1, <1>5, <1>7, <2>1, <2>2
<1> QED BY <1>8, <1>9, <1>10, <1>11 DEF WorkflowInv

(* The receipt of the current step: no other receipt is of this attempt.   *)
LEMMA PublishKeeps ==
  ASSUME WorkflowInv, NEW n \in 1 .. spent, NEW c \in Contents, PublishReceipt(n, c)
  PROVE  WorkflowInv'
<1> DEFINE k == Current(state)
           r == [kind |-> "native", attempt |-> n, content |-> c]
<1>1. /\ state \in State
      /\ state.status = "running"
      /\ Live(state)
      /\ n = state.attempt.id
      /\ receipts[k] = NoReceipt
      /\ receipts' = [receipts EXCEPT ![k] = r]
      /\ tampered' = tampered \ {k}
      /\ inflight' = "complete"
      /\ UNCHANGED <<state, shared, prompt, nonces, spent, pressed, disruptions>>
  BY InvFacts DEF PublishReceipt, MayComplete, Running, Good
<1>2. k \in Steps /\ k \in Slots /\ k = state.completed + 1
  BY <1>1, InvFacts DEF Good, Valid, AllDone, Current
<1>3. r \in Receipt /\ r.kind = "native" /\ r.attempt = n
  BY InvFacts DEF Receipt
<1>4. receipts \in [Slots -> Receipt] /\ tampered \in SUBSET Slots
  BY DEF WorkflowInv, TypeOK
<1> HIDE DEF k, r
<1>5. /\ receipts' \in [Slots -> Receipt]
      /\ receipts'[k] = r
      /\ \A i \in Steps : i # k => receipts'[i] = receipts[i]
      /\ tampered' \in SUBSET Slots
      /\ \A i \in Steps : i # k => (i \in tampered' <=> i \in tampered)
  <2>1. receipts' \in [Slots -> Receipt] /\ receipts'[k] = r
    BY <1>1, <1>2, <1>3, <1>4
  <2>2. \A i \in Steps : i # k => receipts'[i] = receipts[i]
    BY <1>1, <1>4
  <2>3. /\ tampered' \in SUBSET Slots
        /\ \A i \in Steps : i # k => (i \in tampered' <=> i \in tampered)
    BY <1>1, <1>4
  <2> QED BY <2>1, <2>2, <2>3
<1>6. TypeOK'
  BY <1>1, <1>5 DEF WorkflowInv, TypeOK
<1>7. Valid(state) /\ Backed(state) /\ Owned(state) /\ Marked(state)
      /\ PaysOnce(state) /\ ~(Waiting(state) /\ Live(state))
  BY InvFacts DEF Good
<1>8. Good(state)'
  <2>1. Backed(state)'
    <3> SUFFICES ASSUME NEW i \in 1 .. state.completed, i \notin tampered'
                 PROVE  Present(i)'
      BY <1>1 DEF Backed
    <3>1. i \in Steps /\ i # k
      BY <1>1, <1>2
    <3> QED BY <1>5, <1>7, <3>1 DEF Backed, Present
  <2>2. PaysOnce(state)'
    BY <1>1, <1>2, <1>5, <1>7 DEF PaysOnce, Live, Current
  <2> QED BY <1>1, <1>7, <2>1, <2>2 DEF Good, Valid, AllDone, Owned, Live, Marked, Waiting
<1>9. Pending'
  BY <1>1, <1>3, <1>5 DEF Pending, Live, Current, k
<1>10. AttemptsDistinct'
  <2> SUFFICES ASSUME NEW i \in Steps, NEW j \in Steps,
                      receipts'[i].kind = "native", receipts'[j].kind = "native",
                      receipts'[i].attempt = receipts'[j].attempt
               PROVE  i = j
    BY DEF AttemptsDistinct
  <2>1. \A l \in Steps : l # k /\ receipts[l].kind = "native" => receipts[l].attempt # n
    BY <1>1, <1>2, <1>7 DEF PaysOnce, Current
  <2>2. CASE i = k \/ j = k
    BY <1>3, <1>5, <2>1, <2>2
  <2>3. CASE i # k /\ j # k
    BY <1>5, <2>3 DEF WorkflowInv, AttemptsDistinct
  <2> QED BY <2>2, <2>3
<1>11. (spent <= nonces)' /\ (\A i \in Steps : receipts[i].attempt <= spent)'
  BY <1>1, <1>3, <1>5 DEF WorkflowInv
<1> QED BY <1>6, <1>8, <1>9, <1>10, <1>11 DEF WorkflowInv

LEMMA CommitKeeps ==
  ASSUME WorkflowInv, CommitCompletion
  PROVE  WorkflowInv'
<1> DEFINE r == Renewed(state)
<1>1. /\ state.status = "running"
      /\ receipts[Current(state)].kind = "native"
  BY DEF CommitCompletion, WorkflowInv, Pending
<1>2. Good(r) /\ r = [state EXCEPT !.owner = r.owner] /\ state \in State
  BY InvFacts, RenewedGood DEF Good
<1> HIDE DEF r
<1>3. r.status = "running" /\ r.completed = state.completed
  BY <1>1, <1>2
<1>4. Present(Current(r))
  BY <1>1, <1>3 DEF Present, Current
<1>5. Good(Advanced(r))
  BY <1>2, <1>3, <1>4, InvFacts, AdvancedGood
<1> QED BY <1>5, InvFacts, WriteKeeps DEF CommitCompletion, r

LEMMA RetryKeeps ==
  ASSUME WorkflowInv, NEW n, NEW c, RetryCompletion(n, c)
  PROVE  WorkflowInv'
<1> DEFINE r == IF Expired(state.owner) THEN OwnerReleased(state) ELSE Renewed(state)
<1>1. /\ state.status = "running"
      /\ receipts[Current(state)].kind = "native"
      /\ inflight = "none"
  BY DEF RetryCompletion, MayComplete, Running, LockFree
<1>2. Good(r) /\ r = [state EXCEPT !.owner = r.owner] /\ state \in State
  BY InvFacts, RenewedGood, OwnerReleasedGood DEF Good
<1> HIDE DEF r
<1>3. r.status = "running" /\ r.completed = state.completed
  BY <1>1, <1>2
<1>4. Present(Current(r))
  BY <1>1, <1>3 DEF Present, Current
<1>5. Good(Advanced(r))
  BY <1>2, <1>3, <1>4, InvFacts, AdvancedGood
<1> QED BY <1>1, <1>5, InvFacts, WriteKeeps DEF RetryCompletion, r

LEMMA FailKeeps ==
  ASSUME WorkflowInv, NEW n, FailStep(n)
  PROVE  WorkflowInv'
<1> DEFINE r == Renewed(state)
<1>1. state.status = "running" /\ Live(state) /\ inflight = "none"
  BY DEF FailStep, Running, LockFree
<1>2. Good(r) /\ r = [state EXCEPT !.owner = r.owner] /\ state \in State
  BY InvFacts, RenewedGood DEF Good
<1> HIDE DEF r
<1>3. r.status = "running" /\ Live(r)
  BY <1>1, <1>2 DEF Live
<1>4. Good(RecordFailure(r))
  BY <1>2, <1>3, InvFacts, RecordFailureGood
<1> QED BY <1>1, <1>4, InvFacts, WriteKeeps DEF FailStep, r

LEMMA PauseResumeKeeps ==
  ASSUME WorkflowInv, PauseWorkflow \/ \E c \in Callers : ResumeWorkflow(c)
  PROVE  WorkflowInv'
<1>1. CASE PauseWorkflow
  BY <1>1, InvFacts, PausedGood, WriteKeeps DEF PauseWorkflow, MayPause, Running, LockFree
<1>2. ASSUME NEW c \in Callers, ResumeWorkflow(c) PROVE WorkflowInv'
  <2>1. Good(Resumed(state, c))
    BY <1>2, InvFacts, ResumedGood DEF ResumeWorkflow
  <2>2. 0 \in Nat
    OBVIOUS
  <2> QED BY <1>2, <2>1, <2>2, InvFacts, DisruptBound, WriteKeeps
          DEF ResumeWorkflow, Active, LockFree
<1> QED BY <1>1, <1>2

LEMMA ReconcileKeeps ==
  ASSUME WorkflowInv, ReconcileWorkflow
  PROVE  WorkflowInv'
<1>1. Good(Reconciled(state))
  BY InvFacts, ReconciledGood DEF ReconcileWorkflow, Active
<1>2. pressed' \in Nat
  BY InvFacts DEF ReconcileWorkflow
<1> QED BY <1>1, <1>2, InvFacts, WriteKeeps DEF ReconcileWorkflow, Active, LockFree

(* A Stop writes what it reconciled, and what it decided on top of that.   *)
LEMMA StopKeeps ==
  ASSUME WorkflowInv, NEW t \in Turns, NEW b \in BOOLEAN, ProcessStop(t, b)
  PROVE  WorkflowInv'
<1> DEFINE r == Reconciled(state)
<1>1. Good(r) /\ inflight = "none"
  BY InvFacts, ReconciledGood
     DEF ProcessStop, StopRelease, StopReplay, StopRequest, StopFail, Active, LockFree
<1>2. ASSUME NEW s, Good(s), NEW held, StopEffect(s, held, b) PROVE WorkflowInv'
  <2>1. pressed' \in Nat
    BY <1>2, InvFacts DEF StopEffect, Pressed
  <2> QED BY <1>1, <1>2, <2>1, InvFacts, WriteKeeps DEF StopEffect
<1>3. CASE StopRelease(t, b)
  BY <1>1, <1>2, <1>3 DEF StopRelease
<1>4. CASE StopReplay(b)
  BY <1>1, <1>2, <1>4 DEF StopReplay
<1>5. CASE StopRequest(t, b)
  BY <1>1, <1>2, <1>5, RequestedGood DEF StopRequest
<1>6. CASE StopFail(t, b)
  <2>1. StopFails(r, t, b)
    BY <1>6 DEF StopFail
  <2>2. Good(StopFailure(r, t))
    BY <1>1, <2>1, InvFacts, StopFailureGood
  <2>3. StopEffect(StopFailure(r, t), StopFailure(r, t).status = "running", b)
    BY <1>6 DEF StopFail
  <2> QED BY <1>2, <2>2, <2>3
<1> QED BY <1>3, <1>4, <1>5, <1>6 DEF ProcessStop

LEMMA SubmitPromptKeeps ==
  ASSUME WorkflowInv, NEW m, SubmitPrompt(m)
  PROVE  WorkflowInv'
<1> DEFINE d == [state.delivery EXCEPT !.accepted = TRUE]
           s == [state EXCEPT !.delivery = d]
<1>1. inflight' = "none" /\ prompt' \in {"idle", "pausing"}
  BY DEF SubmitPrompt, Active, LockFree
<1>2. CASE Accepts(m)
  <2>1. state \in State /\ state.delivery \in Delivery /\ state.delivery.turn # NoTurn
    BY <1>2, InvFacts DEF Good, Accepts
  <2>2. d \in Delivery /\ d.open = state.delivery.open /\ d.turn = state.delivery.turn
    BY <2>1
  <2>3. state' = s
    BY <1>2, <2>1 DEF SubmitPrompt
  <2> HIDE DEF d
  <2>4. /\ s \in State
        /\ s.status = state.status
        /\ s.completed = state.completed
        /\ s.imported = state.imported
        /\ s.reason = state.reason
        /\ s.attempt = state.attempt
        /\ s.owner = state.owner
        /\ s.continuation = state.continuation
        /\ s.delivery = d
    BY <2>1, <2>2
  <2> HIDE DEF s
  <2>5. Valid(s) /\ (Live(s) <=> Live(state))
    BY <2>1, <2>2, <2>4, InvFacts DEF Good, Valid, Live, AllDone
  <2>6. Good(s)
    BY <2>4, <2>5, InvFacts, GoodFields
  <2> QED BY <1>1, <2>3, <2>6, InvFacts, StateKeeps DEF SubmitPrompt
<1>3. CASE ~Accepts(m)
  BY <1>1, <1>3, InvFacts, StateKeeps DEF SubmitPrompt
<1> QED BY <1>2, <1>3

LEMMA PromptPauseKeeps ==
  ASSUME WorkflowInv, PromptPause
  PROVE  WorkflowInv'
<1>1. inflight' = "none" /\ prompt' = "idle"
  BY DEF PromptPause, LockFree
<1>2. CASE MayPause
  <2>1. Good(Paused(state))
    BY <1>2, InvFacts, PausedGood DEF MayPause, Running
  <2> QED BY <1>1, <1>2, <2>1, InvFacts, WriteKeeps DEF PromptPause
<1>3. CASE ~MayPause
  <2>1. state' = state /\ nonces' = nonces
    BY <1>3 DEF PromptPause
  <2> QED BY <1>1, <2>1, InvFacts, StateKeeps DEF PromptPause
<1> QED BY <1>2, <1>3

(* Steps that leave the state and the receipts alone.                      *)
LEMMA IdleKeeps ==
  ASSUME WorkflowInv, PromptPauseRefused \/ Crash
  PROVE  WorkflowInv'
<1>1. /\ UNCHANGED <<state, receipts, shared, nonces, spent, pressed, tampered>>
      /\ inflight' \in {inflight, "none"}
      /\ prompt' \in {"idle", "pausing"}
      /\ disruptions' \in 0 .. MaxDisruptions
  BY InvFacts, DisruptBound DEF PromptPauseRefused, Crash
<1>2. TypeOK'
  BY <1>1 DEF WorkflowInv, TypeOK
<1>3. Good(state)'
  BY <1>1, InvFacts DEF Good, Valid, AllDone, Backed, Present, Owned, Live, Marked,
     PaysOnce, Current, Waiting
<1>4. Pending' /\ AttemptsDistinct'
  BY <1>1 DEF WorkflowInv, Pending, AttemptsDistinct, Live, Current
<1> QED BY <1>1, <1>2, <1>3, <1>4 DEF WorkflowInv

LEMMA TickKeeps ==
  ASSUME WorkflowInv, Tick
  PROVE  WorkflowInv'
<1> DEFINE o == [state.owner EXCEPT !.age = @ + 1]
           s == [state EXCEPT !.owner = o]
<1>1. state \in State /\ state.owner \in Owner /\ state.owner # NoOwner
  BY InvFacts DEF Good, Tick
<1>2. state.owner.age + 1 \in 0 .. Lease
  BY <1>1 DEF Tick, Expired
<1>3. o \in Owner /\ o.session = state.owner.session
  BY <1>1, <1>2
<1>4. state' = s
  BY <1>1 DEF Tick
<1> HIDE DEF o
<1>5. /\ s \in State
      /\ s.status = state.status
      /\ s.completed = state.completed
      /\ s.imported = state.imported
      /\ s.reason = state.reason
      /\ s.attempt = state.attempt
      /\ s.owner = o
      /\ s.continuation = state.continuation
      /\ s.delivery = state.delivery
  BY <1>1, <1>3
<1> HIDE DEF s
<1>6. Valid(s) /\ (Live(s) <=> Live(state))
  BY <1>1, <1>5, InvFacts DEF Good, Valid, Live, AllDone
<1>7. Good(s)
  BY <1>1, <1>3, <1>5, <1>6, InvFacts, GoodFields
<1>8. inflight' = "none"
  BY DEF Tick, LockFree
<1> QED BY <1>4, <1>7, <1>8, InvFacts, StateKeeps DEF Tick

LEMMA TamperKeeps ==
  ASSUME WorkflowInv, NEW k \in Slots, NEW kind \in {"none", "damaged"},
         TamperReceipt(k, kind)
  PROVE  WorkflowInv'
<1> DEFINE r == [NoReceipt EXCEPT !.kind = kind]
<1>1. /\ inflight' = "none"
      /\ receipts' = [receipts EXCEPT ![k] = r]
      /\ tampered' = tampered \union {k}
      /\ UNCHANGED <<state, shared, prompt, nonces, spent, pressed>>
  BY DEF TamperReceipt, LockFree
<1>2. r \in Receipt /\ r.kind # "native" /\ r.attempt = 0
  BY DEF NoReceipt, Receipt
<1>3. receipts \in [Slots -> Receipt] /\ tampered \in SUBSET Slots
  BY DEF WorkflowInv, TypeOK
<1> HIDE DEF r
<1>4. /\ receipts' \in [Slots -> Receipt]
      /\ receipts'[k] = r
      /\ \A i \in Steps : i # k => receipts'[i] = receipts[i]
      /\ tampered' \in SUBSET Slots
      /\ \A i \in Steps : i \in tampered' <=> i = k \/ i \in tampered
  BY <1>1, <1>2, <1>3
<1>5. disruptions' \in 0 .. MaxDisruptions
  BY DisruptBound DEF TamperReceipt
<1>6. TypeOK'
  BY <1>1, <1>4, <1>5 DEF WorkflowInv, TypeOK
<1>7. state \in State /\ Valid(state) /\ Backed(state) /\ Owned(state) /\ Marked(state)
      /\ PaysOnce(state) /\ ~(Waiting(state) /\ Live(state))
  BY InvFacts DEF Good
<1>8. Good(state)'
  <2>1. Backed(state)'
    <3> SUFFICES ASSUME NEW i \in 1 .. state.completed, i \notin tampered'
                 PROVE  Present(i)'
      BY <1>1 DEF Backed
    <3>1. i \in Steps
      BY <1>7
    <3> QED BY <1>4, <1>7, <3>1 DEF Backed, Present
  <2>2. PaysOnce(state)'
    BY <1>1, <1>2, <1>4, <1>7 DEF PaysOnce, Live, Current
  <2> QED BY <1>1, <1>7, <2>1, <2>2 DEF Good, Valid, AllDone, Owned, Live, Marked, Waiting
<1>9. Pending'
  BY <1>1 DEF Pending
<1>10. AttemptsDistinct'
  BY <1>2, <1>4 DEF WorkflowInv, AttemptsDistinct
<1>11. (spent <= nonces)' /\ (\A i \in Steps : receipts[i].attempt <= spent)'
  <2>1. spent \in Nat /\ \A i \in Steps : receipts[i].attempt <= spent
    BY InvFacts DEF WorkflowInv
  <2>2. \A i \in Steps : receipts'[i].attempt <= spent
    BY <1>2, <1>4, <2>1
  <2> QED BY <1>1, <2>2, InvFacts
<1> QED BY <1>6, <1>8, <1>9, <1>10, <1>11 DEF WorkflowInv

-----------------------------------------------------------------------------
(* The theorems                                                            *)

LEMMA InitHolds ==
  ASSUME Init
  PROVE  WorkflowInv
<1>1. NoReceipt \in Receipt /\ NoReceipt.kind = "none" /\ NoReceipt.attempt = 0
  BY DEF NoReceipt, Receipt
<1>2. \A i \in Steps : receipts[i].kind = "none" /\ receipts[i].attempt = 0
  BY <1>1 DEF Init
<1>3. state = NoState /\ spent = 0 /\ nonces = 0
  BY DEF Init
<1>4. TypeOK
  BY <1>1, <1>3, NoStateFields DEF Init, TypeOK
<1>5. Good(state)
  BY <1>3, NoStateGood
<1>6. Pending /\ AttemptsDistinct
  BY <1>2 DEF Init, Pending, AttemptsDistinct
<1> QED BY <1>2, <1>3, <1>4, <1>5, <1>6 DEF WorkflowInv

LEMMA NextKeeps ==
  ASSUME WorkflowInv, [Next]_vars
  PROVE  WorkflowInv'
<1>1. CASE Agent
  BY <1>1, BeginKeeps, PublishKeeps, RetryKeeps, CommitKeeps, FailKeeps DEF Agent
<1>2. CASE Operator
  BY <1>2, InitKeeps, ImportKeeps, PauseResumeKeeps, ReconcileKeeps, ResetKeeps
     DEF Operator
<1>3. CASE Host
  BY <1>3, StopKeeps, SubmitPromptKeeps, PromptPauseKeeps, IdleKeeps DEF Host
<1>4. CASE Environment
  BY <1>4, TickKeeps, IdleKeeps, TamperKeeps DEF Environment
<1>5. CASE UNCHANGED vars
  BY <1>5 DEF vars, WorkflowInv, TypeOK, Good, Valid, AllDone, Backed, Present, Owned,
     Live, Marked, PaysOnce, Current, Waiting, Pending, AttemptsDistinct
<1> QED BY <1>1, <1>2, <1>3, <1>4, <1>5 DEF Next

(* The inductive invariant of the state manager: whatever order operations, *)
(* hooks, crashes and damaged receipts come in, every state file it writes  *)
(* is valid, backed by receipts, and pays each marker once.                 *)
THEOREM WorkflowInvariant == Spec => []WorkflowInv
<1>1. Init => WorkflowInv
  BY InitHolds
<1>2. WorkflowInv /\ [Next]_vars => WorkflowInv'
  BY NextKeeps
<1> QED BY <1>1, <1>2, PTL DEF Spec

(* Every variable keeps its type, the fields of state.json included.       *)
THEOREM TypeCorrect == Spec => []TypeOK
<1>1. WorkflowInv => TypeOK
  BY DEF WorkflowInv
<1> QED BY <1>1, WorkflowInvariant, PTL

(* validateState (schema.mjs) never rejects a state the manager wrote.     *)
THEOREM SchemaValidHolds == Spec => []SchemaValid
<1>1. WorkflowInv => SchemaValid
  BY DEF WorkflowInv, Good, SchemaValid
<1> QED BY <1>1, WorkflowInvariant, PTL

(* completeStep and reconcile never count a step whose receipt is not on   *)
(* disk, unless the file was lost from outside.                            *)
THEOREM ReceiptsBeforeStateHolds == Spec => []ReceiptsBeforeState
<1>1. WorkflowInv => ReceiptsBeforeState
  BY DEF WorkflowInv, Good, ReceiptsBeforeState
<1> QED BY <1>1, WorkflowInvariant, PTL

(* A marker is never open while an attempt is live: issueContinuation and  *)
(* beginStep keep one generation.                                          *)
THEOREM OneGenerationHolds == Spec => []OneGeneration
<1>1. WorkflowInv => OneGeneration
  BY DEF WorkflowInv, Good, OneGeneration
<1> QED BY <1>1, WorkflowInvariant, PTL

(* A live attempt belongs to the session that owns the workflow.           *)
THEOREM AttemptOwnerHolds == Spec => []AttemptOwner
<1>1. WorkflowInv => AttemptOwner
  BY DEF WorkflowInv, Good, AttemptOwner
<1> QED BY <1>1, WorkflowInvariant, PTL

(* Two receipts of completeStep never carry the same attempt.              *)
THEOREM AttemptsDistinctHolds == Spec => []AttemptsDistinct
<1>1. WorkflowInv => AttemptsDistinct
  BY DEF WorkflowInv
<1> QED BY <1>1, WorkflowInvariant, PTL

-----------------------------------------------------------------------------
(* Steps                                                                   *)

(* Only a begin opens an attempt: any other step keeps the attempt or      *)
(* leaves nobody at work.                                                  *)
LEMMA OnlyBeginOpens ==
  ASSUME WorkflowInv, Next, ~\E c \in Callers, m \in 1 .. nonces : BeginStep(c, m)
  PROVE  state'.attempt = state.attempt \/ ~Live(state')
<1> DEFINE Keeps(a) == a = state.attempt \/ a = NoAttempt \/ a.failed
<1>0. state \in State /\ Good(state)
  BY InvFacts DEF Good
<1>a. \A a : a = [state.attempt EXCEPT !.failed = TRUE] => Keeps(a)
  BY <1>0
<1>b. SUFFICES Keeps(state'.attempt)
  BY DEF Live
<1>1. CASE Agent
  <2>1. CASE \E a \in 1 .. spent, c \in Contents : PublishReceipt(a, c)
    BY <2>1 DEF PublishReceipt
  <2>2. ASSUME NEW a, NEW c, RetryCompletion(a, c) PROVE Keeps(state'.attempt)
    <3> DEFINE r == IF Expired(state.owner) THEN OwnerReleased(state) ELSE Renewed(state)
    <3>1. Good(r) /\ r = [state EXCEPT !.owner = r.owner]
      BY <1>0, RenewedGood, OwnerReleasedGood
    <3>2. state' = Advanced(r)
      BY <2>2 DEF RetryCompletion, Write
    <3>3. /\ state.status = "running"
          /\ receipts[Current(state)].kind = "native"
      BY <2>2 DEF RetryCompletion, MayComplete, Running
    <3> HIDE DEF r
    <3>4. r.status = "running" /\ Present(Current(r))
      BY <1>0, <3>1, <3>3 DEF Present, Current
    <3> QED BY <3>1, <3>2, <3>4, InvFacts, AdvancedGood
  <2>3. CASE CommitCompletion
    <3> DEFINE r == Renewed(state)
    <3>1. Good(r) /\ r = [state EXCEPT !.owner = r.owner]
      BY <1>0, RenewedGood
    <3>2. state' = Advanced(r)
      BY <2>3 DEF CommitCompletion, Write
    <3>3. /\ state.status = "running"
          /\ receipts[Current(state)].kind = "native"
      BY <2>3 DEF CommitCompletion, WorkflowInv, Pending
    <3> HIDE DEF r
    <3>4. r.status = "running" /\ Present(Current(r))
      BY <1>0, <3>1, <3>3 DEF Present, Current
    <3> QED BY <3>1, <3>2, <3>4, InvFacts, AdvancedGood
  <2>4. ASSUME NEW a, FailStep(a) PROVE Keeps(state'.attempt)
    <3> DEFINE r == Renewed(state)
    <3>1. Good(r) /\ r = [state EXCEPT !.owner = r.owner]
      BY <1>0, RenewedGood
    <3>2. state' = RecordFailure(r) /\ state.status = "running" /\ Live(state)
      BY <2>4 DEF FailStep, Write, Running
    <3> HIDE DEF r
    <3>3. r.attempt = state.attempt /\ r.status = "running" /\ Live(r)
      BY <1>0, <3>1, <3>2 DEF Live
    <3>4. RecordFailure(r).attempt = [r.attempt EXCEPT !.failed = TRUE]
      BY <3>1, <3>3, InvFacts, RecordFailureGood
    <3>5. state'.attempt = [state.attempt EXCEPT !.failed = TRUE]
      BY <3>2, <3>3, <3>4
    <3> QED BY <1>a, <3>5
  <2> QED BY <1>1, <2>1, <2>2, <2>3, <2>4 DEF Agent
<1>2. CASE Operator
  <2>1. CASE InitTopic \/ InitRollback
    BY <2>1 DEF InitTopic, InitRollback
  <2>2. CASE InitState
    <3> DEFINE s == [NoState EXCEPT !.status = "running"]
    <3>1. s.attempt = NoAttempt /\ s \in State
      BY NoStateFields
    <3>2. state' = Issued(s, FALSE)
      BY <2>2 DEF InitState, Write
    <3> HIDE DEF s
    <3> QED BY <3>1, <3>2 DEF Issued
  <2>3. ASSUME NEW p \in 0 .. TotalSteps, ImportClaude(p) PROVE Keeps(state'.attempt)
    BY <2>3, NoStateFields DEF ImportClaude, Write
  <2>4. CASE PauseWorkflow
    BY <1>0, <2>4, PausedGood DEF PauseWorkflow, MayPause, Running, Write
  <2>5. ASSUME NEW c \in Callers, ResumeWorkflow(c) PROVE Keeps(state'.attempt)
    BY <1>0, <2>5, InvFacts, ResumedGood DEF ResumeWorkflow, Write
  <2>6. CASE ReconcileWorkflow
    BY <1>0, <2>6, InvFacts, ReconciledGood DEF ReconcileWorkflow, Write, Active
  <2>7. CASE ResetWorkflow
    BY <2>7, NoStateFields DEF ResetWorkflow, Write
  <2> QED BY <1>2, <2>1, <2>2, <2>3, <2>4, <2>5, <2>6, <2>7 DEF Operator
<1>3. CASE Host
  <2>1. ASSUME NEW t \in Turns, NEW b \in BOOLEAN, ProcessStop(t, b)
        PROVE  Keeps(state'.attempt)
    <3> DEFINE r == Reconciled(state)
    <3>1. Good(r) /\ r.attempt \in {state.attempt, NoAttempt}
      BY <1>0, <2>1, InvFacts, ReconciledGood
         DEF ProcessStop, StopRelease, StopReplay, StopRequest, StopFail, Active
    <3>2. CASE state' = r
      BY <3>1, <3>2
    <3>3. CASE state' = Requested(r, t)
      BY <3>1, <3>3, RequestedGood
    <3>4. CASE state' = StopFailure(r, t) /\ StopFails(r, t, b)
      <4>1. state'.attempt = [r.attempt EXCEPT !.failed = TRUE]
        BY <3>1, <3>4, InvFacts, StopFailureGood
      <4>2. r.attempt \in Attempt
        BY <3>1 DEF Good
      <4> QED BY <4>1, <4>2
    <3> QED BY <2>1, <3>2, <3>3, <3>4
            DEF ProcessStop, StopRelease, StopReplay, StopRequest, StopFail,
                StopEffect, Write
  <2>2. ASSUME NEW m, SubmitPrompt(m) PROVE Keeps(state'.attempt)
    BY <1>0, <2>2 DEF SubmitPrompt
  <2>3. CASE PromptPause
    BY <1>0, <2>3, PausedGood DEF PromptPause, MayPause, Running, Write
  <2>4. CASE PromptPauseRefused
    BY <2>4 DEF PromptPauseRefused
  <2> QED BY <1>3, <2>1, <2>2, <2>3, <2>4 DEF Host
<1>4. CASE Environment
  BY <1>0, <1>4 DEF Environment, Tick, Crash, TamperReceipt
<1> QED BY <1>1, <1>2, <1>3, <1>4 DEF Next

(* consumeContinuation: every attempt opens on a marker that no attempt    *)
(* opened on before.                                                       *)
THEOREM MarkersUsedOnceHolds == Spec => MarkersUsedOnce
<1> DEFINE Opens == Live(state') /\ state'.attempt # state.attempt =>
                      state'.attempt.id > spent
<1>1. WorkflowInv /\ [Next]_vars => [Opens]_vars
  <2> SUFFICES ASSUME WorkflowInv, Next PROVE Opens
    OBVIOUS
  <2>1. ASSUME NEW c \in Callers, NEW m \in 1 .. nonces, BeginStep(c, m)
        PROVE  Opens
    <3>1. state \in State /\ Marked(state)
      BY InvFacts DEF Good
    <3>2. state'.attempt.id = m /\ m = state.continuation /\ m # 0
      BY <2>1, <3>1 DEF BeginStep, Write, Claimed
    <3> QED BY <3>1, <3>2 DEF Marked
  <2> QED BY <2>1, OnlyBeginOpens
<1> QED BY <1>1, WorkflowInvariant, PTL DEF Spec, MarkersUsedOnce

(* writeReceiptExclusive: the program never rewrites a receipt, and only   *)
(* reset takes it away.                                                    *)
THEOREM ReceiptsImmutableHolds == Spec => ReceiptsImmutable
<1> DEFINE Kept == \A i \in Steps :
                     \/ receipts[i] = NoReceipt
                     \/ receipts'[i] = receipts[i]
                     \/ state'.status = "absent"
                     \/ i \in tampered' /\ ~Present(i)'
<1>1. WorkflowInv /\ [Next]_vars => [Kept]_vars
  <2> SUFFICES ASSUME WorkflowInv, Next PROVE Kept
    OBVIOUS
  <2>0. receipts \in [Slots -> Receipt] /\ Steps \subseteq Slots
    BY DEF WorkflowInv, TypeOK
  <2>1. ASSUME NEW a, NEW c, PublishReceipt(a, c) PROVE Kept
    BY <2>0, <2>1 DEF PublishReceipt
  <2>2. CASE ResetWorkflow
    BY <2>2, NoStateFields DEF ResetWorkflow, Write
  <2>3. ASSUME NEW p, ImportClaude(p) PROVE Kept
    BY <2>3 DEF ImportClaude, NoActiveMetadata
  <2>4. ASSUME NEW i \in Slots, NEW k \in {"none", "damaged"}, TamperReceipt(i, k)
        PROVE  Kept
    <3>1. \A j \in Slots : receipts'[j] = IF j = i THEN [NoReceipt EXCEPT !.kind = k]
                                                    ELSE receipts[j]
      BY <2>0, <2>4 DEF TamperReceipt
    <3>2. receipts'[i].kind = k /\ i \in tampered'
      BY <2>4, <3>1 DEF TamperReceipt, NoReceipt
    <3> QED BY <3>1, <3>2 DEF Present
  <2>5. CASE UNCHANGED receipts
    BY <2>5
  <2> QED BY <2>1, <2>2, <2>3, <2>4, <2>5
          DEF Next, Agent, Operator, Host, Environment, BeginStep, RetryCompletion,
              CommitCompletion, FailStep, InitTopic, InitState, InitRollback,
              PauseWorkflow, ResumeWorkflow, ReconcileWorkflow, ProcessStop,
              StopRelease, StopReplay, StopRequest, StopFail, StopEffect,
              SubmitPrompt, PromptPause, PromptPauseRefused, Tick, Crash
<1> QED BY <1>1, WorkflowInvariant, PTL DEF Spec, ReceiptsImmutable
=============================================================================
