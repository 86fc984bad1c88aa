---------------------------- MODULE EventLogProofs ----------------------------
(***************************************************************************)
(* What the event log keeps, for any number of operations, failures and    *)
(* changes from outside and any size of a write.  While an operation has   *)
(* the file open, the invariant says which cells lie behind the old end:   *)
(* its own event, as far as it was acknowledged, and lines from outside    *)
(* with the moment they came.  From that follows what a rollback may cut.  *)
(***************************************************************************)
EXTENDS EventLog, TLAPS

Handled == {"mutate", "check", "write", "verify", "inspect", "cut",
            "restored"}
Behind  == {"write", "verify", "inspect", "cut"}

Belongs(c, w, e) == c.by = w /\ c.event = e

(* The event e of operation w is in l with all its cells or not at all.    *)
Whole(l, w, e) ==
  \/ \A i \in DOMAIN l : ~Belongs(l[i], w, e)
  \/ \A i \in 1 .. BatchLen : \E j \in DOMAIN l : l[j] = Own(w, e, i)

Clean  == {"done", "dropped", "io", "quiet", "limit", "state"}
Unsaid == Clean \union {"none"}

(* The log holds events of committed operations and lines from outside.    *)
Logged(l, out, cm) ==
  /\ l \in Seq(CellType)
  /\ Len(l) <= LogLimit + out
  /\ \A i \in DOMAIN l : l[i].by \in cm \union {0}

(* What was acknowledged is there.                                         *)
Written(l, ev, base, ack, k) ==
  /\ base + ack <= Len(l)
  /\ \A i \in 1 .. ack : l[base + i] = Own(k, ev, i)

(* The open file: event ev of operation k is not in front of the old end,  *)
(* and behind it nothing else of a workflow is.                            *)
Region(l, at, ev, base, ack, k) ==
  /\ base <= Len(l)
  /\ \A i \in 1 .. base : ~Belongs(l[i], k, ev)
  /\ \A i \in base + 1 .. Len(l) :
       l[i].by # 0 => at \in Behind /\ Belongs(l[i], k, ev)
  /\ at \in {"write", "verify"} => Written(l, ev, base, ack, k)
  /\ at = "write" => \A i \in base + ack + 1 .. Len(l) :
                       l[i].by = 0 /\ l[i].when = "write"
  /\ at = "verify" => ack = BatchLen
  /\ at = "cut" => \A i \in base + 1 .. Len(l) :
                     l[i].by = 0 => l[i].when = "cut"

(* The handle is on the file of that name, or that file is gone.           *)
Handle(l, nd, at, ev, hn, base, ack, k) ==
  at \in Handled =>
    /\ hn # 0 /\ nd \in {0, hn}
    /\ base + BatchLen <= LogLimit
    /\ at \in {"mutate", "check"} => ack = 0
    /\ nd = hn => Region(l, at, ev, base, ack, k)

(* Events before the present one are whole, later ones are not begun.      *)
Past(l, at, ev, k, ans) ==
  /\ at # "idle" => \A i \in DOMAIN l : l[i].by = k => l[i].event <= ev
  /\ at = "open" => \A i \in DOMAIN l : ~Belongs(l[i], k, ev)
  /\ \A w \in 1 .. k, e \in 1 .. 2 :
       /\ w < k \/ at = "idle" \/ e < ev
       /\ ans[w] \in Unsaid
       => Whole(l, w, e)

(* Answers and committed states agree with where the operation is.         *)
Told(at, k, cm, ans) ==
  /\ at # "idle" => k >= 1
  /\ at = "mutate" => k \notin cm
  /\ at \notin {"idle", "mutate"} => k \in cm
  /\ \A w \in Writes : w > k \/ (w = k /\ at # "idle") => ans[w] = "none"
  /\ \A w \in 1 .. k : ans[w] = "quiet" => w \notin cm

Jobs ==
  [at : Phases, kind : Kinds, event : 1 .. 2, left : 0 .. 1,
   node : 0 .. MaxOutside + 2, base : Nat, acked : 0 .. BatchLen]

(* The types of what is not the log.                                       *)
LogRest ==
  /\ node \in 0 .. MaxOutside + 2
  /\ names \in 1 .. 2
  /\ job \in Jobs
  /\ job.event + job.left <= 2
  /\ jobs \in 0 .. MaxWrites
  /\ committed \subseteq 1 .. jobs
  /\ answer \in [Writes -> Answers]
  /\ trouble \in 0 .. MaxTrouble
  /\ outside \in 0 .. MaxOutside

LogInv ==
  /\ LogRest
  /\ Logged(log, outside, committed)
  /\ Handle(log, node, job.at, job.event, job.node, job.base, job.acked, jobs)
  /\ Past(log, job.at, job.event, jobs, answer)
  /\ Told(job.at, jobs, committed, answer)
  /\ OutsideLinesKept

-----------------------------------------------------------------------------
(* The invariant implies the properties                                    *)

LEMMA WholeIsNotTorn ==
  ASSUME NEW w, NEW e, Whole(log, w, e)
  PROVE  InLog(w, e) \in {{}, 1 .. BatchLen}
<1> DEFINE C == {log[i] : i \in DOMAIN log}
           O == {Own(w, e, i) : i \in 1 .. BatchLen}
<1>0. InLog(w, e) = {c.part : c \in C \cap O}
  BY DEF InLog
<1>1. CASE \A i \in DOMAIN log : ~Belongs(log[i], w, e)
  <2>1. C \cap O = {}
    BY <1>1 DEF Belongs, Own
  <2> QED
    BY <1>0, <2>1
<1>2. CASE \A i \in 1 .. BatchLen : \E j \in DOMAIN log : log[j] = Own(w, e, i)
  <2>1. \A i \in 1 .. BatchLen : Own(w, e, i) \in C \cap O
    BY <1>2
  <2>2. \A i \in 1 .. BatchLen : Own(w, e, i).part = i
    BY DEF Own
  <2>3. 1 .. BatchLen \subseteq InLog(w, e)
    BY <1>0, <2>1, <2>2
  <2>4. InLog(w, e) \subseteq 1 .. BatchLen
    BY <1>0, <2>2
  <2> QED
    BY <2>3, <2>4
<1> QED
  BY <1>1, <1>2 DEF Whole

LEMMA LogInvTyped == LogInv => LogTypeOK
<1> SUFFICES ASSUME LogInv PROVE LogTypeOK
  OBVIOUS
<1>1. lost \subseteq Phases \X {"overwritten", "cut"}
  BY DEF LogInv, OutsideLinesKept, Phases
<1> QED
  BY <1>1 DEF LogInv, LogRest, Logged, LogTypeOK, Jobs

LEMMA LogInvAfterState == LogInv => EventAfterState
BY DEF LogInv, Logged, Told, EventAfterState

LEMMA LogInvNotTorn == LogInv => NoTornEvent
<1> SUFFICES ASSUME LogInv, NEW w \in 1 .. jobs, NEW e \in 1 .. 2,
                    answer[w] \in Clean
             PROVE  InLog(w, e) \in {{}, 1 .. BatchLen}
  BY Zenon DEF NoTornEvent, Clean
<1>1. w \in Writes /\ jobs \in Int
  BY LogAssumption DEF LogInv, LogRest, Writes
<1>2. w < jobs \/ job.at = "idle"
  BY <1>1 DEF LogInv, Told, Clean
<1>3. Whole(log, w, e)
  BY <1>2 DEF LogInv, Past, Unsaid
<1> QED
  BY <1>3, WholeIsNotTorn

-----------------------------------------------------------------------------
(* Answers and progress, by their values                                   *)

LEMMA EndedPast ==
  ASSUME NEW l, NEW at, NEW ev \in 1 .. 2, NEW k \in Writes, NEW what,
         NEW ans \in [Writes -> Answers], ans[k] = "none", at # "idle",
         Past(l, at, ev, k, ans), \A i \in DOMAIN l : l[i].event \in Int,
         what # "none", what \in Clean => Whole(l, k, ev)
  PROVE  Past(l, "idle", 1, k, [ans EXCEPT ![k] = what])
<1> DEFINE after == [ans EXCEPT ![k] = what]
<1> SUFFICES ASSUME NEW w \in 1 .. k, NEW e \in 1 .. 2, after[w] \in Unsaid
             PROVE  Whole(l, w, e)
  BY Zenon DEF Past
<1>0. k \in Int /\ w \in Writes
  BY LogAssumption DEF Writes
<1>1. CASE w # k
  <2>1. w < k /\ after[w] = ans[w]
    BY <1>0, <1>1
  <2> QED
    BY <2>1 DEF Past
<1>2. CASE w = k /\ e < ev
  BY <1>2 DEF Past, Unsaid
<1>3. CASE w = k /\ e >= ev
  <2>1. after[k] = what
    OBVIOUS
  <2>2. CASE e = ev
    BY <1>3, <2>1, <2>2 DEF Unsaid
  <2>3. CASE e > ev
    <3>1. \A i \in DOMAIN l : ~Belongs(l[i], k, e)
      BY <2>3 DEF Past, Belongs
    <3> QED
      BY <1>3, <3>1 DEF Whole
  <2> QED
    BY <1>3, <2>2, <2>3
<1> QED
  BY <1>1, <1>2, <1>3

LEMMA EndedTold ==
  ASSUME NEW at, NEW k \in Writes, NEW cm, NEW what,
         NEW ans \in [Writes -> Answers], at # "idle", Told(at, k, cm, ans),
         what = "quiet" => k \notin cm
  PROVE  Told("idle", k, cm, [ans EXCEPT ![k] = what])
<1>0. k \in Int /\ 1 .. k \subseteq Writes
  BY LogAssumption DEF Writes
<1>1. \A w \in Writes : w > k => w # k /\ ans[w] = "none"
  BY <1>0 DEF Told, Writes
<1>2. \A w \in 1 .. k : w = k \/ (ans[w] = "quiet" => w \notin cm)
  BY <1>0 DEF Told
<1> QED
  BY <1>0, <1>1, <1>2 DEF Told

(* An operation begins where no cell speaks of it yet.                     *)
LEMMA BegunPast ==
  ASSUME NEW l, NEW out, NEW cm, NEW k \in Nat, NEW ev0, NEW at, NEW ev,
         NEW ans, NEW after, Past(l, "idle", ev0, k, ans),
         Logged(l, out, cm), cm \subseteq 1 .. k,
         \A w \in 1 .. k : after[w] = ans[w]
  PROVE  /\ Past(l, at, ev, k + 1, after)
         /\ \A i \in DOMAIN l : l[i].by # k + 1
<1>1. \A i \in DOMAIN l : l[i].by # k + 1
  BY DEF Logged
<1>2. \A e : Whole(l, k + 1, e)
  BY <1>1 DEF Whole, Belongs
<1>3. \A w \in 1 .. k + 1, e \in 1 .. 2 :
        after[w] \in Unsaid => Whole(l, w, e)
  <2> SUFFICES ASSUME NEW w \in 1 .. k + 1, NEW e \in 1 .. 2,
                      after[w] \in Unsaid
               PROVE  Whole(l, w, e)
    OBVIOUS
  <2>1. CASE w = k + 1
    BY <1>2, <2>1
  <2>2. CASE w \in 1 .. k
    BY <2>2 DEF Past
  <2> QED
    BY <2>1, <2>2
<1> QED
  BY <1>1, <1>3 DEF Past, Belongs

(* The same event of the same operation goes on with the log as it is.     *)
LEMMA KeptPast ==
  ASSUME NEW l, NEW at, NEW to, NEW ev, NEW k, NEW ans,
         Past(l, at, ev, k, ans), at # "idle", to \notin {"idle", "open"}
  PROVE  Past(l, to, ev, k, ans)
BY DEF Past

-----------------------------------------------------------------------------
(* What the writes make of the log                                         *)

LEMMA Sizes ==
  LogInv =>
    /\ job.base \in Nat /\ job.acked \in 0 .. BatchLen
    /\ BatchLen \in Nat \ {0} /\ LogLimit \in Nat /\ MaxWrites \in Nat
    /\ MaxTrouble \in Nat /\ MaxOutside \in Nat
    /\ jobs \in Nat /\ jobs <= MaxWrites /\ job.event \in 1 .. 2
    /\ outside \in Nat /\ log \in Seq(CellType) /\ Len(log) \in Nat
    /\ DOMAIN log = 1 .. Len(log) /\ Len(log) <= LogLimit + outside
BY LogAssumption DEF LogInv, LogRest, Logged, Jobs

(* The cell that writes put at a place, and the lines they wrote over.     *)
LEMMA LandedShape ==
  ASSUME LogInv, Doing("write"), node = job.node,
         NEW n \in 0 .. BatchLen - job.acked
  PROVE  /\ Landed(n) \in Seq(CellType)
         /\ Len(Landed(n)) >= Len(log)
         /\ Len(Landed(n)) >= job.base + job.acked + n
         /\ Len(Landed(n)) <= LogLimit + outside
         /\ \A i \in 1 .. Len(Landed(n)) :
              IF i \in job.base + job.acked + 1 .. job.base + job.acked + n
              THEN Landed(n)[i] = Own(jobs, job.event, i - job.base)
              ELSE i \in 1 .. Len(log) /\ Landed(n)[i] = log[i]
<1> DEFINE from == job.base + job.acked
           long == IF Len(log) < from + n THEN from + n ELSE Len(log)
           next == [i \in 1 .. long |-> IF i \in from + 1 .. from + n
                                       THEN Cell(i - job.base) ELSE log[i]]
<1>0. /\ job.base \in Nat /\ job.acked \in 0 .. BatchLen /\ n \in Nat
      /\ BatchLen \in Nat /\ jobs \in 0 .. MaxWrites /\ job.event \in 1 .. 2
      /\ log \in Seq(CellType) /\ Len(log) \in Nat /\ outside \in Nat
      /\ LogLimit \in Nat /\ MaxWrites \in Nat /\ Len(log) <= LogLimit + outside
  BY LogAssumption DEF LogInv, LogRest, Logged, Jobs
<1>1. job.base + BatchLen <= LogLimit /\ from <= Len(log)
  BY DEF LogInv, Handle, Handled, Region, Written, Doing
<1>2. Landed(n) = next
  BY DEF Landed
<1>3. long \in Nat /\ from \in Nat
  BY SMTT(20), <1>0
<1>4. ASSUME NEW i \in from + 1 .. from + n
      PROVE  Cell(i - job.base) \in CellType
             /\ Cell(i - job.base) = Own(jobs, job.event, i - job.base)
  <2>1. i \in Int /\ from + 1 <= i /\ i <= from + n
    BY <1>0
  <2>2. job.acked + n <= BatchLen /\ job.acked + n \in Nat
    BY <1>0
  <2>3. i - job.base \in 0 .. BatchLen
    <3>1. job.base \in Nat /\ job.acked \in Nat /\ BatchLen \in Nat
      BY <1>0
    <3>2. PICK b \in Nat, a \in Nat : b = job.base /\ a = job.acked
      BY <3>1
    <3> QED
      BY <2>1, <2>2, <3>1, <3>2
  <2>4. job.event \in 0 .. 2 /\ "own" \in Phases \union {"own"}
    BY <1>0
  <2>5. Own(jobs, job.event, i - job.base) \in CellType
    BY <1>0, <2>3, <2>4 DEF Own, CellType
  <2> QED
    BY <2>5 DEF Cell
<1>5. ASSUME NEW i \in 1 .. long, i \notin from + 1 .. from + n
      PROVE  i \in 1 .. Len(log) /\ log[i] \in CellType
  <2>1. i \in 1 .. Len(log)
    BY <1>0, <1>1, <1>3, <1>5
  <2> QED
    BY <1>0, <2>1
<1>6. next \in [1 .. long -> CellType]
  BY <1>4, <1>5
<1> HIDE DEF next
<1>7. next \in Seq(CellType) /\ Len(next) = long
  BY <1>3, <1>6
<1>8. \A i \in 1 .. long : next[i] = IF i \in from + 1 .. from + n
                                     THEN Cell(i - job.base) ELSE log[i]
  BY DEF next
<1>9. long >= Len(log) /\ long >= from + n /\ long <= LogLimit + outside
  BY <1>0, <1>1
<1> QED
  BY <1>2, <1>4, <1>5, <1>7, <1>8, <1>9
(* Writing leaves whole events whole and lines from outside in their place *)
(* unless they came during the write.                                      *)
LEMMA LandedKeeps ==
  ASSUME LogInv, Doing("write"), node = job.node,
         NEW n \in 0 .. BatchLen - job.acked
  PROVE  /\ Logged(Landed(n), outside, committed)
         /\ Past(Landed(n), "write", job.event, jobs, answer)
         /\ Gone(Landed(n), "overwritten") => OutsideLinesKept'
<1> DEFINE L    == Landed(n)
           from == job.base + job.acked
<1>a. /\ L \in Seq(CellType) /\ Len(L) >= Len(log)
      /\ Len(L) <= LogLimit + outside
  BY LandedShape
<1>0. /\ from \in Nat /\ n \in Nat /\ log \in Seq(CellType)
      /\ Len(log) \in Nat /\ jobs \in Nat /\ job.event \in 1 .. 2
      /\ L \in Seq(CellType) /\ Len(L) \in Nat /\ Len(L) >= Len(log)
      /\ Len(L) <= LogLimit + outside
  <2>1. /\ job.base \in Nat /\ job.acked \in Nat /\ BatchLen \in Nat
        /\ log \in Seq(CellType) /\ Len(log) \in Nat /\ jobs \in Nat
        /\ job.event \in 1 .. 2
    BY Sizes
  <2>2. n \in Nat
    BY <2>1
  <2> QED
    BY <1>a, <2>1, <2>2
<1>1. \A i \in 1 .. Len(L) :
        \/ /\ i \in from + 1 .. from + n
           /\ L[i] = Own(jobs, job.event, i - job.base)
        \/ /\ i \notin from + 1 .. from + n
           /\ i \in 1 .. Len(log) /\ L[i] = log[i]
  BY LandedShape
<1>2. \A i \in 1 .. Len(log) :
        i > from => log[i].by = 0 /\ log[i].when = "write"
  BY <1>0 DEF LogInv, Handle, Handled, Region, Doing
<1>3. from <= Len(log)
  BY DEF LogInv, Handle, Handled, Region, Written, Doing
<1>4. job.at = "write" /\ jobs \in committed
  BY DEF LogInv, Told, Doing
<1> HIDE DEF L, from
<1>5. Logged(L, outside, committed)
  <2>1. \A i \in 1 .. Len(log) : log[i].by \in committed \union {0}
    BY <1>0 DEF LogInv, Logged
  <2>2. ASSUME NEW i \in 1 .. Len(L)
        PROVE  L[i].by \in committed \union {0}
    <3>1. CASE L[i] = Own(jobs, job.event, i - job.base)
      BY <1>4, <3>1 DEF Own
    <3>2. CASE i \in 1 .. Len(log) /\ L[i] = log[i]
      BY <2>1, <3>2
    <3> QED
      BY <1>1, <3>1, <3>2
  <2> QED
    BY <1>0, <2>2 DEF Logged
<1>6. Past(L, "write", job.event, jobs, answer)
  <2>1. ASSUME NEW i \in 1 .. Len(L), L[i].by = jobs
        PROVE  L[i].event <= job.event
    <3>1. CASE L[i] = Own(jobs, job.event, i - job.base)
      BY <1>0, <3>1 DEF Own
    <3>2. CASE i \in 1 .. Len(log) /\ L[i] = log[i]
      BY <1>0, <1>4, <2>1, <3>2 DEF LogInv, Past
    <3> QED
      BY <1>1, <3>1, <3>2
  <2>2. ASSUME NEW w \in 1 .. jobs, NEW e \in 1 .. 2, Whole(log, w, e),
               w < jobs \/ e < job.event
        PROVE  Whole(L, w, e)
    <3>1. ~Belongs(Own(jobs, job.event, 0), w, e) /\ w # 0
          /\ \A i : ~Belongs(Own(jobs, job.event, i), w, e)
      BY <1>0, <2>2 DEF Belongs, Own
    <3>2. CASE \A i \in DOMAIN log : ~Belongs(log[i], w, e)
      <4>1. \A i \in 1 .. Len(L) : ~Belongs(L[i], w, e)
        BY <1>0, <1>1, <3>1, <3>2
      <4> QED
        BY <1>0, <4>1 DEF Whole
    <3>3. CASE \A i \in 1 .. BatchLen :
                 \E j \in DOMAIN log : log[j] = Own(w, e, i)
      <4> SUFFICES ASSUME NEW i \in 1 .. BatchLen
                   PROVE  \E j \in DOMAIN L : L[j] = Own(w, e, i)
        BY DEF Whole
      <4>1. PICK j \in 1 .. Len(log) : log[j] = Own(w, e, i)
        BY <1>0, <3>3
      <4>2. log[j].by # 0
        BY <3>1, <4>1 DEF Own
      <4>3. j \notin from + 1 .. from + n
        BY <1>0, <1>2, <4>2
      <4>4. j \in 1 .. Len(L) /\ L[j] = log[j]
        BY <1>0, <1>1, <4>3
      <4> QED
        BY <1>0, <4>1, <4>4
    <3> QED
      BY <2>2, <3>2, <3>3 DEF Whole
  <2>3. \A w \in 1 .. jobs, e \in 1 .. 2 :
          (w < jobs \/ e < job.event) /\ answer[w] \in Unsaid => Whole(L, w, e)
    BY <1>4, <2>2 DEF LogInv, Past
  <2> QED
    BY <1>0, <2>1, <2>3 DEF Past
<1>7. ASSUME Gone(L, "overwritten") PROVE OutsideLinesKept'
  <2>1. \A j \in DOMAIN log : log[j].by = 0
           /\ (j \notin DOMAIN L \/ L[j].by # 0) => log[j].when = "write"
    <3> SUFFICES ASSUME NEW j \in 1 .. Len(log), log[j].by = 0,
                        j \notin 1 .. Len(L) \/ L[j].by # 0
                 PROVE  log[j].when = "write"
      BY <1>0
    <3>1. j \in from + 1 .. from + n
      BY <1>0, <1>1
    <3> QED
      BY <1>0, <1>2, <3>1
  <2>2. lost' \subseteq lost \union {<<"write", "overwritten">>}
    BY <1>7, <2>1 DEF Gone
  <2> QED
    BY <2>2 DEF LogInv, OutsideLinesKept
<1> QED
  BY <1>5, <1>6, <1>7 DEF L

LEMMA LandedRegion ==
  ASSUME LogInv, Doing("write"), node = job.node,
         NEW n \in 0 .. BatchLen - job.acked, NEW ack
  PROVE  /\ Region(Landed(n), "inspect", job.event, job.base, ack, jobs)
         /\ Region(Landed(n), "write", job.event, job.base, job.acked + n, jobs)
<1> DEFINE L == Landed(n)
<1>a. /\ L \in Seq(CellType) /\ Len(L) >= Len(log)
      /\ Len(L) >= job.base + job.acked + n
  BY LandedShape
<1>0. /\ job.base \in Nat /\ job.acked \in Nat /\ n \in Nat
      /\ log \in Seq(CellType) /\ Len(log) \in Nat /\ jobs \in Nat
      /\ L \in Seq(CellType) /\ Len(L) \in Nat /\ Len(L) >= Len(log)
      /\ Len(L) >= job.base + job.acked + n
  BY <1>a, Sizes
<1>1. \A i \in 1 .. Len(L) :
        \/ /\ i \in job.base + job.acked + 1 .. job.base + job.acked + n
           /\ L[i] = Own(jobs, job.event, i - job.base)
        \/ /\ i \notin job.base + job.acked + 1 .. job.base + job.acked + n
           /\ i \in 1 .. Len(log) /\ L[i] = log[i]
  BY LandedShape
<1>2. Region(log, "write", job.event, job.base, job.acked, jobs)
  BY DEF LogInv, Handle, Handled, Doing
<1> HIDE DEF L
<1>2a. /\ job.base + job.acked <= Len(log)
       /\ \A i \in 1 .. job.base : ~Belongs(log[i], jobs, job.event)
       /\ \A i \in job.base + 1 .. Len(log) :
            log[i].by # 0 => Belongs(log[i], jobs, job.event)
       /\ \A i \in 1 .. job.acked : log[job.base + i] = Own(jobs, job.event, i)
       /\ \A i \in job.base + job.acked + 1 .. Len(log) :
            log[i].by = 0 /\ log[i].when = "write"
  BY <1>2 DEF Region, Written
<1>3. ASSUME NEW i \in 1 .. job.base
      PROVE  ~Belongs(L[i], jobs, job.event)
  <2>1. L[i] = log[i]
    BY <1>0, <1>1
  <2> QED
    BY <1>2a, <2>1
<1>4. ASSUME NEW i \in job.base + 1 .. Len(L), L[i].by # 0
      PROVE  Belongs(L[i], jobs, job.event)
  <2>0. i \in 1 .. Len(L)
    BY <1>0
  <2>1. CASE L[i] = Own(jobs, job.event, i - job.base)
    BY <2>1 DEF Belongs, Own
  <2>2. CASE i \in 1 .. Len(log) /\ L[i] = log[i]
    <3>1. i \in job.base + 1 .. Len(log)
      BY <1>0, <2>2
    <3> QED
      BY <1>2a, <1>4, <2>2, <3>1
  <2> QED
    BY <1>1, <2>0, <2>1, <2>2
<1>5. ASSUME NEW i \in 1 .. job.acked + n
      PROVE  L[job.base + i] = Own(jobs, job.event, i)
  <2>1. CASE i <= job.acked
    <3>0. /\ job.base + i \in 1 .. Len(L)
          /\ job.base + i \notin job.base + job.acked + 1
                               .. job.base + job.acked + n
      BY <1>0, <2>1
    <3>1. L[job.base + i] = log[job.base + i]
      BY <1>1, <3>0
    <3> QED
      BY <1>0, <1>2a, <2>1, <3>1
  <2>2. CASE i > job.acked
    <3>1. job.base + i \in job.base + job.acked + 1 .. job.base + job.acked + n
          /\ job.base + i \in 1 .. Len(L) /\ (job.base + i) - job.base = i
      BY <1>0, <2>2
    <3> QED
      BY <1>1, <3>1
  <2> QED
    BY <1>0, <2>1, <2>2
<1>6. ASSUME NEW i \in job.base + (job.acked + n) + 1 .. Len(L)
      PROVE  L[i].by = 0 /\ L[i].when = "write"
  <2>1. i \in 1 .. Len(log) /\ L[i] = log[i]
    BY <1>0, <1>1
  <2>2. i \in job.base + job.acked + 1 .. Len(log)
    BY <1>0, <2>1
  <2> QED
    BY <1>2a, <2>1, <2>2
<1>7. /\ job.base <= Len(L) /\ job.base + (job.acked + n) <= Len(L)
  BY <1>0
<1>8. Region(L, "inspect", job.event, job.base, ack, jobs)
  BY <1>3, <1>4, <1>7 DEF Region, Behind
<1>9. Region(L, "write", job.event, job.base, job.acked + n, jobs)
  BY <1>3, <1>4, <1>5, <1>6, <1>7 DEF Region, Behind, Written
<1> QED
  BY <1>8, <1>9 DEF L
(* A rollback cuts the event that is under way and nothing else, but for   *)
(* lines that came in that very moment.                                    *)
LEMMA TruncatedKeeps ==
  ASSUME LogInv, Doing("cut"), node = job.node
  PROVE  /\ Logged(Truncated, outside, committed)
         /\ Past(Truncated, "cut", job.event, jobs, answer)
         /\ Region(Truncated, "restored", job.event, job.base, job.acked, jobs)
         /\ Gone(Truncated, "cut") => OutsideLinesKept'
<1> DEFINE L == Truncated
<1>1. Region(log, "cut", job.event, job.base, job.acked, jobs)
  BY DEF LogInv, Handle, Handled, Doing
<1>2. /\ job.base <= Len(log)
      /\ \A i \in 1 .. job.base : ~Belongs(log[i], jobs, job.event)
      /\ \A i \in job.base + 1 .. Len(log) :
           log[i].by # 0 => Belongs(log[i], jobs, job.event)
      /\ \A i \in job.base + 1 .. Len(log) :
           log[i].by = 0 => log[i].when = "cut"
  BY <1>1 DEF Region
<1>3. /\ job.base \in Nat /\ log \in Seq(CellType) /\ Len(log) \in Nat
      /\ jobs \in Nat /\ job.event \in 1 .. 2
      /\ Len(log) <= LogLimit + outside /\ LogLimit + outside \in Nat
  BY Sizes
<1>4. L \in Seq(CellType) /\ Len(L) = job.base
      /\ \A i \in 1 .. job.base : L[i] = log[i]
  BY <1>2, <1>3 DEF Truncated
<1>5. job.at = "cut"
  BY DEF Doing
<1> HIDE DEF L
<1>6. Logged(L, outside, committed)
  <2>1. \A i \in 1 .. Len(log) : log[i].by \in committed \union {0}
    BY <1>3 DEF LogInv, Logged
  <2>2. \A i \in 1 .. job.base : L[i].by \in committed \union {0}
    BY <1>2, <1>3, <1>4, <2>1
  <2> QED
    BY <1>2, <1>3, <1>4, <2>2 DEF Logged
<1>7. Past(L, "cut", job.event, jobs, answer)
  <2>1. \A i \in 1 .. Len(log) : log[i].by = jobs => log[i].event <= job.event
    BY <1>3, <1>5 DEF LogInv, Past
  <2>2. \A i \in 1 .. job.base : L[i].by = jobs => L[i].event <= job.event
    BY <1>2, <1>3, <1>4, <2>1
  <2>3. ASSUME NEW w \in 1 .. jobs, NEW e \in 1 .. 2, Whole(log, w, e),
               w < jobs \/ e < job.event
        PROVE  Whole(L, w, e)
    <3>1. CASE \A i \in DOMAIN log : ~Belongs(log[i], w, e)
      <4>1. \A i \in 1 .. job.base : ~Belongs(L[i], w, e)
        BY <1>2, <1>3, <1>4, <3>1
      <4> QED
        BY <1>4, <4>1 DEF Whole
    <3>2. CASE \A i \in 1 .. BatchLen :
                 \E j \in DOMAIN log : log[j] = Own(w, e, i)
      <4> SUFFICES ASSUME NEW i \in 1 .. BatchLen
                   PROVE  \E j \in DOMAIN L : L[j] = Own(w, e, i)
        BY DEF Whole
      <4>1. PICK j \in 1 .. Len(log) : log[j] = Own(w, e, i)
        BY <1>3, <3>2
      <4>2. log[j].by # 0 /\ ~Belongs(log[j], jobs, job.event)
        BY <1>3, <2>3, <4>1 DEF Own, Belongs
      <4>3. j \notin job.base + 1 .. Len(log)
        BY <1>2, <4>2
      <4>4. j \in 1 .. job.base
        BY <1>3, <4>3
      <4> QED
        BY <1>4, <4>1, <4>4
    <3> QED
      BY <2>3, <3>1, <3>2 DEF Whole
  <2>4. \A w \in 1 .. jobs, e \in 1 .. 2 :
          (w < jobs \/ e < job.event) /\ answer[w] \in Unsaid => Whole(L, w, e)
    BY <1>5, <2>3 DEF LogInv, Past
  <2> QED
    BY <1>4, <2>2, <2>4 DEF Past
<1>8. Region(L, "restored", job.event, job.base, job.acked, jobs)
  <2>1. \A i \in 1 .. job.base : ~Belongs(L[i], jobs, job.event)
    BY <1>2, <1>4
  <2>2. job.base <= Len(L) /\ \A i : i \notin job.base + 1 .. Len(L)
    BY <1>3, <1>4
  <2> QED
    BY <2>1, <2>2 DEF Region
<1>9. ASSUME Gone(L, "cut") PROVE OutsideLinesKept'
  <2>1. ASSUME NEW j \in DOMAIN log, log[j].by = 0,
               j \notin DOMAIN L \/ L[j].by # 0
        PROVE  log[j].when = "cut"
    <3>1. j \in 1 .. Len(log)
      BY <1>3
    <3>2. CASE j \in 1 .. job.base
      BY <1>4, <2>1, <3>2
    <3>3. CASE j \notin 1 .. job.base
      <4>1. j \in job.base + 1 .. Len(log)
        BY <1>3, <3>1, <3>3
      <4> QED
        BY <1>2, <2>1, <4>1
    <3> QED
      BY <3>2, <3>3
  <2>2. lost' \subseteq lost \union {<<"cut", "cut">>}
    BY <1>9, <2>1 DEF Gone
  <2> QED
    BY <2>2 DEF LogInv, OutsideLinesKept
<1> QED
  BY <1>6, <1>7, <1>8, <1>9 DEF L

(* A line from outside lands behind everything.                            *)
LEMMA AppendKeeps ==
  ASSUME LogInv, outside < MaxOutside
  PROVE  LET L == Append(log, Foreign(job.at))
         IN  /\ Logged(L, outside + 1, committed)
             /\ Past(L, job.at, job.event, jobs, answer)
             /\ Handle(L, node, job.at, job.event, job.node, job.base,
                       job.acked, jobs)
<1> DEFINE x == Foreign(job.at)
           L == Append(log, x)
<1>1. /\ job.base \in Nat /\ job.acked \in Nat
      /\ log \in Seq(CellType) /\ Len(log) \in Nat /\ jobs \in Nat
      /\ DOMAIN log = 1 .. Len(log) /\ outside \in Nat
      /\ Len(log) <= LogLimit + outside /\ LogLimit \in Nat
      /\ MaxWrites \in Nat /\ BatchLen \in Nat
  BY Sizes
<1>2. x \in CellType /\ x.by = 0 /\ x.when = job.at
  BY <1>1 DEF Foreign, CellType, LogInv, LogRest, Jobs
<1> HIDE DEF x
<1>3. /\ L \in Seq(CellType) /\ Len(L) = Len(log) + 1
      /\ DOMAIN L = 1 .. Len(log) + 1
      /\ \A i \in 1 .. Len(log) : L[i] = log[i]
      /\ L[Len(log) + 1] = x
  BY <1>1, <1>2
<1>4. \A i \in 1 .. Len(log) + 1 : i \in 1 .. Len(log) \/ i = Len(log) + 1
  BY <1>1
<1> HIDE DEF L
<1>5. Logged(L, outside + 1, committed)
  <2>1. \A i \in 1 .. Len(log) : log[i].by \in committed \union {0}
    BY <1>1 DEF LogInv, Logged
  <2>2. \A i \in 1 .. Len(log) + 1 : L[i].by \in committed \union {0}
    BY <1>2, <1>3, <1>4, <2>1
  <2> QED
    BY <1>1, <1>3, <2>2 DEF Logged
<1>6. ASSUME NEW w, w # 0, NEW e PROVE Whole(log, w, e) => Whole(L, w, e)
  <2>1. ~Belongs(x, w, e)
    BY <1>2, <1>6 DEF Belongs
  <2>2. CASE \A i \in DOMAIN log : ~Belongs(log[i], w, e)
    <3>1. \A i \in 1 .. Len(log) + 1 : ~Belongs(L[i], w, e)
      BY <1>1, <1>3, <1>4, <2>1, <2>2
    <3> QED
      BY <1>3, <3>1 DEF Whole
  <2>3. CASE \A i \in 1 .. BatchLen :
               \E j \in DOMAIN log : log[j] = Own(w, e, i)
    <3>1. \A j \in DOMAIN log : j \in DOMAIN L /\ L[j] = log[j]
      BY <1>1, <1>3
    <3> QED
      BY <2>3, <3>1 DEF Whole
  <2> QED
    BY <2>2, <2>3 DEF Whole
<1>7. Past(L, job.at, job.event, jobs, answer)
  <2>0. Past(log, job.at, job.event, jobs, answer)
    BY DEF LogInv
  <2>1. job.at # "idle" => jobs # 0
    BY <1>1 DEF LogInv, Told
  <2>2. job.at # "idle" => \A i \in 1 .. Len(log) + 1 :
          L[i].by = jobs => L[i].event <= job.event
    BY <1>1, <1>2, <1>3, <1>4, <2>0, <2>1 DEF Past
  <2>3. job.at = "open" => \A i \in 1 .. Len(log) + 1 :
          ~Belongs(L[i], jobs, job.event)
    BY <1>1, <1>2, <1>3, <1>4, <2>0, <2>1 DEF Past, Belongs
  <2>4. \A w \in 1 .. jobs : w # 0
    BY <1>1
  <2>5. \A w \in 1 .. jobs, e \in 1 .. 2 :
          /\ w < jobs \/ job.at = "idle" \/ e < job.event
          /\ answer[w] \in Unsaid
          => Whole(L, w, e)
    BY <1>6, <2>0, <2>4 DEF Past
  <2> QED
    BY <1>3, <2>2, <2>3, <2>5 DEF Past
<1>8. Handle(L, node, job.at, job.event, job.node, job.base, job.acked, jobs)
  <2>1. SUFFICES ASSUME Region(log, job.at, job.event, job.base, job.acked,
                               jobs)
                 PROVE  Region(L, job.at, job.event, job.base, job.acked, jobs)
    BY DEF LogInv, Handle
  <2>2. job.base <= Len(log) /\ job.base <= Len(L)
    BY <1>1, <1>3, <2>1 DEF Region
  <2>3. \A i \in 1 .. job.base : ~Belongs(L[i], jobs, job.event)
    BY <1>1, <1>3, <2>1, <2>2 DEF Region
  <2>4. ASSUME NEW i \in job.base + 1 .. Len(L)
        PROVE  \/ i \in job.base + 1 .. Len(log) /\ L[i] = log[i]
               \/ L[i] = x
    BY <1>1, <1>3
  <2>5. \A i \in job.base + 1 .. Len(L) :
          L[i].by # 0 => job.at \in Behind /\ Belongs(L[i], jobs, job.event)
    BY <1>2, <2>1, <2>4 DEF Region
  <2>6. job.at \in {"write", "verify"}
          => Written(L, job.event, job.base, job.acked, jobs)
    <3> SUFFICES ASSUME job.at \in {"write", "verify"}
                 PROVE  Written(L, job.event, job.base, job.acked, jobs)
      OBVIOUS
    <3>1. Written(log, job.event, job.base, job.acked, jobs)
      BY <2>1 DEF Region
    <3>2. \A i \in 1 .. job.acked : job.base + i \in 1 .. Len(log)
      BY <1>1, <3>1 DEF Written
    <3> QED
      BY <1>1, <1>3, <3>1, <3>2 DEF Written
  <2>7. ASSUME job.at = "write", NEW i \in job.base + job.acked + 1 .. Len(L)
        PROVE  L[i].by = 0 /\ L[i].when = "write"
    <3>1. CASE i = Len(log) + 1
      BY <1>2, <1>3, <2>7, <3>1
    <3>2. CASE i # Len(log) + 1
      <4>1. i \in job.base + job.acked + 1 .. Len(log) /\ i \in 1 .. Len(log)
        BY <1>1, <1>3, <3>2
      <4> QED
        BY <1>3, <2>1, <2>7, <4>1 DEF Region
    <3> QED
      BY <3>1, <3>2
  <2>8. job.at = "cut" => \A i \in job.base + 1 .. Len(L) :
          L[i].by = 0 => L[i].when = "cut"
    BY <1>2, <2>1, <2>4 DEF Region
  <2> QED
    BY <2>1, <2>2, <2>3, <2>5, <2>6, <2>7, <2>8 DEF Region
<1> QED
  BY <1>5, <1>7, <1>8 DEF L, x
-----------------------------------------------------------------------------
(* The steps                                                               *)

LEMMA JobTyped == LogInv => job \in Jobs
BY DEF LogInv, LogRest, Jobs

LEMMA CellsTyped ==
  ASSUME NEW l, NEW out, NEW cm, Logged(l, out, cm)
  PROVE  \A i \in DOMAIN l : l[i].event \in Int
<1>1. l \in Seq(CellType)
  BY DEF Logged
<1>2. \A i \in DOMAIN l : l[i] \in CellType
  BY <1>1
<1> QED
  BY <1>2 DEF CellType

(* An operation ends: what it says is true of the log it leaves.           *)
LEMMA Ends ==
  ASSUME LogInv, ~Quiet, NEW what \in Answers, what # "none", Tell(what),
         what = "quiet" => jobs \notin committed,
         what \in Clean => Whole(log', jobs, job.event),
         UNCHANGED <<names, jobs, committed, outside>>,
         node' \in 0 .. MaxOutside + 2, trouble' \in 0 .. MaxTrouble,
         OutsideLinesKept', Logged(log', outside, committed),
         Past(log', job.at, job.event, jobs, answer)
  PROVE  LogInv'
<1>1. job.at # "idle" /\ job' = NoJob
      /\ answer' = [answer EXCEPT ![jobs] = what]
  BY DEF Quiet, Tell
<1>2. jobs \in Writes /\ answer \in [Writes -> Answers]
      /\ answer[jobs] = "none"
  BY <1>1, Sizes DEF LogInv, LogRest, Told, Writes
<1>3. job.event \in 1 .. 2 /\ \A i \in DOMAIN log' : log'[i].event \in Int
  BY Sizes, CellsTyped
<1>4. Past(log', "idle", 1, jobs, answer')
  BY <1>1, <1>2, <1>3, EndedPast
<1>5. Told("idle", jobs, committed, answer')
  BY <1>1, <1>2, EndedTold DEF LogInv
<1>6. LogRest'
  <2>1. answer' \in [Writes -> Answers]
    BY <1>1, <1>2
  <2>2. job' \in Jobs
        /\ job'.event + job'.left <= 2
    BY <1>1, Sizes DEF NoJob, Phases, Kinds, Jobs
  <2> QED
    BY <2>1, <2>2 DEF LogInv, LogRest
<1>7. job'.at = "idle" /\ job'.event = 1
  BY <1>1 DEF NoJob
<1>8. Handle(log', node', "idle", 1, job'.node, job'.base, job'.acked, jobs)
  BY DEF Handle, Handled
<1> QED
  BY <1>4, <1>5, <1>6, <1>7, <1>8 DEF LogInv

(* The same with a log that is not touched.                                *)
LEMMA EndsQuietly ==
  ASSUME LogInv, ~Quiet, NEW what \in Answers, what # "none", Tell(what),
         what = "quiet" => jobs \notin committed,
         what \in Clean => Whole(log, jobs, job.event),
         UNCHANGED <<log, node, names, jobs, committed, lost, outside>>,
         trouble' \in 0 .. MaxTrouble
  PROVE  LogInv'
<1>1. /\ OutsideLinesKept' /\ Logged(log', outside, committed)
      /\ Past(log', job.at, job.event, jobs, answer)
      /\ node' \in 0 .. MaxOutside + 2
  BY DEF LogInv, LogRest, OutsideLinesKept
<1> QED
  BY <1>1, Ends

LEMMA InTrouble ==
  ASSUME LogInv
  PROVE  /\ Troubled => trouble' \in 0 .. MaxTrouble
         /\ UNCHANGED trouble => trouble' \in 0 .. MaxTrouble
<1>1. trouble \in 0 .. MaxTrouble /\ MaxTrouble \in Nat
  BY Sizes DEF LogInv, LogRest
<1> QED
  BY <1>1 DEF Troubled

(* An operation goes on with the log as it is, at the same event.          *)
LEMMA GoesOn ==
  ASSUME LogInv, NEW to \in Phases \ {"idle", "open", "mutate"},
         ~Quiet, GoOn(to), UNCHANGED <<log, node, names, jobs, answer, lost,
                                       outside>>,
         trouble' \in 0 .. MaxTrouble,
         committed' = committed \union {jobs},
         Handle(log, node, to, job.event, job.node, job.base, job.acked, jobs)
  PROVE  LogInv'
<1>1. job.at # "idle" /\ job' = [job EXCEPT !.at = to]
  BY DEF Quiet, GoOn
<1>2. job' \in Jobs
      /\ job'.at = to /\ job'.event = job.event /\ job'.left = job.left
      /\ job'.node = job.node /\ job'.base = job.base
      /\ job'.acked = job.acked
  BY <1>1, JobTyped DEF Jobs
<1>3. jobs >= 1 /\ jobs \in Nat
  BY <1>1, Sizes DEF LogInv, Told
<1>4. LogRest'
  <2>1. committed' \subseteq 1 .. jobs
    BY <1>3 DEF LogInv, LogRest
  <2> QED
    BY <1>2, <2>1 DEF LogInv, LogRest
<1>5. Logged(log', outside', committed')
  BY DEF LogInv, Logged
<1>6. Past(log', to, job.event, jobs', answer')
  BY <1>1, KeptPast DEF LogInv
<1>7. Told(to, jobs', committed', answer')
  <2>1. answer[jobs] = "none"
    BY <1>1, <1>3, Sizes DEF LogInv, Told, Writes
  <2> QED
    BY <1>1, <1>3, <2>1 DEF LogInv, Told
<1>8. OutsideLinesKept'
  BY DEF LogInv, OutsideLinesKept
<1> QED
  BY <1>2, <1>4, <1>5, <1>6, <1>7, <1>8 DEF LogInv
LEMMA Starting ==
  ASSUME LogInv, Quiet, jobs < MaxWrites, jobs' = jobs + 1
  PROVE  /\ jobs' \in 1 .. MaxWrites /\ jobs \in Nat
         /\ jobs + 1 \in Writes /\ committed \subseteq 1 .. jobs
         /\ answer[jobs + 1] = "none" /\ job.at = "idle"
         /\ Logged(log, outside, committed)
         /\ Past(log, "idle", job.event, jobs, answer)
         /\ \A i \in DOMAIN log : log[i].by # jobs + 1
<1>1. /\ jobs \in Nat /\ jobs + 1 \in Writes /\ committed \subseteq 1 .. jobs
      /\ jobs' \in 1 .. MaxWrites
  BY Sizes DEF LogInv, LogRest, Writes
<1>2. Past(log, "idle", job.event, jobs, answer) /\ job.at = "idle"
      /\ Logged(log, outside, committed)
  BY DEF LogInv, Quiet
<1>3. answer[jobs + 1] = "none"
  BY <1>1 DEF LogInv, Told
<1>4. \A i \in DOMAIN log : log[i].by # jobs + 1
  BY <1>1, <1>2 DEF Logged
<1> QED
  BY <1>1, <1>2, <1>3, <1>4

LEMMA StopOpenStep == LogInv /\ StopOpen => LogInv'
<1> SUFFICES ASSUME LogInv, StopOpen PROVE LogInv'
  OBVIOUS
<1>1. Quiet /\ jobs < MaxWrites /\ jobs' = jobs + 1 /\ node # 0 /\ Fits
      /\ Pin("mutate")
      /\ UNCHANGED <<log, node, names, committed, answer, lost, trouble,
                     outside>>
  BY DEF StopOpen
<1>2. /\ job'.at = "mutate" /\ job'.event = 1 /\ job'.node = node
      /\ job'.base = Len(log) /\ job'.acked = 0 /\ job'.left = 0
      /\ job'.kind = "stop" /\ job' = [at |-> "mutate", kind |-> "stop",
           event |-> 1, left |-> 0, node |-> node, base |-> Len(log),
           acked |-> 0]
  BY <1>1 DEF Pin, NoJob
<1>3. LogRest'
  <2>1. node \in 0 .. MaxOutside + 2 /\ Len(log) \in Nat /\ BatchLen \in Nat
    BY Sizes DEF LogInv, LogRest
  <2>2. job' \in Jobs /\ job'.event + job'.left <= 2
    BY <1>2, <2>1 DEF Jobs, Phases, Kinds
  <2>3. committed \subseteq 1 .. jobs + 1 /\ jobs' \in 0 .. MaxWrites
    BY <1>1, Starting
  <2> QED
    BY <1>1, <2>2, <2>3 DEF LogInv, LogRest
<1>4. Past(log', "mutate", 1, jobs', answer')
  BY <1>1, Starting, BegunPast
<1>5. Region(log, "mutate", 1, Len(log), 0, jobs')
  <2>1. Len(log) \in Nat /\ DOMAIN log = 1 .. Len(log)
    BY Sizes
  <2>2. \A i \in DOMAIN log : ~Belongs(log[i], jobs', 1)
    BY <1>1, Starting DEF Belongs
  <2>3. \A i : i \notin Len(log) + 1 .. Len(log)
    BY <2>1
  <2> QED
    BY <2>1, <2>2, <2>3 DEF Region
<1>6. Handle(log', node', "mutate", 1, node, Len(log), 0, jobs')
  BY <1>1, <1>5 DEF Handle, Fits
<1>7. Told("mutate", jobs', committed', answer')
  <2>1. \A w \in 1 .. jobs + 1 : w \in 1 .. jobs \/ w = jobs + 1
    BY Starting, <1>1
  <2> QED
    BY <1>1, <2>1, Starting DEF LogInv, Told, Writes
<1>8. OutsideLinesKept' /\ Logged(log', outside', committed')
  BY <1>1 DEF LogInv, OutsideLinesKept
<1> QED
  BY <1>2, <1>3, <1>4, <1>6, <1>7, <1>8 DEF LogInv

(* An operation that is over as it starts.                                 *)
LEMMA AtOnce ==
  ASSUME LogInv, Quiet, jobs < MaxWrites, jobs' = jobs + 1,
         NEW what \in Answers, answer' = [answer EXCEPT ![jobs + 1] = what],
         UNCHANGED <<log, node, names, job, lost, trouble, outside>>,
         committed' \in {committed, committed \union {jobs + 1}},
         what = "quiet" => committed' = committed
  PROVE  LogInv'
<1>1. \A w \in 1 .. jobs + 1 : w \in 1 .. jobs \/ w = jobs + 1
  BY Starting
<1>2. answer \in [Writes -> Answers] /\ 1 .. jobs \subseteq Writes
      /\ \A w \in 1 .. jobs : w # jobs + 1
  <2>1. jobs \in Nat /\ MaxWrites \in Nat
    BY Sizes
  <2> QED
    BY <2>1 DEF LogInv, LogRest, Writes
<1>3. answer' \in [Writes -> Answers] /\ answer'[jobs + 1] = what
      /\ \A w \in Writes : w # jobs + 1 => answer'[w] = answer[w]
  BY <1>2, Starting
<1>4. Past(log', job'.at, job'.event, jobs', answer')
  BY <1>2, <1>3, Starting, BegunPast
<1>5. LogRest'
  <2>1. committed' \subseteq 1 .. jobs'
    BY Starting
  <2> QED
    BY <1>3, <2>1, Starting DEF LogInv, LogRest
<1>6. Told(job'.at, jobs', committed', answer')
  <2>1. \A w \in Writes : w > jobs + 1 => answer'[w] = "none"
    BY <1>3, Starting DEF LogInv, Told, Writes
  <2>2. ASSUME NEW w \in 1 .. jobs + 1, answer'[w] = "quiet"
        PROVE  w \notin committed'
    <3>1. CASE w = jobs + 1
      BY <1>3, <2>2, <3>1, Starting
    <3>2. CASE w \in 1 .. jobs
      BY <1>2, <1>3, <2>2, <3>2 DEF LogInv, Told
    <3> QED
      BY <1>1, <3>1, <3>2
  <2>3. job'.at = "idle"
    BY Starting
  <2> QED
    BY <2>1, <2>2, <2>3, Starting DEF Told
<1>7. OutsideLinesKept' /\ Logged(log', outside', committed')
  BY DEF LogInv, OutsideLinesKept, Logged
<1>8. Handle(log', node', job'.at, job'.event, job'.node, job'.base,
             job'.acked, jobs')
  BY Starting DEF Handle, Handled
<1> QED
  BY <1>4, <1>5, <1>6, <1>7, <1>8 DEF LogInv

LEMMA OpCommitStep ==
  ASSUME LogInv, NEW k \in {"op", "accept"}, NEW e \in 1 .. 2, OpCommit(k, e)
  PROVE  LogInv'
<1>1. Quiet /\ jobs < MaxWrites /\ jobs' = jobs + 1
      /\ committed' = committed \union {jobs + 1}
      /\ UNCHANGED <<log, node, names, answer, lost, trouble, outside>>
  BY DEF OpCommit
<1>2. /\ job'.at = "open" /\ job'.event = 1
      /\ job' = [at |-> "open", kind |-> k, event |-> 1, left |-> e - 1,
                 node |-> 0, base |-> 0, acked |-> 0]
  BY DEF OpCommit, NoJob
<1>3. LogRest'
  <2>1. committed' \subseteq 1 .. jobs'
    BY <1>1, Starting
  <2>2. job'.left \in 0 .. 1 /\ job'.event + job'.left <= 2
    BY <1>2
  <2>3. job' \in Jobs
    BY <1>2, <2>2, Sizes DEF Phases, Kinds, Jobs
  <2> QED
    BY <1>1, <2>1, <2>2, <2>3, Starting DEF LogInv, LogRest
<1>4. Past(log', "open", 1, jobs', answer')
  BY <1>1, Starting, BegunPast
<1>5. Told("open", jobs', committed', answer')
  <2>1. \A w \in 1 .. jobs + 1 : w \in 1 .. jobs \/ w = jobs + 1
    BY <1>1, Starting
  <2>2. \A w \in 1 .. jobs : w # jobs + 1
    BY <1>1, Starting
  <2> QED
    BY <1>1, <2>1, <2>2, Starting DEF LogInv, Told, Writes
<1>6. OutsideLinesKept' /\ Logged(log', outside', committed')
  BY <1>1 DEF LogInv, OutsideLinesKept, Logged
<1>7. Handle(log', node', "open", 1, job'.node, job'.base, job'.acked, jobs')
  BY DEF Handle, Handled
<1> QED
  BY <1>2, <1>3, <1>4, <1>5, <1>6, <1>7 DEF LogInv
LEMMA StopMutateStep == LogInv /\ StopMutate => LogInv'
<1> SUFFICES ASSUME LogInv, StopMutate PROVE LogInv'
  OBVIOUS
<1>1. ~Quiet /\ GoOn("check") /\ committed' = committed \union {jobs}
      /\ UNCHANGED <<log, node, names, jobs, answer, lost, trouble, outside>>
      /\ job.at = "mutate"
  BY DEF StopMutate, Doing, Quiet
<1>2. Handle(log, node, "check", job.event, job.node, job.base, job.acked, jobs)
  BY <1>1 DEF LogInv, Handle, Handled, Region, Behind
<1>3. trouble' \in 0 .. MaxTrouble
  BY <1>1, InTrouble
<1> QED
  BY <1>1, <1>2, <1>3, GoesOn DEF Phases

LEMMA StopMutateFailsStep == LogInv /\ StopMutateFails => LogInv'
<1> SUFFICES ASSUME LogInv, StopMutateFails PROVE LogInv'
  OBVIOUS
<1>1. ~Quiet /\ Tell("state") /\ Troubled /\ job.at = "mutate"
      /\ UNCHANGED <<log, node, names, jobs, committed, lost, outside>>
  BY DEF StopMutateFails, Doing, Quiet
<1>2. Whole(log, jobs, job.event)
  <2>1. jobs \notin committed /\ jobs # 0
    BY <1>1, Sizes DEF LogInv, Told
  <2>2. \A i \in DOMAIN log : log[i].by # jobs
    BY <2>1 DEF LogInv, Logged
  <2> QED
    BY <2>2 DEF Whole, Belongs
<1>3. trouble' \in 0 .. MaxTrouble
  BY <1>1, InTrouble
<1> QED
  BY <1>1, <1>2, <1>3, EndsQuietly DEF Answers

(* Behind a written state the operation is among the committed.            *)
LEMMA GoesOnCommitted ==
  ASSUME LogInv, NEW to \in Phases \ {"idle", "open", "mutate"},
         job.at \notin {"idle", "mutate"}, GoOn(to),
         UNCHANGED <<log, node, names, jobs, committed, answer, lost, outside>>,
         trouble' \in 0 .. MaxTrouble,
         Handle(log, node, to, job.event, job.node, job.base, job.acked, jobs)
  PROVE  LogInv'
<1>1. committed' = committed \union {jobs} /\ ~Quiet
  BY DEF LogInv, Told, Quiet
<1> QED
  BY <1>1, GoesOn

LEMMA StopCheckStep == LogInv /\ StopCheck => LogInv'
<1> SUFFICES ASSUME LogInv, StopCheck PROVE LogInv'
  OBVIOUS
<1>1. ~Quiet /\ job.at = "check"
      /\ UNCHANGED <<log, node, names, jobs, committed, lost, trouble, outside>>
  BY DEF StopCheck, Doing, Quiet
<1>2. trouble' \in 0 .. MaxTrouble
  BY <1>1, InTrouble
<1>3. job.base + BatchLen <= LogLimit
      /\ (Pinned => Region(log, "check", job.event, job.base, job.acked, jobs))
  BY <1>1 DEF LogInv, Handle, Handled, Pinned
<1>4. CASE Tell("unsafe")
  BY <1>1, <1>2, <1>4, EndsQuietly DEF Answers, Clean
<1>5. CASE Pinned /\ Len(log) = job.base /\ ~Fits
  BY <1>3, <1>5 DEF Fits
<1>6. CASE Pinned /\ Len(log) = job.base /\ Fits /\ GoOn("write")
           /\ UNCHANGED answer
  <2>1. job.acked = 0 /\ job.node # 0 /\ node = job.node
    BY <1>1, <1>6 DEF LogInv, Handle, Handled, Pinned
  <2>2. Region(log, "write", job.event, job.base, 0, jobs)
    BY <1>3, <1>6, Sizes DEF Region, Written
  <2>3. Handle(log, node, "write", job.event, job.node, job.base, job.acked,
               jobs)
    BY <1>3, <2>1, <2>2 DEF Handle
  <2> QED
    BY <1>1, <1>2, <1>6, <2>3, GoesOnCommitted DEF Phases
<1> QED
  BY <1>4, <1>5, <1>6 DEF StopCheck
LEMMA OpOpenStep == LogInv /\ OpOpen => LogInv'
<1> SUFFICES ASSUME LogInv, OpOpen PROVE LogInv'
  OBVIOUS
<1>1. ~Quiet /\ job.at = "open"
      /\ UNCHANGED <<log, jobs, committed, lost, trouble, outside>>
  BY DEF OpOpen, Doing, Quiet
<1>2. trouble' \in 0 .. MaxTrouble
  BY <1>1, InTrouble
<1>3. \A i \in DOMAIN log : ~Belongs(log[i], jobs, job.event)
  BY <1>1 DEF LogInv, Past
<1>4. CASE Tell("unsafe") /\ UNCHANGED <<node, names>>
  BY <1>1, <1>2, <1>4, EndsQuietly DEF Answers, Clean
<1>5. CASE Tell(Softened("limit")) /\ UNCHANGED <<node, names>>
  <2>1. Whole(log, jobs, job.event)
    BY <1>3 DEF Whole
  <2>2. Softened("limit") \in {"limit", "ignored"}
    BY DEF Softened
  <2> QED
    BY <1>1, <1>2, <1>5, <2>1, <2>2, EndsQuietly DEF Answers
<1>6. CASE /\ Fits
           /\ node' = IF node = 0 THEN outside + 2 ELSE node
           /\ job' = [job EXCEPT !.at = "write", !.node = node',
                                !.base = Len(log), !.acked = 0]
           /\ UNCHANGED <<names, answer>>
  <2>1. node' \in 0 .. MaxOutside + 2 /\ node' # 0
    <3>1. node \in 0 .. MaxOutside + 2 /\ outside \in 0 .. MaxOutside
      BY DEF LogInv, LogRest
    <3>2. MaxOutside \in Nat
      BY Sizes
    <3>3. outside + 2 \in 0 .. MaxOutside + 2 /\ outside + 2 # 0
      BY <3>1, <3>2
    <3>4. CASE node = 0
      BY <1>6, <3>3, <3>4
    <3>5. CASE node # 0
      BY <1>6, <3>1, <3>5
    <3> QED
      BY <3>4, <3>5
  <2>2. job \in Jobs /\ Len(log) \in Nat
    BY JobTyped, Sizes
  <2>3. job' \in Jobs
        /\ job'.at = "write" /\ job'.event = job.event /\ job'.left = job.left
        /\ job'.node = node' /\ job'.base = Len(log) /\ job'.acked = 0
    <3>1. job' = [job EXCEPT !.at = "write", !.node = node', !.base = Len(log),
                             !.acked = 0]
      BY <1>6
    <3>2. node' \in 0 .. MaxOutside + 2
      BY <2>1
    <3>3. PICK m \in 0 .. MaxOutside + 2 : m = node'
      BY <3>2
    <3>4. PICK o : o = job'
      OBVIOUS
    <3>5. PICK j \in Jobs : j = job
      BY <2>2
    <3>6. PICK b \in Nat : b = Len(log)
      BY <2>2
    <3>7. o = [j EXCEPT !.at = "write", !.node = m, !.base = b, !.acked = 0]
      BY <3>1, <3>3, <3>4, <3>5, <3>6
    <3>8. /\ o \in Jobs /\ o.at = "write" /\ o.event = j.event
          /\ o.left = j.left /\ o.node = m /\ o.base = b /\ o.acked = 0
      <4>1. 0 \in 0 .. BatchLen /\ "write" \in Phases
        BY LogAssumption DEF Phases
      <4> QED
        BY <3>7, <4>1 DEF Jobs
    <3> QED
      BY <3>3, <3>4, <3>5, <3>6, <3>8
  <2>4. LogRest'
    <3>1. LogRest
      BY DEF LogInv
    <3>2. job'.event + job'.left <= 2
      BY <2>3, <3>1 DEF LogRest
    <3>3. UNCHANGED <<names, jobs, committed, answer, outside>>
      BY <1>1, <1>6
    <3> QED
      BY <1>2, <2>1, <2>3, <3>1, <3>2, <3>3 DEF LogRest
  <2>5. Region(log, "write", job.event, Len(log), 0, jobs)
    <3>1. Len(log) \in Nat /\ DOMAIN log = 1 .. Len(log)
      BY Sizes
    <3>2. \A i : i \notin Len(log) + 1 .. Len(log) /\ i \notin 1 .. 0
      BY <3>1
    <3>3. \A i : i \notin Len(log) + 0 + 1 .. Len(log)
      BY <3>1
    <3> QED
      BY <1>3, <3>1, <3>2, <3>3 DEF Region, Written
  <2>6. Handle(log', node', "write", job.event, node', Len(log), 0, jobs')
    BY <1>1, <1>6, <2>1, <2>5 DEF Handle, Fits
  <2>7. Past(log', "write", job.event, jobs', answer')
    BY <1>1, <1>6, KeptPast DEF LogInv
  <2>8. Told("write", jobs', committed', answer')
    BY <1>1, <1>6 DEF LogInv, Told
  <2>9. OutsideLinesKept' /\ Logged(log', outside', committed')
    BY <1>1 DEF LogInv, OutsideLinesKept
  <2> QED
    BY <2>3, <2>4, <2>6, <2>7, <2>8, <2>9 DEF LogInv
<1> QED
  BY <1>4, <1>5, <1>6 DEF OpOpen

(* A call that writes n cells and leaves the operation at a later phase.   *)
LEMMA WroteStep ==
  ASSUME LogInv, Doing("write"), NEW n \in 0 .. BatchLen - job.acked, Write(n),
         NEW to \in {"write", "inspect"}, NEW ack \in 0 .. BatchLen,
         job' = [job EXCEPT !.at = to, !.acked = ack],
         to = "write" => ack = job.acked + n,
         UNCHANGED <<node, names, jobs, committed, answer, outside>>,
         trouble' \in 0 .. MaxTrouble
  PROVE  LogInv'
<1>1. job.at = "write"
  BY DEF Doing
<1>2. job' \in Jobs
      /\ job'.at = to /\ job'.event = job.event /\ job'.left = job.left
      /\ job'.node = job.node /\ job'.base = job.base /\ job'.acked = ack
  BY JobTyped DEF Phases, Jobs
<1>3. LogRest'
  BY <1>2 DEF LogInv, LogRest
<1>4. /\ Logged(log', outside, committed)
      /\ Past(log', "write", job.event, jobs, answer)
      /\ OutsideLinesKept'
      /\ node = job.node
           => Region(log', to, job.event, job.base, ack, jobs)
  <2>1. CASE node = job.node
    <3>1. log' = Landed(n) /\ Gone(Landed(n), "overwritten")
      BY <2>1 DEF Write
    <3> QED
      BY <2>1, <3>1, LandedKeeps, LandedRegion
  <2>2. CASE node # job.node
    BY <1>1, <2>2 DEF Write, LogInv, OutsideLinesKept
  <2> QED
    BY <2>1, <2>2
<1>5. Handle(log', node', to, job.event, job.node, job.base, ack, jobs)
  BY <1>1, <1>4 DEF LogInv, Handle, Handled
<1>6. Past(log', to, job.event, jobs, answer)
  BY <1>4, KeptPast
<1>7. Told(to, jobs, committed, answer)
  BY <1>1 DEF LogInv, Told
<1> QED
  BY <1>2, <1>3, <1>4, <1>5, <1>6, <1>7 DEF LogInv

LEMMA WriteChunkStep ==
  ASSUME LogInv, NEW n \in 0 .. BatchLen, WriteChunk(n)
  PROVE  LogInv'
<1>1. Doing("write") /\ n \in 1 .. BatchLen - job.acked /\ Write(n)
      /\ UNCHANGED <<node, names, jobs, committed, answer, trouble, outside>>
      /\ job' = [job EXCEPT !.acked = @ + n] /\ job.at = "write"
  BY DEF WriteChunk, Doing
<1>2. job.acked + n \in 0 .. BatchLen /\ n \in 0 .. BatchLen - job.acked
  <2>1. job.acked \in Nat /\ BatchLen \in Nat
    BY Sizes
  <2> QED
    BY <1>1, <2>1
<1>3. job' = [job EXCEPT !.at = "write", !.acked = job.acked + n]
  BY <1>1, JobTyped
<1>4. trouble' \in 0 .. MaxTrouble
  BY <1>1, InTrouble
<1> QED
  BY <1>1, <1>2, <1>3, <1>4, WroteStep

LEMMA WriteFailsStep ==
  ASSUME LogInv, NEW n \in 0 .. BatchLen, WriteFails(n)
  PROVE  LogInv'
<1>1. Doing("write") /\ n \in 0 .. BatchLen - job.acked /\ Write(n)
      /\ UNCHANGED <<node, names, jobs, committed, answer, outside>>
      /\ job' = [job EXCEPT !.at = "inspect"] /\ Troubled
  BY DEF WriteFails, GoOn
<1>2. job' = [job EXCEPT !.at = "inspect", !.acked = job.acked]
  BY <1>1, JobTyped
<1>3. trouble' \in 0 .. MaxTrouble /\ job.acked \in 0 .. BatchLen
  BY <1>1, InTrouble, Sizes
<1> QED
  BY <1>1, <1>2, <1>3, WroteStep

LEMMA SyncStep == LogInv /\ (Sync \/ SyncFails) => LogInv'
<1> SUFFICES ASSUME LogInv, Sync \/ SyncFails PROVE LogInv'
  OBVIOUS
<1>1. job.at = "write" /\ job.acked = BatchLen
      /\ UNCHANGED <<log, node, names, jobs, committed, answer, lost, outside>>
      /\ (GoOn("verify") \/ GoOn("inspect"))
  BY DEF Sync, SyncFails, Doing
<1>2. trouble' \in 0 .. MaxTrouble
  BY InTrouble DEF Sync, SyncFails
<1>3. node = job.node =>
        Region(log, "write", job.event, job.base, job.acked, jobs)
  BY <1>1 DEF LogInv, Handle, Handled
<1>4. ASSUME NEW to \in {"verify", "inspect"}
      PROVE  Handle(log, node, to, job.event, job.node, job.base, job.acked,
                    jobs)
  BY <1>1, <1>3 DEF LogInv, Handle, Handled, Region, Behind
<1> QED
  BY <1>1, <1>2, <1>4, GoesOnCommitted DEF Phases
(* A verified event is in the log with all its cells.                      *)
LEMMA VerifyStep == LogInv /\ Verify => LogInv'
<1> SUFFICES ASSUME LogInv, Verify PROVE LogInv'
  OBVIOUS
<1>1. ~Quiet /\ job.at = "verify"
      /\ UNCHANGED <<log, node, names, jobs, committed, lost, trouble, outside>>
  BY DEF Verify, Doing, Quiet
<1>2. trouble' \in 0 .. MaxTrouble
  BY <1>1, InTrouble
<1>3. ASSUME Pinned PROVE Whole(log, jobs, job.event)
  <2>1. Region(log, "verify", job.event, job.base, job.acked, jobs)
    BY <1>1, <1>3 DEF LogInv, Handle, Handled, Pinned
  <2>2. job.base + BatchLen <= Len(log)
        /\ \A i \in 1 .. BatchLen : log[job.base + i] = Own(jobs, job.event, i)
    BY <2>1 DEF Region, Written
  <2>3. \A i \in 1 .. BatchLen : job.base + i \in DOMAIN log
    BY SMTT(20), <2>2, Sizes
  <2> QED
    BY <2>2, <2>3 DEF Whole
<1>4. CASE Tell("unsafe")
  BY <1>1, <1>2, <1>4, EndsQuietly DEF Answers, Clean
<1>5. CASE Pinned /\ Tell("done")
  BY <1>1, <1>2, <1>3, <1>5, EndsQuietly DEF Answers
<1>6. CASE /\ Pinned /\ job.left > 0
           /\ job' = [job EXCEPT !.at = "open", !.event = @ + 1, !.left = @ - 1]
           /\ UNCHANGED answer
  <2>0. job.left \in 0 .. 1 /\ job.event \in 1 .. 2
        /\ job.event + job.left <= 2 /\ job \in Jobs
    BY JobTyped DEF LogInv, LogRest, Jobs
  <2>1. job.event = 1 /\ job.left = 1
    BY <1>6, <2>0
  <2>2. job' = [job EXCEPT !.at = "open", !.event = 2, !.left = 0]
    BY <1>6, <2>0, <2>1 DEF Jobs
  <2>3. job' \in Jobs /\ job'.at = "open" /\ job'.event = 2 /\ job'.left = 0
    <3>1. 2 \in 1 .. 2 /\ 0 \in 0 .. 1 /\ "open" \in Phases
      BY DEF Phases
    <3>2. job' \in Jobs
      BY <2>0, <2>2, <3>1 DEF Jobs
    <3> QED
      BY <2>0, <2>2, <3>2 DEF Jobs
  <2>4. LogRest'
    BY <1>1, <1>2, <1>6, <2>3 DEF LogInv, LogRest
  <2>5. Past(log, "open", 2, jobs, answer)
    <3>1. \A i \in DOMAIN log : log[i].by = jobs => log[i].event <= 1
      BY <1>1, <2>1 DEF LogInv, Past
    <3>2. \A i \in DOMAIN log : ~Belongs(log[i], jobs, 2)
      BY <3>1 DEF Belongs
    <3>3. ASSUME NEW w \in 1 .. jobs, NEW e \in 1 .. 2, w < jobs \/ e < 2,
                 answer[w] \in Unsaid
          PROVE  Whole(log, w, e)
      <4>1. CASE w < jobs
        BY <1>1, <3>3, <4>1 DEF LogInv, Past
      <4>2. CASE ~(w < jobs)
        <5>1. w = jobs /\ e = 1
          BY <3>3, <4>2, Sizes
        <5> QED
          BY <1>3, <1>6, <2>1, <5>1
      <4> QED
        BY <4>1, <4>2
    <3>4. \A i \in DOMAIN log : log[i].by = jobs => log[i].event <= 2
      <4>1. \A i \in DOMAIN log : log[i].event \in Int
        BY CellsTyped DEF LogInv
      <4> QED
        BY <3>1, <4>1
    <3> QED
      BY <3>2, <3>3, <3>4 DEF Past
  <2>6. Told("open", jobs, committed, answer)
    BY <1>1 DEF LogInv, Told
  <2>7. Handle(log, node, "open", 2, job'.node, job'.base, job'.acked, jobs)
    BY DEF Handle, Handled
  <2>8. OutsideLinesKept' /\ Logged(log', outside', committed')
    BY <1>1 DEF LogInv, OutsideLinesKept
  <2> QED
    BY <1>1, <1>6, <2>3, <2>4, <2>5, <2>6, <2>7, <2>8 DEF LogInv
<1> QED
  BY <1>4, <1>5, <1>6 DEF Verify

LEMMA InspectStep == LogInv /\ Inspect => LogInv'
<1> SUFFICES ASSUME LogInv, Inspect PROVE LogInv'
  OBVIOUS
<1>1. ~Quiet /\ job.at = "inspect"
      /\ UNCHANGED <<log, node, names, jobs, committed, lost, trouble, outside>>
  BY DEF Inspect, Doing, Quiet
<1>2. trouble' \in 0 .. MaxTrouble
  BY <1>1, InTrouble
<1>3. CASE Tell("unsafe")
  BY <1>1, <1>2, <1>3, EndsQuietly DEF Answers, Clean
<1>4. CASE Tell(Softened("integrity"))
  <2>1. Softened("integrity") \in {"integrity", "ignored"}
    BY DEF Softened
  <2> QED
    BY <1>1, <1>2, <1>4, <2>1, EndsQuietly DEF Answers, Clean
<1>5. CASE Pinned /\ OwnBytes /\ GoOn("cut") /\ UNCHANGED answer
  <2>1. Region(log, "inspect", job.event, job.base, job.acked, jobs)
    BY <1>1, <1>5 DEF LogInv, Handle, Handled, Pinned
  <2>2. ASSUME NEW i \in job.base + 1 .. Len(log)
        PROVE  log[i].by # 0
    <3>0. job.base \in Nat /\ Len(log) \in Nat
      BY Sizes
    <3>1. i - job.base \in 1 .. Delta /\ job.base + (i - job.base) = i
      BY <3>0 DEF Delta
    <3>2. log[i] = Cell(i - job.base)
      BY <1>5, <3>1 DEF OwnBytes
    <3>3. jobs # 0
      BY <1>1, Sizes DEF LogInv, Told
    <3> QED
      BY <3>2, <3>3 DEF Cell, Own
  <2>3. Region(log, "cut", job.event, job.base, job.acked, jobs)
    BY <2>1, <2>2 DEF Region, Behind
  <2>4. Handle(log, node, "cut", job.event, job.node, job.base, job.acked, jobs)
    BY <1>1, <2>3 DEF LogInv, Handle, Handled
  <2> QED
    BY <1>1, <1>2, <1>5, <2>4, GoesOnCommitted DEF Phases
<1> QED
  BY <1>3, <1>4, <1>5 DEF Inspect

LEMMA CutStep == LogInv /\ Cut => LogInv'
<1> SUFFICES ASSUME LogInv, Cut PROVE LogInv'
  OBVIOUS
<1>1. job.at = "cut" /\ Doing("cut") /\ Truncate
      /\ job' = [job EXCEPT !.at = "restored"]
      /\ UNCHANGED <<node, names, jobs, committed, answer, trouble, outside>>
  BY DEF Cut, Doing, GoOn
<1>2. trouble' \in 0 .. MaxTrouble
  BY <1>1, InTrouble
<1>3. job' \in Jobs /\ job'.at = "restored" /\ job'.event = job.event
      /\ job'.left = job.left /\ job'.node = job.node
      /\ job'.base = job.base /\ job'.acked = job.acked
  BY <1>1, JobTyped DEF Jobs, Phases
<1>4. LogRest'
  BY <1>1, <1>2, <1>3 DEF LogInv, LogRest
<1>5. /\ Logged(log', outside, committed)
      /\ Past(log', "cut", job.event, jobs, answer)
      /\ OutsideLinesKept'
      /\ node = job.node
           => Region(log', "restored", job.event, job.base, job.acked, jobs)
  <2>1. CASE node = job.node
    <3>1. log' = Truncated /\ Gone(Truncated, "cut")
      BY <1>1, <2>1 DEF Truncate
    <3> QED
      BY <1>1, <2>1, <3>1, TruncatedKeeps
  <2>2. CASE node # job.node
    BY <1>1, <2>2 DEF Truncate, LogInv, OutsideLinesKept
  <2> QED
    BY <2>1, <2>2
<1>6. Handle(log', node', "restored", job.event, job.node, job.base, job.acked,
             jobs)
  BY <1>1, <1>5 DEF LogInv, Handle, Handled
<1>7. Past(log', "restored", job.event, jobs, answer)
  BY <1>5, KeptPast
<1>8. Told("restored", jobs, committed, answer)
  BY <1>1 DEF LogInv, Told
<1> QED
  BY <1>1, <1>3, <1>4, <1>5, <1>6, <1>7, <1>8 DEF LogInv

LEMMA CutFailsStep == LogInv /\ CutFails => LogInv'
<1> SUFFICES ASSUME LogInv, CutFails PROVE LogInv'
  OBVIOUS
<1>1. ~Quiet /\ job.at = "cut" /\ Doing("cut") /\ Tell(Softened("rollback"))
      /\ Troubled /\ (Truncate \/ UNCHANGED <<log, lost>>)
      /\ UNCHANGED <<node, names, jobs, committed, outside>>
  BY DEF CutFails, Doing, Quiet
<1>2. Softened("rollback") \in {"rollback", "ignored"}
  BY DEF Softened
<1>3. /\ Logged(log', outside, committed)
      /\ Past(log', job.at, job.event, jobs, answer)
      /\ OutsideLinesKept'
  <2>1. CASE UNCHANGED <<log, lost>>
    BY <2>1 DEF LogInv, OutsideLinesKept
  <2>2. CASE Truncate /\ node = job.node
    BY <1>1, <2>2, TruncatedKeeps DEF Truncate
  <2> QED
    BY <1>1, <2>1, <2>2 DEF Truncate
<1>4. trouble' \in 0 .. MaxTrouble /\ node' \in 0 .. MaxOutside + 2
  BY <1>1, InTrouble DEF LogInv, LogRest
<1> QED
  BY <1>1, <1>2, <1>3, <1>4, Ends DEF Answers, Clean

(* A rollback that restored the log left nothing of the event.             *)
LEMMA RestoredStep == LogInv /\ Restored => LogInv'
<1> SUFFICES ASSUME LogInv, Restored PROVE LogInv'
  OBVIOUS
<1>1. ~Quiet /\ job.at = "restored"
      /\ UNCHANGED <<log, node, names, jobs, committed, lost, trouble, outside>>
  BY DEF Restored, Doing, Quiet
<1>2. trouble' \in 0 .. MaxTrouble
  BY <1>1, InTrouble
<1>3. CASE Tell("unsafe")
  BY <1>1, <1>2, <1>3, EndsQuietly DEF Answers, Clean
<1>4. CASE Pinned /\ Len(log) = job.base /\ (Tell("io") \/ Tell("dropped"))
  <2>1. Region(log, "restored", job.event, job.base, job.acked, jobs)
    BY <1>1, <1>4 DEF LogInv, Handle, Handled, Pinned
  <2>2. Whole(log, jobs, job.event)
    BY <1>4, <2>1, Sizes DEF Region, Whole
  <2> QED
    BY <1>1, <1>2, <1>4, <2>2, EndsQuietly DEF Answers
<1> QED
  BY <1>3, <1>4 DEF Restored

LEMMA OutsideStep == LogInv /\ Outside => LogInv'
<1> SUFFICES ASSUME LogInv, Outside PROVE LogInv'
  OBVIOUS
<1>1. outside < MaxOutside /\ outside' = outside + 1
      /\ UNCHANGED <<job, jobs, committed, answer, lost, trouble>>
  BY DEF Outside
<1>2. outside' \in 0 .. MaxOutside /\ OutsideLinesKept'
  BY <1>1, Sizes DEF LogInv, OutsideLinesKept
<1>3. Told(job'.at, jobs', committed', answer')
  BY <1>1 DEF LogInv
<1>4. ASSUME node' \in 0 .. MaxOutside + 2, names' \in 1 .. 2 PROVE LogRest'
  BY <1>1, <1>2, <1>4 DEF LogInv, LogRest
<1>5. CASE log' = Append(log, Foreign(job.at)) /\ UNCHANGED <<node, names>>
  <2>1. LogRest'
    BY <1>4, <1>5 DEF LogInv, LogRest
  <2> QED
    BY <1>1, <1>2, <1>3, <1>5, <2>1, AppendKeeps DEF LogInv
<1>6. CASE UNCHANGED <<log, node>> /\ names' = 2
  <2>1. LogRest'
    BY <1>4, <1>6 DEF LogInv, LogRest
  <2>2. Logged(log', outside', committed')
    BY <1>1, <1>6, Sizes DEF LogInv, Logged
  <2> QED
    BY <1>1, <1>2, <1>3, <1>6, <2>1, <2>2 DEF LogInv
<1>7. CASE node' = 0 /\ names' = 1 /\ log' = <<>>
  <2>1. LogRest'
    BY <1>4, <1>7, Sizes
  <2>2. DOMAIN log' = {}
    BY <1>7
  <2>3. Logged(log', outside', committed')
    BY <1>1, <1>7, Sizes DEF Logged
  <2>4. Past(log', job'.at, job'.event, jobs', answer')
    BY <2>2 DEF Past, Whole
  <2>5. Handle(log', node', job'.at, job'.event, job'.node, job'.base,
               job'.acked, jobs')
    BY <1>1, <1>7 DEF LogInv, Handle
  <2> QED
    BY <1>2, <1>3, <2>1, <2>3, <2>4, <2>5 DEF LogInv
<1> QED
  BY <1>5, <1>6, <1>7 DEF Outside

LEMMA LogCrashStep == LogInv /\ LogCrash => LogInv'
<1> SUFFICES ASSUME LogInv, LogCrash PROVE LogInv'
  OBVIOUS
<1>1. trouble' \in 0 .. MaxTrouble
  BY InTrouble DEF LogCrash
<1> QED
  BY <1>1, EndsQuietly DEF LogCrash, Answers, Clean

-----------------------------------------------------------------------------
LEMMA LogInvInit == LogInit => LogInv
<1> SUFFICES ASSUME LogInit PROVE LogInv
  OBVIOUS
<1>1. /\ log = <<>> /\ node = 1 /\ names = 1 /\ jobs = 0 /\ committed = {}
      /\ answer = [w \in Writes |-> "none"] /\ lost = {} /\ trouble = 0
      /\ outside = 0 /\ job = NoJob
  BY DEF LogInit
<1>2. job \in Jobs /\ job.at = "idle" /\ job.event + job.left <= 2
  BY <1>1, LogAssumption DEF NoJob, Jobs, Phases, Kinds
<1>3. LogRest
  BY <1>1, <1>2, LogAssumption DEF LogRest, Answers
<1>4. Logged(log, outside, committed)
  BY <1>1, LogAssumption DEF Logged
<1>5. Past(log, job.at, job.event, jobs, answer)
  BY <1>1, <1>2 DEF Past
<1>6. Told(job.at, jobs, committed, answer)
  BY <1>1, <1>2 DEF Told
<1>7. OutsideLinesKept
  BY <1>1 DEF OutsideLinesKept
<1>8. Handle(log, node, job.at, job.event, job.node, job.base, job.acked, jobs)
  BY <1>2 DEF Handle, Handled
<1> QED
  BY <1>3, <1>4, <1>5, <1>6, <1>7, <1>8 DEF LogInv

LEMMA LogInvNext == LogInv /\ [LogNext]_logVars => LogInv'
<1> SUFFICES ASSUME LogInv, [LogNext]_logVars PROVE LogInv'
  OBVIOUS
<1>1. CASE StopWrites
  <2>1. CASE StopRefused \/ StopSilently
    <3>1. StopRefused => LogInv'
      BY AtOnce DEF StopRefused, Answers
    <3>2. StopSilently => LogInv'
      BY AtOnce DEF StopSilently, Answers
    <3> QED
      BY <2>1, <3>1, <3>2
  <2> QED
    BY <1>1, <2>1, StopOpenStep, StopMutateStep, StopMutateFailsStep,
       StopCheckStep DEF StopWrites
<1>2. CASE OpWrites
  BY <1>2, OpCommitStep, OpOpenStep DEF OpWrites
<1>3. CASE Appending
  BY <1>3, WriteChunkStep, WriteFailsStep, SyncStep, VerifyStep DEF Appending
<1>4. CASE RollBack
  BY <1>4, InspectStep, CutStep, CutFailsStep, RestoredStep DEF RollBack
<1>5. CASE LogCrash
  BY <1>5, LogCrashStep
<1>6. CASE Outside
  BY <1>6, OutsideStep
<1>7. CASE UNCHANGED logVars
  BY <1>7 DEF logVars, LogInv, LogRest, OutsideLinesKept
<1> QED
  BY <1>1, <1>2, <1>3, <1>4, <1>5, <1>6, <1>7 DEF LogNext

(* The invariant of the log, for every size of a write, every limit and    *)
(* any number of operations, failures and changes from outside.            *)
THEOREM LogInvariant == LogSpec => []LogInv
<1>1. LogInit => LogInv
  BY LogInvInit
<1>2. LogInv /\ [LogNext]_logVars => LogInv'
  BY LogInvNext
<1> QED
  BY <1>1, <1>2, PTL DEF LogSpec

(* Types, and the log stays inside its limit but for lines from outside.   *)
THEOREM LogStaysInLimit == LogSpec => []LogTypeOK
<1>1. LogInv => LogTypeOK
  BY LogInvTyped
<1> QED
  BY <1>1, LogInvariant, PTL

(* Whatever call fails, an event is in the log whole or not at all unless  *)
(* the operation died or said that the log is not what it left.            *)
THEOREM EventsAreWhole == LogSpec => []NoTornEvent
<1>1. LogInv => NoTornEvent
  BY LogInvNotTorn
<1> QED
  BY <1>1, LogInvariant, PTL

(* No event speaks of what was not committed, and a Stop that is silent    *)
(* about a full log has committed nothing.                                 *)
THEOREM EventsFollowStates == LogSpec => []EventAfterState
<1>1. LogInv => EventAfterState
  BY LogInvAfterState
<1> QED
  BY <1>1, LogInvariant, PTL

(* Lines of other programs are lost only during the write or between the   *)
(* last look of a rollback and its truncation.                             *)
THEOREM OutsideLinesStay == LogSpec => []OutsideLinesKept
<1>1. LogInv => OutsideLinesKept
  BY DEF LogInv
<1> QED
  BY <1>1, LogInvariant, PTL
=============================================================================
