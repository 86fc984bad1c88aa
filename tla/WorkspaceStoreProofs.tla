------------------------- MODULE WorkspaceStoreProofs -------------------------
(***************************************************************************)
(* Proofs about WorkspaceStore, for any profile, any number of workflows   *)
(* and any number of crashes and failed writes.                            *)
(*                                                                         *)
(* No property of the files is inductive alone: a crash may stop each      *)
(* operation before each of its writes.  StoreInv says, phase by phase,    *)
(* what the writes still to come rely on (Fresh to Moving) and, for a      *)
(* reset, what the directory would be once everything were moved back      *)
(* (Whole): the move and the undo change disk and backup in opposite ways  *)
(* and leave Whole as it is.                                               *)
(***************************************************************************)
EXTENDS WorkspaceStore, FiniteSetTheorems, TLAPS

Phases ==
  {"idle", "topic", "state", "events", "snapshot", "metadata", "receipts",
   "error", "error published", "complete", "repair copy", "repair topic",
   "repair state", "move", "undo"}

Ops == [at : Phases, id : 0 .. MaxIds, prefix : 0 .. TotalSteps,
        moves : SUBSET Names, moved : SUBSET Names]

Typed ==
  /\ disk \in Dir
  /\ backups \in Seq(Dir)
  /\ topic \in [by : {"nobody", "claude", "codex"},
                text : {"none", "plain", "contract"}, names : 1 .. 2]
  /\ original \in {"none", "aliased", "kept"}
  /\ op \in Ops
  /\ ids \in 0 .. MaxIds
  /\ issued \in SUBSET Receipt
  /\ split \in BOOLEAN
  /\ faults \in 0 .. MaxFaults

-----------------------------------------------------------------------------
(* What is true of a directory, active or moved away                       *)

(* Everything in it belongs to workflow w.                                 *)
Owned(d, w) ==
  /\ d.state.id \in {0, w}
  /\ \A r \in d.receipts : r[1] = w
  /\ \A i \in d.imports : i[1] = w

Complete(d) ==
  d.state.id # 0 =>
    /\ \A j \in 1 .. d.state.done : <<d.state.id, j>> \in d.receipts
    /\ d.state.imported =>
         {d.state.id} \X {"snapshot", "metadata"} \subseteq d.imports

(* It has every receipt that was ever issued to its workflow.              *)
Recorded(d) ==
  d.state.id # 0 => \A r \in issued : r[1] = d.state.id => r \in d.receipts

Pinned(d) ==
  d.state.id # 0 =>
    topic.text = d.state.topic \/ original \in {"aliased", "kept"}

(* The files between any two steps, with the numbers given out so far.     *)
Files ==
  /\ op.id <= ids /\ disk.state.id <= ids
  /\ \A r \in issued : r[1] <= ids
  /\ ReceiptsPreserved
  /\ \E w \in Ids : Owned(disk, w)
  /\ Pinned(disk)
  /\ ~split => Complete(disk) /\ Recorded(disk)

-----------------------------------------------------------------------------
(* What an operation relies on between two writes                          *)

Fresh ==
  op.at \in {"topic", "state", "snapshot", "metadata", "receipts"} =>
    /\ op.id # 0
    /\ \A r \in issued : r[1] = op.id => r \in disk.receipts

Creating ==
  op.at \in {"topic", "state"} => Active(disk) = {}

Importing ==
  op.at \in {"snapshot", "metadata", "receipts", "error", "error published"} =>
    /\ disk.state = NoState
    /\ Owned(disk, op.id)
    /\ op.at \in {"snapshot", "metadata"} => disk.receipts = {}
    /\ op.at \in {"metadata", "receipts"} =>
         <<op.id, "snapshot">> \in disk.imports
    /\ op.at = "receipts" =>
         /\ <<op.id, "metadata">> \in disk.imports
         /\ \E k \in 0 .. op.prefix : disk.receipts = {op.id} \X (1 .. k)

Completing ==
  op.at = "complete" =>
    /\ disk.state.id # 0
    /\ disk.state.done < TotalSteps
    /\ <<disk.state.id, disk.state.done + 1>> \in disk.receipts

Repairing ==
  op.at \in {"repair copy", "repair topic", "repair state"} =>
    /\ disk.state.id # 0
    /\ op.at # "repair copy" => original = "kept"

Target == backups[Last]

(* What is on disk once the undo has moved everything back.                *)
Whole ==
  [n \in Names |-> IF n \in op.moved THEN Target[n] ELSE disk[n]]

Resetting ==
  op.at \in {"move", "undo"} =>
    /\ backups # <<>>
    /\ \A n \in op.moved : disk[n] = Empty[n]
    /\ \E w \in Ids : Owned(disk, w) /\ Owned(Target, w)
    /\ Target.state.id <= ids
    /\ Pinned(Target)
    /\ ~split => Complete(Whole) /\ Recorded(Whole)
    /\ ~split /\ disk.state # NoState => op.moved = {}

Moving ==
  op.at = "move" =>
    /\ op.moves \intersect op.moved = {}
    /\ \A n \in Names \ op.moved : Target[n] = Empty[n]
    /\ disk.state # NoState => "state" \in op.moves
    /\ "state" \in op.moves => op.moved = {}

(* The inductive invariant.                                                *)
StoreInv ==
  /\ Typed /\ Files
  /\ Fresh /\ Creating /\ Importing /\ Completing /\ Repairing
  /\ Resetting /\ Moving

USE ConstantsAssumption DEF Ids, Steps, Receipt

-----------------------------------------------------------------------------
(* Records and sequences                                                   *)

(* A directory with one part taken from another one.                       *)
LEMMA PutPart ==
  ASSUME NEW d \in Dir, NEW e \in Dir, NEW n \in Names,
         NEW f, f = [d EXCEPT ![n] = e[n]]
  PROVE  /\ f \in Dir
         /\ \A m \in Names : f[m] = IF m = n THEN e[m] ELSE d[m]
         /\ f.state = IF n = "state" THEN e.state ELSE d.state
         /\ f.receipts = IF n = "receipts" THEN e.receipts ELSE d.receipts
         /\ f.imports = IF n = "imports" THEN e.imports ELSE d.imports
<1>1. CASE n = "state" BY <1>1 DEF Dir, Names
<1>2. CASE n = "receipts" BY <1>2 DEF Dir, Names
<1>3. CASE n = "imports" BY <1>3 DEF Dir, Names
<1>4. CASE n = "events" BY <1>4 DEF Dir, Names
<1>5. CASE n = "error" BY <1>5 DEF Dir, Names
<1> QED BY <1>1, <1>2, <1>3, <1>4, <1>5 DEF Names

LEMMA IdleOp == Idle \in Ops
  BY DEF Idle, Ops, Phases

LEMMA EmptyDir == Empty \in Dir /\ \E w \in Ids : Owned(Empty, w)
  BY DEF Empty, Dir, NoState, Owned

(* The last backup replaced.                                               *)
LEMMA PutLast ==
  ASSUME NEW b \in Seq(Dir), b # <<>>, NEW d \in Dir
  PROVE  /\ [b EXCEPT ![Len(b)] = d] \in Seq(Dir)
         /\ Len([b EXCEPT ![Len(b)] = d]) = Len(b)
         /\ Len(b) \in DOMAIN b /\ b[Len(b)] \in Dir
         /\ DOMAIN [b EXCEPT ![Len(b)] = d] = DOMAIN b
         /\ \A i \in DOMAIN b :
              [b EXCEPT ![Len(b)] = d][i] = IF i = Len(b) THEN d ELSE b[i]
  OBVIOUS

LEMMA AddLast ==
  ASSUME NEW b \in Seq(Dir), NEW d \in Dir
  PROVE  /\ Append(b, d) \in Seq(Dir)
         /\ Len(Append(b, d)) = Len(b) + 1
         /\ Append(b, d)[Len(b) + 1] = d
         /\ Append(b, d) # <<>>
         /\ DOMAIN b \subseteq DOMAIN Append(b, d)
         /\ \A i \in DOMAIN b : Append(b, d)[i] = b[i]
  OBVIOUS

LEMMA DropLast ==
  ASSUME NEW b \in Seq(Dir), b # <<>>
  PROVE  /\ SubSeq(b, 1, Len(b) - 1) \in Seq(Dir)
         /\ \A i \in DOMAIN b :
              i # Len(b) => /\ i \in DOMAIN SubSeq(b, 1, Len(b) - 1)
                            /\ SubSeq(b, 1, Len(b) - 1)[i] = b[i]
  OBVIOUS

-----------------------------------------------------------------------------
(* Counting receipts                                                       *)

LEMMA CountPrefix ==
  ASSUME NEW w, NEW k \in Nat
  PROVE  Cardinality({w} \X (1 .. k)) = k
<1> DEFINE f == [i \in 1 .. k |-> <<w, i>>]
<1>1. f \in Bijection(1 .. k, {w} \X (1 .. k))
  BY DEF Bijection, Injection, Surjection, IsInjective
<1>2. IsFiniteSet(1 .. k) /\ Cardinality(1 .. k) = k
  BY FS_Interval
<1>3. ExistsBijection(1 .. k, {w} \X (1 .. k))
  BY <1>1 DEF ExistsBijection
<1> QED BY <1>2, <1>3, FS_Bijection

LEMMA Counted ==
  ASSUME NEW n \in Nat, NEW S, S \subseteq 1 .. n
  PROVE  IsFiniteSet(S) /\ Cardinality(S) \in Nat /\ Cardinality(S) <= n
<1>1. IsFiniteSet(1 .. n) /\ Cardinality(1 .. n) = n
  BY FS_Interval
<1>2. IsFiniteSet(S) /\ Cardinality(S) <= Cardinality(1 .. n)
  BY <1>1, FS_Subset
<1>3. Cardinality(S) \in Nat
  BY <1>2, FS_CardinalityType
<1> QED BY <1>1, <1>2, <1>3

(* The receipts that reconciliation trusts are the steps up to their number. *)
LEMMA BackedPrefix ==
  ASSUME Typed
  PROVE  /\ Cardinality(Backed) \in 0 .. TotalSteps
         /\ \A j \in 1 .. Cardinality(Backed) :
              <<disk.state.id, j>> \in disk.receipts
<1> DEFINE c == Cardinality(Backed)
<1>0. TotalSteps \in Nat /\ Backed \subseteq 1 .. TotalSteps
  BY DEF Backed
<1>1. IsFiniteSet(Backed) /\ c \in Nat /\ c <= TotalSteps
  BY <1>0, Counted
<1>2. ASSUME NEW j \in 1 .. c PROVE j \in Backed
  <2> SUFFICES ASSUME j \notin Backed PROVE FALSE
    OBVIOUS
  <2>1. \A i \in Backed : i < j
    <3> SUFFICES ASSUME NEW i \in Backed, j <= i PROVE FALSE
      BY <1>0, <1>1
    <3>1. i \in Steps /\ \A m \in 1 .. i : <<disk.state.id, m>> \in disk.receipts
      BY DEF Backed
    <3>2. j \in Steps /\ \A m \in 1 .. j : m \in 1 .. i
      BY <3>1, <1>1
    <3> QED BY <3>1, <3>2 DEF Backed
  <2>2. Backed \subseteq 1 .. (j - 1)
    BY <2>1, <1>0, <1>1
  <2>3. j - 1 \in Nat
    BY <1>1
  <2>4. Cardinality(Backed) <= j - 1
    BY ONLY <2>2, <2>3, Counted
  <2>6. j \in Nat
    OBVIOUS
  <2>5. j <= Cardinality(Backed)
    BY <1>1
  <2> QED BY <2>4, <2>5, <2>6, <1>1
<1> QED BY <1>1, <1>2 DEF Backed

-----------------------------------------------------------------------------
(* Steps that leave the files alone                                        *)

LEMMA FilesStay ==
  ASSUME StoreInv, op'.id <= ids', ids <= ids', ids' \in Nat,
         UNCHANGED <<disk, backups, topic, original, issued, split>>
  PROVE  Files'
<1>1. (disk.state.id <= ids /\ \A r \in issued : r[1] <= ids)'
  BY DEF StoreInv, Files, Typed, Dir
<1>2. ReceiptsPreserved'
  BY DEF StoreInv, Files, ReceiptsPreserved
<1>3. (\E w \in Ids : Owned(disk, w))' /\ Pinned(disk)'
  BY DEF StoreInv, Files, Owned, Pinned
<1>4. (~split => Complete(disk) /\ Recorded(disk))'
  BY DEF StoreInv, Files, Complete, Recorded
<1> QED BY <1>1, <1>2, <1>3, <1>4 DEF Files

LEMMA StoreInit == Init => StoreInv
<1> SUFFICES ASSUME Init PROVE StoreInv
  OBVIOUS
<1> DEFINE first == InitialState(1, "plain")
           old == [Empty EXCEPT !.state = first, !.events = TRUE]
<1>1. /\ old \in Dir
      /\ old.state.id = 1 /\ old.state.done = 0 /\ old.state.topic = "plain"
      /\ ~old.state.imported /\ old.receipts = {} /\ old.imports = {}
  <2>1. /\ first \in [id : 0 .. MaxIds, done : 0 .. TotalSteps,
                       imported : BOOLEAN, topic : {"none", "plain", "contract"}]
        /\ first.id = 1 /\ first.done = 0 /\ first.topic = "plain"
        /\ ~first.imported
    BY DEF InitialState
  <2>2. Empty \in Dir /\ Empty.receipts = {} /\ Empty.imports = {}
    BY EmptyDir DEF Empty
  <2> HIDE DEF first
  <2> QED BY <2>1, <2>2 DEF Dir
<1>2. Empty \in Dir /\ Empty.state.id = 0 /\ Empty.receipts = {}
        /\ Empty.imports = {}
  BY EmptyDir DEF Empty, NoState
<1> HIDE DEF old
<1>3. Typed
  <2>1. disk \in {Empty, old} /\ ids \in {0, 1}
    BY DEF Init, old
  <2>2. backups \in Seq(Dir) /\ issued \in SUBSET Receipt
    BY DEF Init
  <2>3. topic \in [by : {"nobody", "claude", "codex"},
                  text : {"none", "plain", "contract"}, names : 1 .. 2]
    BY DEF Init
  <2>4. original = "none" /\ op = Idle /\ split = FALSE /\ faults = 0
    BY Zenon DEF Init
  <2>5. original \in {"none", "aliased", "kept"} /\ split \in BOOLEAN
    BY <2>4
  <2>6. op \in Ops
    BY <2>4, IdleOp
  <2>7. ids \in 0 .. MaxIds /\ faults \in 0 .. MaxFaults
    BY <2>1, <2>4
  <2> QED BY <1>1, <1>2, <2>1, <2>2, <2>3, <2>5, <2>6, <2>7
     DEF Typed
<1>4. Files
  <2>1. \/ disk = Empty
        \/ disk = old /\ topic.text = "plain"
    BY DEF Init, old
  <2>2. op.id <= ids /\ disk.state.id <= ids /\ issued = {}
    <3>1. \/ disk = Empty /\ ids = 0
          \/ disk = old /\ ids = 1
      BY Zenon DEF Init, old
    <3>2. op = Idle /\ issued = {}
      BY Zenon DEF Init
    <3>3. disk.state.id <= ids /\ 0 <= ids
      BY ONLY <3>1, <1>1, <1>2
    <3> QED BY <3>2, <3>3 DEF Idle
  <2>3. (\E w \in Ids : Owned(disk, w)) /\ Pinned(disk) /\ Complete(disk)
    BY <1>1, <1>2, <2>1 DEF Owned, Pinned, Complete
  <2> QED BY <2>2, <2>3 DEF Files, ReceiptsPreserved, Recorded
<1>5. op.at = "idle"
  BY DEF Init, Idle
<1> QED BY <1>3, <1>4, <1>5 DEF StoreInv, Fresh, Creating, Importing,
           Completing, Repairing, Resetting, Moving

(* An operation that ends has nothing to rely on.                          *)
LEMMA Ends ==
  ASSUME Typed', Files', op'.at \in {"idle", "events"}
  PROVE  StoreInv'
  BY DEF StoreInv, Fresh, Creating, Importing, Completing, Repairing,
         Resetting, Moving

LEMMA FinishStep ==
  ASSUME StoreInv, Finish, faults' \in 0 .. MaxFaults,
         UNCHANGED <<disk, backups, topic, original, ids, issued, split>>
  PROVE  StoreInv'
<1>1. Typed'
  BY IdleOp DEF StoreInv, Typed, Finish
<1>2. Files'
  BY FilesStay DEF StoreInv, Typed, Finish, Idle
<1> QED BY <1>1, <1>2, Ends DEF Finish, Idle

LEMMA CrashStep == StoreInv /\ Crash => StoreInv'
  BY FinishStep DEF Crash, Fault, StoreInv, Typed

LEMMA AppendEventsStep == StoreInv /\ AppendEvents => StoreInv'
<1> SUFFICES ASSUME StoreInv, AppendEvents PROVE StoreInv'
  OBVIOUS
<1>1. Typed'
  BY IdleOp DEF StoreInv, Typed, AppendEvents, Finish, Dir
<1>2. disk'.state = disk.state /\ disk'.receipts = disk.receipts
        /\ disk'.imports = disk.imports
  BY DEF AppendEvents, StoreInv, Typed, Dir
<1>3. Files'
  <2>1. (/\ op.id <= ids /\ disk.state.id <= ids
         /\ \A r \in issued : r[1] <= ids)'
    BY <1>2 DEF StoreInv, Files, Typed, AppendEvents, Finish, Idle
  <2>2. ReceiptsPreserved'
    BY <1>2 DEF StoreInv, Files, ReceiptsPreserved, AppendEvents
  <2>3. (\E w \in Ids : Owned(disk, w))' /\ Pinned(disk)'
    BY <1>2 DEF StoreInv, Files, Owned, Pinned, AppendEvents
  <2>4. (~split => Complete(disk) /\ Recorded(disk))'
    BY <1>2 DEF StoreInv, Files, Complete, Recorded, AppendEvents
  <2> QED BY <2>1, <2>2, <2>3, <2>4 DEF Files
<1> QED BY <1>1, <1>3, Ends DEF AppendEvents, Finish, Idle

-----------------------------------------------------------------------------
(* Starting a workflow                                                     *)

(* A step that adds to the import artifacts at most, or changes the topic. *)
LEMMA FilesKept ==
  ASSUME StoreInv, Typed', op'.id <= ids', ids <= ids',
         disk'.state = disk.state, disk'.receipts = disk.receipts,
         disk.imports \subseteq disk'.imports,
         \E w \in Ids : Owned(disk', w), Pinned(disk)',
         UNCHANGED <<backups, issued, split>>
  PROVE  Files'
<1>1. (disk.state.id <= ids /\ \A r \in issued : r[1] <= ids)'
  BY DEF StoreInv, Files, Typed, Dir
<1>2. ReceiptsPreserved'
  BY DEF StoreInv, Files, ReceiptsPreserved
<1>3. (~split => Complete(disk) /\ Recorded(disk))'
  BY DEF StoreInv, Files, Complete, Recorded
<1> QED BY <1>1, <1>2, <1>3 DEF Files

LEMMA NothingActive ==
  ASSUME Typed, Active(disk) \subseteq {"events"}
  PROVE  /\ disk.state = NoState /\ disk.receipts = {} /\ disk.imports = {}
         /\ disk.state.id = 0
<1>1. \A n \in Names : n # "events" => disk[n] = Empty[n]
  BY DEF Active
<1>2. disk.state = Empty.state /\ disk.receipts = Empty.receipts
        /\ disk.imports = Empty.imports
  BY <1>1 DEF Names
<1> QED BY <1>2 DEF Empty, NoState

(* A workflow that has just been given its number.                         *)
LEMMA NewNumber ==
  ASSUME StoreInv, ids < MaxIds
  PROVE  /\ ids + 1 \in Ids
         /\ \A r \in issued : r[1] # ids + 1
  BY DEF StoreInv, Files, Typed

LEMMA StartedOp ==
  ASSUME NEW phase \in Phases, NEW i \in 0 .. MaxIds, Start(phase, i)
  PROVE  op' \in Ops /\ op'.at = phase /\ op'.id = i
  BY DEF Start, Ops

LEMMA GotoOp ==
  ASSUME op \in Ops, NEW phase \in Phases, Goto(phase)
  PROVE  /\ op' \in Ops /\ op'.at = phase
         /\ op'.id = op.id /\ op'.prefix = op.prefix
         /\ op'.moves = op.moves /\ op'.moved = op.moved
  BY DEF Goto, Ops

LEMMA InitTopicStep == StoreInv /\ InitTopic => StoreInv'
<1> SUFFICES ASSUME StoreInv, InitTopic PROVE StoreInv'
  OBVIOUS
<1> USE DEF InitTopic
<1>0. Typed
  BY DEF StoreInv
<1>1. /\ disk.state = NoState /\ disk.receipts = {} /\ disk.imports = {}
      /\ disk.state.id = 0
  BY <1>0, NothingActive
<1>2. ids + 1 \in Ids /\ \A r \in issued : r[1] # ids + 1
  BY NewNumber
<1>3. op' \in Ops /\ op'.at = "topic" /\ op'.id = ids + 1
  <2>1. "topic" \in Phases /\ ids + 1 \in 0 .. MaxIds /\ Start("topic", ids + 1)
    BY <1>2 DEF Phases
  <2> QED BY ONLY <2>1, StartedOp
<1>4. Typed'
  BY <1>0, <1>2, <1>3 DEF Typed
<1>5. Files'
  <2>1. \E w \in Ids : Owned(disk', w)
    BY DEF StoreInv, Files
  <2>2. Pinned(disk)'
    BY <1>1 DEF Pinned
  <2>3. op'.id <= ids' /\ ids <= ids'
    BY <1>0, <1>3 DEF Typed
  <2> QED BY <1>4, <2>1, <2>2, <2>3, FilesKept
<1>6. Fresh' /\ Creating'
  BY <1>0, <1>2, <1>3 DEF Fresh, Creating, Active, Typed
<1> QED BY <1>3, <1>4, <1>5, <1>6 DEF StoreInv, Importing, Completing,
           Repairing, Resetting, Moving

LEMMA InitTopicPublishedStep == StoreInv /\ InitTopicPublished => StoreInv'
<1> SUFFICES ASSUME StoreInv, InitTopicPublished PROVE StoreInv'
  OBVIOUS
<1> USE DEF InitTopicPublished
<1>0. Typed
  BY DEF StoreInv
<1>1. Active(disk) = {}
  BY DEF StoreInv, Creating, At
<1>2. disk.state.id = 0
  BY <1>0, <1>1, NothingActive
<1>3. op' \in Ops /\ op'.at = "state" /\ op'.id = op.id
  BY <1>0, GotoOp DEF Phases, Typed
<1>4. Typed'
  BY <1>0, <1>3 DEF Typed
<1>5. Files'
  <2>1. \E w \in Ids : Owned(disk', w)
    BY DEF StoreInv, Files
  <2>2. Pinned(disk)'
    BY <1>2 DEF Pinned
  <2>3. op'.id <= ids' /\ ids <= ids'
    BY <1>0, <1>3 DEF Typed, StoreInv, Files
  <2> QED BY <1>4, <2>1, <2>2, <2>3, FilesKept
<1>6. Fresh' /\ Creating'
  BY <1>1, <1>3 DEF StoreInv, Fresh, Creating, Active, At
<1> QED BY <1>3, <1>4, <1>5, <1>6 DEF StoreInv, Importing, Completing,
           Repairing, Resetting, Moving

(* The state of a workflow that is started or imported becomes visible.    *)
LEMMA PublishState ==
  ASSUME StoreInv, NEW s, Typed',
         op.id # 0, op'.id = op.id, op'.at = "events",
         disk' = [disk EXCEPT !.state = s],
         s.id = op.id, s.topic = topic.text,
         Owned(disk, op.id),
         \A j \in 1 .. s.done : <<op.id, j>> \in disk.receipts,
         s.imported =>
           {op.id} \X {"snapshot", "metadata"} \subseteq disk.imports,
         \A r \in issued : r[1] = op.id => r \in disk.receipts,
         UNCHANGED <<backups, topic, original, ids, issued, split>>
  PROVE  StoreInv'
<1>1. disk'.state = s /\ disk'.receipts = disk.receipts
        /\ disk'.imports = disk.imports
  BY DEF StoreInv, Typed, Dir
<1>2. op.id \in Ids
  BY DEF StoreInv, Typed, Ops
<1>3. (\A r \in issued : r[1] <= ids)' /\ op'.id <= ids'
        /\ disk'.state.id <= ids'
  BY <1>1 DEF StoreInv, Files
<1>4. ReceiptsPreserved'
  BY <1>1 DEF StoreInv, Files, ReceiptsPreserved
<1>5. (\E w \in Ids : Owned(disk, w))' /\ Pinned(disk)'
  BY <1>1, <1>2 DEF Owned, Pinned
<1>6. Complete(disk)' /\ Recorded(disk)'
  BY <1>1 DEF Complete, Recorded
<1>7. Files'
  BY <1>3, <1>4, <1>5, <1>6 DEF Files
<1> QED BY <1>7, Ends

LEMMA InitStateStep == StoreInv /\ InitState => StoreInv'
<1> SUFFICES ASSUME StoreInv, InitState PROVE StoreInv'
  OBVIOUS
<1> USE DEF InitState
<1>0. Typed
  BY DEF StoreInv
<1>1. disk.state.id = 0 /\ disk.receipts = {} /\ disk.imports = {}
  BY <1>0, NothingActive DEF StoreInv, Creating, At
<1>2. /\ op.id # 0 /\ op.id \in 0 .. MaxIds
      /\ \A r \in issued : r[1] = op.id => r \in disk.receipts
  BY <1>0 DEF StoreInv, Fresh, At, Typed, Ops
<1>3. op' \in Ops /\ op'.at = "events" /\ op'.id = op.id
  BY <1>0, GotoOp DEF Phases, Typed
<1> DEFINE s == InitialState(op.id, topic.text)
<1>4. /\ s \in [id : 0 .. MaxIds, done : 0 .. TotalSteps, imported : BOOLEAN,
                topic : {"none", "plain", "contract"}]
      /\ s.id = op.id /\ s.topic = topic.text /\ s.done = 0 /\ ~s.imported
  BY <1>0, <1>2 DEF InitialState, Typed
<1> HIDE DEF s
<1>5. disk' = [disk EXCEPT !.state = s]
  BY DEF s
<1>6. Typed'
  <2>1. disk' \in Dir
    BY <1>0, <1>4, <1>5 DEF Typed, Dir
  <2> QED BY <1>0, <1>3, <2>1 DEF Typed
<1>7. Owned(disk, op.id)
  BY <1>1 DEF Owned
<1> QED BY <1>2, <1>3, <1>4, <1>5, <1>6, <1>7, PublishState

LEMMA InitStateFailsStep == StoreInv /\ InitStateFails => StoreInv'
<1> SUFFICES ASSUME StoreInv, InitStateFails PROVE StoreInv'
  OBVIOUS
<1> USE DEF InitStateFails
<1>0. Typed
  BY DEF StoreInv
<1>1. disk.state.id = 0
  BY <1>0, NothingActive DEF StoreInv, Creating, At
<1>2. op' = Idle /\ op'.at = "idle" /\ op'.id = 0 /\ op' \in Ops
  BY IdleOp DEF Finish, Idle
<1>3. Typed'
  BY <1>0, <1>2 DEF Typed, Fault
<1>4. Pinned(disk)' /\ \E w \in Ids : Owned(disk', w)
  BY <1>1 DEF Pinned, StoreInv, Files
<1>5. op'.id <= ids' /\ ids <= ids'
  BY <1>0, <1>2 DEF Typed
<1>6. Files'
  BY <1>3, <1>4, <1>5, FilesKept
<1> QED BY <1>2, <1>3, <1>6, Ends

-----------------------------------------------------------------------------
(* Import                                                                  *)

LEMMA ImportStartStep == StoreInv /\ ImportStart => StoreInv'
<1> SUFFICES ASSUME StoreInv, ImportStart PROVE StoreInv'
  OBVIOUS
<1> USE DEF ImportStart
<1>0. Typed
  BY DEF StoreInv
<1>1. /\ disk.state = NoState /\ disk.receipts = {} /\ disk.imports = {}
      /\ disk.state.id = 0
  BY <1>0, NothingActive
<1>2. ids + 1 \in Ids /\ \A r \in issued : r[1] # ids + 1
  BY NewNumber
<1>3. op' \in Ops /\ op'.at = "snapshot" /\ op'.id = ids + 1
  <2>1. /\ "snapshot" \in Phases /\ ids + 1 \in 0 .. MaxIds
        /\ Start("snapshot", ids + 1)
    BY <1>2 DEF Phases
  <2> QED BY ONLY <2>1, StartedOp
<1>4. Typed'
  BY <1>0, <1>2, <1>3 DEF Typed
<1>5. Files'
  <2>1. \E w \in Ids : Owned(disk', w)
    BY DEF StoreInv, Files
  <2>2. Pinned(disk)'
    BY <1>1 DEF Pinned
  <2>3. op'.id <= ids' /\ ids <= ids'
    BY <1>0, <1>3 DEF Typed
  <2> QED BY <1>4, <2>1, <2>2, <2>3, FilesKept
<1>6. Fresh'
  BY <1>0, <1>2, <1>3 DEF Fresh
<1>7. Importing'
  BY <1>1, <1>3 DEF Importing, Owned
<1> QED BY <1>3, <1>4, <1>5, <1>6, <1>7 DEF StoreInv, Creating, Completing,
           Repairing, Resetting, Moving

(* One of the import artifacts of the operation is published.              *)
LEMMA PublishArtifact ==
  ASSUME StoreInv, NEW artifact \in {"snapshot", "metadata"},
         op.at \in {"snapshot", "metadata"},
         disk' = [disk EXCEPT !.imports = @ \union {<<op.id, artifact>>}],
         Typed', op'.id = op.id,
         UNCHANGED <<backups, topic, original, ids, issued, split>>
  PROVE  /\ disk'.state = NoState /\ disk'.receipts = {}
         /\ disk'.imports = disk.imports \union {<<op.id, artifact>>}
         /\ Owned(disk', op.id)
         /\ op.id # 0
         /\ \A r \in issued : r[1] = op.id => r \in disk'.receipts
         /\ Files'
<1>1. /\ disk'.state = disk.state /\ disk'.receipts = disk.receipts
      /\ disk'.imports = disk.imports \union {<<op.id, artifact>>}
  BY DEF StoreInv, Typed, Dir
<1>2. disk.state = NoState /\ disk.receipts = {} /\ Owned(disk, op.id)
  BY DEF StoreInv, Importing
<1>3. op.id # 0 /\ \A r \in issued : r[1] = op.id => r \in disk.receipts
  BY DEF StoreInv, Fresh
<1>4. op.id \in Ids
  BY <1>3 DEF StoreInv, Typed, Ops
<1>5. Owned(disk', op.id)
  BY <1>1, <1>2 DEF Owned
<1>6. Pinned(disk)'
  BY <1>1, <1>2 DEF Pinned, NoState
<1>7. op'.id <= ids' /\ ids <= ids'
  BY DEF StoreInv, Files, Typed
<1>8. Files'
  BY <1>1, <1>4, <1>5, <1>6, <1>7, FilesKept
<1> QED BY <1>1, <1>2, <1>3, <1>5, <1>8

LEMMA ImportSnapshotStep == StoreInv /\ ImportSnapshot => StoreInv'
<1> SUFFICES ASSUME StoreInv, ImportSnapshot PROVE StoreInv'
  OBVIOUS
<1> USE DEF ImportSnapshot, ImportPublish
<1>0. Typed /\ op.at = "snapshot"
  BY DEF StoreInv, At
<1>1. op' \in Ops /\ op'.at = "metadata" /\ op'.id = op.id
  BY <1>0, GotoOp DEF Phases, Typed
<1>2. Typed'
  <2>1. op.id \in Ids
    BY <1>0 DEF StoreInv, Fresh, Typed, Ops
  <2>2. disk' \in Dir
    BY SMTT(20), <1>0, <2>1 DEF Typed, Dir
  <2> QED BY <1>0, <1>1, <2>2 DEF Typed
<1>3. /\ disk'.state = NoState /\ disk'.receipts = {}
      /\ <<op.id, "snapshot">> \in disk'.imports
      /\ Owned(disk', op.id) /\ op.id # 0 /\ Files'
      /\ \A r \in issued : r[1] = op.id => r \in disk'.receipts
  BY <1>0, <1>1, <1>2, PublishArtifact
<1>4. Fresh'
  BY <1>1, <1>3 DEF Fresh
<1>5. Importing'
  BY <1>1, <1>3 DEF Importing, Owned
<1> QED BY <1>1, <1>2, <1>3, <1>4, <1>5 DEF StoreInv, Creating, Completing,
           Repairing, Resetting, Moving

LEMMA ImportMetadataStep ==
  ASSUME StoreInv, NEW p \in 0 .. TotalSteps, ImportMetadata(p)
  PROVE  StoreInv'
<1> USE DEF ImportMetadata
<1>0. Typed /\ op.at = "metadata" /\ op \in Ops
  BY DEF StoreInv, At, Typed
<1>1. op' \in Ops /\ op'.at = "receipts" /\ op'.id = op.id /\ op'.prefix = p
  BY <1>0 DEF Ops, Phases
<1>2. Typed'
  <2>1. op.id \in Ids
    BY <1>0 DEF StoreInv, Fresh, Typed, Ops
  <2>2. disk' \in Dir
    BY SMTT(20), <1>0, <2>1 DEF Typed, Dir
  <2> QED BY <1>0, <1>1, <2>2 DEF Typed
<1>3. /\ disk'.state = NoState /\ disk'.receipts = {}
      /\ disk'.imports = disk.imports \union {<<op.id, "metadata">>}
      /\ Owned(disk', op.id) /\ op.id # 0 /\ Files'
      /\ \A r \in issued : r[1] = op.id => r \in disk'.receipts
  BY <1>0, <1>1, <1>2, PublishArtifact
<1>4. Fresh'
  BY <1>1, <1>3 DEF Fresh
<1>5. <<op.id, "snapshot">> \in disk'.imports
  BY <1>0, <1>3 DEF StoreInv, Importing
<1>6. \E k \in 0 .. p : disk'.receipts = {op.id} \X (1 .. k)
  <2>1. 0 \in 0 .. p /\ 1 .. 0 = {}
    OBVIOUS
  <2> QED BY <1>3, <2>1
<1>7. Importing'
  <2>1. \E k \in 0 .. op'.prefix : disk'.receipts = {op'.id} \X (1 .. k)
    BY <1>1, <1>6
  <2> QED BY <1>1, <1>3, <1>5, <2>1 DEF Importing, Owned
<1> QED BY <1>1, <1>2, <1>3, <1>4, <1>7 DEF StoreInv, Creating, Completing,
           Repairing, Resetting, Moving

(* While receipts are being imported they are the first ones.              *)
LEMMA ImportedPrefix ==
  ASSUME StoreInv, op.at = "receipts"
  PROVE  \E k \in 0 .. op.prefix :
           /\ disk.receipts = {op.id} \X (1 .. k)
           /\ Cardinality(Imported(op.id)) = k
<1>1. PICK k \in 0 .. op.prefix : disk.receipts = {op.id} \X (1 .. k)
  BY DEF StoreInv, Importing
<1>2. Imported(op.id) = {op.id} \X (1 .. k)
  BY <1>1 DEF Imported
<1>3. k \in Nat
  BY DEF StoreInv, Typed, Ops
<1>4. Cardinality({op.id} \X (1 .. k)) = k
  BY <1>3, CountPrefix
<1> QED BY <1>1, <1>2, <1>4

LEMMA ImportReceiptStep == StoreInv /\ ImportReceipt => StoreInv'
<1> SUFFICES ASSUME StoreInv, ImportReceipt PROVE StoreInv'
  OBVIOUS
<1>0. Typed /\ op.at = "receipts" /\ op \in Ops /\ UNCHANGED <<backups, topic,
        original, op, ids, split, faults>>
  BY DEF StoreInv, At, Typed, ImportReceipt
<1>1. PICK k \in 0 .. op.prefix : /\ disk.receipts = {op.id} \X (1 .. k)
                                  /\ Cardinality(Imported(op.id)) = k
  BY <1>0, ImportedPrefix
<1>2. /\ k + 1 <= op.prefix
      /\ disk' = [disk EXCEPT !.receipts = @ \union {<<op.id, k + 1>>}]
      /\ issued' = issued \union {<<op.id, k + 1>>}
  BY <1>1 DEF ImportReceipt
<1>3. op.id # 0 /\ \A r \in issued : r[1] = op.id => r \in disk.receipts
  BY <1>0 DEF StoreInv, Fresh
<1>4. op.id \in Ids /\ k + 1 \in Steps /\ k + 1 \in 0 .. op.prefix
  BY <1>0, <1>2, <1>3 DEF Ops
<1>5. /\ disk'.state = disk.state /\ disk'.imports = disk.imports
      /\ disk'.receipts = disk.receipts \union {<<op.id, k + 1>>}
      /\ disk' \in Dir
  <2>1. disk \in Dir /\ <<op.id, k + 1>> \in Receipt
    BY <1>0, <1>4 DEF Typed
  <2> QED BY <1>2, <2>1 DEF Dir
<1>6. Typed'
  BY <1>0, <1>2, <1>4, <1>5 DEF Typed
<1>7. disk.state = NoState /\ Owned(disk, op.id)
  BY <1>0 DEF StoreInv, Importing
<1>8. Owned(disk', op.id)
  BY <1>5, <1>7 DEF Owned
<1>9. Files'
  <2>1. (\A r \in issued : r[1] <= ids)' /\ op'.id <= ids'
          /\ disk'.state.id <= ids'
    BY <1>0, <1>2, <1>5 DEF StoreInv, Files
  <2>2. ReceiptsPreserved'
    BY <1>0, <1>2, <1>5 DEF StoreInv, Files, ReceiptsPreserved
  <2>3. Pinned(disk)' /\ Complete(disk)' /\ Recorded(disk)'
    BY <1>5, <1>7 DEF Pinned, Complete, Recorded, NoState
  <2> QED BY <1>4, <1>8, <2>1, <2>2, <2>3 DEF Files
<1>10. Fresh'
  BY <1>0, <1>2, <1>3, <1>5 DEF Fresh
<1>11. Importing'
  <2>1. disk'.receipts = {op.id} \X (1 .. (k + 1))
    <3>1. 1 .. (k + 1) = (1 .. k) \union {k + 1}
      BY <1>0 DEF Ops
    <3> QED BY <1>1, <1>5, <3>1
  <2>2. \E i \in 0 .. op'.prefix : disk'.receipts = {op'.id} \X (1 .. i)
    BY <1>0, <1>4, <2>1
  <2>3. /\ <<op.id, "snapshot">> \in disk.imports
        /\ <<op.id, "metadata">> \in disk.imports
    BY <1>0 DEF StoreInv, Importing
  <2> QED BY <1>0, <1>5, <1>7, <1>8, <2>2, <2>3 DEF Importing
<1> QED BY <1>0, <1>6, <1>9, <1>10, <1>11 DEF StoreInv, Creating, Completing,
           Repairing, Resetting, Moving

LEMMA ImportStateStep == StoreInv /\ ImportState => StoreInv'
<1> SUFFICES ASSUME StoreInv, ImportState PROVE StoreInv'
  OBVIOUS
<1>0. Typed /\ op.at = "receipts" /\ op \in Ops
  BY DEF StoreInv, At, Typed, ImportState
<1>1. PICK k \in 0 .. op.prefix : /\ disk.receipts = {op.id} \X (1 .. k)
                                  /\ Cardinality(Imported(op.id)) = k
  BY <1>0, ImportedPrefix
<1> DEFINE s == [id |-> op.id, done |-> op.prefix, imported |-> TRUE,
                 topic |-> topic.text]
<1>2. /\ k = op.prefix /\ disk' = [disk EXCEPT !.state = s]
      /\ Goto("events")
      /\ UNCHANGED <<backups, topic, original, ids, issued, split, faults>>
  BY <1>1 DEF ImportState
<1>3. op' \in Ops /\ op'.at = "events" /\ op'.id = op.id
  BY <1>0, <1>2, GotoOp DEF Phases
<1>4. op.id # 0 /\ \A r \in issued : r[1] = op.id => r \in disk.receipts
  BY <1>0 DEF StoreInv, Fresh
<1>5. /\ s \in [id : 0 .. MaxIds, done : 0 .. TotalSteps, imported : BOOLEAN,
                topic : {"none", "plain", "contract"}]
      /\ s.id = op.id /\ s.topic = topic.text /\ s.done = k /\ s.imported
  BY <1>0, <1>2 DEF Ops, Typed
<1> HIDE DEF s
<1>6. Typed'
  <2>1. disk' \in Dir
    BY <1>0, <1>2, <1>5 DEF Typed, Dir
  <2> QED BY <1>0, <1>2, <1>3, <2>1 DEF Typed
<1>7. /\ Owned(disk, op.id)
      /\ {op.id} \X {"snapshot", "metadata"} \subseteq disk.imports
  BY <1>0 DEF StoreInv, Importing
<1>8. \A j \in 1 .. s.done : <<op.id, j>> \in disk.receipts
  BY <1>1, <1>5
<1> QED BY <1>2, <1>3, <1>4, <1>5, <1>6, <1>7, <1>8, PublishState

(* The import gives up and has an error to report.                         *)
LEMMA GivesUp ==
  ASSUME StoreInv, op.at \in {"snapshot", "metadata", "receipts"},
         Goto("error"), faults' \in 0 .. MaxFaults,
         UNCHANGED <<disk, backups, topic, original, ids, issued, split>>
  PROVE  StoreInv'
<1>0. Typed
  BY DEF StoreInv
<1>1. op' \in Ops /\ op'.at = "error" /\ op'.id = op.id
  BY <1>0, GotoOp DEF Phases, Typed
<1>2. Typed'
  BY <1>0, <1>1 DEF Typed
<1>3. Files'
  BY <1>0, <1>1, FilesStay DEF StoreInv, Files, Typed
<1>4. Importing'
  BY <1>1 DEF StoreInv, Importing, Owned
<1> QED BY <1>1, <1>2, <1>3, <1>4 DEF StoreInv, Fresh, Creating, Completing,
           Repairing, Resetting, Moving

LEMMA ImportRejectedStep == StoreInv /\ ImportRejected => StoreInv'
  BY GivesUp DEF ImportRejected, StoreInv, Typed

LEMMA ImportWriteFailsStep == StoreInv /\ ImportWriteFails => StoreInv'
  BY GivesUp DEF ImportWriteFails, Fault, StoreInv, Typed

LEMMA ImportUnsafeStep == StoreInv /\ ImportUnsafe => StoreInv'
  BY FinishStep DEF ImportUnsafe, Fault, StoreInv, Typed

LEMMA ImportErrorStep == StoreInv /\ ImportError => StoreInv'
<1> SUFFICES ASSUME StoreInv, ImportError PROVE StoreInv'
  OBVIOUS
<1> USE DEF ImportError
<1>0. Typed /\ op.at = "error"
  BY DEF StoreInv, At
<1>1. op' \in Ops /\ op'.at = "error published" /\ op'.id = op.id
  BY <1>0, GotoOp DEF Phases, Typed
<1>2. /\ disk'.state = disk.state /\ disk'.receipts = disk.receipts
      /\ disk'.imports = disk.imports /\ disk' \in Dir
  BY <1>0 DEF Typed, Dir
<1>3. Typed'
  BY <1>0, <1>1, <1>2 DEF Typed
<1>4. Files'
  <2>1. (\E w \in Ids : Owned(disk', w)) /\ Pinned(disk)'
    BY <1>2 DEF StoreInv, Files, Owned, Pinned
  <2>2. ids' = ids
    BY Zenon
  <2>3. op.id <= ids /\ ids \in Nat /\ op.id \in Nat
    BY ONLY StoreInv, ConstantsAssumption DEF StoreInv, Files, Typed, Ops
  <2> HIDE DEF ImportError
  <2>4. op'.id <= ids' /\ ids <= ids'
    <3>1. op'.id = op.id BY <1>1
    <3> QED BY ONLY <3>1, <2>2, <2>3
  <2> QED BY <1>2, <1>3, <2>1, <2>4, FilesKept DEF ImportError
<1>5. Importing'
  BY <1>0, <1>1, <1>2 DEF StoreInv, Importing, Owned
<1> QED BY <1>1, <1>3, <1>4, <1>5 DEF StoreInv, Fresh, Creating, Completing,
           Repairing, Resetting, Moving

LEMMA ImportErrorPublishedStep == StoreInv /\ ImportErrorPublished => StoreInv'
<1> SUFFICES ASSUME StoreInv, ImportErrorPublished PROVE StoreInv'
  OBVIOUS
<1> USE DEF ImportErrorPublished
<1>0. Typed
  BY DEF StoreInv
<1>1. op' = Idle /\ op'.at = "idle" /\ op'.id = 0 /\ op' \in Ops
  BY IdleOp DEF Finish, Idle
<1>2. /\ disk'.state = disk.state /\ disk'.receipts = disk.receipts
      /\ disk'.imports = disk.imports /\ disk' \in Dir
  BY <1>0 DEF Typed, Dir
<1>3. Typed'
  BY <1>0, <1>1, <1>2 DEF Typed
<1>4. Files'
  <2>1. (\E w \in Ids : Owned(disk', w)) /\ Pinned(disk)'
    BY <1>2 DEF StoreInv, Files, Owned, Pinned
  <2>2. ids' = ids
    BY Zenon
  <2>3. ids \in Nat
    BY ONLY Typed, <1>0, ConstantsAssumption DEF Typed
  <2>4. op'.id <= ids' /\ ids <= ids'
    <3>1. op'.id = 0 BY <1>1
    <3> QED BY ONLY <3>1, <2>2, <2>3
  <2> QED BY <1>2, <1>3, <2>1, <2>4, FilesKept DEF ImportErrorPublished
<1> QED BY <1>1, <1>3, <1>4, Ends

-----------------------------------------------------------------------------
(* The operations of a running workflow                                    *)

(* A state that goes on with its workflow, topic and receipts.             *)
LEMMA FilesUpdated ==
  ASSUME StoreInv, Typed', op'.id = disk.state.id \/ op'.id = op.id,
         disk.state.id # 0,
         disk'.state.id = disk.state.id,
         disk'.state.imported = disk.state.imported,
         disk'.receipts = disk.receipts, disk'.imports = disk.imports,
         \A j \in 1 .. disk'.state.done :
           <<disk.state.id, j>> \in disk.receipts \/ split,
         \/ disk'.state.topic = disk.state.topic
         \/ disk'.state.topic = topic.text,
         UNCHANGED <<backups, topic, original, ids, issued, split>>
  PROVE  Files'
<1>1. (/\ op.id <= ids /\ disk.state.id <= ids
       /\ \A r \in issued : r[1] <= ids)'
  BY DEF StoreInv, Files
<1>2. ReceiptsPreserved'
  BY DEF StoreInv, Files, ReceiptsPreserved
<1>3. (\E w \in Ids : Owned(disk, w))' /\ Pinned(disk)'
  BY DEF StoreInv, Files, Owned, Pinned
<1>4. (~split => Complete(disk) /\ Recorded(disk))'
  BY DEF StoreInv, Files, Complete, Recorded
<1> QED BY <1>1, <1>2, <1>3, <1>4 DEF Files

LEMMA SameNumbers ==
  ASSUME StoreInv, ids' = ids, op'.id = op.id \/ op'.id = disk.state.id
  PROVE  op'.id <= ids' /\ ids <= ids' /\ ids' \in Nat
<1>1. /\ ids \in Nat /\ op.id \in Nat /\ disk.state.id \in Nat
      /\ op.id <= ids /\ disk.state.id <= ids
  BY DEF StoreInv, Files, Typed, Ops, Dir
<1> QED BY <1>1

LEMMA MutateStep ==
  ASSUME StoreInv, NEW n \in {disk.state.done, Cardinality(Backed)}, Mutate(n)
  PROVE  StoreInv'
<1>0. Typed /\ op = Idle /\ disk.state.id # 0
  BY DEF StoreInv, Mutate, Free
<1>1. disk' = [disk EXCEPT !.state.done = n]
  BY Zenon DEF Mutate
<1>2. UNCHANGED <<backups, topic, original, ids, issued, split, faults>>
  BY Zenon DEF Mutate
<1>3. op' \in Ops /\ op'.at = "events" /\ op'.id = disk.state.id
  <2>1. "events" \in Phases /\ disk.state.id \in 0 .. MaxIds
    BY <1>0 DEF Phases, Typed, Dir
  <2>2. Start("events", disk.state.id)
    BY Zenon DEF Mutate
  <2> QED BY ONLY <2>1, <2>2, StartedOp
<1>4. n \in 0 .. TotalSteps
  BY <1>0, BackedPrefix DEF Typed, Dir
<1>5. /\ disk' \in Dir /\ disk'.state.done = n
      /\ disk'.state.id = disk.state.id /\ disk'.state.topic = disk.state.topic
      /\ disk'.state.imported = disk.state.imported
      /\ disk'.receipts = disk.receipts /\ disk'.imports = disk.imports
  BY <1>0, <1>1, <1>4 DEF Typed, Dir
<1>6. \A j \in 1 .. n : <<disk.state.id, j>> \in disk.receipts \/ split
  <2>1. CASE n = Cardinality(Backed)
    BY <1>0, <2>1, BackedPrefix
  <2>2. CASE n = disk.state.done
    BY <1>0, <2>2 DEF StoreInv, Files, Complete
  <2> QED BY <2>1, <2>2
<1>7. Typed'
  BY <1>0, <1>2, <1>3, <1>5 DEF Typed
<1>8. Files'
  BY <1>0, <1>2, <1>3, <1>5, <1>6, <1>7, FilesUpdated
<1> QED BY <1>3, <1>7, <1>8, Ends

LEMMA CompleteReceiptStep == StoreInv /\ CompleteReceipt => StoreInv'
<1> SUFFICES ASSUME StoreInv, CompleteReceipt PROVE StoreInv'
  OBVIOUS
<1>0. /\ Typed /\ op = Idle /\ disk.state.id # 0
      /\ disk.state.done < TotalSteps
  BY DEF StoreInv, CompleteReceipt, Free
<1>1. /\ disk' = [disk EXCEPT !.receipts = @ \union {NextReceipt}]
      /\ issued' = issued \union {NextReceipt}
  BY Zenon DEF CompleteReceipt
<1>2. UNCHANGED <<backups, topic, original, ids, split, faults>>
  BY Zenon DEF CompleteReceipt
<1>3. op' \in Ops /\ op'.at = "complete" /\ op'.id = disk.state.id
  <2>1. "complete" \in Phases /\ disk.state.id \in 0 .. MaxIds
    BY <1>0 DEF Phases, Typed, Dir
  <2>2. Start("complete", disk.state.id)
    BY Zenon DEF CompleteReceipt
  <2> QED BY ONLY <2>1, <2>2, StartedOp
<1>4. NextReceipt \in Receipt /\ NextReceipt[1] = disk.state.id
        /\ NextReceipt = <<disk.state.id, disk.state.done + 1>>
  BY <1>0 DEF Typed, Dir, NextReceipt
<1>5. /\ disk' \in Dir /\ disk'.state = disk.state
      /\ disk'.receipts = disk.receipts \union {NextReceipt}
      /\ disk'.imports = disk.imports
  BY <1>0, <1>1, <1>4 DEF Typed, Dir
<1>6. Typed'
  BY <1>0, <1>1, <1>2, <1>3, <1>4, <1>5 DEF Typed
<1>7. Files'
  <2>1. (/\ op.id <= ids /\ disk.state.id <= ids
         /\ \A r \in issued : r[1] <= ids)'
    BY <1>1, <1>2, <1>3, <1>4, <1>5 DEF StoreInv, Files
  <2>2. ReceiptsPreserved'
    BY <1>1, <1>2, <1>5 DEF StoreInv, Files, ReceiptsPreserved
  <2>3. (\E w \in Ids : Owned(disk, w))' /\ Pinned(disk)'
    BY <1>0, <1>2, <1>4, <1>5 DEF StoreInv, Files, Owned, Pinned
  <2>4. (~split => Complete(disk) /\ Recorded(disk))'
    BY <1>1, <1>2, <1>5 DEF StoreInv, Files, Complete, Recorded
  <2> QED BY <2>1, <2>2, <2>3, <2>4 DEF Files
<1>8. Completing'
  BY <1>0, <1>4, <1>5 DEF Completing
<1> QED BY <1>3, <1>6, <1>7, <1>8 DEF StoreInv, Fresh, Creating, Importing,
           Repairing, Resetting, Moving

LEMMA CompleteStateStep == StoreInv /\ CompleteState => StoreInv'
<1> SUFFICES ASSUME StoreInv, CompleteState PROVE StoreInv'
  OBVIOUS
<1>0. /\ Typed /\ disk.state.id # 0 /\ disk.state.done < TotalSteps
      /\ <<disk.state.id, disk.state.done + 1>> \in disk.receipts
  BY DEF StoreInv, Completing, CompleteState, At
<1>1. /\ disk' = [disk EXCEPT !.state.done = @ + 1] /\ Goto("events")
      /\ UNCHANGED <<backups, topic, original, ids, issued, split, faults>>
  BY Zenon DEF CompleteState
<1>2. op' \in Ops /\ op'.at = "events" /\ op'.id = op.id
  <2>1. "events" \in Phases /\ op \in Ops
    BY <1>0 DEF Phases, Typed
  <2> QED BY ONLY <1>1, <2>1, GotoOp
<1>3. /\ disk' \in Dir /\ disk'.state.done = disk.state.done + 1
      /\ disk'.state.id = disk.state.id /\ disk'.state.topic = disk.state.topic
      /\ disk'.state.imported = disk.state.imported
      /\ disk'.receipts = disk.receipts /\ disk'.imports = disk.imports
  <2> DEFINE n == disk.state.done + 1
  <2>1. n \in 0 .. TotalSteps /\ disk \in Dir
    BY <1>0 DEF Typed, Dir
  <2>2. disk' = [disk EXCEPT !.state.done = n]
    BY <1>1, <2>1 DEF Dir
  <2> HIDE DEF n
  <2>3. /\ disk' \in Dir /\ disk'.state.done = n
        /\ disk'.state.id = disk.state.id /\ disk'.state.topic = disk.state.topic
        /\ disk'.state.imported = disk.state.imported
        /\ disk'.receipts = disk.receipts /\ disk'.imports = disk.imports
    BY <2>1, <2>2 DEF Dir
  <2> QED BY <2>3 DEF n
<1>4. \A j \in 1 .. disk'.state.done :
        <<disk.state.id, j>> \in disk.receipts \/ split
  <2>1. disk.state.done \in Nat
    BY <1>0 DEF Typed, Dir
  <2>2. \A j \in 1 .. disk.state.done :
          <<disk.state.id, j>> \in disk.receipts \/ split
    BY <1>0 DEF StoreInv, Files, Complete
  <2>3. \A j \in 1 .. disk.state.done + 1 :
          j \in 1 .. disk.state.done \/ j = disk.state.done + 1
    BY <2>1
  <2> QED BY <1>0, <1>3, <2>2, <2>3
<1>5. Typed'
  BY <1>0, <1>1, <1>2, <1>3 DEF Typed
<1>6. Files'
  BY <1>0, <1>1, <1>2, <1>3, <1>4, <1>5, FilesUpdated
<1> QED BY <1>2, <1>5, <1>6, Ends

-----------------------------------------------------------------------------
(* Repair of the topic                                                     *)

LEMMA RepairStartStep == StoreInv /\ RepairStart => StoreInv'
<1> SUFFICES ASSUME StoreInv, RepairStart PROVE StoreInv'
  OBVIOUS
<1>0. Typed /\ op = Idle /\ disk.state.id # 0
  BY DEF StoreInv, RepairStart, Free
<1>1. UNCHANGED <<disk, backups, topic, original, ids, issued, split, faults>>
  BY Zenon DEF RepairStart
<1> DEFINE p == IF original = "kept" THEN "repair topic" ELSE "repair copy"
<1>2. op' \in Ops /\ op'.at = p /\ op'.id = disk.state.id
  <2>1. p \in Phases /\ disk.state.id \in 0 .. MaxIds
    BY <1>0 DEF Phases, Typed, Dir
  <2>2. Start(p, disk.state.id)
    BY Zenon DEF RepairStart
  <2> HIDE DEF p
  <2> QED BY ONLY <2>1, <2>2, StartedOp
<1>3. Typed'
  BY <1>0, <1>1, <1>2 DEF Typed
<1>4. Files'
  <2>1. op'.id <= ids' /\ ids <= ids' /\ ids' \in Nat
    BY <1>1, <1>2, SameNumbers
  <2> QED BY <1>1, <2>1, FilesStay
<1>5. Repairing'
  BY <1>0, <1>1, <1>2 DEF Repairing
<1> QED BY <1>2, <1>3, <1>4, <1>5 DEF StoreInv, Fresh, Creating, Importing,
           Completing, Resetting, Moving

LEMMA RepairCopyStep == StoreInv /\ RepairCopy => StoreInv'
<1> SUFFICES ASSUME StoreInv, RepairCopy PROVE StoreInv'
  OBVIOUS
<1> DEFINE p == IF original = "none" THEN "repair copy" ELSE "repair topic"
<1>0. Typed /\ disk.state.id # 0
  BY DEF StoreInv, RepairCopy, Repairing, At
<1>1. /\ original' = IF original = "none" THEN "aliased" ELSE "kept"
      /\ UNCHANGED <<disk, backups, topic, ids, issued, split, faults>>
      /\ Goto(p)
  BY Zenon DEF RepairCopy
<1>2. op' \in Ops /\ op'.at = p /\ op'.id = op.id
  <2>1. p \in Phases /\ op \in Ops
    BY <1>0 DEF Phases, Typed
  <2> HIDE DEF p
  <2> QED BY ONLY <1>1, <2>1, GotoOp
<1>3. Typed'
  BY <1>0, <1>1, <1>2 DEF Typed
<1>4. Files'
  <2>1. (\E w \in Ids : Owned(disk', w)) /\ Pinned(disk)'
    BY <1>1 DEF StoreInv, Files, Pinned
  <2>2. op'.id <= ids' /\ ids <= ids'
    BY <1>1, <1>2, SameNumbers
  <2> QED BY <1>1, <1>3, <2>1, <2>2, FilesKept
<1>5. Repairing'
  BY <1>0, <1>1, <1>2 DEF Repairing
<1> QED BY <1>2, <1>3, <1>4, <1>5 DEF StoreInv, Fresh, Creating, Importing,
           Completing, Resetting, Moving

LEMMA RepairTopicStep == StoreInv /\ RepairTopic => StoreInv'
<1> SUFFICES ASSUME StoreInv, RepairTopic PROVE StoreInv'
  OBVIOUS
<1>0. Typed /\ disk.state.id # 0 /\ original = "kept"
  BY DEF StoreInv, RepairTopic, Repairing, At
<1>1. /\ topic' = [topic EXCEPT !.text = "contract"] /\ Goto("repair state")
      /\ UNCHANGED <<disk, backups, original, ids, issued, split, faults>>
  BY Zenon DEF RepairTopic
<1>2. op' \in Ops /\ op'.at = "repair state" /\ op'.id = op.id
  <2>1. "repair state" \in Phases /\ op \in Ops
    BY <1>0 DEF Phases, Typed
  <2> QED BY ONLY <1>1, <2>1, GotoOp
<1>3. Typed'
  BY <1>0, <1>1, <1>2 DEF Typed
<1>4. Files'
  <2>1. (\E w \in Ids : Owned(disk', w)) /\ Pinned(disk)'
    BY <1>0, <1>1 DEF StoreInv, Files, Pinned
  <2>2. UNCHANGED <<disk, backups, ids, issued, split>>
    BY <1>1
  <2>3. op'.id <= ids' /\ ids <= ids'
    BY <1>2, <2>2, SameNumbers
  <2> QED BY <1>3, <2>1, <2>2, <2>3, FilesKept
<1>5. Repairing'
  BY <1>0, <1>1, <1>2 DEF Repairing
<1> QED BY <1>2, <1>3, <1>4, <1>5 DEF StoreInv, Fresh, Creating, Importing,
           Completing, Resetting, Moving

LEMMA RepairStateStep == StoreInv /\ RepairState => StoreInv'
<1> SUFFICES ASSUME StoreInv, RepairState PROVE StoreInv'
  OBVIOUS
<1>0. Typed /\ disk.state.id # 0
  BY DEF StoreInv, RepairState, Repairing, At
<1>1. /\ disk' = [disk EXCEPT !.state.topic = topic.text] /\ Goto("events")
      /\ UNCHANGED <<backups, topic, original, ids, issued, split, faults>>
  BY Zenon DEF RepairState
<1>2. op' \in Ops /\ op'.at = "events" /\ op'.id = op.id
  <2>1. "events" \in Phases /\ op \in Ops
    BY <1>0 DEF Phases, Typed
  <2> QED BY ONLY <1>1, <2>1, GotoOp
<1>3. /\ disk' \in Dir /\ disk'.state.done = disk.state.done
      /\ disk'.state.id = disk.state.id /\ disk'.state.topic = topic.text
      /\ disk'.state.imported = disk.state.imported
      /\ disk'.receipts = disk.receipts /\ disk'.imports = disk.imports
  BY <1>0, <1>1 DEF Typed, Dir
<1>4. \A j \in 1 .. disk'.state.done :
        <<disk.state.id, j>> \in disk.receipts \/ split
  BY <1>0, <1>3 DEF StoreInv, Files, Complete
<1>5. Typed'
  BY <1>0, <1>1, <1>2, <1>3 DEF Typed
<1>6. Files'
  BY <1>0, <1>1, <1>2, <1>3, <1>4, <1>5, FilesUpdated
<1> QED BY <1>2, <1>5, <1>6, Ends

-----------------------------------------------------------------------------
(* Reset                                                                   *)

(* ACTIVE_METADATA ranks the parts, so every set of them has a first one   *)
(* and a last one; the state comes before all the others.                  *)
LEMMA MoveNextFirst ==
  ASSUME op.moves \in SUBSET Names, op.moves # {}
  PROVE  /\ MoveNext \in op.moves
         /\ "state" \in op.moves => MoveNext = "state"
<1> DEFINE S == op.moves
           First(n) == \A m \in S : MoveOrder[n] <= MoveOrder[m]
<1>1. \E n \in S : First(n)
  <2>1. CASE "state" \in S BY <2>1 DEF MoveOrder, Names
  <2>2. CASE "state" \notin S /\ "receipts" \in S
    BY <2>2 DEF MoveOrder, Names
  <2>3. CASE S \intersect {"state", "receipts"} = {} /\ "imports" \in S
    BY <2>3 DEF MoveOrder, Names
  <2>4. CASE /\ S \intersect {"state", "receipts", "imports"} = {}
             /\ "events" \in S
    BY <2>4 DEF MoveOrder, Names
  <2>5. CASE S = {"error"} BY <2>5 DEF MoveOrder, Names
  <2> QED BY <2>1, <2>2, <2>3, <2>4, <2>5 DEF Names
<1>2. MoveNext \in S /\ First(MoveNext)
  BY <1>1 DEF MoveNext
<1>3. "state" \in S => MoveNext = "state"
  <2> SUFFICES ASSUME "state" \in S PROVE MoveNext = "state"
    OBVIOUS
  <2> DEFINE n == MoveNext
  <2>1. n \in Names /\ MoveOrder[n] <= MoveOrder["state"]
    BY <1>2
  <2> HIDE DEF n
  <2> QED BY <2>1 DEF MoveOrder, Names, n
<1> QED BY <1>2, <1>3

LEMMA UndoNextLast ==
  ASSUME op.moved \in SUBSET Names, op.moved # {}
  PROVE  /\ UndoNext \in op.moved
         /\ UndoNext = "state" => op.moved = {"state"}
<1> DEFINE S == op.moved
           Final(n) == \A m \in S : MoveOrder[m] <= MoveOrder[n]
<1>1. \E n \in S : Final(n)
  <2>1. CASE "error" \in S BY <2>1 DEF MoveOrder, Names
  <2>2. CASE "error" \notin S /\ "events" \in S
    BY <2>2 DEF MoveOrder, Names
  <2>3. CASE S \intersect {"error", "events"} = {} /\ "imports" \in S
    BY <2>3 DEF MoveOrder, Names
  <2>4. CASE S \intersect {"error", "events", "imports"} = {} /\ "receipts" \in S
    BY <2>4 DEF MoveOrder, Names
  <2>5. CASE S = {"state"} BY <2>5 DEF MoveOrder, Names
  <2> QED BY <2>1, <2>2, <2>3, <2>4, <2>5 DEF Names
<1>2. UndoNext \in S /\ Final(UndoNext)
  BY <1>1 DEF UndoNext
<1>3. UndoNext = "state" => S = {"state"}
  <2> SUFFICES ASSUME UndoNext = "state" PROVE S = {"state"}
    OBVIOUS
  <2>1. \A m \in S : m \in Names /\ MoveOrder[m] <= MoveOrder["state"]
    BY <1>2
  <2>2. \A m \in S : m = "state"
    BY <2>1 DEF MoveOrder, Names
  <2> QED BY <1>2, <2>2
<1> QED BY <1>2, <1>3

(* The files where a reset is under way.                                   *)
LEMMA TargetDir ==
  ASSUME StoreInv, op.at \in {"move", "undo"}
  PROVE  /\ Target \in Dir /\ Last \in DOMAIN backups /\ backups # <<>>
         /\ Last = Len(backups) /\ Target = backups[Last]
<1>1. backups \in Seq(Dir) /\ backups # <<>>
  BY DEF StoreInv, Typed, Resetting
<1>2. Len(backups) \in DOMAIN backups /\ backups[Len(backups)] \in Dir
  <2>1. Empty \in Dir
    BY EmptyDir
  <2> QED BY ONLY <1>1, <2>1, PutLast
<1> QED BY <1>1, <1>2 DEF Target, Last

LEMMA ResetStartStep == StoreInv /\ ResetStart => StoreInv'
<1> SUFFICES ASSUME StoreInv, ResetStart PROVE StoreInv'
  OBVIOUS
<1>0. Typed /\ disk \in Dir /\ backups \in Seq(Dir) /\ Empty \in Dir
  BY EmptyDir DEF StoreInv, Typed
<1>1. /\ backups' = Append(backups, Empty)
      /\ UNCHANGED <<disk, topic, original, ids, issued, split, faults>>
  BY Zenon DEF ResetStart
<1>2. op' \in Ops /\ op'.at = "move" /\ op'.id = 0 /\ op'.moved = {}
        /\ op'.moves = Active(disk)
  <2>1. Active(disk) \in SUBSET Names
    BY DEF Active
  <2>2. op' = [at |-> "move", id |-> 0, prefix |-> 0,
               moves |-> Active(disk), moved |-> {}]
    BY Zenon DEF ResetStart
  <2> HIDE DEF Active
  <2> QED BY <2>1, <2>2 DEF Ops, Phases
<1>3. /\ backups' \in Seq(Dir) /\ backups' # <<>>
      /\ Target' = Empty
      /\ DOMAIN backups \subseteq DOMAIN backups'
      /\ \A i \in DOMAIN backups : backups'[i] = backups[i]
  BY <1>0, <1>1, AddLast DEF Target, Last
<1>4. Typed'
  BY <1>0, <1>1, <1>2, <1>3 DEF Typed
<1>5. Files'
  <2>1. (/\ op.id <= ids /\ disk.state.id <= ids
         /\ \A r \in issued : r[1] <= ids)'
    BY <1>0, <1>1, <1>2 DEF StoreInv, Files, Typed
  <2>2. ReceiptsPreserved'
    BY <1>1, <1>3 DEF StoreInv, Files, ReceiptsPreserved
  <2>3. (\E w \in Ids : Owned(disk, w))' /\ Pinned(disk)'
    BY <1>1 DEF StoreInv, Files, Pinned
  <2>4. (~split => Complete(disk) /\ Recorded(disk))'
    BY <1>1 DEF StoreInv, Files, Recorded
  <2> QED BY <2>1, <2>2, <2>3, <2>4 DEF Files
<1>6. Resetting'
  <2>1. \E w \in Ids : Owned(disk', w) /\ Owned(Target', w)
    BY <1>1, <1>3 DEF StoreInv, Files, Owned, Empty, NoState
  <2>2. Target'.state.id = 0 /\ 0 <= ids'
    BY <1>0, <1>1, <1>3 DEF Empty, NoState, Typed
  <2>3. Whole' = [n \in Names |-> disk[n]]
    BY <1>1, <1>2 DEF Whole
  <2>4. Whole'.state = disk.state /\ Whole'.receipts = disk.receipts
          /\ Whole'.imports = disk.imports
    BY <2>3 DEF Names
  <2>5. ~split' => Complete(Whole') /\ Recorded(Whole)'
    BY <1>1, <2>4 DEF StoreInv, Files, Complete, Recorded
  <2>6. Pinned(Target)'
    BY <2>2 DEF Pinned
  <2> QED BY <1>2, <1>3, <2>1, <2>2, <2>5, <2>6 DEF Resetting
<1>7. Moving'
  <2>1. disk.state # NoState => "state" \in Active(disk)
    BY DEF Active, Names, Empty
  <2> QED BY <1>1, <1>2, <1>3, <2>1 DEF Moving
<1> QED BY <1>2, <1>4, <1>5, <1>6, <1>7 DEF StoreInv, Fresh, Creating,
           Importing, Completing, Repairing

(* The last backup is replaced; the others are what they were.             *)
LEMMA TargetReplaced ==
  ASSUME StoreInv, op.at \in {"move", "undo"}, NEW e \in Dir,
         backups' = [backups EXCEPT ![Last] = e]
  PROVE  /\ backups' \in Seq(Dir) /\ backups' # <<>> /\ Target' = e
         /\ DOMAIN backups' = DOMAIN backups /\ Last \in DOMAIN backups
         /\ backups'[Last] = e
         /\ \A i \in DOMAIN backups : i # Last => backups'[i] = backups[i]
<1>1. /\ backups \in Seq(Dir) /\ backups # <<>> /\ Last = Len(backups)
      /\ Last \in DOMAIN backups
  BY TargetDir DEF StoreInv, Typed
<1>2. backups' = [backups EXCEPT ![Len(backups)] = e]
  BY <1>1
<1>3. /\ backups' \in Seq(Dir) /\ Len(backups') = Len(backups)
      /\ DOMAIN backups' = DOMAIN backups
      /\ \A i \in DOMAIN backups :
           backups'[i] = IF i = Len(backups) THEN e ELSE backups[i]
  BY ONLY <1>1, <1>2, PutLast
<1>4. backups' # <<>>
  BY <1>1, <1>3
<1> QED BY <1>1, <1>3, <1>4 DEF Target, Last

(* What a move of one part, forwards or back, leaves true.                 *)
LEMMA PartMoved ==
  ASSUME StoreInv, op.at \in {"move", "undo"}, NEW n \in Names,
         NEW d \in Dir, NEW t \in Dir,
         d.state \in {disk.state, Target.state, NoState},
         t.state \in {disk.state, Target.state, NoState},
         d.receipts \subseteq disk.receipts \union Target.receipts,
         t.receipts \subseteq disk.receipts \union Target.receipts,
         disk.receipts \union Target.receipts \subseteq d.receipts \union t.receipts,
         d.imports \subseteq disk.imports \union Target.imports,
         t.imports \subseteq disk.imports \union Target.imports,
         disk' = d, backups' = [backups EXCEPT ![Last] = t],
         op' \in Ops, op'.id = op.id,
         UNCHANGED <<topic, original, ids, issued, split, faults>>
  PROVE  /\ Typed'
         /\ op'.id <= ids' /\ disk'.state.id <= ids'
         /\ \A r \in issued' : r[1] <= ids'
         /\ ReceiptsPreserved'
         /\ \E w \in Ids : Owned(disk', w) /\ Owned(Target', w)
         /\ Pinned(disk)' /\ Pinned(Target)'
         /\ Target'.state.id <= ids'
         /\ backups' # <<>> /\ Target' = t
<1>1. /\ backups' \in Seq(Dir) /\ backups' # <<>> /\ Target' = t
      /\ DOMAIN backups' = DOMAIN backups /\ Last \in DOMAIN backups
      /\ backups'[Last] = t
      /\ \A i \in DOMAIN backups : i # Last => backups'[i] = backups[i]
  BY TargetReplaced
<1>2. Target = backups[Last] /\ Target \in Dir
  BY TargetDir
<1>3. /\ op.id <= ids /\ disk.state.id <= ids /\ Target.state.id <= ids
      /\ \A r \in issued : r[1] <= ids
      /\ NoState.id <= ids /\ NoState.id = 0
  BY DEF StoreInv, Files, Resetting, Typed, NoState
<1>4. Typed'
  BY <1>1 DEF StoreInv, Typed
<1>5. ReceiptsPreserved'
  <2> SUFFICES ASSUME NEW r \in issued
               PROVE  (r \in disk.receipts
                        \/ \E i \in DOMAIN backups : r \in backups[i].receipts)'
    BY DEF ReceiptsPreserved
  <2>1. \/ r \in disk.receipts \union Target.receipts
        \/ \E i \in DOMAIN backups : i # Last /\ r \in backups[i].receipts
    BY <1>2 DEF StoreInv, Files, ReceiptsPreserved
  <2>2. CASE r \in disk.receipts \union Target.receipts
    BY <1>1, <2>2
  <2>3. CASE \E i \in DOMAIN backups : i # Last /\ r \in backups[i].receipts
    BY <1>1, <2>3
  <2> QED BY <2>1, <2>2, <2>3
<1>6. \E w \in Ids : Owned(disk', w) /\ Owned(Target', w)
  <2>1. PICK w \in Ids : Owned(disk, w) /\ Owned(Target, w)
    BY DEF StoreInv, Resetting
  <2>2. Owned(d, w) /\ Owned(t, w)
    BY <2>1, <1>3 DEF Owned
  <2> QED BY <1>1, <2>2
<1>7. Pinned(disk)' /\ Pinned(Target)'
  BY <1>1, <1>3 DEF StoreInv, Files, Resetting, Pinned
<1> QED BY <1>1, <1>3, <1>4, <1>5, <1>6, <1>7

LEMMA ResetMoveStep == StoreInv /\ ResetMove => StoreInv'
<1> SUFFICES ASSUME StoreInv, ResetMove PROVE StoreInv'
  OBVIOUS
<1> DEFINE name == MoveNext
           d == [disk EXCEPT ![name] = Empty[name]]
           t == [Target EXCEPT ![name] = disk[name]]
<1>0. /\ op.at = "move" /\ op \in Ops /\ disk \in Dir /\ op.moves # {}
      /\ Empty \in Dir /\ Target \in Dir /\ Last \in DOMAIN backups
      /\ Target = backups[Last]
  BY EmptyDir, TargetDir DEF StoreInv, Typed, ResetMove, At
<1>1. /\ name \in op.moves /\ name \in Names
      /\ "state" \in op.moves => name = "state"
  BY <1>0, MoveNextFirst DEF Ops
<1>2. /\ disk' = d
      /\ backups' = [backups EXCEPT ![Last][name] = disk[name]]
      /\ op' = [op EXCEPT !.moves = @ \ {name}, !.moved = @ \union {name}]
      /\ UNCHANGED <<topic, original, ids, issued, split, faults>>
  BY Zenon DEF ResetMove
<1> HIDE DEF name
<1>3. backups' = [backups EXCEPT ![Last] = t]
  BY <1>0, <1>2
<1>4. /\ d \in Dir /\ \A m \in Names : d[m] = IF m = name THEN Empty[m] ELSE disk[m]
      /\ d.state = IF name = "state" THEN Empty.state ELSE disk.state
      /\ d.receipts = IF name = "receipts" THEN Empty.receipts ELSE disk.receipts
      /\ d.imports = IF name = "imports" THEN Empty.imports ELSE disk.imports
  BY ONLY <1>0, <1>1, PutPart
<1>5. /\ t \in Dir /\ \A m \in Names : t[m] = IF m = name THEN disk[m] ELSE Target[m]
      /\ t.state = IF name = "state" THEN disk.state ELSE Target.state
      /\ t.receipts = IF name = "receipts" THEN disk.receipts ELSE Target.receipts
      /\ t.imports = IF name = "imports" THEN disk.imports ELSE Target.imports
  BY ONLY <1>0, <1>1, PutPart
<1>6. /\ op' \in Ops /\ op'.at = "move" /\ op'.id = op.id
      /\ op'.moves = op.moves \ {name} /\ op'.moved = op.moved \union {name}
  BY <1>0, <1>1, <1>2 DEF Ops
<1>7. /\ op.moves \intersect op.moved = {}
      /\ \A n \in Names \ op.moved : Target[n] = Empty[n]
      /\ disk.state # NoState => "state" \in op.moves
      /\ "state" \in op.moves => op.moved = {}
  BY <1>0 DEF StoreInv, Moving
<1>8. name \notin op.moved /\ Target[name] = Empty[name]
  BY <1>1, <1>7
<1>9. /\ Empty.state = NoState /\ Empty.receipts = {} /\ Empty.imports = {}
      /\ name = "receipts" => Target.receipts = {}
  BY <1>8 DEF Empty
<1> HIDE DEF d, t
<1>10. d.state = NoState /\ NoState.id = 0
  BY <1>1, <1>4, <1>7, <1>9 DEF NoState
<1>11. /\ Typed'
       /\ op'.id <= ids' /\ disk'.state.id <= ids'
       /\ \A r \in issued' : r[1] <= ids'
       /\ ReceiptsPreserved'
       /\ \E w \in Ids : Owned(disk', w) /\ Owned(Target', w)
       /\ Pinned(disk)' /\ Pinned(Target)'
       /\ Target'.state.id <= ids'
       /\ backups' # <<>> /\ Target' = t
  <2>1. /\ d.state \in {disk.state, Target.state, NoState}
        /\ t.state \in {disk.state, Target.state, NoState}
        /\ d.receipts \subseteq disk.receipts \union Target.receipts
        /\ t.receipts \subseteq disk.receipts \union Target.receipts
        /\ disk.receipts \union Target.receipts \subseteq d.receipts \union t.receipts
        /\ d.imports \subseteq disk.imports \union Target.imports
        /\ t.imports \subseteq disk.imports \union Target.imports
    BY <1>4, <1>5, <1>9
  <2>2. op.at \in {"move", "undo"} /\ d \in Dir /\ t \in Dir
    BY <1>0, <1>4, <1>5
  <2>3. UNCHANGED <<topic, original, ids, issued, split, faults>>
    BY <1>2
  <2>4. disk' = d
    BY <1>2
  <2> QED BY ONLY StoreInv, <1>1, <1>3, <1>6, <2>1, <2>2, <2>3, <2>4, PartMoved
<1>12. Whole' = Whole
  <2>1. \A n \in Names :
          (IF n \in op'.moved THEN t[n] ELSE d[n])
            = IF n \in op.moved THEN Target[n] ELSE disk[n]
    BY <1>4, <1>5, <1>6, <1>8
  <2>2. disk' = d /\ Target' = t
    BY <1>2, <1>11
  <2> QED BY <2>1, <2>2 DEF Whole
<1>13. Files'
  <2>1. Complete(disk') /\ Recorded(disk)'
    BY <1>2, <1>10 DEF Complete, Recorded
  <2> QED BY <1>11, <2>1 DEF Files
<1>14. Resetting'
  <2>1. \A n \in op'.moved : d[n] = Empty[n]
    BY <1>0, <1>1, <1>4, <1>6 DEF StoreInv, Resetting, Ops
  <2>2. (~split => Complete(Whole) /\ Recorded(Whole))'
    BY <1>0, <1>2, <1>12 DEF StoreInv, Resetting, Recorded
  <2> QED BY <1>2, <1>10, <1>11, <2>1, <2>2 DEF Resetting
<1>15. Moving'
  <2>1. op'.moves \intersect op'.moved = {}
    BY <1>6, <1>7
  <2>2. \A n \in Names \ op'.moved : t[n] = Empty[n]
    BY <1>5, <1>6, <1>7
  <2>3. "state" \notin op'.moves
    BY <1>1, <1>6
  <2> QED BY <1>2, <1>10, <1>11, <2>1, <2>2, <2>3 DEF Moving
<1> QED BY <1>6, <1>11, <1>13, <1>14, <1>15 DEF StoreInv, Fresh, Creating,
           Importing, Completing, Repairing

LEMMA ResetDoneStep == StoreInv /\ ResetDone => StoreInv'
  BY FinishStep DEF ResetDone, StoreInv, Typed

LEMMA ResetFailsStep == StoreInv /\ ResetFails => StoreInv'
<1> SUFFICES ASSUME StoreInv, ResetFails PROVE StoreInv'
  OBVIOUS
<1>1. /\ Typed /\ op.at = "move" /\ op \in Ops /\ Goto("undo")
      /\ faults' \in 0 .. MaxFaults
      /\ UNCHANGED <<disk, backups, topic, original, ids, issued, split>>
  BY DEF StoreInv, Typed, ResetFails, At, Fault
<1>2. op' \in Ops /\ op'.at = "undo" /\ op'.id = op.id /\ op'.moved = op.moved
  BY <1>1, GotoOp DEF Phases
<1>3. Typed'
  BY <1>1, <1>2 DEF Typed
<1>4. Files'
  <2>1. op'.id <= ids' /\ ids <= ids' /\ ids' \in Nat
    BY <1>1, <1>2, SameNumbers
  <2> QED BY <1>1, <2>1, FilesStay
<1>5. Resetting'
  <2>1. Target' = Target /\ Whole' = Whole
    BY <1>1, <1>2 DEF Target, Whole, Last
  <2> QED BY <1>1, <1>2, <2>1 DEF StoreInv, Resetting, Pinned, Recorded
<1> QED BY <1>2, <1>3, <1>4, <1>5 DEF StoreInv, Fresh, Creating, Importing,
           Completing, Repairing, Moving

LEMMA ResetUndoStep == StoreInv /\ ResetUndo => StoreInv'
<1> SUFFICES ASSUME StoreInv, ResetUndo PROVE StoreInv'
  OBVIOUS
<1> DEFINE name == UndoNext
           d == [disk EXCEPT ![name] = Target[name]]
           t == [Target EXCEPT ![name] = Empty[name]]
<1>0. /\ op.at = "undo" /\ op \in Ops /\ disk \in Dir /\ op.moved # {}
      /\ Empty \in Dir /\ Target \in Dir /\ Last \in DOMAIN backups
      /\ Target = backups[Last]
  BY EmptyDir, TargetDir DEF StoreInv, Typed, ResetUndo, At
<1>1. /\ name \in op.moved /\ name \in Names
      /\ name = "state" => op.moved = {"state"}
  BY <1>0, UndoNextLast DEF Ops
<1>2. /\ disk' = [disk EXCEPT ![name] = backups[Last][name]]
      /\ backups' = [backups EXCEPT ![Last][name] = Empty[name]]
      /\ op' = Undone(name)
      /\ UNCHANGED <<topic, original, ids, issued, split, faults>>
  BY Zenon DEF ResetUndo
<1> HIDE DEF name
<1>3. backups' = [backups EXCEPT ![Last] = t] /\ disk' = d
  BY <1>0, <1>2
<1>4. /\ d \in Dir /\ \A m \in Names : d[m] = IF m = name THEN Target[m] ELSE disk[m]
      /\ d.state = IF name = "state" THEN Target.state ELSE disk.state
      /\ d.receipts = IF name = "receipts" THEN Target.receipts ELSE disk.receipts
      /\ d.imports = IF name = "imports" THEN Target.imports ELSE disk.imports
  BY ONLY <1>0, <1>1, PutPart
<1>5. /\ t \in Dir /\ \A m \in Names : t[m] = IF m = name THEN Empty[m] ELSE Target[m]
      /\ t.state = IF name = "state" THEN Empty.state ELSE Target.state
      /\ t.receipts = IF name = "receipts" THEN Empty.receipts ELSE Target.receipts
      /\ t.imports = IF name = "imports" THEN Empty.imports ELSE Target.imports
  BY ONLY <1>0, <1>1, PutPart
<1>6. /\ op' \in Ops /\ op'.at = "undo" /\ op'.id = op.id
      /\ op'.moved = op.moved \ {name}
  BY <1>0, <1>1, <1>2 DEF Ops, Undone
<1>7. /\ \A n \in op.moved : disk[n] = Empty[n]
      /\ ~split /\ disk.state # NoState => op.moved = {}
  BY <1>0 DEF StoreInv, Resetting
<1>8. /\ Empty.state = NoState /\ Empty.receipts = {} /\ Empty.imports = {}
      /\ name = "receipts" => disk.receipts = {}
  <2>1. Empty.state = NoState /\ Empty.receipts = {} /\ Empty.imports = {}
    BY DEF Empty
  <2>2. name = "receipts" => disk.receipts = Empty.receipts
    BY <1>1, <1>7
  <2> QED BY <2>1, <2>2
<1> HIDE DEF d, t
<1>9. /\ Typed'
      /\ op'.id <= ids' /\ disk'.state.id <= ids'
      /\ \A r \in issued' : r[1] <= ids'
      /\ ReceiptsPreserved'
      /\ \E w \in Ids : Owned(disk', w) /\ Owned(Target', w)
      /\ Pinned(disk)' /\ Pinned(Target)'
      /\ Target'.state.id <= ids'
      /\ backups' # <<>> /\ Target' = t
  <2>1. /\ d.state \in {disk.state, Target.state, NoState}
        /\ t.state \in {disk.state, Target.state, NoState}
        /\ d.receipts \subseteq disk.receipts \union Target.receipts
        /\ t.receipts \subseteq disk.receipts \union Target.receipts
        /\ disk.receipts \union Target.receipts \subseteq d.receipts \union t.receipts
        /\ d.imports \subseteq disk.imports \union Target.imports
        /\ t.imports \subseteq disk.imports \union Target.imports
    BY <1>4, <1>5, <1>8
  <2>2. op.at \in {"move", "undo"} /\ d \in Dir /\ t \in Dir
    BY <1>0, <1>4, <1>5
  <2>3. UNCHANGED <<topic, original, ids, issued, split, faults>>
    BY <1>2
  <2> QED BY ONLY StoreInv, <1>1, <1>3, <1>6, <2>1, <2>2, <2>3, PartMoved
<1>10. Whole' = Whole
  <2>1. \A n \in Names :
          (IF n \in op'.moved THEN t[n] ELSE d[n])
            = IF n \in op.moved THEN Target[n] ELSE disk[n]
    BY <1>1, <1>4, <1>5, <1>6
  <2>2. disk' = d /\ Target' = t
    BY <1>3, <1>9
  <2> QED BY <2>1, <2>2 DEF Whole
<1>11. (~split => Complete(Whole) /\ Recorded(Whole))'
  BY <1>0, <1>2, <1>10 DEF StoreInv, Resetting, Recorded
<1>12. ~split /\ d.state # NoState => op'.moved = {}
  BY <1>1, <1>4, <1>6, <1>7
<1>13. (~split => Complete(disk) /\ Recorded(disk))'
  <2>1. CASE op'.moved = {}
    <3>1. Whole' = [n \in Names |-> d[n]]
      BY <2>1, <1>3 DEF Whole
    <3>2. /\ Whole'.state = disk'.state /\ Whole'.receipts = disk'.receipts
          /\ Whole'.imports = disk'.imports
      BY <3>1, <1>3 DEF Names
    <3> SUFFICES ASSUME ~split' PROVE Complete(disk') /\ Recorded(disk)'
      OBVIOUS
    <3>3. Complete(Whole') /\ Recorded(Whole)'
      BY <1>11
    <3>4. Complete(disk')
      BY <3>2, <3>3 DEF Complete
    <3>5. Recorded(disk)'
      BY <3>2, <3>3 DEF Recorded
    <3> QED BY <3>4, <3>5
  <2>2. CASE op'.moved # {}
    <3> SUFFICES ASSUME ~split' PROVE disk'.state.id = 0
      BY DEF Complete, Recorded
    <3>1. disk' = d /\ ~split
      BY <1>2, <1>3
    <3>2. d.state = NoState
      BY <1>12, <2>2, <3>1
    <3> QED BY <3>1, <3>2 DEF NoState
  <2> QED BY <2>1, <2>2
<1>14. Files'
  BY <1>9, <1>13 DEF Files
<1>15. Resetting'
  <2>1. \A n \in op'.moved : d[n] = Empty[n]
    BY <1>0, <1>4, <1>6, <1>7 DEF Ops
  <2>2. ~split' /\ disk'.state # NoState => op'.moved = {}
    BY <1>2, <1>3, <1>12
  <2> QED BY <1>3, <1>9, <1>11, <2>1, <2>2 DEF Resetting
<1> QED BY <1>6, <1>9, <1>14, <1>15 DEF StoreInv, Fresh, Creating,
           Importing, Completing, Repairing, Moving

LEMMA ResetUndoFailsStep == StoreInv /\ ResetUndoFails => StoreInv'
<1> SUFFICES ASSUME StoreInv, ResetUndoFails PROVE StoreInv'
  OBVIOUS
<1>1. /\ Typed /\ op.at = "undo" /\ op \in Ops /\ op' = Undone(UndoNext)
      /\ split' = TRUE /\ faults' \in 0 .. MaxFaults
      /\ UNCHANGED <<disk, backups, topic, original, ids, issued>>
  BY DEF StoreInv, Typed, ResetUndoFails, At, Fault
<1>2. /\ op' \in Ops /\ op'.at = "undo" /\ op'.id = op.id
      /\ op'.moved = op.moved \ {UndoNext}
  BY <1>1 DEF Ops, Undone
<1>3. Typed'
  BY <1>1, <1>2 DEF Typed
<1>4. Files'
  <2>1. (/\ op.id <= ids /\ disk.state.id <= ids
         /\ \A r \in issued : r[1] <= ids)'
    BY <1>1, <1>2 DEF StoreInv, Files
  <2>2. ReceiptsPreserved'
    BY <1>1 DEF StoreInv, Files, ReceiptsPreserved
  <2>3. (\E w \in Ids : Owned(disk, w))' /\ Pinned(disk)'
    BY <1>1 DEF StoreInv, Files, Pinned
  <2> QED BY <1>1, <2>1, <2>2, <2>3 DEF Files
<1>5. Resetting'
  <2>1. Target' = Target
    BY <1>1 DEF Target, Last
  <2> QED BY <1>1, <1>2, <2>1 DEF StoreInv, Resetting, Pinned
<1> QED BY <1>2, <1>3, <1>4, <1>5 DEF StoreInv, Fresh, Creating, Importing,
           Completing, Repairing, Moving

LEMMA ResetUndoneStep == StoreInv /\ ResetUndone => StoreInv'
<1> SUFFICES ASSUME StoreInv, ResetUndone PROVE StoreInv'
  OBVIOUS
<1>0. /\ op.at = "undo" /\ Typed /\ Target = backups[Last]
      /\ backups \in Seq(Dir) /\ backups # <<>> /\ Last = Len(backups)
  BY TargetDir DEF StoreInv, Typed, ResetUndone, At
<1>1. /\ op' = Idle
      /\ backups' = IF backups[Last] = Empty THEN SubSeq(backups, 1, Last - 1)
                                             ELSE backups
      /\ UNCHANGED <<disk, topic, original, ids, issued, split, faults>>
  BY Zenon DEF ResetUndone, Finish
<1>2. op' \in Ops /\ op'.at = "idle" /\ op'.id = 0
  BY <1>1, IdleOp DEF Idle
<1>3. /\ backups' \in Seq(Dir)
      /\ \A i \in DOMAIN backups :
           i # Last \/ backups[i] # Empty =>
             i \in DOMAIN backups' /\ backups'[i] = backups[i]
  <2>1. CASE backups[Last] = Empty
    <3>1. backups' = SubSeq(backups, 1, Len(backups) - 1)
      BY <1>0, <1>1, <2>1
    <3> QED BY <1>0, <2>1, <3>1, DropLast
  <2>2. CASE backups[Last] # Empty
    BY <1>0, <1>1, <2>2
  <2> QED BY <2>1, <2>2
<1>4. Typed'
  BY <1>0, <1>1, <1>2, <1>3 DEF Typed
<1>5. Files'
  <2>1. (/\ op.id <= ids /\ disk.state.id <= ids
         /\ \A r \in issued : r[1] <= ids)'
    BY <1>0, <1>1, <1>2 DEF StoreInv, Files, Typed
  <2>2. ReceiptsPreserved'
    <3>1. Empty.receipts = {}
      BY DEF Empty
    <3>2. \A i \in DOMAIN backups, r \in issued :
            r \in backups[i].receipts =>
              i \in DOMAIN backups' /\ r \in backups'[i].receipts
      BY <1>3, <3>1
    <3> QED BY <1>1, <3>2 DEF StoreInv, Files, ReceiptsPreserved
  <2>3. (\E w \in Ids : Owned(disk, w))' /\ Pinned(disk)'
    BY <1>1 DEF StoreInv, Files, Pinned
  <2>4. (~split => Complete(disk) /\ Recorded(disk))'
    BY <1>1 DEF StoreInv, Files, Recorded
  <2> QED BY <2>1, <2>2, <2>3, <2>4 DEF Files
<1> QED BY <1>2, <1>4, <1>5, Ends

-----------------------------------------------------------------------------
(* The theorems                                                            *)

LEMMA StoreStep == StoreInv /\ [Next]_vars => StoreInv'
<1> SUFFICES ASSUME StoreInv, [Next]_vars PROVE StoreInv'
  OBVIOUS
<1>1. CASE Create
  BY <1>1, InitTopicStep, InitTopicPublishedStep, InitStateStep,
     InitStateFailsStep DEF Create
<1>2. CASE Import
  <2>1. ASSUME NEW p \in 0 .. TotalSteps, ImportMetadata(p) PROVE StoreInv'
    BY <2>1, ImportMetadataStep
  <2> QED BY <1>2, <2>1, ImportStartStep, ImportSnapshotStep,
             ImportReceiptStep, ImportStateStep, ImportRejectedStep,
             ImportWriteFailsStep, ImportUnsafeStep, ImportErrorStep,
             ImportErrorPublishedStep DEF Import
<1>3. CASE Work
  <2>1. ASSUME NEW n \in {disk.state.done, Cardinality(Backed)}, Mutate(n)
        PROVE  StoreInv'
    BY <2>1, MutateStep
  <2> QED BY <1>3, <2>1, CompleteReceiptStep, CompleteStateStep DEF Work
<1>4. CASE Repair
  BY <1>4, RepairStartStep, RepairCopyStep, RepairTopicStep, RepairStateStep
     DEF Repair
<1>5. CASE Reset
  BY <1>5, ResetStartStep, ResetMoveStep, ResetDoneStep, ResetFailsStep,
     ResetUndoStep, ResetUndoFailsStep, ResetUndoneStep DEF Reset
<1>6. CASE UNCHANGED vars
  <2>1. UNCHANGED <<disk, backups, topic, original, op, ids, issued, split, faults>>
    BY <1>6 DEF vars
  <2>2. Target' = Target /\ Whole' = Whole /\ Active(disk)' = Active(disk)
    <3>1. Last' = Last
      BY <2>1 DEF Last
    <3>2. Target' = Target
      BY <2>1, <3>1 DEF Target
    <3>3. Whole' = Whole
      BY <2>1, <3>2 DEF Whole
    <3> QED BY <2>1, <3>2, <3>3
  <2>3. Typed' /\ Fresh' /\ Creating' /\ Completing' /\ Repairing'
    BY <2>1, <2>2 DEF StoreInv, Typed, Fresh, Creating, Completing, Repairing
  <2>6. Importing'
    <3>1. Owned(disk, op.id)' <=> Owned(disk, op.id)
      BY <2>1 DEF Owned
    <3> QED BY <2>1, <3>1 DEF StoreInv, Importing
  <2>4. Files'
    BY <2>1 DEF StoreInv, Files, ReceiptsPreserved, Owned, Pinned, Complete,
                Recorded
  <2>5. Resetting' /\ Moving'
    BY <2>1, <2>2 DEF StoreInv, Resetting, Moving, Owned, Pinned, Complete,
                      Recorded
  <2> QED BY <2>3, <2>4, <2>5, <2>6 DEF StoreInv
<1> QED BY <1>1, <1>2, <1>3, <1>4, <1>5, <1>6, AppendEventsStep, CrashStep
           DEF Next

(* What every operation of the state manager relies on between two of its  *)
(* writes, and what a reset can still move back.                           *)
THEOREM StoreInvariant == Spec => []StoreInv
  BY StoreInit, StoreStep, PTL DEF Spec

(* The files, the operation under way and the counters keep their types    *)
(* whatever is written, however the operation ends.                        *)
THEOREM StoreTypeOK == Spec => []TypeOK
<1>1. StoreInv => TypeOK
  <2> SUFFICES ASSUME StoreInv PROVE TypeOK
    OBVIOUS
  <2>1. Typed
    BY DEF StoreInv
  <2>2. \A i \in DOMAIN backups : backups[i] \in Dir
    BY <2>1 DEF Typed
  <2>3. op.id \in 0 .. MaxIds /\ op.prefix \in 0 .. TotalSteps
    BY <2>1 DEF Typed, Ops
  <2> QED BY <2>1, <2>2, <2>3 DEF TypeOK, Typed
<1> QED BY <1>1, StoreInvariant, PTL

(* A state on disk has the receipts of its completed steps and its         *)
(* imported sources beside it, wherever an import, a completion, a reset   *)
(* or the undo of a reset was cut off.                                     *)
THEOREM StateIsComplete == Spec => []StateComplete
<1>1. StoreInv => StateComplete
  <2> SUFFICES ASSUME StoreInv, disk.state.id # 0, ~split
               PROVE  /\ 1 .. disk.state.done \subseteq Backed
                      /\ disk.state.imported =>
                           {disk.state.id} \X {"snapshot", "metadata"}
                             \subseteq disk.imports
    BY DEF StateComplete
  <2>1. /\ \A j \in 1 .. disk.state.done : <<disk.state.id, j>> \in disk.receipts
        /\ disk.state.imported =>
             {disk.state.id} \X {"snapshot", "metadata"} \subseteq disk.imports
    BY DEF StoreInv, Files, Complete
  <2>2. disk.state.done \in 0 .. TotalSteps
    BY DEF StoreInv, Typed, Dir
  <2>3. ASSUME NEW i \in 1 .. disk.state.done PROVE i \in Backed
    <3>1. i \in Steps /\ \A j \in 1 .. i : j \in 1 .. disk.state.done
      BY <2>2
    <3> QED BY <2>1, <3>1 DEF Backed
  <2> QED BY <2>1, <2>3
<1> QED BY <1>1, StoreInvariant, PTL

(* State, receipts and import artifacts on disk belong to one workflow.    *)
THEOREM OnlyOneWorkflow == Spec => []OneWorkflow
<1>1. StoreInv => OneWorkflow
  <2> SUFFICES ASSUME StoreInv PROVE OneWorkflow
    OBVIOUS
  <2>1. PICK w \in Ids : Owned(disk, w)
    BY DEF StoreInv, Files
  <2> QED BY <2>1 DEF Owned, OneWorkflow
<1> QED BY <1>1, StoreInvariant, PTL

(* No published receipt is lost, in the middle of a reset or of its undo   *)
(* either.                                                                 *)
THEOREM ReceiptsAreKept == Spec => []ReceiptsPreserved
<1>1. StoreInv => ReceiptsPreserved
  BY DEF StoreInv, Files
<1> QED BY <1>1, StoreInvariant, PTL

(* The topic text that the state pins is on disk at every point of a       *)
(* repair.                                                                 *)
THEOREM PinnedTopicStays == Spec => []PinnedTopicKept
<1>1. StoreInv => PinnedTopicKept
  BY DEF StoreInv, Files, Pinned, PinnedTopicKept
<1> QED BY <1>1, StoreInvariant, PTL

(* Only an import and a completion publish receipts, and only the undo of  *)
(* a reset brings any back.                                                *)
LEMMA ReceiptsOnlyPublished ==
  ASSUME StoreInv, Next
  PROVE  \/ disk'.receipts \subseteq disk.receipts
         \/ ImportReceipt \/ CompleteReceipt \/ At("undo")
<1>0. disk \in Dir
  BY DEF StoreInv, Typed
<1>1. CASE Create
  <2>1. CASE InitState
    <3> DEFINE s == InitialState(op.id, topic.text)
    <3>1. disk' = [disk EXCEPT !.state = s]
      BY <2>1 DEF InitState
    <3> HIDE DEF s
    <3> QED BY <1>0, <3>1 DEF Dir
  <2>2. CASE UNCHANGED disk
    BY <2>2
  <2> QED BY <1>1, <2>1, <2>2
          DEF Create, InitTopic, InitTopicPublished, InitStateFails
<1>2. CASE Import
  <2>1. CASE UNCHANGED disk
    BY <2>1
  <2>2. CASE ImportSnapshot
    BY <1>0, <2>2 DEF ImportSnapshot, ImportPublish, Dir
  <2>3. ASSUME NEW p \in 0 .. TotalSteps, ImportMetadata(p)
        PROVE  disk'.receipts \subseteq disk.receipts
    BY <1>0, <2>3 DEF ImportMetadata, Dir
  <2>4. CASE ImportState
    <3> DEFINE s == [id |-> op.id, done |-> op.prefix, imported |-> TRUE,
                     topic |-> topic.text]
    <3>1. disk' = [disk EXCEPT !.state = s]
      BY <2>4 DEF ImportState
    <3> HIDE DEF s
    <3> QED BY <1>0, <3>1 DEF Dir
  <2>5. CASE ImportError
    BY <1>0, <2>5 DEF ImportError, Dir
  <2>6. CASE ImportErrorPublished
    BY <1>0, <2>6 DEF ImportErrorPublished, Dir
  <2> QED BY <1>2, <2>1, <2>2, <2>3, <2>4, <2>5, <2>6
          DEF Import, ImportStart, ImportRejected, ImportWriteFails, ImportUnsafe
<1>3. CASE Work
  <2>1. ASSUME NEW n \in {disk.state.done, Cardinality(Backed)}, Mutate(n)
        PROVE  disk'.receipts \subseteq disk.receipts
    BY <1>0, <2>1 DEF Mutate, Dir
  <2>2. CASE CompleteState
    BY <1>0, <2>2 DEF CompleteState, Dir
  <2> QED BY <1>3, <2>1, <2>2 DEF Work
<1>4. CASE Repair
  <2>1. CASE RepairState
    BY <1>0, <2>1 DEF RepairState, Dir
  <2>2. CASE UNCHANGED disk
    BY <2>2
  <2> QED BY <1>4, <2>1, <2>2
          DEF Repair, RepairStart, RepairCopy, RepairTopic
<1>5. CASE Reset
  <2>1. CASE ResetMove
    <3> DEFINE name == MoveNext
    <3>1. disk' = [disk EXCEPT ![name] = Empty[name]]
      BY <2>1 DEF ResetMove
    <3>2. name \in Names
      BY <2>1, MoveNextFirst DEF ResetMove, StoreInv, Typed, Ops
    <3> HIDE DEF name
    <3>3. Empty \in Dir
      BY EmptyDir
    <3>4. disk'.receipts = IF name = "receipts" THEN Empty.receipts
                                                ELSE disk.receipts
      BY ONLY <1>0, <3>1, <3>2, <3>3, PutPart
    <3> QED BY <3>4 DEF Empty
  <2>2. CASE UNCHANGED disk
    BY <2>2
  <2>3. CASE ResetUndo
    BY <2>3 DEF ResetUndo
  <2> QED BY <1>5, <2>1, <2>2, <2>3
          DEF Reset, ResetStart, ResetDone, ResetFails, ResetUndoFails, ResetUndone
<1>6. CASE AppendEvents
  BY <1>0, <1>6 DEF AppendEvents, Dir
<1>7. CASE Crash
  BY <1>7 DEF Crash
<1> QED BY <1>1, <1>2, <1>3, <1>4, <1>5, <1>6, <1>7 DEF Next

(* A step that has its receipt is not completed again, by an import or by  *)
(* a completion that goes on after a crash, a reset or its undo; unless a  *)
(* reset said that it could not be undone.                                 *)
THEOREM NotReissued == Spec => NeverReissued
<1>1. ASSUME StoreInv, [Next]_vars, ~split, ~At("undo")
      PROVE  disk'.receipts \intersect issued \subseteq disk.receipts
  <2>1. CASE disk'.receipts \subseteq disk.receipts
    BY <2>1
  <2>2. CASE UNCHANGED vars
    BY <2>2 DEF vars
  <2>3. CASE ImportReceipt
    <3>1. op.id # 0 /\ \A r \in issued : r[1] = op.id => r \in disk.receipts
      BY <1>1, <2>3 DEF ImportReceipt, At, StoreInv, Fresh
    <3> DEFINE new == <<op.id, Cardinality(Imported(op.id)) + 1>>
    <3>2. disk' = [disk EXCEPT !.receipts = @ \union {new}] /\ new[1] = op.id
      BY <2>3 DEF ImportReceipt
    <3> HIDE DEF new
    <3>3. disk'.receipts = disk.receipts \union {new}
      BY <1>1, <3>2 DEF StoreInv, Typed, Dir
    <3> QED BY <3>1, <3>2, <3>3
  <2>4. CASE CompleteReceipt
    <3>1. /\ disk.state.id # 0 /\ disk' = [disk EXCEPT !.receipts = @ \union {NextReceipt}]
          /\ NextReceipt[1] = disk.state.id
      BY <2>4 DEF CompleteReceipt, NextReceipt
    <3>2. disk'.receipts = disk.receipts \union {NextReceipt}
      BY <1>1, <3>1 DEF StoreInv, Typed, Dir
    <3>3. \A r \in issued : r[1] = disk.state.id => r \in disk.receipts
      BY <1>1, <3>1 DEF StoreInv, Files, Recorded
    <3> QED BY <3>1, <3>2, <3>3
  <2> QED BY <1>1, <2>1, <2>2, <2>3, <2>4, ReceiptsOnlyPublished
<1>2. StoreInv /\ [Next]_vars =>
        [~split /\ ~At("undo") =>
           disk'.receipts \intersect issued \subseteq disk.receipts]_vars
  BY <1>1
<1> QED BY <1>2, StoreInvariant, PTL DEF Spec, NeverReissued
=============================================================================
