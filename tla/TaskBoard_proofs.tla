--------------------------- MODULE TaskBoard_proofs ---------------------------
(***************************************************************************)
(* Proofs about TaskBoard for every number of tasks, of ids that an update *)
(* names and of failed writes.  BlockersOpen is not inductive: a completed *)
(* task may be opened again, so that its dependencies must have been kept  *)
(* clear while it was completed.  Clear says so.                           *)
(***************************************************************************)
EXTENDS TaskBoard, TLAPS, WellFoundedInduction

Files == [status : Statuses \cup {"absent", "torn"}, blockedBy : SUBSET Ids]

\* No readable task, completed or not, waits for another that is completed, except
\* where the dependency was stated too late.
Clear ==
    \A t \in Ids : Readable(t) =>
        \A b \in file[t].blockedBy : Completed(b) /\ b # t => <<t, b>> \in late

\* Only a creation that failed has left a file at or above the next id.
NoGaps == \A t \in Ids : Exists(t) => t <= nextId

IInv == TypeOK /\ NoGaps /\ Clear
-----------------------------------------------------------------------------
(* What the helpers of the model return.                                   *)

LEMMA FileType == TypeOK => file \in [Ids -> Files]
BY DEF TypeOK, Files, Tasks, Absent, Torn, Statuses

\* Clearing keeps the status of every file and adds no dependency.
LEMMA ClearedFiles ==
    ASSUME TypeOK, NEW t \in Ids, NEW S \in SUBSET Ids,
           \A u \in S : Readable(u)
    PROVE  /\ Cleared(t, S) \in [Ids -> Tasks \cup {Absent, Torn}]
           /\ \A u \in Ids :
                 /\ Cleared(t, S)[u].status = file[u].status
                 /\ Cleared(t, S)[u].blockedBy \subseteq file[u].blockedBy
                 /\ u \in S => t \notin Cleared(t, S)[u].blockedBy
<1>1. ASSUME NEW u \in Ids
      PROVE  /\ Cleared(t, S)[u] \in Tasks \cup {Absent, Torn}
             /\ Cleared(t, S)[u].status = file[u].status
             /\ Cleared(t, S)[u].blockedBy \subseteq file[u].blockedBy
             /\ u \in S => t \notin Cleared(t, S)[u].blockedBy
  <2>1. file[u] \in Files
    BY FileType
  <2>2. CASE u \in S
    <3>1. Cleared(t, S)[u] = [file[u] EXCEPT !.blockedBy = @ \ {t}]
      BY <2>2 DEF Cleared
    <3>2. file[u].status \in Statuses
      BY <2>2 DEF Readable
    <3> QED BY <2>1, <3>1, <3>2, <2>2 DEF Files, Tasks
  <2>3. CASE u \notin S
    <3>1. Cleared(t, S)[u] = file[u]
      BY <2>3 DEF Cleared
    <3> QED BY <3>1, <2>3 DEF TypeOK
  <2> QED BY <2>2, <2>3
<1>2. Cleared(t, S) = [u \in Ids |-> Cleared(t, S)[u]]
  BY DEF Cleared
<1> QED BY <1>1, <1>2

LEMMA ChangedTask ==
    ASSUME TypeOK, NEW t \in Ids, Readable(t), NEW status \in Statuses \cup {"same"},
           NEW add \in SUBSET Ids, NEW remove \in SUBSET Ids
    PROVE  Changed(t, status, add, remove) \in Tasks
<1>1. file[t] \in Files /\ file[t].status \in Statuses
  BY FileType DEF Readable
<1> QED BY <1>1 DEF Changed, Files, Tasks, Statuses

LEMMA ToClearReadable ==
    ASSUME NEW t \in Ids, NEW status
    PROVE  ToClear(t, status) \in SUBSET Ids /\ \A u \in ToClear(t, status) : Readable(u)
BY DEF ToClear, Dependants
-----------------------------------------------------------------------------
(* Type correctness.                                                       *)

LEMMA LateType ==
    ASSUME NEW t \in Ids, NEW new \in SUBSET Ids, late \subseteq Ids \X Ids, NoteLate(t, new)
    PROVE  late' \subseteq Ids \X Ids
BY DEF NoteLate

LEMMA CreateTypes ==
    ASSUME TypeOK, NEW deps \in SUBSET Ids, Create(deps) \/ CreateFails(deps)
    PROVE  TypeOK'
<1>1. nextId \in Ids
  BY DEF TypeOK, Create, CreateFails, Ids
<1>2. \E f \in Tasks \cup {Torn} : file' = [file EXCEPT ![nextId] = f]
  <2>1. NewTask(nextId, deps) \in Tasks
    BY <1>1 DEF NewTask, Tasks, Statuses
  <2> QED BY <2>1 DEF Create, CreateFails
<1>3. PICK f \in Tasks \cup {Torn} : file' = [file EXCEPT ![nextId] = f]
  BY <1>2
<1>4. f.status # "absent"
  BY DEF Tasks, Torn, Statuses
<1>5. file' \in [Ids -> Tasks \cup {Absent, Torn}]
  BY <1>1, <1>3 DEF TypeOK
<1>6. \A t \in Ids : t < nextId \/ t = nextId => Exists(t)'
  BY <1>1, <1>3, <1>4 DEF TypeOK, Exists
<1>7. late' \subseteq Ids \X Ids
  BY <1>1, LateType DEF TypeOK, Create, CreateFails
<1>8. faults' \in 0..MaxFaults
  BY TaskAssumption DEF TypeOK, Create, CreateFails, Fault
<1>9. nextId' \in 1..MaxId + 1 /\ (nextId' = nextId \/ nextId' = nextId + 1)
  BY <1>1, TaskAssumption DEF TypeOK, Create, CreateFails, Ids
<1>10. \A t \in Ids : t < nextId' => Exists(t)'
  BY <1>1, <1>6, <1>9 DEF Ids
<1> QED BY <1>5, <1>7, <1>8, <1>9, <1>10 DEF TypeOK

\* The files after an update, whole or broken off.
LEMMA UpdatedFiles ==
    ASSUME TypeOK, NEW t \in Ids, NEW status \in Statuses \cup {"same"},
           NEW add \in SUBSET Ids, NEW remove \in SUBSET Ids,
           Update(t, status, add, remove) \/ UpdateFails(t, status, add, remove)
    PROVE  \E S \in SUBSET ToClear(t, status) :
              \/ /\ Update(t, status, add, remove)
                 /\ S = ToClear(t, status)
                 /\ file' = [Cleared(t, S) EXCEPT ![t] = Changed(t, status, add, remove)]
              \/ /\ UpdateFails(t, status, add, remove)
                 /\ \/ file' = Cleared(t, S)
                    \/ \E u \in Ids : Readable(u) /\ file' = [Cleared(t, S) EXCEPT ![u] = Torn]
<1>1. CASE Update(t, status, add, remove)
  BY <1>1 DEF Update
<1>2. CASE UpdateFails(t, status, add, remove)
  <2>1. Readable(t)
    BY <1>2 DEF UpdateFails
  <2>2. PICK done \in SUBSET ToClear(t, status) :
           \/ file' = Cleared(t, done)
           \/ \E u \in IF done = ToClear(t, status) THEN {t} ELSE ToClear(t, status) \ done :
                 file' = [Cleared(t, done) EXCEPT ![u] = Torn]
    BY <1>2 DEF UpdateFails
  <2>3. \A u \in IF done = ToClear(t, status) THEN {t} ELSE ToClear(t, status) \ done :
           u \in Ids /\ Readable(u)
    BY <2>1, ToClearReadable
  <2> QED BY <1>2, <2>2, <2>3
<1> QED BY <1>1, <1>2

LEMMA UpdateTypes ==
    ASSUME TypeOK, NEW t \in Ids, NEW status \in Statuses \cup {"same"},
           NEW add \in SUBSET Ids, NEW remove \in SUBSET Ids,
           Update(t, status, add, remove) \/ UpdateFails(t, status, add, remove)
    PROVE  TypeOK'
<1>1. Readable(t)
  BY DEF Update, UpdateFails
<1>2. PICK S \in SUBSET ToClear(t, status) :
         \/ file' = [Cleared(t, S) EXCEPT ![t] = Changed(t, status, add, remove)]
         \/ file' = Cleared(t, S)
         \/ \E u \in Ids : Readable(u) /\ file' = [Cleared(t, S) EXCEPT ![u] = Torn]
  BY UpdatedFiles
<1>3. /\ Cleared(t, S) \in [Ids -> Tasks \cup {Absent, Torn}]
      /\ \A u \in Ids : Cleared(t, S)[u].status = file[u].status
  BY ToClearReadable, ClearedFiles
<1>4. Changed(t, status, add, remove) \in Tasks
  BY <1>1, ChangedTask
<1>5. file' \in [Ids -> Tasks \cup {Absent, Torn}]
  BY <1>2, <1>3, <1>4
<1>6. /\ Changed(t, status, add, remove).status # "absent"
      /\ Torn.status # "absent"
  BY <1>4 DEF Tasks, Statuses, Torn
<1>7. \A u \in Ids : Exists(u) => Exists(u)'
  BY <1>2, <1>3, <1>6 DEF Exists
<1>8. nextId' = nextId /\ faults' \in 0..MaxFaults
  BY TaskAssumption DEF TypeOK, Update, UpdateFails, Fault
<1>9. late' \subseteq Ids \X Ids
  <2>1. NoteLate(t, add \ remove) \/ NoteLate(t, {})
    BY DEF Update, UpdateFails
  <2> QED BY <2>1, LateType DEF TypeOK
<1> QED BY <1>5, <1>7, <1>8, <1>9 DEF TypeOK

LEMMA ReopenTypes ==
    ASSUME TypeOK, NoGaps, Reopen
    PROVE  TypeOK' /\ NoGaps'
<1> USE TaskAssumption
<1>1. nextId \in Nat /\ MaxId \in Nat /\ \A t \in Ids : t \in Nat \ {0} /\ t <= MaxId
  BY DEF TypeOK, Ids
<1>2. UNCHANGED <<file, late, faults>>
  BY DEF Reopen
<1>3. CASE \E n \in Ids : MaxFile(n)
  <2>1. PICK n \in Ids : MaxFile(n) /\ nextId' = 1 + n
    BY <1>3 DEF Reopen
  <2>2. n <= nextId
    BY <2>1 DEF MaxFile, NoGaps
  <2>3. \A t \in Ids : t < nextId' => Exists(t)
    BY <1>1, <2>1, <2>2 DEF MaxFile, TypeOK
  <2>4. nextId' \in 1..MaxId + 1
    BY <1>1, <2>1
  <2>5. TypeOK'
    BY <1>2, <2>3, <2>4 DEF TypeOK, Exists
  <2>6. NoGaps'
    BY <1>1, <1>2, <2>1 DEF NoGaps, MaxFile, Exists
  <2> QED BY <2>5, <2>6
<1>4. CASE ~\E n \in Ids : MaxFile(n)
  <2>1. nextId' = 1
    BY <1>4 DEF Reopen
  <2>2. SUFFICES ASSUME NEW t \in Ids, Exists(t) PROVE FALSE
    BY <1>1, <1>2, <2>1 DEF TypeOK, NoGaps, Exists
  <2>3. CASE nextId \in Ids /\ Exists(nextId)
    BY <1>4, <2>3 DEF NoGaps, MaxFile
  <2>4. CASE ~(nextId \in Ids /\ Exists(nextId))
    <3>1. t < nextId
      BY <1>1, <2>2, <2>4 DEF NoGaps
    <3>2. nextId - 1 \in Ids
      BY <1>1, <3>1 DEF TypeOK, Ids
    <3>3. Exists(nextId - 1)
      BY <1>1, <3>2 DEF TypeOK
    <3>4. \A u \in Ids : Exists(u) => u <= nextId - 1
      BY <1>1, <2>4 DEF NoGaps
    <3> QED BY <1>4, <3>2, <3>3, <3>4 DEF MaxFile
  <2> QED BY <2>3, <2>4
<1> QED BY <1>3, <1>4

\* No other action makes a file beyond the one of the next id.
LEMMA NoGapsKept ==
    /\ \A deps \in SUBSET Ids :
          TypeOK /\ NoGaps /\ (Create(deps) \/ CreateFails(deps)) => NoGaps'
    /\ \A t \in Ids, status \in Statuses \cup {"same"} :
          \A add, remove \in SUBSET Ids :
             /\ TypeOK /\ NoGaps
             /\ Update(t, status, add, remove) \/ UpdateFails(t, status, add, remove)
             => NoGaps'
<1>1. ASSUME NEW deps \in SUBSET Ids, TypeOK, NoGaps, Create(deps) \/ CreateFails(deps)
      PROVE  NoGaps'
  <2>1. /\ nextId \in Nat /\ (nextId' = nextId \/ nextId' = nextId + 1)
        /\ \A t \in Ids : t \in Nat
    BY <1>1, TaskAssumption DEF TypeOK, Create, CreateFails, Ids
  <2>2. \A t \in Ids : t # nextId => file'[t] = file[t]
    BY <1>1 DEF TypeOK, Create, CreateFails
  <2> QED BY <1>1, <2>1, <2>2 DEF NoGaps, Exists
<1>2. ASSUME NEW t \in Ids, NEW status \in Statuses \cup {"same"},
             NEW add \in SUBSET Ids, NEW remove \in SUBSET Ids, TypeOK, NoGaps,
             Update(t, status, add, remove) \/ UpdateFails(t, status, add, remove)
      PROVE  NoGaps'
  <2>1. PICK S \in SUBSET ToClear(t, status) :
           \/ /\ Update(t, status, add, remove)
              /\ S = ToClear(t, status)
              /\ file' = [Cleared(t, S) EXCEPT ![t] = Changed(t, status, add, remove)]
           \/ /\ UpdateFails(t, status, add, remove)
              /\ \/ file' = Cleared(t, S)
                 \/ \E v \in Ids : Readable(v) /\ file' = [Cleared(t, S) EXCEPT ![v] = Torn]
    BY <1>2, UpdatedFiles
  <2>2. /\ Cleared(t, S) \in [Ids -> Tasks \cup {Absent, Torn}]
        /\ \A u \in Ids : Cleared(t, S)[u].status = file[u].status
    BY <1>2, ToClearReadable, ClearedFiles
  <2>3. Readable(t)
    BY <1>2 DEF Update, UpdateFails
  <2>4. \A u \in Ids : Exists(u)' => Exists(u)
    BY <2>1, <2>2, <2>3 DEF Exists, Readable, Statuses
  <2>5. nextId' = nextId
    BY <1>2 DEF Update, UpdateFails
  <2> QED BY <1>2, <2>4, <2>5 DEF NoGaps
<1> QED BY <1>1, <1>2
-----------------------------------------------------------------------------
(* Completed tasks hold nothing up.                                        *)

LEMMA CreateClear ==
    ASSUME TypeOK, Clear, NEW deps \in SUBSET Ids, Create(deps) \/ CreateFails(deps)
    PROVE  Clear'
<1>1. nextId \in Ids
  BY DEF TypeOK, Create, CreateFails, Ids
<1>2. SUFFICES ASSUME NEW u \in Ids, Readable(u)', NEW b \in file'[u].blockedBy,
                      Completed(b)', b # u
               PROVE  <<u, b>> \in late'
  BY DEF Clear
<1>3. \A v \in Ids : v # nextId => file'[v] = file[v]
  BY <1>1 DEF TypeOK, Create, CreateFails
<1>4. file'[nextId].status \in {"pending", "torn"}
  BY <1>1 DEF TypeOK, Create, CreateFails, NewTask, Torn
<1>5. file' \in [Ids -> Files]
  <2>1. file' \in [Ids -> Tasks \cup {Absent, Torn}]
    BY CreateTypes DEF TypeOK
  <2> QED BY <2>1 DEF Files, Tasks, Absent, Torn, Statuses
<1>6. b \in Ids /\ b # nextId /\ Completed(b)
  BY <1>2, <1>3, <1>4, <1>5 DEF Completed, Files
<1>7. CASE u = nextId
  <2>1. Create(deps) /\ b \in deps
    BY <1>1, <1>2, <1>7 DEF TypeOK, Create, CreateFails, NewTask, Torn, Readable, Statuses
  <2> QED BY <1>2, <1>6, <1>7, <2>1 DEF Create, NoteLate, Completed
<1>8. CASE u # nextId
  <2>1. <<u, b>> \in late
    BY <1>2, <1>3, <1>6, <1>8 DEF Clear, Readable
  <2> QED BY <1>2, <2>1 DEF Create, CreateFails, NoteLate, Completed
<1> QED BY <1>7, <1>8

LEMMA UpdateClear ==
    ASSUME TypeOK, Clear, NEW t \in Ids, NEW status \in Statuses \cup {"same"},
           NEW add \in SUBSET Ids, NEW remove \in SUBSET Ids,
           Update(t, status, add, remove) \/ UpdateFails(t, status, add, remove)
    PROVE  Clear'
<1>1. SUFFICES ASSUME NEW u \in Ids, Readable(u)', NEW b \in file'[u].blockedBy,
                      Completed(b)', b # u
               PROVE  <<u, b>> \in late'
  BY DEF Clear
<1>2. PICK S \in SUBSET ToClear(t, status) :
         \/ /\ Update(t, status, add, remove)
            /\ S = ToClear(t, status)
            /\ file' = [Cleared(t, S) EXCEPT ![t] = Changed(t, status, add, remove)]
         \/ /\ UpdateFails(t, status, add, remove)
            /\ \/ file' = Cleared(t, S)
               \/ \E v \in Ids : Readable(v) /\ file' = [Cleared(t, S) EXCEPT ![v] = Torn]
  BY UpdatedFiles
<1>3. /\ Cleared(t, S) \in [Ids -> Tasks \cup {Absent, Torn}]
      /\ \A v \in Ids :
            /\ Cleared(t, S)[v].status = file[v].status
            /\ Cleared(t, S)[v].blockedBy \subseteq file[v].blockedBy
            /\ v \in S => t \notin Cleared(t, S)[v].blockedBy
  BY ToClearReadable, ClearedFiles
<1>4. Readable(t) /\ Changed(t, status, add, remove) \in Tasks
  BY ChangedTask DEF Update, UpdateFails
<1>5. TypeOK'
  BY UpdateTypes
<1>6. b \in Ids
  BY <1>1, <1>5 DEF TypeOK, Tasks, Absent, Torn
<1>7. SUFFICES <<u, b>> \in late \/ (Update(t, status, add, remove) /\ u = t /\ b \in add \ remove)
  BY <1>1 DEF Update, UpdateFails, NoteLate, Completed
<1>8. CASE UpdateFails(t, status, add, remove)
             /\ (\/ file' = Cleared(t, S)
                 \/ \E v \in Ids : Readable(v) /\ file' = [Cleared(t, S) EXCEPT ![v] = Torn])
  <2>1. \A v \in Ids : file'[v] = Cleared(t, S)[v] \/ file'[v] = Torn
    BY <1>3, <1>8
  <2>2. Readable(u) /\ b \in file[u].blockedBy /\ Completed(b)
    BY <1>1, <1>3, <1>6, <2>1 DEF Readable, Completed, Torn, Statuses
  <2> QED BY <1>1, <2>2 DEF Clear
<1>9. CASE /\ Update(t, status, add, remove)
           /\ S = ToClear(t, status)
           /\ file' = [Cleared(t, S) EXCEPT ![t] = Changed(t, status, add, remove)]
  <2>1. /\ file'[t] = Changed(t, status, add, remove)
        /\ \A v \in Ids : v # t => file'[v] = Cleared(t, S)[v]
    BY <1>3, <1>9
  <2>2. CASE u = t
    <3>1. Completed(b)
      BY <1>1, <1>3, <1>6, <2>1, <2>2 DEF Completed
    <3>2. b \in (file[t].blockedBy \cup add) \ remove
      BY <1>1, <2>1, <2>2 DEF Changed
    <3> QED BY <1>1, <1>4, <1>9, <2>2, <3>1, <3>2 DEF Clear
  <2>3. CASE u # t
    <3>1. Readable(u) /\ b \in file[u].blockedBy
      BY <1>1, <1>3, <2>1, <2>3 DEF Readable
    <3>2. CASE b # t
      BY <1>1, <1>3, <1>6, <2>1, <3>1, <3>2 DEF Clear, Completed
    <3>3. CASE b = t
      <4>1. u \notin S
        BY <1>1, <1>3, <2>1, <2>3, <3>3
      <4>2. status # "completed"
        BY <1>9, <3>1, <3>3, <4>1 DEF ToClear, Dependants
      <4>3. Completed(t)
        BY <1>1, <2>1, <3>3, <4>2 DEF Changed, Completed
      <4> QED BY <1>1, <3>1, <3>3, <4>3 DEF Clear
    <3> QED BY <3>2, <3>3
  <2> QED BY <2>2, <2>3
<1> QED BY <1>2, <1>8, <1>9
-----------------------------------------------------------------------------
(* The theorems.                                                           *)

LEMMA Inductive == Init /\ [][Next]_vars => []IInv
<1>1. Init => IInv
  <2>1. SUFFICES ASSUME Init PROVE IInv
    OBVIOUS
  <2>2. \A t \in Ids : file[t] = Absent
    BY <2>1 DEF Init
  <2>3. TypeOK
    BY <2>1, <2>2, TaskAssumption DEF Init, TypeOK, Ids
  <2>4. NoGaps /\ Clear
    BY <2>2 DEF NoGaps, Clear, Exists, Readable, Absent, Statuses
  <2> QED BY <2>3, <2>4 DEF IInv
<1>2. IInv /\ [Next]_vars => IInv'
  <2>1. SUFFICES ASSUME IInv, [Next]_vars PROVE IInv'
    OBVIOUS
  <2>2. ASSUME NEW deps \in SUBSET Ids, Create(deps) \/ CreateFails(deps) PROVE IInv'
    BY <2>1, <2>2, CreateTypes, NoGapsKept, CreateClear DEF IInv
  <2>3. ASSUME NEW t \in Ids, NEW status \in Statuses \cup {"same"},
               NEW add \in SUBSET Ids, NEW remove \in SUBSET Ids,
               Update(t, status, add, remove) \/ UpdateFails(t, status, add, remove)
        PROVE  IInv'
    BY <2>1, <2>3, UpdateTypes, NoGapsKept, UpdateClear DEF IInv
  <2>4. CASE Reopen
    <3>1. Clear'
      BY <2>1, <2>4 DEF IInv, Clear, Reopen, Readable, Completed
    <3> QED BY <2>1, <2>4, <3>1, ReopenTypes DEF IInv
  <2>5. CASE UNCHANGED vars
    BY <2>1, <2>5 DEF vars, IInv, TypeOK, NoGaps, Clear, Exists, Readable, Completed
  <2> QED BY <2>1, <2>2, <2>3, <2>4, <2>5 DEF Next
<1> QED BY <1>1, <1>2, PTL

\* Whatever writes fail, the files of the tasks and the next id stay what the
\* manager takes them for.
THEOREM TypeCorrect == Spec => []TypeOK
<1>1. IInv => TypeOK
  BY DEF IInv
<1> QED BY <1>1, Inductive, PTL DEF Spec

\* The completion of a task releases all that wait for it, for any number of tasks
\* and failed writes.
THEOREM CompletedHoldNothing == Spec => []BlockersOpen
<1>1. IInv => BlockersOpen
  BY DEF IInv, Clear, BlockersOpen, Open
<1> QED BY <1>1, Inductive, PTL DEF Spec

\* A board on which every dependency points to an earlier task never runs dry: the
\* unfinished task with the lowest id waits for nothing.
THEOREM NeverRunsDry == Spec => []SomethingReady
<1>1. IInv => SomethingReady
  <2>1. SUFFICES ASSUME IInv, InOrder, late = {}, \A t \in Ids : file[t] # Torn,
                        NEW w \in Ids, Open(w)
                 PROVE  \E t \in Ids : Open(t) /\ file[t].blockedBy = {}
    BY DEF SomethingReady
  <2> DEFINE Opens == {t \in Ids : Open(t)}
  <2>2. Opens \subseteq Nat /\ w \in Opens
    BY <2>1, TaskAssumption DEF Ids
  <2>3. PICK m \in Opens : \A u \in Opens : m <= u
    <3>1. IsWellFoundedOn(OpToRel(<, Nat), Nat)
      BY NatLessThanWellFounded
    <3>2. PICK m \in Opens : \A u \in Opens : ~(<<u, m>> \in OpToRel(<, Nat))
      BY <2>2, <3>1, WFMin
    <3>3. \A u \in Opens : <<u, m>> \in OpToRel(<, Nat) <=> u < m
      BY <2>2 DEF OpToRel
    <3>4. \A u \in Opens : ~(u < m)
      BY <3>2, <3>3
    <3>5. \A u \in Opens : u \in Nat /\ m \in Nat
      BY <2>2
    <3>6. \A u \in Opens : m <= u
      BY <3>4, <3>5
    <3> QED BY <3>6
  <2>4. m \in Ids /\ Open(m) /\ m \in Nat
    BY <2>2, <2>3
  <2>5. ASSUME NEW b \in file[m].blockedBy PROVE FALSE
    <3>1. b \in Ids /\ b < m
      BY <2>1, <2>4, <2>5 DEF InOrder, IInv, TypeOK, Tasks, Absent, Torn
    <3>2. ~Completed(b)
      BY <2>1, <2>4, <2>5, <3>1 DEF IInv, Clear, Open
    <3>3. ~Open(b)
      BY <2>3, <2>4, <3>1 DEF Ids
    <3>4. ~Exists(b)
      <4>1. file[b] \in Tasks \cup {Absent} /\ ~Readable(b)
        BY <2>1, <3>1, <3>2, <3>3 DEF IInv, TypeOK, Open
      <4> QED BY <4>1 DEF Tasks, Absent, Exists, Readable
    <3>5. m <= nextId
      BY <2>1, <2>4 DEF IInv, NoGaps, Open, Readable, Exists, Statuses
    <3>6. b < nextId
      BY <2>1, <2>4, <3>1, <3>5, TaskAssumption DEF IInv, TypeOK, Ids
    <3> QED BY <2>1, <3>1, <3>4, <3>6 DEF IInv, TypeOK
  <2> QED BY <2>4, <2>5
<1> QED BY <1>1, Inductive, PTL DEF Spec
=============================================================================
