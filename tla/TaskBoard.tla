------------------------------ MODULE TaskBoard ------------------------------
(***************************************************************************)
(* The tasks of a run: one JSON file per task in the run's .tasks          *)
(* directory (core/task/manager.py), which the agent keeps with the tools  *)
(* task_create and task_update (core/tools/builtin/).  The manager runs    *)
(* without an await, so that an operation is one step; but completing a    *)
(* task rewrites several files, and any of these writes can fail or the    *)
(* process can die between them.  invoke_tool tries a failed call again,   *)
(* which is one more of these steps.                                       *)
(***************************************************************************)
EXTENDS Naturals, FiniteSets

CONSTANTS
    MaxId,     \* bound on task ids
    MaxNamed,  \* bound on the ids that one update adds or removes
    MaxFaults  \* bound on failed writes

ASSUME TaskAssumption == {MaxId, MaxNamed, MaxFaults} \subseteq Nat

VARIABLES
    file,    \* the task file of every id
    nextId,  \* _next_id
    late,    \* history: pairs <<t, b>>, t blocked by b since b was completed
    faults

vars == <<file, nextId, late, faults>>

Ids == 1..MaxId
Statuses == {"pending", "in_progress", "completed"}
Tasks == [status : Statuses, blockedBy : SUBSET Ids]

Absent == [status |-> "absent", blockedBy |-> {}]
\* write_text truncates and then writes: a write that fails leaves no valid JSON.
Torn == [status |-> "torn", blockedBy |-> {}]

Exists(t) == file[t].status # "absent"
Readable(t) == file[t].status \in Statuses
Completed(t) == file[t].status = "completed"
Open(t) == Readable(t) /\ ~Completed(t)

TypeOK ==
    /\ file \in [Ids -> Tasks \cup {Absent, Torn}]
    /\ nextId \in 1..MaxId + 1
    /\ \A t \in Ids : t < nextId => Exists(t)
    /\ late \subseteq Ids \X Ids
    /\ faults \in 0..MaxFaults

Init ==
    /\ file = [t \in Ids |-> Absent]
    /\ nextId = 1
    /\ late = {}
    /\ faults = 0
-----------------------------------------------------------------------------
(* The manager.                                                            *)

\* Of the old pairs and those of t and its new blockers, the ones that still stand.
NoteLate(t, new) ==
    late' = {p \in late \cup ({t} \X new) :
                p[2] \in file'[p[1]].blockedBy /\ file'[p[2]].status = "completed"}

\* Mutant of NewTask: the task waits for its successor.
NewTaskAfterItself(t, deps) == [status |-> "pending", blockedBy |-> deps \cup {t + 1}]

NewTask(t, deps) == [status |-> "pending", blockedBy |-> deps]

\* create, for dependencies all of which have a file, readable or not.
Create(deps) ==
    /\ nextId <= MaxId
    /\ \A b \in deps : Exists(b)
    /\ file' = [file EXCEPT ![nextId] = NewTask(nextId, deps)]
    /\ nextId' = nextId + 1
    /\ NoteLate(nextId, deps)
    /\ UNCHANGED faults

Fault == faults < MaxFaults /\ faults' = faults + 1

\* The new file cannot be written, and the id is not used up.
CreateFails(deps) ==
    /\ nextId <= MaxId
    /\ \A b \in deps : Exists(b)
    /\ Fault
    /\ file' = [file EXCEPT ![nextId] = Torn]
    /\ NoteLate(nextId, {})
    /\ UNCHANGED nextId

\* The files _clear_dependency rewrites when t is completed, that of t included.
Dependants(t) == {u \in Ids : Readable(u) /\ t \in file[u].blockedBy}

\* The files after t has been taken out of those in S.
Cleared(t, S) ==
    [u \in Ids |-> IF u \in S THEN [file[u] EXCEPT !.blockedBy = @ \ {t}]
                   ELSE file[u]]

\* The task that update has loaded and changed; it does not see what
\* _clear_dependency does to its file.
Changed(t, status, add, remove) ==
    [status    |-> IF status = "same" THEN file[t].status ELSE status,
     blockedBy |-> (file[t].blockedBy \cup add) \ remove]

ToClear(t, status) == IF status = "completed" THEN Dependants(t) ELSE {}

\* update: dependants first, then the task itself.  An id that is added need not
\* have a task.
Update(t, status, add, remove) ==
    /\ Readable(t)
    /\ file' = [Cleared(t, ToClear(t, status)) EXCEPT
                    ![t] = Changed(t, status, add, remove)]
    /\ NoteLate(t, add \ remove)
    /\ UNCHANGED <<nextId, faults>>

\* Mutant of UpdateFails: the task is saved first.
UpdateFailsAfterSave(t, status, add, remove) ==
    /\ Readable(t) /\ Fault
    /\ \E done \in SUBSET ToClear(t, status) :
          file' = [Cleared(t, done) EXCEPT ![t] = Changed(t, status, add, remove)]
    /\ NoteLate(t, {})
    /\ UNCHANGED nextId

\* One of update's writes fails, or the process dies: some dependants are
\* released, one file may be torn, and that of t is reached last.
UpdateFails(t, status, add, remove) ==
    /\ Readable(t) /\ Fault
    /\ LET all == ToClear(t, status)
       IN  \E done \in SUBSET all :
              \/ file' = Cleared(t, done)
              \/ \E u \in IF done = all THEN {t} ELSE all \ done :
                    file' = [Cleared(t, done) EXCEPT ![u] = Torn]
    /\ NoteLate(t, {})
    /\ UNCHANGED nextId

\* n is the highest id that has a file.
MaxFile(n) == Exists(n) /\ \A t \in Ids : Exists(t) => t <= n

\* A new manager on the directory takes the ids up after the highest file.
Reopen ==
    /\ nextId' = IF \E n \in Ids : MaxFile(n)
                 THEN 1 + CHOOSE n \in Ids : MaxFile(n) ELSE 1
    /\ UNCHANGED <<file, late, faults>>

Next ==
    \/ \E deps \in SUBSET Ids : Create(deps) \/ CreateFails(deps)
    \/ \E t \in Ids, status \in Statuses \cup {"same"} :
          \E add, remove \in SUBSET Ids :
             /\ Cardinality(add) + Cardinality(remove) <= MaxNamed
             /\ Update(t, status, add, remove) \/ UpdateFails(t, status, add, remove)
    \/ Reopen

Spec == Init /\ [][Next]_vars
-----------------------------------------------------------------------------
(* Properties.                                                             *)

\* A task that is still to be done waits only for tasks that are to be done: the
\* completion of a task releases everything that waits for it, also when writes
\* fail half way or the process dies, and whatever a file that was read before
\* is overwritten with.  Only a dependency stated after the completion stays.
BlockersOpen ==
    \A t \in Ids : Open(t) =>
        \A b \in file[t].blockedBy : Completed(b) => <<t, b>> \in late

\* The board does not run dry: as long as dependencies point to earlier tasks, none
\* was stated too late and every file is readable, work that is not finished has a
\* task that waits for nothing.
InOrder ==
    \A t \in Ids : \A b \in file[t].blockedBy : b < t

SomethingReady ==
    InOrder /\ late = {} /\ (\A t \in Ids : file[t] # Torn) /\ (\E t \in Ids : Open(t))
        => \E t \in Ids : Open(t) /\ file[t].blockedBy = {}
=============================================================================
