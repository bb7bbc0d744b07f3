----------------------- MODULE PermissionManager_proofs -----------------------
(***************************************************************************)
(* Theorems about PermissionManager, for every set of calls, sessions,     *)
(* tools and requests, every policy, and any number of restarts: its types *)
(* and its queue, the refinement of PermissionGate, and the order in which *)
(* answers take effect.                                                    *)
(***************************************************************************)
EXTENDS PermissionManager, FiniteSetTheorems, SequenceTheorems, TLAPS

(* Constants are opaque to the provers: these are the facts about them.    *)
LEMMA RequestFields ==
    ASSUME PermissionAssumption, NEW q \in Requests
    PROVE  /\ q.session \in Sessions
           /\ q.tool \in Tools
           /\ q.kind \in Kinds
BY DEF PermissionAssumption

\* The file after a save is again a table, whose entries are among those of
\* the table saved or of the file before.
LEMMA SaveKeepsEntries ==
    ASSUME NEW table \in [Tools -> Standings \cup {Unset}],
           policyFile \in [Tools -> Standings \cup {Unset}],
           NEW f \in SaveOutcomes(table)
    PROVE  /\ f \in [Tools -> Standings \cup {Unset}]
           /\ \A t \in Tools : f[t] \in {table[t], policyFile[t], Unset}
BY DEF SaveOutcomes

\* The ready queue after the calls of a finite set are put at its end.
LEMMA OrdersAreSequences ==
    ASSUME NEW S, IsFiniteSet(S), NEW T, S \subseteq T, NEW o \in Orders(S)
    PROVE  /\ o \in Seq(T)
           /\ DOMAIN o = 1..Len(o)
           /\ \A i \in DOMAIN o : o[i] \in S
           /\ \A x \in S : \E i \in DOMAIN o : o[i] = x
           /\ \A i, j \in DOMAIN o : o[i] = o[j] => i = j
<1>1. Cardinality(S) \in Nat
  BY FS_CardinalityType
<1>2. o \in [1..Cardinality(S) -> S]
  BY DEF Orders
<1>3. o \in [1..Cardinality(S) -> T]
  BY <1>2
<1>4. o \in Seq(T)
  BY <1>1, <1>3, IsASeq
<1>5. /\ \A x \in S : \E i \in DOMAIN o : o[i] = x
      /\ \A i, j \in DOMAIN o : o[i] = o[j] => i = j
  BY DEF Orders
<1>6. QED
  BY <1>1, <1>2, <1>4, <1>5
-----------------------------------------------------------------------------
(* Type correctness.                                                       *)

LEMMA ApplyResponseType ==
    ASSUME PermissionAssumption, TypeOK,
           NEW c \in Calls, call[c] \in Requests, NEW d \in Decisions,
           ApplyResponse(c, d)
    PROVE  /\ sessionAlways' \in [Sessions -> [Tools -> Standings \cup {Unset}]]
           /\ persistentAlways' \in [Tools -> Standings \cup {Unset}]
           /\ policyFile' \in [Tools -> Standings \cup {Unset}]
           /\ given' \subseteq Tools \X Standings
<1> DEFINE q == call[c]
           table == [persistentAlways EXCEPT ![q.tool] = StandingOf(d)]
<1>1. q.session \in Sessions /\ q.tool \in Tools /\ StandingOf(d) \in Standings
  BY RequestFields DEF StandingOf, Standings
<1>2. CASE Always(d)
  <2>1. table \in [Tools -> Standings \cup {Unset}]
    BY <1>1 DEF TypeOK
  <2>2. policyFile' \in SaveOutcomes(table) /\ persistentAlways' = table
    BY <1>2 DEF ApplyResponse
  <2>3. policyFile' \in [Tools -> Standings \cup {Unset}]
    BY <2>1, <2>2, SaveKeepsEntries DEF TypeOK
  <2>4. sessionAlways' = [sessionAlways EXCEPT ![q.session][q.tool] = StandingOf(d)]
    BY <1>2 DEF ApplyResponse
  <2>5. sessionAlways' \in [Sessions -> [Tools -> Standings \cup {Unset}]]
    BY <1>1, <2>4 DEF TypeOK
  <2>6. given' \subseteq Tools \X Standings
    BY <1>1, <1>2 DEF ApplyResponse, TypeOK
  <2>7. QED
    BY <2>1, <2>2, <2>3, <2>5, <2>6
<1>3. CASE ~Always(d)
  BY <1>3 DEF ApplyResponse, TypeOK, mem
<1>4. QED
  BY <1>2, <1>3

\* What the coroutines and the ready queue need to be typed: a call that runs
\* has a request, and a coroutine that is to wake up uninterrupted finds an
\* answer in its future.
RunningAt(c) ==
    /\ pc[c] # "idle" => call[c] \in Requests
    /\ future[c] \in Decisions \cup {"open"} => pc[c] # "idle"
    /\ pc[c] = "emitting" =>
          /\ future[c] \in Decisions \cup {"open"}
          /\ future[c] = "open" => c \in pending
    /\ pc[c] = "waiting" /\ interrupt[c] = "none" =>
          future[c] \in Decisions \cup {"open"}
    /\ c \in pending => pc[c] # "idle"

Running == \A c \in Calls : RunningAt(c)

TypeInv == TypeOK /\ Running /\ NoLostWakeup

LEMMA InitTypeInv == ASSUME PermissionAssumption, Init PROVE TypeInv
<1>1. TypeOK
  BY EmptySeq DEF Init, TypeOK, NoOutcome, PCs
<1>2. Running
  BY DEF Init, Running, RunningAt, Decisions
<1>3. NoLostWakeup
  BY DEF Init, NoLostWakeup
<1>4. QED
  BY <1>1, <1>2, <1>3 DEF TypeInv

\* A wake-up finds at the head of the queue a call that waits.
LEMMA HeadWaits ==
    ASSUME PermissionAssumption, TypeInv, ready # <<>>
    PROVE  /\ Head(ready) \in Calls
           /\ ready[1] = Head(ready)
           /\ pc[Head(ready)] = "waiting"
           /\ call[Head(ready)] \in Requests
           /\ interrupt[Head(ready)] = "none" => future[Head(ready)] \in Decisions
           /\ Tail(ready) \in Seq(Calls)
<1> USE DEF TypeInv
<1>1. ready \in Seq(Calls) /\ 1 \in DOMAIN ready /\ ready[1] = Head(ready)
  BY HeadTailProperties, ElementOfSeq DEF TypeOK
<1>2. Head(ready) \in Calls /\ Tail(ready) \in Seq(Calls)
  BY <1>1, HeadTailProperties
<1>3. pc[Head(ready)] = "waiting" /\ future[Head(ready)] # "open"
  BY <1>1 DEF NoLostWakeup
<1>4. QED
  BY <1>1, <1>2, <1>3 DEF Running, RunningAt

OutcomeType ==
    [allowed : BOOLEAN,
     decision : Decisions \cup {"none", "auto_allow", "auto_deny", "timeout"}]

LEMMA ReturnType ==
    ASSUME TypeOK, NEW c \in Calls, NEW allowed \in BOOLEAN,
           NEW decision \in Decisions \cup {"auto_allow", "auto_deny", "timeout"},
           Return(c, allowed, decision)
    PROVE  /\ pc' \in [Calls -> PCs]
           /\ outcome' \in [Calls -> OutcomeType]
           /\ future' \in [Calls -> {"none", "open", "cancelled"} \cup Decisions]
           /\ interrupt' \in [Calls -> {"none", "timeout", "cancel"}]
<1>1. [allowed |-> allowed, decision |-> decision] \in OutcomeType
  BY DEF OutcomeType
<1>2. outcome \in [Calls -> OutcomeType]
  BY DEF TypeOK, OutcomeType
<1>3. outcome' \in [Calls -> OutcomeType]
  BY <1>1, <1>2 DEF Return
<1>4. QED
  BY <1>3 DEF Return, TypeOK, PCs

LEMMA CheckAndWaitTypeOK ==
    ASSUME PermissionAssumption, TypeInv, NEW c \in Calls, NEW q \in Requests,
           CheckAndWait(c, q)
    PROVE  TypeOK'
<1> USE DEF TypeInv
<1>1. CASE Return(c, TRUE, "auto_allow") \/ Return(c, FALSE, "auto_deny")
  <2>1. /\ pending' \subseteq Calls
        /\ call' \in [Calls -> Requests \cup {NoRequest}]
        /\ UNCHANGED <<ready, mem, policyFile, connected, restarts, given, answered>>
    BY DEF CheckAndWait, TypeOK
  <2>2. /\ pc' \in [Calls -> PCs]
        /\ outcome' \in [Calls -> OutcomeType]
        /\ future' \in [Calls -> {"none", "open", "cancelled"} \cup Decisions]
        /\ interrupt' \in [Calls -> {"none", "timeout", "cancel"}]
    BY <1>1, ReturnType
  <2>3. QED
    BY <2>1, <2>2 DEF TypeOK, OutcomeType, mem
<1>2. CASE Evaluate(q) = "ask" /\ UNCHANGED <<interrupt, outcome>>
  BY <1>2 DEF CheckAndWait, TypeOK, PCs, mem
<1>3. QED
  BY <1>1, <1>2 DEF CheckAndWait

LEMMA EmitDoneTypeOK ==
    ASSUME PermissionAssumption, TypeInv, NEW c \in Calls, EmitDone(c)
    PROVE  TypeOK'
<1> USE DEF TypeInv
<1>1. CASE future[c] = "open"
  BY <1>1 DEF EmitDone, TypeOK, PCs, mem, Decisions
<1>2. CASE future[c] \in Decisions
  <2>1. ApplyResponse(c, future[c]) /\ Return(c, Allows(future[c]), future[c])
    BY <1>2 DEF EmitDone, Decisions
  <2>2. call[c] \in Requests
    BY DEF EmitDone, Running, RunningAt
  <2>3. Allows(future[c]) \in BOOLEAN
    BY DEF Allows
  <2>4. QED
    BY <1>2, <2>1, <2>2, <2>3, ApplyResponseType
       DEF EmitDone, Return, TypeOK, PCs, Decisions
<1>3. QED
  BY <1>1, <1>2 DEF EmitDone

LEMMA ScheduleType ==
    ASSUME TypeOK, NEW c \in Calls, Schedule(c)
    PROVE  ready' \in Seq(Calls)
BY AppendProperties DEF Schedule, TypeOK

LEMMA TimerAndCancelTypeOK ==
    ASSUME PermissionAssumption, TypeInv, NEW c \in Calls,
           TimerFires(c) \/ CancelTask(c)
    PROVE  TypeOK'
<1> USE DEF TypeInv
<1>1. ready' \in Seq(Calls)
  BY ScheduleType DEF TimerFires, CancelTask, TypeOK
<1>2. QED
  BY <1>1 DEF TimerFires, CancelTask, TypeOK, PCs, mem, Decisions

LEMMA WakeTypeOK ==
    ASSUME PermissionAssumption, TypeInv, Wake
    PROVE  TypeOK'
<1> USE DEF TypeInv
<1> DEFINE c == Head(ready)
<1>1. /\ c \in Calls /\ call[c] \in Requests /\ Tail(ready) \in Seq(Calls)
      /\ interrupt[c] = "none" => future[c] \in Decisions
  BY HeadWaits DEF Wake
<1>2. CASE interrupt[c] = "cancel"
  BY <1>1, <1>2 DEF Wake, TypeOK, PCs, mem
<1>3. CASE interrupt[c] = "timeout"
  BY <1>1, <1>3, ReturnType DEF Wake, TypeOK, OutcomeType, mem
<1>4. CASE interrupt[c] = "none"
  <2>1. ApplyResponse(c, future[c]) /\ Return(c, Allows(future[c]), future[c])
    BY <1>4 DEF Wake
  <2>2. Allows(future[c]) \in BOOLEAN
    BY DEF Allows
  <2>3. QED
    BY <1>1, <1>4, <2>1, <2>2, ApplyResponseType
       DEF Wake, Return, TypeOK, PCs
<1>5. QED
  BY <1>1, <1>2, <1>3, <1>4 DEF TypeOK

LEMMA RespondTypeOK ==
    ASSUME PermissionAssumption, TypeInv, NEW c \in Calls, NEW d \in Decisions,
           Respond(c, d)
    PROVE  TypeOK'
<1> USE DEF TypeInv
<1> DEFINE a == [call |-> c, decision |-> d, waiting |-> pc[c] = "waiting"]
           Answers == [call : Calls, decision : Decisions, waiting : BOOLEAN]
<1>1. ready' \in Seq(Calls)
  BY ScheduleType DEF Respond
<1>2. a \in Answers
  OBVIOUS
<1>3. answered' = answered \/ answered' = Append(answered, a)
  BY DEF Respond
<1>4. answered' \in Seq(Answers)
  <2>1. answered \in Seq(Answers)
    BY DEF TypeOK
  <2> HIDE DEF a, Answers
  <2>2. Append(answered, a) \in Seq(Answers)
    BY <1>2, <2>1, AppendProperties
  <2>3. QED
    BY <1>3, <2>1, <2>2
<1>5. /\ pending' \subseteq Calls
      /\ future' \in [Calls -> {"none", "open", "cancelled"} \cup Decisions]
  BY DEF Respond, TypeOK
<1>6. QED
  BY <1>1, <1>4, <1>5 DEF Respond, TypeOK, mem

LEMMA DisconnectTypeOK ==
    ASSUME PermissionAssumption, TypeInv, NEW s \in Sessions, Disconnect(s)
    PROVE  TypeOK'
<1> USE DEF TypeInv
<1>1. CASE ~CancelHook
  BY <1>1 DEF Disconnect, TypeOK, mem
<1>2. CASE CancelHook
  <2> DEFINE cancelled == {c \in pending : call[c].session = s}
             open      == {c \in cancelled : future[c] = "open"}
             W         == {c \in open : pc[c] = "waiting"}
  <2>1. IsFiniteSet(W) /\ W \subseteq Calls
    BY FS_Subset DEF PermissionAssumption, TypeOK
  <2>2. PICK o \in Orders(W) : ready' = ready \o o
    BY <1>2 DEF Disconnect, CancelSession
  <2>3. o \in Seq(Calls)
    BY <2>1, <2>2, OrdersAreSequences
  <2>4. ready' \in Seq(Calls)
    BY <2>2, <2>3, ConcatProperties DEF TypeOK
  <2>5. /\ pending' \subseteq Calls
        /\ future' \in [Calls -> {"none", "open", "cancelled"} \cup Decisions]
    BY <1>2 DEF Disconnect, CancelSession, TypeOK, Decisions
  <2>6. QED
    BY <2>4, <2>5 DEF Disconnect, TypeOK, mem
<1>3. QED
  BY <1>1, <1>2

LEMMA RestartTypeOK ==
    ASSUME PermissionAssumption, TypeInv, Restart
    PROVE  TypeOK'
BY EmptySeq DEF TypeInv, Restart, TypeOK, PCs
-----------------------------------------------------------------------------
(* The facts the coroutines rest on, step by step.                         *)

\* A call that a step does not touch keeps what it had.
LEMMA Untouched ==
    ASSUME NEW b \in Calls, RunningAt(b),
           call'[b] = call[b], pc'[b] = pc[b], future'[b] = future[b],
           interrupt'[b] = interrupt[b], b \in pending' <=> b \in pending
    PROVE  RunningAt(b)'
BY DEF RunningAt

\* A coroutine that has returned owes nothing but its request.
LEMMA ReturnRunning ==
    ASSUME TypeOK, NEW c \in Calls, NEW allowed, NEW decision,
           Return(c, allowed, decision), call'[c] \in Requests
    PROVE  /\ RunningAt(c)'
           /\ \A b \in Calls \ {c} :
                 /\ pc'[b] = pc[b] /\ future'[b] = future[b]
                 /\ interrupt'[b] = interrupt[b]
BY DEF Return, RunningAt, TypeOK, Decisions

LEMMA CheckAndWaitRunning ==
    ASSUME PermissionAssumption, TypeInv, NEW c \in Calls, NEW q \in Requests,
           CheckAndWait(c, q)
    PROVE  Running'
<1> USE DEF TypeInv
<1>1. call'[c] \in Requests /\ \A b \in Calls \ {c} : call'[b] = call[b]
  BY DEF CheckAndWait, TypeOK
<1>2. CASE Return(c, TRUE, "auto_allow") \/ Return(c, FALSE, "auto_deny")
  <2>1. pending' = pending \/ pending' = pending \cup {c}
    BY DEF CheckAndWait
  <2>2. RunningAt(c)'
    BY <1>1, <1>2, ReturnRunning
  <2>3. \A b \in Calls \ {c} : RunningAt(b)'
    BY <1>1, <1>2, <2>1, ReturnRunning, Untouched DEF Running
  <2>4. QED
    BY <2>2, <2>3 DEF Running
<1>3. CASE Evaluate(q) = "ask" /\ UNCHANGED <<interrupt, outcome>>
  <2>1. /\ pc' = [pc EXCEPT ![c] = "emitting"]
        /\ pending' = pending \cup {c}
        /\ future' = [future EXCEPT ![c] = "open"]
    BY <1>3 DEF CheckAndWait
  <2>2. RunningAt(c)'
    BY <1>1, <2>1 DEF RunningAt, TypeOK
  <2>3. \A b \in Calls \ {c} : RunningAt(b)'
    BY <1>1, <1>3, <2>1, Untouched DEF Running, TypeOK
  <2>4. QED
    BY <2>2, <2>3 DEF Running
<1>4. QED
  BY <1>2, <1>3 DEF CheckAndWait

LEMMA EmitDoneRunning ==
    ASSUME PermissionAssumption, TypeInv, NEW c \in Calls, EmitDone(c)
    PROVE  Running'
<1> USE DEF TypeInv
<1>1. call' = call /\ pending' = pending /\ call[c] \in Requests
  BY DEF EmitDone, Running, RunningAt
<1>2. CASE future[c] = "open"
  <2>1. /\ pc' = [pc EXCEPT ![c] = "waiting"]
        /\ UNCHANGED <<future, interrupt>>
    BY <1>2 DEF EmitDone, Decisions
  <2>2. RunningAt(c)'
    BY <1>1, <1>2, <2>1 DEF RunningAt, TypeOK
  <2>3. \A b \in Calls \ {c} : RunningAt(b)'
    BY <1>1, <2>1, Untouched DEF Running, TypeOK
  <2>4. QED
    BY <2>2, <2>3 DEF Running
<1>3. CASE Return(c, Allows(future[c]), future[c])
  <2>1. RunningAt(c)'
    BY <1>1, <1>3, ReturnRunning
  <2>2. \A b \in Calls \ {c} : RunningAt(b)'
    BY <1>1, <1>3, ReturnRunning, Untouched DEF Running
  <2>3. QED
    BY <2>1, <2>2 DEF Running
<1>4. QED
  BY <1>2, <1>3 DEF EmitDone

LEMMA InterruptRunning ==
    ASSUME PermissionAssumption, TypeInv, NEW c \in Calls,
           TimerFires(c) \/ CancelTask(c)
    PROVE  Running'
<1> USE DEF TypeInv
<1>1. CASE TimerFires(c)
  BY <1>1 DEF TimerFires, Running, RunningAt, TypeOK, Decisions
<1>2. CASE CancelTask(c)
  BY <1>2 DEF CancelTask, Running, RunningAt, TypeOK, Decisions
<1>3. QED
  BY <1>1, <1>2

LEMMA WakeRunning ==
    ASSUME PermissionAssumption, TypeInv, Wake
    PROVE  Running'
<1> USE DEF TypeInv
<1>1. PICK c \in Calls :
          /\ c = Head(ready) /\ pc[c] = "waiting" /\ call[c] \in Requests
          /\ call' = call /\ \A b \in Calls \ {c} : b \in pending' <=> b \in pending
  BY HeadWaits DEF Wake
<1>2. CASE \E allowed, decision : Return(c, allowed, decision)
  <2>1. RunningAt(c)'
    BY <1>1, <1>2, ReturnRunning
  <2>2. \A b \in Calls \ {c} : RunningAt(b)'
    BY <1>1, <1>2, ReturnRunning, Untouched DEF Running
  <2>3. QED
    BY <2>1, <2>2 DEF Running
<1>3. CASE /\ pc' = [pc EXCEPT ![c] = "aborted"]
           /\ UNCHANGED <<pending, future, interrupt>>
  <2>1. RunningAt(c)'
    BY <1>1, <1>3 DEF RunningAt, TypeOK
  <2>2. \A b \in Calls \ {c} : RunningAt(b)'
    BY <1>1, <1>3, Untouched DEF Running, TypeOK
  <2>3. QED
    BY <2>1, <2>2 DEF Running
<1>4. QED
  BY <1>1, <1>2, <1>3 DEF Wake

LEMMA OutsideRunning ==
    ASSUME PermissionAssumption, TypeInv,
           \/ \E c \in Calls, d \in Decisions : Respond(c, d)
           \/ \E s \in Sessions : Disconnect(s)
           \/ Restart
    PROVE  Running'
<1> USE DEF TypeInv
<1>1. CASE \E c \in Calls, d \in Decisions : Respond(c, d)
  BY <1>1 DEF Respond, Running, RunningAt, TypeOK, Decisions
<1>2. CASE \E s \in Sessions : Disconnect(s)
  BY <1>2 DEF Disconnect, CancelSession, Running, RunningAt, TypeOK, Decisions
<1>3. CASE Restart
  BY <1>3 DEF Restart, Running, RunningAt, TypeOK, Decisions
<1>4. QED
  BY <1>1, <1>2, <1>3
-----------------------------------------------------------------------------
(* The ready queue.                                                        *)

\* A coroutine whose future is completed is not on the queue yet, so putting it
\* there once keeps the queue without duplicates.
LEMMA ScheduleKeeps ==
    ASSUME TypeInv, NEW c \in Calls, Schedule(c),
           pc' = pc, future'[c] # "open",
           \A b \in Calls \ {c} : future'[b] = future[b],
           \A b \in Calls \ {c} : b \in pending => b \in pending'
    PROVE  NoLostWakeup'
<1> USE DEF TypeInv
<1>1. ready \in Seq(Calls)
  BY DEF TypeOK
<1>2. CASE pc[c] = "waiting" /\ future[c] = "open"
  <2>1. ready' = Append(ready, c)
    BY <1>2 DEF Schedule
  <2>2. /\ DOMAIN ready = 1..Len(ready) /\ Len(ready) \in Nat
        /\ DOMAIN ready' = 1..(Len(ready) + 1)
        /\ \A i \in DOMAIN ready : ready'[i] = ready[i]
        /\ ready'[Len(ready) + 1] = c
    BY <1>1, <2>1, AppendProperties, LenProperties
  <2>3. \A i \in DOMAIN ready : ready[i] \in Calls \ {c}
    BY <1>1, <1>2, ElementOfSeq, <2>2 DEF NoLostWakeup
  <2>4. \A i \in DOMAIN ready' :
            pc'[ready'[i]] = "waiting" /\ future'[ready'[i]] # "open"
    BY <1>2, <2>2, <2>3 DEF NoLostWakeup
  <2>5. \A i, j \in DOMAIN ready' : ready'[i] = ready'[j] => i = j
    BY <2>2, <2>3 DEF NoLostWakeup
  <2>6. \A b \in Calls :
            pc'[b] = "waiting" =>
                IF future'[b] = "open" THEN b \in pending'
                ELSE \E i \in DOMAIN ready' : ready'[i] = b
    BY <2>2 DEF NoLostWakeup
  <2>7. QED
    BY <2>4, <2>5, <2>6 DEF NoLostWakeup
<1>3. CASE ~(pc[c] = "waiting" /\ future[c] = "open")
  <2>1. ready' = ready
    BY <1>3 DEF Schedule
  <2>2. \A i \in DOMAIN ready : ready[i] \in Calls
    BY <1>1, ElementOfSeq
  <2>3. QED
    BY <1>3, <2>1, <2>2 DEF NoLostWakeup
<1>4. QED
  BY <1>2, <1>3

\* A coroutine that is not on the queue may start or stop.
LEMMA CoroutineQueue ==
    ASSUME PermissionAssumption, TypeInv, NEW c \in Calls,
           \/ \E q \in Requests : CheckAndWait(c, q)
           \/ EmitDone(c)
           \/ TimerFires(c)
           \/ CancelTask(c)
    PROVE  NoLostWakeup'
<1> USE DEF TypeInv
<1>1. \A i \in DOMAIN ready : ready[i] \in Calls
  BY ElementOfSeq, LenProperties DEF TypeOK
<1>2. CASE \E q \in Requests : CheckAndWait(c, q)
  <2>1. PICK q \in Requests : CheckAndWait(c, q)
    BY <1>2
  <2>2. /\ pc[c] = "idle" /\ ready' = ready
        /\ pending' = pending \/ pending' = pending \cup {c}
    BY <2>1 DEF CheckAndWait
  <2>3. /\ pc'[c] # "waiting"
        /\ \A b \in Calls \ {c} : pc'[b] = pc[b] /\ future'[b] = future[b]
    BY <2>1 DEF CheckAndWait, Return, TypeOK
  <2>4. QED
    BY <1>1, <2>2, <2>3 DEF NoLostWakeup
<1>3. CASE EmitDone(c)
  BY <1>1, <1>3 DEF EmitDone, Return, NoLostWakeup, Running, RunningAt, TypeOK, Decisions
<1>4. CASE TimerFires(c)
  <2>1. /\ Schedule(c) /\ pc' = pc /\ pending' = pending
        /\ future'[c] # "open"
        /\ \A b \in Calls \ {c} : future'[b] = future[b]
    BY <1>4 DEF TimerFires, TypeOK
  <2>2. QED
    BY <2>1, ScheduleKeeps
<1>5. CASE CancelTask(c) /\ pc[c] = "emitting"
  BY <1>1, <1>5 DEF CancelTask, NoLostWakeup, TypeOK
<1>6. CASE CancelTask(c) /\ pc[c] # "emitting"
  <2>1. /\ Schedule(c) /\ pc' = pc /\ pending' = pending
        /\ future'[c] # "open"
        /\ \A b \in Calls \ {c} : future'[b] = future[b]
    BY <1>6 DEF CancelTask, TypeOK
  <2>2. QED
    BY <2>1, ScheduleKeeps
<1>7. QED
  BY <1>2, <1>3, <1>4, <1>5, <1>6

LEMMA RespondQueue ==
    ASSUME PermissionAssumption, TypeInv, NEW c \in Calls, NEW d \in Decisions,
           Respond(c, d)
    PROVE  NoLostWakeup'
<1>1. /\ Schedule(c) /\ pc' = pc /\ pending' = pending \ {c}
      /\ future'[c] # "open"
      /\ \A b \in Calls \ {c} : future'[b] = future[b]
  BY DEF Respond, TypeInv, TypeOK, Decisions
<1>2. QED
  BY <1>1, ScheduleKeeps

\* The coroutine that runs leaves the queue, and no other does.
LEMMA WakeQueue ==
    ASSUME PermissionAssumption, TypeInv, Wake
    PROVE  NoLostWakeup'
<1> USE DEF TypeInv
<1>1. PICK c \in Calls : c = Head(ready) /\ c = ready[1] /\ pc[c] = "waiting"
  BY HeadWaits DEF Wake
<1>2. /\ pc'[c] # "waiting"
      /\ \A b \in Calls \ {c} :
            /\ pc'[b] = pc[b] /\ future'[b] = future[b]
            /\ b \in pending' <=> b \in pending
  BY <1>1 DEF Wake, Return, TypeOK
<1>3. /\ Len(ready) \in Nat /\ DOMAIN ready = 1..Len(ready) /\ Len(ready) >= 1
      /\ DOMAIN ready' = 1..(Len(ready) - 1)
      /\ \A i \in DOMAIN ready' : ready'[i] = ready[i + 1]
      /\ \A i \in DOMAIN ready : ready[i] \in Calls
  BY HeadTailProperties, LenProperties, ElementOfSeq, EmptySeq DEF Wake, TypeOK
<1>4. \A i \in DOMAIN ready' :
          i + 1 \in DOMAIN ready /\ ready'[i] \in Calls \ {c}
  BY <1>1, <1>3 DEF NoLostWakeup
<1>5. \A i \in DOMAIN ready' :
          pc'[ready'[i]] = "waiting" /\ future'[ready'[i]] # "open"
  BY <1>2, <1>3, <1>4 DEF NoLostWakeup
<1>6. \A i, j \in DOMAIN ready' : ready'[i] = ready'[j] => i = j
  BY <1>3, <1>4 DEF NoLostWakeup
<1>7. ASSUME NEW b \in Calls, pc'[b] = "waiting"
      PROVE  IF future'[b] = "open" THEN b \in pending'
             ELSE \E i \in DOMAIN ready' : ready'[i] = b
  <2>1. b # c /\ pc[b] = "waiting" /\ future'[b] = future[b]
    BY <1>2, <1>7
  <2>2. CASE future[b] = "open"
    BY <1>2, <2>1, <2>2 DEF NoLostWakeup
  <2>3. CASE future[b] # "open"
    <3>1. PICK i \in DOMAIN ready : ready[i] = b
      BY <2>1, <2>3 DEF NoLostWakeup
    <3>2. i # 1 /\ i - 1 \in DOMAIN ready' /\ ready'[i - 1] = b
      BY <1>1, <1>3, <2>1, <3>1
    <3>3. QED
      BY <2>1, <2>3, <3>2
  <2>4. QED
    BY <2>2, <2>3
<1>8. QED
  BY <1>5, <1>6, <1>7 DEF NoLostWakeup

\* cancel_session wakes every waiting call of the session, in any order.
LEMMA DisconnectQueue ==
    ASSUME PermissionAssumption, TypeInv, NEW s \in Sessions, Disconnect(s)
    PROVE  NoLostWakeup'
<1> USE DEF TypeInv
<1>1. CASE ~CancelHook
  BY <1>1 DEF Disconnect, NoLostWakeup
<1>2. CASE CancelHook
  <2> DEFINE cancelled == {c \in pending : call[c].session = s}
             open      == {c \in cancelled : future[c] = "open"}
             W         == {c \in open : pc[c] = "waiting"}
  <2>1. IsFiniteSet(W) /\ W \subseteq Calls
    BY FS_Subset DEF PermissionAssumption, TypeOK
  <2>2. PICK o \in Orders(W) : ready' = ready \o o
    BY <1>2 DEF Disconnect, CancelSession
  <2>3. /\ pc' = pc
        /\ \A b \in Calls : future[b] # "open" => future'[b] = future[b]
        /\ \A b \in Calls : b \in pending /\ future'[b] = "open" => b \in pending'
        /\ \A b \in Calls :
              pc[b] = "waiting" /\ future[b] = "open" /\ future'[b] # "open" =>
                  b \in W
        /\ \A b \in W :
              pc[b] = "waiting" /\ future[b] = "open" /\ future'[b] # "open"
    BY <1>2, <2>1 DEF Disconnect, CancelSession
  <2> HIDE DEF W
  <2>4. /\ o \in Seq(Calls) /\ DOMAIN o = 1..Len(o) /\ Len(o) \in Nat
        /\ \A i \in DOMAIN o : o[i] \in W
        /\ \A x \in W : \E i \in DOMAIN o : o[i] = x
        /\ \A i, j \in DOMAIN o : o[i] = o[j] => i = j
    BY <2>1, OrdersAreSequences, LenProperties
  <2>5. /\ ready \in Seq(Calls) /\ DOMAIN ready = 1..Len(ready)
        /\ Len(ready) \in Nat
        /\ \A i \in DOMAIN ready : ready[i] \in Calls \ W
    BY <2>3, LenProperties, ElementOfSeq DEF TypeOK, NoLostWakeup
  <2>6. /\ DOMAIN ready' = 1..(Len(ready) + Len(o))
        /\ \A i \in DOMAIN ready : ready'[i] = ready[i]
        /\ \A i \in DOMAIN o :
              Len(ready) + i \in DOMAIN ready' /\ ready'[Len(ready) + i] = o[i]
        /\ \A i \in DOMAIN ready' :
              i \in DOMAIN ready \/ i - Len(ready) \in DOMAIN o
    BY <2>2, <2>4, <2>5, ConcatProperties, LenProperties
  <2>7. \A i \in DOMAIN ready' :
            pc'[ready'[i]] = "waiting" /\ future'[ready'[i]] # "open"
    <3>1. \A i \in DOMAIN ready :
              pc'[ready'[i]] = "waiting" /\ future'[ready'[i]] # "open"
      BY <2>3, <2>5, <2>6 DEF NoLostWakeup
    <3>2. \A i \in DOMAIN o :
              /\ pc'[ready'[Len(ready) + i]] = "waiting"
              /\ future'[ready'[Len(ready) + i]] # "open"
      BY <2>3, <2>4, <2>6
    <3>3. ASSUME NEW i \in DOMAIN ready', i \notin DOMAIN ready
          PROVE  /\ i - Len(ready) \in DOMAIN o
                 /\ i = Len(ready) + (i - Len(ready))
      BY <2>5, <2>6, <3>3
    <3>4. QED
      BY <3>1, <3>2, <3>3
  <2>8. \A i, j \in DOMAIN ready' : ready'[i] = ready'[j] => i = j
    <3>1. ASSUME NEW i \in DOMAIN ready', NEW j \in DOMAIN ready',
                 ready'[i] = ready'[j]
          PROVE  i = j
      <4>1. CASE i \in DOMAIN ready /\ j \in DOMAIN ready
        BY <2>6, <3>1, <4>1 DEF NoLostWakeup
      <4>2. CASE i \in DOMAIN ready /\ j \notin DOMAIN ready
        BY <2>4, <2>5, <2>6, <3>1, <4>2
      <4>3. CASE i \notin DOMAIN ready /\ j \in DOMAIN ready
        BY <2>4, <2>5, <2>6, <3>1, <4>3
      <4>4. CASE i \notin DOMAIN ready /\ j \notin DOMAIN ready
        <5> DEFINE m == i - Len(ready)
                   n == j - Len(ready)
        <5>1. /\ m \in DOMAIN o /\ ready'[i] = o[m] /\ i = Len(ready) + m
              /\ n \in DOMAIN o /\ ready'[j] = o[n] /\ j = Len(ready) + n
          BY <2>5, <2>6, <4>4
        <5>2. m = n
          BY <2>4, <3>1, <5>1
        <5>3. QED
          BY <5>1, <5>2
      <4>5. QED
        BY <4>1, <4>2, <4>3, <4>4
    <3>2. QED
      BY <3>1
  <2>9. ASSUME NEW b \in Calls, pc'[b] = "waiting"
        PROVE  IF future'[b] = "open" THEN b \in pending'
               ELSE \E i \in DOMAIN ready' : ready'[i] = b
    <3>1. CASE b \in W
      BY <2>3, <2>4, <2>6, <3>1
    <3>2. CASE b \notin W /\ future[b] = "open"
      BY <2>3, <2>9, <3>2 DEF NoLostWakeup
    <3>3. CASE b \notin W /\ future[b] # "open"
      <4>1. PICK i \in DOMAIN ready : ready[i] = b
        BY <2>3, <2>9, <3>3 DEF NoLostWakeup
      <4>2. i \in DOMAIN ready' /\ ready'[i] = b
        BY <2>4, <2>5, <2>6, <4>1
      <4>3. QED
        BY <2>3, <3>3, <4>2
    <3>4. QED
      BY <3>1, <3>2, <3>3
  <2>10. QED
    BY <2>7, <2>8, <2>9 DEF NoLostWakeup
<1>3. QED
  BY <1>1, <1>2
-----------------------------------------------------------------------------
(* The invariant and its theorems.                                         *)

LEMMA TypeInvStep ==
    ASSUME PermissionAssumption, TypeInv, [Next]_vars
    PROVE  TypeInv'
<1>1. ASSUME NEW c \in Calls, NEW q \in Requests, CheckAndWait(c, q)
      PROVE  TypeInv'
  BY <1>1, CheckAndWaitTypeOK, CheckAndWaitRunning, CoroutineQueue DEF TypeInv
<1>2. ASSUME NEW c \in Calls, EmitDone(c) PROVE TypeInv'
  BY <1>2, EmitDoneTypeOK, EmitDoneRunning, CoroutineQueue DEF TypeInv
<1>3. ASSUME NEW c \in Calls, TimerFires(c) \/ CancelTask(c) PROVE TypeInv'
  BY <1>3, TimerAndCancelTypeOK, InterruptRunning, CoroutineQueue DEF TypeInv
<1>4. CASE Wake
  BY <1>4, WakeTypeOK, WakeRunning, WakeQueue DEF TypeInv
<1>5. ASSUME NEW c \in Calls, NEW d \in Decisions, Respond(c, d) PROVE TypeInv'
  BY <1>5, RespondTypeOK, OutsideRunning, RespondQueue DEF TypeInv
<1>6. ASSUME NEW s \in Sessions, Disconnect(s) PROVE TypeInv'
  BY <1>6, DisconnectTypeOK, OutsideRunning, DisconnectQueue DEF TypeInv
<1>7. ASSUME NEW s \in Sessions, Connect(s) PROVE TypeInv'
  BY <1>7 DEF Connect, TypeInv, TypeOK, Running, RunningAt, NoLostWakeup, mem
<1>8. CASE Restart
  <2>1. NoLostWakeup'
    BY <1>8 DEF Restart, NoLostWakeup, TypeInv, TypeOK
  <2>2. QED
    BY <1>8, <2>1, RestartTypeOK, OutsideRunning DEF TypeInv
<1>9. CASE UNCHANGED vars
  BY <1>9 DEF vars, mem, TypeInv, TypeOK, Running, RunningAt, NoLostWakeup
<1>10. QED
  BY <1>1, <1>2, <1>3, <1>4, <1>5, <1>6, <1>7, <1>8, <1>9
     DEF Next, PermissionAssumption

LEMMA TypeInvAlways == PermissionAssumption => (Spec => []TypeInv)
<1> SUFFICES ASSUME PermissionAssumption PROVE Spec => []TypeInv
  OBVIOUS
<1>1. Init => TypeInv
  BY InitTypeInv
<1>2. TypeInv /\ [Next]_vars => TypeInv'
  BY TypeInvStep
<1>3. QED
  BY <1>1, <1>2, PTL DEF Spec

\* Every variable of the manager keeps its type through any interleaving of
\* requests, answers, timers, cancellations, disconnects and restarts.
THEOREM TypeCorrect == Spec => []TypeOK
BY PermissionAssumption, TypeInvAlways, PTL DEF TypeInv

\* No answer is ever lost to a call that still waits for it.
THEOREM NoLostWakeupHolds == Spec => []NoLostWakeup
BY PermissionAssumption, TypeInvAlways, PTL DEF TypeInv
-----------------------------------------------------------------------------
(* The refinement: every step of the manager is a step of PermissionGate or *)
(* leaves the gate's variables alone.                                       *)

\* Whatever the caches and the file hold, the user said it once.  This is what
\* lets a cache, whose history is long forgotten, justify a verdict.
CachesWereGiven ==
    /\ \A s \in Sessions, t \in Tools :
          sessionAlways[s][t] # Unset => <<t, sessionAlways[s][t]>> \in given
    /\ \A t \in Tools :
          /\ persistentAlways[t] # Unset => <<t, persistentAlways[t]>> \in given
          /\ policyFile[t] # Unset => <<t, policyFile[t]>> \in given

GateInv == TypeInv /\ CachesWereGiven

LEMMA ApplyResponseGiven ==
    ASSUME PermissionAssumption, TypeOK, CachesWereGiven,
           NEW c \in Calls, call[c] \in Requests, NEW d \in Decisions,
           ApplyResponse(c, d)
    PROVE  CachesWereGiven'
<1> DEFINE q == call[c]
           table == [persistentAlways EXCEPT ![q.tool] = StandingOf(d)]
<1>1. q.session \in Sessions /\ q.tool \in Tools /\ StandingOf(d) \in Standings
  BY RequestFields DEF StandingOf, Standings
<1>2. CASE Always(d)
  <2>1. /\ given' = given \cup {<<q.tool, StandingOf(d)>>}
        /\ persistentAlways' = table
        /\ policyFile' \in SaveOutcomes(table)
        /\ sessionAlways' = [sessionAlways EXCEPT ![q.session][q.tool] = StandingOf(d)]
    BY <1>2 DEF ApplyResponse
  <2>2. table \in [Tools -> Standings \cup {Unset}]
    BY <1>1 DEF TypeOK
  <2>3. \A t \in Tools : table[t] # Unset => <<t, table[t]>> \in given'
    BY <1>1, <2>1 DEF CachesWereGiven, TypeOK
  <2>4. \A t \in Tools : policyFile'[t] \in {table[t], policyFile[t], Unset}
    BY <2>1, <2>2, SaveKeepsEntries DEF TypeOK
  <2>5. \A s \in Sessions, t \in Tools :
            sessionAlways'[s][t] # Unset => <<t, sessionAlways'[s][t]>> \in given'
    BY <1>1, <2>1 DEF CachesWereGiven, TypeOK
  <2>6. QED
    BY <2>1, <2>3, <2>4, <2>5 DEF CachesWereGiven
<1>3. CASE ~Always(d)
  BY <1>3 DEF ApplyResponse, CachesWereGiven, mem
<1>4. QED
  BY <1>2, <1>3

\* A coroutine that resumes with a decision applies it to its own request.
LEMMA WakeGiven ==
    ASSUME PermissionAssumption, GateInv, Wake
    PROVE  CachesWereGiven'
<1> USE DEF GateInv
<1>1. CASE ApplyResponse(Head(ready), future[Head(ready)])
           /\ interrupt[Head(ready)] = "none"
  BY <1>1, HeadWaits, ApplyResponseGiven DEF TypeInv, Wake
<1>2. CASE UNCHANGED <<mem, policyFile, given>>
  BY <1>2 DEF CachesWereGiven, mem
<1>3. QED
  BY <1>1, <1>2 DEF Wake

LEMMA EmitDoneGiven ==
    ASSUME PermissionAssumption, GateInv, NEW c \in Calls, EmitDone(c)
    PROVE  CachesWereGiven'
<1> USE DEF GateInv
<1>1. call[c] \in Requests
  BY DEF EmitDone, TypeInv, Running, RunningAt
<1>2. CASE UNCHANGED <<mem, policyFile, given>>
  BY <1>2 DEF CachesWereGiven, mem
<1>3. CASE future[c] \in Decisions /\ ApplyResponse(c, future[c])
  BY <1>1, <1>3, ApplyResponseGiven DEF TypeInv
<1>4. QED
  BY <1>2, <1>3 DEF EmitDone

LEMMA GateInvStep ==
    ASSUME PermissionAssumption, GateInv, [Next]_vars
    PROVE  GateInv'
<1> USE DEF GateInv
<1>1. TypeInv'
  BY TypeInvStep
<1>2. CachesWereGiven'
  <2>1. ASSUME NEW c \in Calls,
               \/ \E q \in Requests : CheckAndWait(c, q)
               \/ TimerFires(c) \/ CancelTask(c)
               \/ \E d \in Decisions : Respond(c, d)
        PROVE  CachesWereGiven'
    BY <2>1 DEF CheckAndWait, TimerFires, CancelTask, Respond, CachesWereGiven, mem
  <2>2. ASSUME NEW s \in Sessions, Disconnect(s) \/ Connect(s)
        PROVE  CachesWereGiven'
    BY <2>2 DEF Disconnect, Connect, CachesWereGiven, mem
  <2>3. CASE Restart
    BY <2>3 DEF Restart, CachesWereGiven, TypeInv, TypeOK
  <2>4. CASE UNCHANGED vars
    BY <2>4 DEF vars, mem, CachesWereGiven
  <2>5. QED
    BY <2>1, <2>2, <2>3, <2>4, WakeGiven, EmitDoneGiven
       DEF Next, PermissionAssumption
<1>3. QED
  BY <1>1, <1>2
-----------------------------------------------------------------------------
(* The steps of the gate.                                                  *)

\* The tiers decide within what the gate permits.
LEMMA EvaluateIsPermitted ==
    ASSUME PermissionAssumption, GateInv, NEW q \in Requests
    PROVE  /\ Evaluate(q) = "allow" => Gate!MayAllow(q)
           /\ Evaluate(q) = "deny" => Gate!MayRefuse(q)
           /\ Evaluate(q) = "ask" => q.kind # "deny_pattern"
<1>1. q.session \in Sessions /\ q.tool \in Tools
  BY RequestFields
<1>2. Standing(q) # Unset => <<q.tool, Standing(q)>> \in given
  BY <1>1 DEF GateInv, CachesWereGiven, Standing
<1>3. QED
  BY <1>1, <1>2 DEF Evaluate, Gate!MayAllow, Gate!MayRefuse, Unset

\* What a step does to the verdicts, when it stops the coroutine of one call.
LEMMA VerdictOfOne ==
    ASSUME TypeOK, NEW c \in Calls, NEW v,
           \A b \in Calls \ {c} : pc'[b] = pc[b] /\ outcome'[b] = outcome[b],
           Verdict(c)' = v
    PROVE  [b \in Calls |-> Verdict(b)]' = [[b \in Calls |-> Verdict(b)] EXCEPT ![c] = v]
<1>1. \A b \in Calls \ {c} : Verdict(b)' = Verdict(b)
  BY DEF Verdict
<1>2. QED
  BY <1>1

LEMMA JudgeStep ==
    ASSUME PermissionAssumption, GateInv, NEW c \in Calls, NEW q \in Requests,
           CheckAndWait(c, q)
    PROVE  Gate!Judge(c, q)
<1> USE DEF GateInv, TypeInv
<1>1. Verdict(c) = "none" /\ call' = [call EXCEPT ![c] = q] /\ given' = given
  BY DEF CheckAndWait, Verdict
<1>2. \A b \in Calls \ {c} : pc'[b] = pc[b] /\ outcome'[b] = outcome[b]
  BY DEF CheckAndWait, Return, TypeOK
<1>3. CASE Evaluate(q) = "allow" /\ Return(c, TRUE, "auto_allow")
  <2>1. Verdict(c)' = "allowed"
    BY <1>3 DEF Return, Verdict, TypeOK
  <2>2. QED
    BY <1>1, <1>2, <1>3, <2>1, VerdictOfOne, EvaluateIsPermitted DEF Gate!Judge
<1>4. CASE Evaluate(q) = "deny" /\ Return(c, FALSE, "auto_deny")
  <2>1. Verdict(c)' = "refused"
    BY <1>4 DEF Return, Verdict, TypeOK
  <2>2. QED
    BY <1>1, <1>2, <1>4, <2>1, VerdictOfOne, EvaluateIsPermitted DEF Gate!Judge
<1>5. CASE Evaluate(q) = "ask" /\ pc' = [pc EXCEPT ![c] = "emitting"]
  <2>1. Verdict(c)' = "asked"
    BY <1>5 DEF Verdict, TypeOK
  <2>2. QED
    BY <1>1, <1>2, <1>5, <2>1, VerdictOfOne, EvaluateIsPermitted DEF Gate!Judge
<1>6. QED
  BY <1>3, <1>4, <1>5 DEF CheckAndWait

\* Reading an answer from the future is the gate's Answer.
LEMMA AnswerStep ==
    ASSUME PermissionAssumption, GateInv, NEW c \in Calls, NEW d \in Decisions,
           pc[c] \in {"emitting", "waiting"}, call' = call,
           ApplyResponse(c, d), Return(c, Allows(d), d)
    PROVE  Gate!Answer(c, d)
<1> USE DEF GateInv, TypeInv
<1>1. \A b \in Calls \ {c} : pc'[b] = pc[b] /\ outcome'[b] = outcome[b]
  BY DEF Return, TypeOK
<1>2. Verdict(c) = "asked"
  BY DEF Verdict
<1>3. pc'[c] = "returned" /\ outcome'[c].allowed = Allows(d)
  BY DEF Return, TypeOK
<1>4. Verdict(c)' = IF d \in {"allow_once", "always_allow"}
                    THEN "allowed" ELSE "refused"
  BY <1>3 DEF Verdict, Allows
<1>5. given' = given \cup
          (CASE d = "always_allow" -> {<<call[c].tool, "allow">>}
             [] d = "always_deny"  -> {<<call[c].tool, "deny">>}
             [] OTHER              -> {})
  BY DEF ApplyResponse, Always, StandingOf
<1>6. QED
  BY <1>1, <1>2, <1>4, <1>5, VerdictOfOne DEF Gate!Answer

\* Ending the coroutines of a set of calls without an answer is its GiveUp.
LEMMA GiveUpStep ==
    ASSUME TypeOK, NEW S \in SUBSET Calls, call' = call, given' = given,
           \A c \in S : /\ pc[c] \in {"emitting", "waiting"}
                        /\ Verdict(c)' = "refused",
           \A c \in Calls \ S : pc'[c] = pc[c] /\ outcome'[c] = outcome[c]
    PROVE  Gate!GiveUp(S)
<1>1. \A c \in S : Verdict(c) = "asked"
  BY DEF Verdict
<1>2. \A c \in Calls \ S : Verdict(c)' = Verdict(c)
  BY DEF Verdict
<1>3. [c \in Calls |-> Verdict(c)]' =
          [c \in Calls |-> IF c \in S THEN "refused" ELSE Verdict(c)]
  BY <1>2
<1>4. QED
  BY <1>1, <1>3 DEF Gate!GiveUp

\* Steps that end no coroutine leave every verdict, request and decision alone.
LEMMA GateStutters ==
    ASSUME pc' = pc, outcome' = outcome, call' = call, given' = given
    PROVE  UNCHANGED Gate!vars
BY DEF Gate!vars, Verdict

LEMMA EmitDoneStep ==
    ASSUME PermissionAssumption, GateInv, NEW c \in Calls, EmitDone(c)
    PROVE  [Gate!Next]_Gate!vars
<1> USE DEF GateInv, TypeInv
<1>1. call' = call /\ pc[c] = "emitting"
  BY DEF EmitDone
<1>2. CASE /\ pc' = [pc EXCEPT ![c] = "waiting"]
           /\ UNCHANGED <<future, interrupt, outcome, mem, policyFile, given>>
  <2>1. \A b \in Calls : Verdict(b)' = Verdict(b)
    BY <1>1, <1>2 DEF Verdict, TypeOK
  <2>2. QED
    BY <1>1, <1>2, <2>1 DEF Gate!vars
<1>3. CASE /\ future[c] \in Decisions
           /\ ApplyResponse(c, future[c])
           /\ Return(c, Allows(future[c]), future[c])
  BY <1>1, <1>3, AnswerStep DEF Gate!Next, Decisions
<1>4. QED
  BY <1>2, <1>3 DEF EmitDone

LEMMA CancelTaskStep ==
    ASSUME PermissionAssumption, GateInv, NEW c \in Calls, CancelTask(c)
    PROVE  [Gate!Next]_Gate!vars
<1> USE DEF GateInv, TypeInv
<1>1. call' = call /\ outcome' = outcome /\ given' = given
  BY DEF CancelTask
<1>2. CASE pc[c] = "emitting" /\ pc' = [pc EXCEPT ![c] = "aborted"]
  <2>1. Verdict(c)' = "refused"
    BY <1>2 DEF Verdict, TypeOK
  <2>2. \A b \in Calls \ {c} : pc'[b] = pc[b] /\ outcome'[b] = outcome[b]
    BY <1>1, <1>2 DEF TypeOK
  <2>3. Gate!GiveUp({c})
    BY <1>1, <1>2, <2>1, <2>2, GiveUpStep
  <2>4. QED
    BY <2>3 DEF Gate!Next
<1>3. CASE pc' = pc
  BY <1>1, <1>3, GateStutters
<1>4. QED
  BY <1>2, <1>3 DEF CancelTask

LEMMA WakeStep ==
    ASSUME PermissionAssumption, GateInv, Wake
    PROVE  [Gate!Next]_Gate!vars
<1> USE DEF GateInv, TypeInv
<1>1. PICK c \in Calls :
          /\ c = Head(ready) /\ pc[c] = "waiting" /\ call' = call
          /\ interrupt[c] = "none" => future[c] \in Decisions
  BY HeadWaits DEF Wake
<1>2. CASE interrupt[c] = "none"
  <2>1. ApplyResponse(c, future[c]) /\ Return(c, Allows(future[c]), future[c])
    BY <1>1, <1>2 DEF Wake
  <2>2. Gate!Answer(c, future[c])
    BY <1>1, <1>2, <2>1, AnswerStep
  <2>3. QED
    BY <1>1, <1>2, <2>2 DEF Gate!Next, Decisions
<1>3. CASE interrupt[c] # "none"
  <2>1. given' = given
    BY <1>1, <1>3 DEF Wake
  <2>2. /\ \/ pc'[c] = "aborted"
           \/ pc'[c] = "returned" /\ outcome'[c].allowed = FALSE
        /\ \A b \in Calls \ {c} : pc'[b] = pc[b] /\ outcome'[b] = outcome[b]
    BY <1>1, <1>3 DEF Wake, Return, TypeOK
  <2>3. Verdict(c)' = "refused"
    BY <2>2 DEF Verdict
  <2>4. Gate!GiveUp({c})
    BY <1>1, <2>1, <2>2, <2>3, GiveUpStep
  <2>5. QED
    BY <2>4 DEF Gate!Next
<1>4. QED
  BY <1>2, <1>3

\* The death of the daemon gives up every call in flight, and no other.
LEMMA RestartStep ==
    ASSUME PermissionAssumption, GateInv, Restart
    PROVE  [Gate!Next]_Gate!vars
<1> USE DEF GateInv, TypeInv
<1> DEFINE S == {c \in Calls : pc[c] \in {"emitting", "waiting"}}
<1>1. PICK L \in SUBSET Calls : L = S
  OBVIOUS
<1>2. call' = call /\ given' = given /\ outcome' = outcome
  BY DEF Restart
<1>3. \A c \in L : pc[c] \in {"emitting", "waiting"} /\ Verdict(c)' = "refused"
  BY <1>1 DEF Restart, Verdict
<1>4. \A c \in Calls \ L : pc'[c] = pc[c] /\ outcome'[c] = outcome[c]
  BY <1>1, <1>2 DEF Restart
<1>5. Gate!GiveUp(L)
  BY <1>2, <1>3, <1>4, GiveUpStep
<1>6. QED
  BY <1>5 DEF Gate!Next

LEMMA GateStep ==
    ASSUME PermissionAssumption, GateInv, [Next]_vars
    PROVE  [Gate!Next]_Gate!vars
<1>1. ASSUME NEW c \in Calls, NEW q \in Requests, CheckAndWait(c, q)
      PROVE  [Gate!Next]_Gate!vars
  BY <1>1, JudgeStep DEF Gate!Next
<1>2. ASSUME NEW c \in Calls, TimerFires(c) \/ \E d \in Decisions : Respond(c, d)
      PROVE  [Gate!Next]_Gate!vars
  BY <1>2, GateStutters DEF TimerFires, Respond
<1>3. ASSUME NEW s \in Sessions, Disconnect(s) \/ Connect(s)
      PROVE  [Gate!Next]_Gate!vars
  BY <1>3, GateStutters DEF Disconnect, Connect
<1>4. CASE UNCHANGED vars
  BY <1>4, GateStutters DEF vars
<1>5. QED
  BY <1>1, <1>2, <1>3, <1>4, EmitDoneStep, CancelTaskStep, WakeStep, RestartStep
     DEF Next, PermissionAssumption

LEMMA GateInit ==
    ASSUME PermissionAssumption, Init
    PROVE  GateInv /\ Gate!Init
<1>1. TypeInv
  BY InitTypeInv
<1>2. CachesWereGiven
  BY DEF Init, CachesWereGiven, Standings, Unset
<1>3. Gate!Init
  BY DEF Init, Gate!Init, Verdict, Gate!NoRequest, NoRequest, Standings
<1>4. QED
  BY <1>1, <1>2, <1>3 DEF GateInv

\* Every call the manager lets through has its reason: for any calls, sessions,
\* tools, policy and number of restarts, check_and_wait, with its caches, file,
\* timers and cancellations, behaves as PermissionGate allows.
THEOREM ManagerImplementsGate == Spec => ImplementsGate
<1> USE PermissionAssumption
<1>1. Init => GateInv /\ Gate!Init
  BY GateInit
<1>2. GateInv /\ [Next]_vars => GateInv'
  BY GateInvStep
<1>3. GateInv /\ [Next]_vars => [Gate!Next]_Gate!vars
  BY GateStep
<1>4. QED
  BY <1>1, <1>2, <1>3, PTL DEF Spec, ImplementsGate, Gate!Spec
-----------------------------------------------------------------------------
(* The order of answers.                                                    *)

\* A call that was answered has started, and its future is completed; it was
\* answered as it was waiting, unless it is still being emitted.
Answered ==
    \A i \in DOMAIN answered :
        LET c == answered[i].call
        IN  /\ pc[c] # "idle" /\ future[c] # "open"
            /\ pc[c] = "emitting" => ~answered[i].waiting

\* Only a call that returned has an outcome; its future is gone.
Undecided ==
    \A c \in Calls : IF pc[c] = "returned" THEN future[c] = "none"
                     ELSE outcome[c] = NoOutcome

\* An always-decision in the future of a call in flight is an answer on record.
Recorded ==
    \A c \in Calls :
        pc[c] \in {"emitting", "waiting"} /\ Always(future[c]) =>
            \E i \in DOMAIN answered :
                answered[i].call = c /\ answered[i].decision = future[c]

\* Calls that were answered while they waited wake in the order of the answers.
InTurn ==
    \A i, j \in DOMAIN answered :
        i < j /\ answered[i].waiting /\ answered[j].waiting =>
            \A p \in DOMAIN ready :
                ready[p] = answered[i].call =>
                    \E m \in DOMAIN ready : m > p /\ ready[m] = answered[j].call

CachesFollow ==
    /\ \A t \in Tools : Stands(AboutTool(t), persistentAlways[t])
    /\ \A s \in Sessions, t \in Tools :
          Stands(AboutSession(s, t), sessionAlways[s][t])

OrderInv ==
    TypeInv /\ Answered /\ Undecided /\ Recorded /\ InTurn /\ CachesFollow

\* A step that puts calls on the ready queue puts them behind those that wait
\* there, and their futures were open.
QueueGrows ==
    /\ DOMAIN ready \subseteq DOMAIN ready'
    /\ \A p \in DOMAIN ready : ready'[p] = ready[p]
    /\ \A p \in DOMAIN ready' \ DOMAIN ready : future[ready'[p]] = "open"

LEMMA ScheduleGrows ==
    ASSUME TypeInv, NEW c \in Calls, Schedule(c)
    PROVE  /\ QueueGrows
           /\ pc[c] = "waiting" /\ future[c] = "open" =>
                 \E m \in DOMAIN ready' :
                     ready'[m] = c /\ \A p \in DOMAIN ready : p < m
<1>1. /\ ready \in Seq(Calls) /\ Len(ready) \in Nat
      /\ DOMAIN ready = 1..Len(ready)
  BY LenProperties DEF TypeInv, TypeOK
<1>2. CASE pc[c] = "waiting" /\ future[c] = "open"
  <2>1. /\ DOMAIN ready' = 1..(Len(ready) + 1)
        /\ \A p \in DOMAIN ready : ready'[p] = ready[p]
        /\ ready'[Len(ready) + 1] = c
    BY <1>1, <1>2, AppendProperties, LenProperties DEF Schedule
  <2>2. /\ Len(ready) + 1 \in DOMAIN ready'
        /\ \A p \in DOMAIN ready : p < Len(ready) + 1
        /\ DOMAIN ready \subseteq DOMAIN ready'
        /\ \A p \in DOMAIN ready' \ DOMAIN ready : p = Len(ready) + 1
    BY <1>1, <2>1
  <2>3. QED
    BY <1>2, <2>1, <2>2 DEF QueueGrows
<1>3. CASE ~(pc[c] = "waiting" /\ future[c] = "open")
  BY <1>3 DEF Schedule, QueueGrows
<1>4. QED
  BY <1>2, <1>3

LEMMA DisconnectGrows ==
    ASSUME PermissionAssumption, TypeInv, NEW s \in Sessions, Disconnect(s)
    PROVE  QueueGrows
<1>1. CASE ~CancelHook
  BY <1>1 DEF Disconnect, QueueGrows
<1>2. CASE CancelHook
  <2> DEFINE W == {c \in {x \in {y \in pending : call[y].session = s} :
                            future[x] = "open"} : pc[c] = "waiting"}
  <2>1. IsFiniteSet(W) /\ W \subseteq Calls /\ \A c \in W : future[c] = "open"
    BY FS_Subset DEF PermissionAssumption, TypeInv, TypeOK
  <2>2. PICK o \in Orders(W) : ready' = ready \o o
    BY <1>2 DEF Disconnect, CancelSession
  <2> HIDE DEF W
  <2>3. /\ o \in Seq(Calls) /\ DOMAIN o = 1..Len(o) /\ Len(o) \in Nat
        /\ \A p \in DOMAIN o : o[p] \in W
    BY <2>1, OrdersAreSequences, LenProperties
  <2>4. ready \in Seq(Calls) /\ DOMAIN ready = 1..Len(ready) /\ Len(ready) \in Nat
    BY LenProperties DEF TypeInv, TypeOK
  <2>5. /\ DOMAIN ready' = 1..(Len(ready) + Len(o))
        /\ \A p \in DOMAIN ready : ready'[p] = ready[p]
        /\ \A p \in DOMAIN o : ready'[Len(ready) + p] = o[p]
    BY <2>2, <2>3, <2>4, ConcatProperties, LenProperties
  <2>6. ASSUME NEW p \in DOMAIN ready' \ DOMAIN ready
        PROVE  future[ready'[p]] = "open"
    <3>1. /\ p - Len(ready) \in DOMAIN o
          /\ p = Len(ready) + (p - Len(ready))
      BY <2>3, <2>4, <2>5
    <3>2. ready'[p] = o[p - Len(ready)]
      BY <2>5, <3>1
    <3>3. QED
      BY <2>1, <2>3, <3>1, <3>2
  <2>7. QED
    BY <2>3, <2>4, <2>5, <2>6 DEF QueueGrows
<1>3. QED
  BY <1>1, <1>2

LEMMA InTurnKept ==
    ASSUME Answered, InTurn, QueueGrows, answered' = answered
    PROVE  InTurn'
<1>1. ASSUME NEW i \in DOMAIN answered, NEW p \in DOMAIN ready',
             ready'[p] = answered[i].call
      PROVE  p \in DOMAIN ready /\ ready[p] = answered[i].call
  BY <1>1 DEF Answered, QueueGrows
<1>2. QED
  BY <1>1 DEF InTurn, QueueGrows

\* What took effect stays so, unless the step decides or starts a call that was
\* answered.
LEMMA EffectiveKept ==
    ASSUME answered' = answered,
           \A i \in DOMAIN answered :
              LET c == answered[i].call
              IN  outcome'[c] = outcome[c] /\ call'[c] = call[c],
           UNCHANGED mem, CachesFollow
    PROVE  CachesFollow'
<1>1. ASSUME NEW Q PROVE Effective(Q)' = Effective(Q)
  BY DEF Effective
<1>2. ASSUME NEW Q, NEW v, Stands(Q, v) PROVE Stands(Q, v)'
  BY <1>1, <1>2 DEF Stands
<1>3. QED
  BY <1>2 DEF CachesFollow, AboutTool, AboutSession, mem

\* No call that was answered later, while both waited, has taken its decision.
FirstOfLater(i) ==
    \A j \in DOMAIN answered :
        /\ i < j /\ answered[i].waiting /\ answered[j].waiting
        /\ answered[j].call # answered[i].call
        => outcome[answered[j].call] = NoOutcome

\* When call c applies decision d, its answer is the latest of those that took
\* effect, unless it was given before c waited; both caches then hold it.
LEMMA DecisionCached ==
    ASSUME PermissionAssumption, OrderInv, NEW c \in Calls, call[c] \in Requests,
           NEW d \in Decisions, ApplyResponse(c, d),
           answered' = answered, call' = call,
           outcome[c] = NoOutcome, outcome'[c].decision = d,
           \A b \in Calls \ {c} : outcome'[b] = outcome[b],
           Always(d) => \E i \in DOMAIN answered :
              answered[i].call = c /\ answered[i].decision = d /\ FirstOfLater(i)
    PROVE  CachesFollow'
<1>1. /\ TypeOK /\ CachesFollow
      /\ answered \in Seq([call : Calls, decision : Decisions, waiting : BOOLEAN])
  BY DEF OrderInv, TypeInv, TypeOK
<1>2. /\ call[c].session \in Sessions /\ call[c].tool \in Tools
      /\ StandingOf(d) \in Standings
  BY RequestFields DEF StandingOf, Standings
<1>3. ASSUME NEW Q, call[c] \notin Q \/ ~Always(d)
      PROVE  Effective(Q)' = Effective(Q)
  <2>1. ASSUME NEW i \in DOMAIN answered,
               answered[i].call # c \/ call[c] \notin Q \/ ~Always(d)
        PROVE  i \in Effective(Q)' <=> i \in Effective(Q)
    <3>1. answered[i].call \in Calls /\ answered[i].decision \in Decisions
      <4>1. i \in 1..Len(answered)
        BY <1>1, LenProperties
      <4>2. answered[i] \in [call : Calls, decision : Decisions, waiting : BOOLEAN]
        BY <1>1, <4>1, ElementOfSeq
      <4>3. QED
        BY <4>2
    <3>2. CASE answered[i].call # c
      BY <3>1, <3>2 DEF Effective
    <3>3. CASE answered[i].call = c /\ call[c] \notin Q
      BY <3>3 DEF Effective
    <3>4. CASE answered[i].call = c /\ ~Always(d)
      BY <3>1, <3>4 DEF Effective, NoOutcome, Decisions, Always
    <3>5. QED
      BY <2>1, <3>2, <3>3, <3>4
  <2>2. QED
    BY <1>3, <2>1 DEF Effective
<1>4. ASSUME NEW Q, NEW v, Stands(Q, v), call[c] \notin Q \/ ~Always(d)
      PROVE  \A k \in Effective(Q)' :
                (\A j \in Effective(Q)' : answered'[j].waiting /\ j <= k) =>
                    v = StandingOf(answered'[k].decision)
  BY <1>3, <1>4 DEF Stands
<1>5. ASSUME NEW Q, call[c] \in Q, Always(d)
      PROVE  \A k \in Effective(Q)' :
                (\A j \in Effective(Q)' : answered'[j].waiting /\ j <= k) =>
                    StandingOf(d) = StandingOf(answered'[k].decision)
  <2>1. PICK i \in DOMAIN answered :
          answered[i].call = c /\ answered[i].decision = d /\ FirstOfLater(i)
    BY <1>5
  <2>2. ASSUME NEW k \in Effective(Q)',
               \A j \in Effective(Q)' : answered[j].waiting /\ j <= k
        PROVE  answered[k].decision = d
    <3>1. /\ i \in Effective(Q)' /\ k \in DOMAIN answered
          /\ i \in Nat /\ k \in Nat
          /\ answered[k].call \in Calls /\ answered[k].decision \in Decisions
      <4>1. i \in Effective(Q)' /\ k \in DOMAIN answered
        BY <1>5, <2>1, <2>2 DEF Effective
      <4>2. DOMAIN answered = 1..Len(answered) /\ Len(answered) \in Nat
        BY <1>1, LenProperties
      <4>3. answered[k] \in [call : Calls, decision : Decisions, waiting : BOOLEAN]
        BY <1>1, <4>1, <4>2, ElementOfSeq
      <4>4. QED
        BY <2>1, <4>1, <4>2, <4>3
    <3>2. i <= k /\ answered[i].waiting /\ answered[k].waiting
      BY <2>2, <3>1
    <3>3. CASE answered[k].call = c
      BY <2>2, <3>3 DEF Effective
    <3>4. CASE answered[k].call # c
      <4>1. i < k
        BY <2>1, <3>1, <3>2, <3>4
      <4>2. outcome'[answered[k].call] = NoOutcome
        BY <2>1, <3>1, <3>2, <3>4, <4>1, ElementOfSeq DEF FirstOfLater
      <4>3. outcome'[answered[k].call].decision = answered[k].decision
        BY <2>2 DEF Effective
      <4>4. QED
        BY <3>1, <4>2, <4>3 DEF NoOutcome, Decisions
    <3>5. QED
      BY <3>3, <3>4
  <2>3. QED
    BY <2>2
<1>6. \A t \in Tools :
          persistentAlways'[t] = IF Always(d) /\ t = call[c].tool
                                 THEN StandingOf(d) ELSE persistentAlways[t]
  BY <1>1, <1>2 DEF ApplyResponse, mem, TypeOK
<1>7. \A s \in Sessions, t \in Tools :
          sessionAlways'[s][t] =
              IF Always(d) /\ s = call[c].session /\ t = call[c].tool
              THEN StandingOf(d) ELSE sessionAlways[s][t]
  BY <1>1, <1>2 DEF ApplyResponse, mem, TypeOK
<1>8. ASSUME NEW t \in Tools PROVE Stands(AboutTool(t), persistentAlways[t])'
  <2> DEFINE Q == AboutTool(t)
  <2>1. (call[c] \in Q) <=> (t = call[c].tool)
    BY DEF AboutTool
  <2>2. Stands(Q, persistentAlways[t]) /\ Q' = Q
    BY <1>1 DEF CachesFollow, AboutTool
  <2> HIDE DEF Q
  <2>3. CASE Always(d) /\ t = call[c].tool
    BY <1>5, <1>6, <2>1, <2>3 DEF Stands, Q, AboutTool
  <2>4. CASE ~(Always(d) /\ t = call[c].tool)
    <3>1. \A k \in Effective(Q)' :
              (\A j \in Effective(Q)' : answered'[j].waiting /\ j <= k) =>
                  persistentAlways[t] = StandingOf(answered'[k].decision)
      BY <1>4, <2>1, <2>2, <2>4
    <3>2. QED
      BY <1>6, <2>4, <3>1 DEF Stands, Q, AboutTool
  <2>5. QED
    BY <2>3, <2>4
<1>9. ASSUME NEW s \in Sessions, NEW t \in Tools
      PROVE  Stands(AboutSession(s, t), sessionAlways[s][t])'
  <2> DEFINE Q == AboutSession(s, t)
  <2>1. (call[c] \in Q) <=> (s = call[c].session /\ t = call[c].tool)
    BY DEF AboutSession
  <2>2. Stands(Q, sessionAlways[s][t]) /\ Q' = Q
    BY <1>1 DEF CachesFollow, AboutSession
  <2> HIDE DEF Q
  <2>3. CASE Always(d) /\ s = call[c].session /\ t = call[c].tool
    BY <1>5, <1>7, <2>1, <2>3 DEF Stands, Q, AboutSession
  <2>4. CASE ~(Always(d) /\ s = call[c].session /\ t = call[c].tool)
    <3>1. \A k \in Effective(Q)' :
              (\A j \in Effective(Q)' : answered'[j].waiting /\ j <= k) =>
                  sessionAlways[s][t] = StandingOf(answered'[k].decision)
      BY <1>4, <2>1, <2>2, <2>4
    <3>2. QED
      BY <1>7, <2>4, <3>1 DEF Stands, Q, AboutSession
  <2>5. QED
    BY <2>3, <2>4
<1>10. QED
  BY <1>8, <1>9 DEF CachesFollow

\* Whose answer a place in the record holds.
LEMMA AnswerFields ==
    ASSUME TypeInv, NEW i \in DOMAIN answered
    PROVE  /\ answered[i].call \in Calls
           /\ answered[i].decision \in Decisions
           /\ answered[i].waiting \in BOOLEAN
           /\ i \in Nat
<1>1. /\ answered \in Seq([call : Calls, decision : Decisions, waiting : BOOLEAN])
      /\ i \in 1..Len(answered) /\ Len(answered) \in Nat
  BY LenProperties DEF TypeInv, TypeOK
<1>2. answered[i] \in [call : Calls, decision : Decisions, waiting : BOOLEAN]
  BY <1>1, ElementOfSeq
<1>3. QED
  BY <1>1, <1>2

LEMMA CheckAndWaitOrder ==
    ASSUME PermissionAssumption, OrderInv, NEW c \in Calls, NEW q \in Requests,
           CheckAndWait(c, q)
    PROVE  Answered' /\ Undecided' /\ Recorded' /\ InTurn' /\ CachesFollow'
<1> USE DEF OrderInv
<1>1. /\ pc[c] = "idle" /\ ready' = ready /\ answered' = answered
      /\ UNCHANGED mem
      /\ \A b \in Calls \ {c} :
            /\ pc'[b] = pc[b] /\ future'[b] = future[b]
            /\ outcome'[b] = outcome[b] /\ call'[b] = call[b]
      /\ \/ pc'[c] = "returned" /\ future'[c] = "none"
         \/ pc'[c] = "emitting" /\ future'[c] = "open" /\ outcome'[c] = outcome[c]
  BY DEF CheckAndWait, Return, TypeInv, TypeOK
<1>2. \A i \in DOMAIN answered : answered[i].call \in Calls \ {c}
  BY <1>1, AnswerFields DEF Answered
<1>3. Answered'
  BY <1>1, <1>2 DEF Answered
<1>4. Undecided'
  BY <1>1 DEF Undecided
<1>5. Recorded'
  BY <1>1 DEF Recorded, Always
<1>6. InTurn'
  BY <1>1 DEF InTurn
<1>7. CachesFollow'
  BY <1>1, <1>2, EffectiveKept
<1>8. QED
  BY <1>3, <1>4, <1>5, <1>6, <1>7

\* An answer that came while the request was being emitted was not given in turn.
LEMMA EmitDoneOrder ==
    ASSUME PermissionAssumption, OrderInv, NEW c \in Calls, EmitDone(c)
    PROVE  Answered' /\ Undecided' /\ Recorded' /\ InTurn' /\ CachesFollow'
<1> USE DEF OrderInv
<1>1. /\ pc[c] = "emitting" /\ outcome[c] = NoOutcome /\ call[c] \in Requests
      /\ call' = call /\ ready' = ready /\ answered' = answered
  BY DEF EmitDone, Undecided, TypeInv, Running, RunningAt
<1>2. InTurn'
  BY <1>1 DEF InTurn
<1>3. CASE future[c] = "open"
  <2>1. /\ pc' = [pc EXCEPT ![c] = "waiting"]
        /\ UNCHANGED <<future, outcome, mem>>
    BY <1>3 DEF EmitDone, Decisions
  <2>2. \A b \in Calls : pc'[b] = IF b = c THEN "waiting" ELSE pc[b]
    BY <2>1 DEF TypeInv, TypeOK
  <2>3. \A i \in DOMAIN answered : answered[i].call \in Calls \ {c}
    BY <1>3, AnswerFields DEF Answered
  <2>4. Answered'
    BY <1>1, <2>1, <2>2, <2>3 DEF Answered
  <2>5. Undecided'
    BY <1>1, <2>1, <2>2 DEF Undecided
  <2>6. Recorded'
    BY <1>1, <1>3, <2>1, <2>2 DEF Recorded, Always
  <2>7. CachesFollow'
    BY <1>1, <2>1, EffectiveKept
  <2>8. QED
    BY <1>2, <2>4, <2>5, <2>6, <2>7
<1>4. CASE future[c] \in Decisions
  <2> DEFINE d == future[c]
  <2>1. /\ ApplyResponse(c, d)
        /\ pc'[c] = "returned" /\ future'[c] = "none" /\ outcome'[c].decision = d
        /\ \A b \in Calls \ {c} :
              /\ pc'[b] = pc[b] /\ future'[b] = future[b]
              /\ outcome'[b] = outcome[b]
    BY <1>4 DEF EmitDone, Return, TypeInv, TypeOK, Decisions
  <2>2. Answered'
    BY <1>1, <2>1, AnswerFields DEF Answered
  <2>3. Undecided'
    BY <2>1 DEF Undecided
  <2>4. Recorded'
    BY <1>1, <2>1 DEF Recorded
  <2>5. Always(d) => \E i \in DOMAIN answered :
            answered[i].call = c /\ answered[i].decision = d /\ FirstOfLater(i)
    BY <1>1 DEF Recorded, Answered, FirstOfLater
  <2>6. CachesFollow'
    <3> HIDE DEF d
    <3>1. d \in Decisions
      BY <1>4 DEF d
    <3>2. QED
      BY <1>1, <2>1, <2>5, <3>1, DecisionCached
  <2>7. QED
    BY <1>2, <2>2, <2>3, <2>4, <2>6
<1>5. QED
  BY <1>3, <1>4 DEF EmitDone

LEMMA InterruptOrder ==
    ASSUME PermissionAssumption, OrderInv, NEW c \in Calls,
           TimerFires(c) \/ CancelTask(c)
    PROVE  Answered' /\ Undecided' /\ Recorded' /\ InTurn' /\ CachesFollow'
<1> USE DEF OrderInv
<1>1. /\ answered' = answered /\ outcome' = outcome /\ call' = call
      /\ UNCHANGED mem
      /\ \A b \in Calls :
            /\ future'[b] = future[b]
               \/ (b = c /\ future[b] = "open" /\ future'[b] = "cancelled")
            /\ pc'[b] = pc[b] \/ (pc[b] = "emitting" /\ pc'[b] = "aborted")
  BY DEF TimerFires, CancelTask, TypeInv, TypeOK
<1>2. QueueGrows
  <2>1. CASE Schedule(c)
    BY <2>1, ScheduleGrows
  <2>2. CASE ready' = ready
    BY <2>2 DEF QueueGrows
  <2>3. QED
    BY <2>1, <2>2 DEF TimerFires, CancelTask
<1>3. Answered'
  BY <1>1, AnswerFields DEF Answered
<1>4. Undecided'
  BY <1>1 DEF Undecided
<1>5. Recorded'
  BY <1>1 DEF Recorded, Always
<1>6. InTurn'
  BY <1>1, <1>2, InTurnKept
<1>7. CachesFollow'
  BY <1>1, EffectiveKept
<1>8. QED
  BY <1>3, <1>4, <1>5, <1>6, <1>7

\* The call that wakes first was answered first.
LEMMA WakeOrder ==
    ASSUME PermissionAssumption, OrderInv, Wake
    PROVE  Answered' /\ Undecided' /\ Recorded' /\ InTurn' /\ CachesFollow'
<1> USE DEF OrderInv
<1>1. PICK c \in Calls :
          /\ c = Head(ready) /\ ready[1] = c /\ pc[c] = "waiting"
          /\ call[c] \in Requests
          /\ interrupt[c] = "none" => future[c] \in Decisions
  BY HeadWaits DEF Wake
<1>2. /\ outcome[c] = NoOutcome /\ answered' = answered /\ call' = call
  BY <1>1 DEF Wake, Undecided
<1>3. /\ Len(ready) \in Nat /\ DOMAIN ready = 1..Len(ready) /\ 1 \in DOMAIN ready
      /\ DOMAIN ready' = 1..(Len(ready) - 1)
      /\ \A p \in DOMAIN ready' : ready'[p] = ready[p + 1]
      /\ \A p \in DOMAIN ready : ready[p] \in Calls
  BY HeadTailProperties, LenProperties, ElementOfSeq, EmptySeq DEF Wake, TypeInv, TypeOK
<1>4. InTurn'
  <2>1. ASSUME NEW i \in DOMAIN answered, NEW j \in DOMAIN answered,
               i < j, answered[i].waiting, answered[j].waiting,
               NEW p \in DOMAIN ready', ready'[p] = answered[i].call
        PROVE  \E m \in DOMAIN ready' : m > p /\ ready'[m] = answered[j].call
    <3>1. p + 1 \in DOMAIN ready /\ ready[p + 1] = answered[i].call
      BY <1>3, <2>1
    <3>2. PICK m \in DOMAIN ready : m > p + 1 /\ ready[m] = answered[j].call
      BY <2>1, <3>1 DEF InTurn
    <3>3. m - 1 \in DOMAIN ready' /\ m - 1 > p /\ ready'[m - 1] = ready[m]
      BY <1>3, <2>1, <3>2
    <3>4. QED
      BY <3>2, <3>3
  <2>2. QED
    BY <1>2, <2>1 DEF InTurn
<1>5. \A i \in DOMAIN answered : answered[i].call = c => FirstOfLater(i)
  <2>1. ASSUME NEW i \in DOMAIN answered, NEW j \in DOMAIN answered,
               i < j, answered[i].waiting, answered[j].waiting, answered[i].call = c
        PROVE  outcome[answered[j].call] = NoOutcome
    <3>1. PICK m \in DOMAIN ready : ready[m] = answered[j].call
      BY <1>1, <1>3, <2>1 DEF InTurn
    <3>2. pc[ready[m]] = "waiting" /\ ready[m] \in Calls
      BY <1>3 DEF TypeInv, NoLostWakeup
    <3>3. QED
      BY <3>1, <3>2 DEF Undecided
  <2>2. QED
    BY <2>1 DEF FirstOfLater
<1>6. \A b \in Calls \ {c} :
          pc'[b] = pc[b] /\ future'[b] = future[b] /\ outcome'[b] = outcome[b]
  BY <1>1 DEF Wake, Return, TypeInv, TypeOK
<1>7. CASE interrupt[c] = "none"
  <2> DEFINE d == future[c]
  <2>1. /\ ApplyResponse(c, d)
        /\ pc'[c] = "returned" /\ future'[c] = "none" /\ outcome'[c].decision = d
    BY <1>1, <1>7 DEF Wake, Return, TypeInv, TypeOK
  <2>2. Answered'
    BY <1>2, <1>6, <2>1, AnswerFields DEF Answered
  <2>3. Undecided'
    BY <1>6, <2>1 DEF Undecided
  <2>4. Recorded'
    BY <1>2, <1>6, <2>1 DEF Recorded
  <2>5. Always(d) => \E i \in DOMAIN answered :
            answered[i].call = c /\ answered[i].decision = d /\ FirstOfLater(i)
    BY <1>1, <1>5 DEF Recorded
  <2>6. CachesFollow'
    <3> HIDE DEF d
    <3>1. d \in Decisions
      BY <1>1, <1>7 DEF d
    <3>2. QED
      BY <1>1, <1>2, <1>6, <2>1, <2>5, <3>1, DecisionCached
  <2>7. QED
    BY <1>4, <2>2, <2>3, <2>4, <2>6
<1>8. CASE interrupt[c] # "none"
  <2>1. /\ UNCHANGED mem
        /\ \/ /\ pc'[c] = "aborted" /\ future'[c] = future[c]
              /\ outcome'[c] = outcome[c]
           \/ /\ pc'[c] = "returned" /\ future'[c] = "none"
              /\ outcome'[c].decision = "timeout"
    BY <1>1, <1>8 DEF Wake, Return, TypeInv, TypeOK
  <2>2. Answered'
    BY <1>2, <1>6, <2>1, AnswerFields DEF Answered
  <2>3. Undecided'
    BY <1>2, <1>6, <2>1 DEF Undecided
  <2>4. Recorded'
    BY <1>2, <1>6, <2>1 DEF Recorded
  <2>5. ASSUME NEW Q PROVE Effective(Q)' = Effective(Q)
    <3>1. ASSUME NEW i \in DOMAIN answered
          PROVE  i \in Effective(Q)' <=> i \in Effective(Q)
      BY <1>2, <1>6, <2>1, AnswerFields DEF Effective, Decisions, NoOutcome
    <3>2. QED
      BY <1>2, <3>1 DEF Effective
  <2>6. ASSUME NEW Q, NEW v, Stands(Q, v) PROVE Stands(Q, v)'
    BY <1>2, <2>5, <2>6 DEF Stands
  <2>7. CachesFollow'
    BY <2>1, <2>6 DEF CachesFollow, AboutTool, AboutSession, mem
  <2>8. QED
    BY <1>4, <2>2, <2>3, <2>4, <2>7
<1>9. QED
  BY <1>7, <1>8

\* A new answer comes behind all others, and so does its call on the queue.
LEMMA RespondOrder ==
    ASSUME PermissionAssumption, OrderInv, NEW c \in Calls, NEW d \in Decisions,
           Respond(c, d)
    PROVE  Answered' /\ Undecided' /\ Recorded' /\ InTurn' /\ CachesFollow'
<1> USE DEF OrderInv
<1>1. /\ pc' = pc /\ outcome' = outcome /\ call' = call /\ UNCHANGED mem
      /\ Schedule(c) /\ pc[c] # "idle"
  BY DEF Respond, TypeInv, Running, RunningAt
<1>2. QueueGrows
  BY <1>1, ScheduleGrows
<1>3. CASE future[c] # "open"
  <2>1. future' = future /\ answered' = answered
    BY <1>3 DEF Respond
  <2>2. Answered' /\ Undecided' /\ Recorded'
    BY <1>1, <2>1 DEF Answered, Undecided, Recorded
  <2>3. InTurn'
    BY <1>2, <2>1, InTurnKept
  <2>4. CachesFollow'
    BY <1>1, <2>1, EffectiveKept
  <2>5. QED
    BY <2>2, <2>3, <2>4
<1>4. CASE future[c] = "open"
  <2> DEFINE a == [call |-> c, decision |-> d, waiting |-> pc[c] = "waiting"]
             n == Len(answered) + 1
  <2>1. /\ future' = [future EXCEPT ![c] = d] /\ answered' = Append(answered, a)
        /\ \A b \in Calls : future'[b] = IF b = c THEN d ELSE future[b]
    BY <1>4 DEF Respond, TypeInv, TypeOK
  <2>2. /\ answered \in Seq([call : Calls, decision : Decisions, waiting : BOOLEAN])
        /\ a \in [call : Calls, decision : Decisions, waiting : BOOLEAN]
    BY DEF TypeInv, TypeOK
  <2>3. /\ a.call = c /\ a.decision = d /\ (a.waiting <=> pc[c] = "waiting")
        /\ outcome[c] = NoOutcome
    BY <1>4 DEF Undecided
  <2> HIDE DEF a
  <2>4. /\ n \in Nat \ {0} /\ DOMAIN answered = 1..(n - 1) /\ DOMAIN answered' = 1..n
        /\ \A i \in DOMAIN answered : answered'[i] = answered[i]
        /\ answered'[n] = a
    BY <2>1, <2>2, AppendProperties, LenProperties
  <2> HIDE DEF n
  <2>5. /\ \A i \in DOMAIN answered : i < n /\ i \in DOMAIN answered'
        /\ n \in DOMAIN answered'
        /\ \A i \in DOMAIN answered' : i \in DOMAIN answered \/ i = n
        /\ \A i \in DOMAIN answered : answered[i].call \in Calls \ {c}
    <3>1. \A i \in DOMAIN answered : answered[i].call \in Calls \ {c}
      BY <1>4, AnswerFields DEF Answered
    <3>2. QED
      BY <2>4, <3>1
  <2>6. Answered'
    <3>1. d # "open"
      BY DEF Decisions
    <3>2. \A i \in DOMAIN answered : future'[answered[i].call] = future[answered[i].call]
      BY <2>1, <2>5
    <3>3. QED
      BY <1>1, <2>1, <2>3, <2>4, <2>5, <3>1, <3>2 DEF Answered
  <2>7. Undecided'
    BY <1>1, <1>4, <2>1 DEF Undecided
  <2>8. Recorded'
    <3>1. ASSUME NEW b \in Calls \ {c}, pc[b] \in {"emitting", "waiting"},
                 Always(future[b])
          PROVE  \E i \in DOMAIN answered' :
                     answered'[i].call = b /\ answered'[i].decision = future[b]
      BY <2>4, <2>5, <3>1 DEF Recorded
    <3>2. \E i \in DOMAIN answered' :
              answered'[i].call = c /\ answered'[i].decision = d
      BY <2>3, <2>4, <2>5
    <3>3. QED
      BY <1>1, <2>1, <3>1, <3>2 DEF Recorded
  <2>9. InTurn'
    <3>1. ASSUME NEW i \in DOMAIN answered', NEW j \in DOMAIN answered', i < j,
                 answered'[i].waiting, answered'[j].waiting,
                 NEW p \in DOMAIN ready', ready'[p] = answered'[i].call
          PROVE  \E m \in DOMAIN ready' : m > p /\ ready'[m] = answered'[j].call
      <4>1. i \in DOMAIN answered /\ answered'[i] = answered[i]
        BY <2>4, <3>1
      <4>2. p \in DOMAIN ready /\ ready[p] = answered[i].call
        BY <1>2, <3>1, <4>1 DEF QueueGrows, Answered
      <4>3. CASE j \in DOMAIN answered
        BY <1>2, <2>4, <3>1, <4>1, <4>2, <4>3 DEF InTurn, QueueGrows
      <4>4. CASE j = n
        <5>1. pc[c] = "waiting" /\ answered'[j].call = c
          BY <2>3, <2>4, <3>1, <4>4
        <5>2. PICK m \in DOMAIN ready' :
                  ready'[m] = c /\ \A x \in DOMAIN ready : x < m
          BY <1>1, <1>4, <5>1, ScheduleGrows
        <5>3. m > p
          BY <4>2, <5>2
        <5>4. QED
          BY <5>1, <5>2, <5>3
      <4>5. QED
        BY <2>5, <4>3, <4>4
    <3>2. QED
      BY <3>1 DEF InTurn
  <2>10. CachesFollow'
    <3>1. ASSUME NEW Q PROVE Effective(Q)' = Effective(Q)
      <4>1. \A i \in DOMAIN answered : i \in Effective(Q)' <=> i \in Effective(Q)
        BY <1>1, <2>4, <2>5 DEF Effective
      <4>2. n \notin Effective(Q)'
        BY <1>1, <2>3, <2>4 DEF Effective, NoOutcome, Decisions
      <4>3. QED
        BY <2>5, <4>1, <4>2 DEF Effective
    <3>2. ASSUME NEW Q, NEW v, Stands(Q, v) PROVE Stands(Q, v)'
      <4>1. \A i \in Effective(Q) : answered'[i] = answered[i]
        BY <2>4 DEF Effective
      <4>2. QED
        BY <3>1, <3>2, <4>1 DEF Stands
    <3>3. QED
      BY <1>1, <3>2 DEF CachesFollow, AboutTool, AboutSession, mem
  <2>11. QED
    BY <2>6, <2>7, <2>8, <2>9, <2>10
<1>5. QED
  BY <1>3, <1>4

\* cancel_session answers nothing, and a restart forgets all answers.
LEMMA OutsideOrder ==
    ASSUME PermissionAssumption, OrderInv,
           \/ \E s \in Sessions : Disconnect(s) \/ Connect(s)
           \/ Restart
           \/ UNCHANGED vars
    PROVE  Answered' /\ Undecided' /\ Recorded' /\ InTurn' /\ CachesFollow'
<1> USE DEF OrderInv
<1>1. CASE \E s \in Sessions : Disconnect(s)
  <2>1. PICK s \in Sessions : Disconnect(s)
    BY <1>1
  <2>2. /\ answered' = answered /\ outcome' = outcome /\ call' = call /\ pc' = pc
        /\ UNCHANGED mem
        /\ \A b \in Calls :
              \/ future'[b] = future[b]
              \/ future[b] = "open" /\ future'[b] = "deny_once"
    BY <2>1 DEF Disconnect, CancelSession
  <2>3. Answered' /\ Undecided'
    BY <2>2, AnswerFields DEF Answered, Undecided
  <2>4. Recorded'
    BY <2>2 DEF Recorded, Always
  <2>5. InTurn'
    BY <2>1, <2>2, DisconnectGrows, InTurnKept
  <2>6. CachesFollow'
    BY <2>2, EffectiveKept
  <2>7. QED
    BY <2>3, <2>4, <2>5, <2>6
<1>2. CASE (\E s \in Sessions : Connect(s)) \/ UNCHANGED vars
  <2>1. UNCHANGED <<answered, outcome, call, pc, future, ready, mem>>
    BY <1>2 DEF Connect, vars
  <2>2. Answered' /\ Undecided' /\ Recorded' /\ InTurn'
    BY <2>1 DEF Answered, Undecided, Recorded, InTurn
  <2>3. CachesFollow'
    BY <2>1, EffectiveKept
  <2>4. QED
    BY <2>2, <2>3
<1>3. CASE Restart
  <2>1. /\ answered' = <<>> /\ DOMAIN answered' = {}
        /\ UNCHANGED <<future, outcome>>
        /\ \A b \in Calls : /\ pc'[b] \notin {"emitting", "waiting"}
                            /\ pc'[b] = "returned" <=> pc[b] = "returned"
    BY <1>3 DEF Restart, TypeInv, TypeOK
  <2>2. Answered' /\ Undecided' /\ Recorded' /\ InTurn'
    BY <2>1 DEF Answered, Undecided, Recorded, InTurn
  <2>3. CachesFollow'
    BY <2>1 DEF CachesFollow, Stands, Effective
  <2>4. QED
    BY <2>2, <2>3
<1>4. QED
  BY <1>1, <1>2, <1>3

LEMMA OrderInvInit == ASSUME PermissionAssumption, Init PROVE OrderInv
<1>1. answered = <<>> /\ ready = <<>> /\ DOMAIN answered = {}
  BY DEF Init
<1>2. Answered /\ Undecided /\ Recorded /\ InTurn
  BY <1>1 DEF Init, Answered, Undecided, Recorded, InTurn
<1>3. CachesFollow
  BY <1>1 DEF CachesFollow, Stands, Effective
<1>4. QED
  BY <1>2, <1>3, InitTypeInv DEF OrderInv

LEMMA OrderInvStep ==
    ASSUME PermissionAssumption, OrderInv, [Next]_vars
    PROVE  OrderInv'
<1>1. TypeInv'
  BY TypeInvStep DEF OrderInv
<1>2. ASSUME NEW c \in Calls, NEW q \in Requests, CheckAndWait(c, q)
      PROVE  OrderInv'
  BY <1>1, <1>2, CheckAndWaitOrder DEF OrderInv
<1>3. ASSUME NEW c \in Calls, EmitDone(c) PROVE OrderInv'
  BY <1>1, <1>3, EmitDoneOrder DEF OrderInv
<1>4. ASSUME NEW c \in Calls, TimerFires(c) \/ CancelTask(c) PROVE OrderInv'
  BY <1>1, <1>4, InterruptOrder DEF OrderInv
<1>5. CASE Wake
  BY <1>1, <1>5, WakeOrder DEF OrderInv
<1>6. ASSUME NEW c \in Calls, NEW d \in Decisions, Respond(c, d) PROVE OrderInv'
  BY <1>1, <1>6, RespondOrder DEF OrderInv
<1>7. CASE (\E s \in Sessions : Disconnect(s) \/ Connect(s)) \/ Restart
           \/ UNCHANGED vars
  BY <1>1, <1>7, OutsideOrder DEF OrderInv
<1>8. QED
  BY <1>2, <1>3, <1>4, <1>5, <1>6, <1>7 DEF Next, PermissionAssumption

\* When several open requests for a tool get different always-answers, the
\* coroutines apply them in the order of the answers, so that the last answer is
\* the one that stands, for any number of calls and sessions.
THEOREM LastAnswerStands == Spec => []LatestAnswerStands
<1>1. Init => OrderInv
  BY PermissionAssumption, OrderInvInit
<1>2. OrderInv /\ [Next]_vars => OrderInv'
  BY PermissionAssumption, OrderInvStep
<1>3. OrderInv => LatestAnswerStands
  BY DEF OrderInv, CachesFollow, LatestAnswerStands
<1>4. QED
  BY <1>1, <1>2, <1>3, PTL DEF Spec

\* A call is let through unasked only if the session's last always-answer for its
\* tool, if there is one, was not a refusal.
LEMMA UnaskedFollowsSession ==
    ASSUME PermissionAssumption, OrderInv, [Next]_vars,
           NEW c \in Calls, pc[c] = "idle", outcome'[c].decision = "auto_allow"
    PROVE  Stands(AboutSession(call'[c].session, call'[c].tool), "allow")
<1> USE DEF OrderInv
<1>1. outcome[c] = NoOutcome
  BY DEF Undecided
<1>2. outcome'[c] # outcome[c]
  BY <1>1 DEF NoOutcome
<1>3. PICK q \in Requests : CheckAndWait(c, q)
  <2>1. ASSUME NEW b \in Calls, \/ \E q \in Requests : CheckAndWait(b, q)
                                \/ EmitDone(b)
        PROVE  b = c
    BY <1>2, <2>1 DEF CheckAndWait, EmitDone, Return, TypeInv, TypeOK
  <2>2. ~EmitDone(c)
    BY DEF EmitDone
  <2>3. ~Wake
    <3>1. SUFFICES ASSUME Wake PROVE FALSE
      OBVIOUS
    <3>2. Head(ready) \in Calls /\ Head(ready) # c
      BY <3>1, HeadWaits DEF Wake
    <3>3. QED
      BY <1>2, <3>1, <3>2 DEF Wake, Return, TypeInv, TypeOK
  <2>4. QED
    BY <1>2, <2>1, <2>2, <2>3
       DEF Next, vars, TimerFires, CancelTask, Respond, Disconnect, Connect, Restart
<1>4. /\ call'[c] = q /\ q.session \in Sessions /\ q.tool \in Tools
      /\ Evaluate(q) = "allow"
  BY <1>2, <1>3, RequestFields DEF CheckAndWait, Return, TypeInv, TypeOK
<1> DEFINE v == sessionAlways[q.session][q.tool]
           Q == AboutSession(q.session, q.tool)
<1>5. Stands(Q, v)
  BY <1>4 DEF CachesFollow
<1>6. v # Unset => v = "allow"
  BY <1>4 DEF Evaluate, Standing
<1>7. \A d : StandingOf(d) # Unset
  BY DEF StandingOf, Unset
<1> HIDE DEF v, Q
<1>8. Stands(Q, "allow")
  BY <1>5, <1>6, <1>7 DEF Stands
<1>9. QED
  BY <1>4, <1>8 DEF Q

\* Other sessions' answers never open a tool to a session that refused it last.
THEOREM SessionsKeepTheirAnswer == Spec => SessionAnswerPrevails
<1>1. Init => OrderInv
  BY PermissionAssumption, OrderInvInit
<1>2. OrderInv /\ [Next]_vars => OrderInv'
  BY PermissionAssumption, OrderInvStep
<1>3. OrderInv /\ [Next]_vars =>
          [\A c \in Calls :
              pc[c] = "idle" /\ outcome'[c].decision = "auto_allow" =>
                  Stands(AboutSession(call'[c].session, call'[c].tool), "allow")]_vars
  BY PermissionAssumption, UnaskedFollowsSession
<1>4. QED
  BY <1>1, <1>2, <1>3, PTL DEF Spec, SessionAnswerPrevails
=============================================================================
