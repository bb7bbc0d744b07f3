------------------------- MODULE PermissionManager -------------------------
(***************************************************************************)
(* The daemon's permission manager (core/permissions/manager.py, with the  *)
(* six-tier rule it applies and the policy file of storage.py).            *)
(*                                                                         *)
(* Each tool call runs check_and_wait as a coroutine of the one event      *)
(* loop.  A coroutine is interrupted only where it awaits, so a step below *)
(* is the code between two awaits:                                         *)
(*                                                                         *)
(*   CheckAndWait  tiers 1-6; a decided call returns, an undecided one is  *)
(*                 registered in _pending and starts to emit the request   *)
(*   EmitDone      event_emitter returned; the coroutine awaits its future *)
(*   Respond       the permission.respond command (another task)           *)
(*   TimerFires    the timer of wait_for                                   *)
(*   CancelTask    the task that runs the call is cancelled (daemon        *)
(*                 shutdown, or the 120 s limit of a foreground subagent)  *)
(*   Wake          the coroutine runs again, in the order in which the     *)
(*                 futures were completed (the loop's ready queue is FIFO) *)
(*   Restart       the daemon dies and starts again from policy.toml       *)
(*                                                                         *)
(* Abstractions: a command is known by the pattern class it falls in       *)
(* (Request.kind); tool_use ids are unique, as the LLM API makes them.     *)
(***************************************************************************)
EXTENDS Naturals, Sequences, FiniteSets

CONSTANTS
    Calls,        \* tool_use ids
    Sessions,     \* session ids ("" of a run without a session is one more)
    Flaky,        \* sessions whose front end may go away (bounds the instance)
    Lines,        \* the tools, in the order in which policy.toml lists them
    Requests,     \* what a call may ask: [session, tool, kind] records
    Default,      \* tool -> default policy; an unregistered tool has "ask"
    TimeoutOn,    \* permission.timeout_s > 0
    CancelHook,   \* whether a disconnect runs cancel_session
    MaxRestarts   \* bound on daemon restarts

Tools == {Lines[i] : i \in DOMAIN Lines}
Kinds == {"plain", "deny_pattern", "outside_cwd", "allow_pattern"}
Decisions == {"allow_once", "always_allow", "deny_once", "always_deny"}
Standings == {"allow", "deny"}
Unset == "unset"

ASSUME PermissionAssumption ==
    /\ IsFiniteSet(Calls)
    /\ Lines \in Seq(STRING)
    /\ Requests \subseteq [session : Sessions, tool : Tools, kind : Kinds]
    /\ Default \in [Tools -> {"allow", "deny", "ask"}]
    /\ TimeoutOn \in BOOLEAN
    /\ CancelHook \in BOOLEAN
    /\ Flaky \subseteq Sessions
    /\ MaxRestarts \in Nat

NoRequest == [session |-> "none", tool |-> "none", kind |-> "none"]
NoOutcome == [allowed |-> FALSE, decision |-> "none"]

VARIABLES
    call,              \* the request of a call, NoRequest before it starts
    pc,                \* where the coroutine of a call stands
    pending,           \* the ids registered in _pending
    future,            \* the state of a call's future
    interrupt,         \* a task.cancel() not delivered yet, and who asked
    ready,             \* the loop's ready queue: calls to wake
    outcome,           \* what check_and_wait returned
    sessionAlways,     \* _session_always
    persistentAlways,  \* _persistent_always
    policyFile,        \* the [always] section of policy.toml
    connected,         \* sessions whose front end is connected
    restarts,
    given,             \* history: always-decisions the user ever gave
    answered           \* history: answers that completed a future, since the
                       \* last restart

mem == <<sessionAlways, persistentAlways>>
vars == <<call, pc, pending, future, interrupt, ready, outcome, mem,
          policyFile, connected, restarts, given, answered>>

PCs == {"idle", "emitting", "waiting", "returned", "aborted", "lost"}

TypeOK ==
    /\ call \in [Calls -> Requests \cup {NoRequest}]
    /\ pc \in [Calls -> PCs]
    /\ pending \subseteq Calls
    /\ future \in [Calls -> {"none", "open", "cancelled"} \cup Decisions]
    /\ interrupt \in [Calls -> {"none", "timeout", "cancel"}]
    /\ ready \in Seq(Calls)
    /\ outcome \in [Calls -> [allowed : BOOLEAN,
                              decision : Decisions \cup
                                  {"none", "auto_allow", "auto_deny", "timeout"}]]
    /\ sessionAlways \in [Sessions -> [Tools -> Standings \cup {Unset}]]
    /\ persistentAlways \in [Tools -> Standings \cup {Unset}]
    /\ policyFile \in [Tools -> Standings \cup {Unset}]
    /\ connected \subseteq Sessions
    /\ restarts \in Nat
    /\ given \subseteq Tools \X Standings
    /\ answered \in Seq([call : Calls, decision : Decisions, waiting : BOOLEAN])

\* A hand-edited or earlier policy.toml may hold any decision.
Init ==
    /\ call = [c \in Calls |-> NoRequest]
    /\ pc = [c \in Calls |-> "idle"]
    /\ pending = {}
    /\ future = [c \in Calls |-> "none"]
    /\ interrupt = [c \in Calls |-> "none"]
    /\ ready = <<>>
    /\ outcome = [c \in Calls |-> NoOutcome]
    /\ sessionAlways = [s \in Sessions |-> [t \in Tools |-> Unset]]
    /\ policyFile \in [Tools -> Standings \cup {Unset}]
    /\ persistentAlways = policyFile
    /\ connected = Sessions
    /\ restarts = 0
    /\ given = {p \in Tools \X Standings : policyFile[p[1]] = p[2]}
    /\ answered = <<>>
-----------------------------------------------------------------------------
(* The tiers.                                                              *)

\* Mutant of Standing: the persistent cache is asked first.
StandingPersistentFirst(q) ==
    IF persistentAlways[q.tool] # Unset
      THEN persistentAlways[q.tool]
      ELSE sessionAlways[q.session][q.tool]

\* Tiers 3 and 4: the session's own decision, else the persistent one.
Standing(q) ==
    IF sessionAlways[q.session][q.tool] # Unset
      THEN sessionAlways[q.session][q.tool]
      ELSE persistentAlways[q.tool]

\* Mutant of Evaluate: the caches are asked before the directory check.
EvaluateCacheFirst(q) ==
    IF q.kind = "deny_pattern" THEN "deny"
    ELSE IF Standing(q) # Unset THEN Standing(q)
    ELSE IF q.kind = "outside_cwd" THEN "ask"
    ELSE IF q.kind = "allow_pattern" THEN "allow"
    ELSE Default[q.tool]

\* Tiers 1 to 6 in the order of check_and_wait: "ask" is the path that
\* registers a future.
Evaluate(q) ==
    IF q.kind = "deny_pattern" THEN "deny"
    ELSE IF q.kind = "outside_cwd" THEN "ask"
    ELSE IF Standing(q) # Unset THEN Standing(q)
    ELSE IF q.kind = "allow_pattern" THEN "allow"
    ELSE Default[q.tool]

Allows(d) == d \in {"allow_once", "always_allow"}
StandingOf(d) == IF d = "always_allow" THEN "allow" ELSE "deny"
Always(d) == d \in {"always_allow", "always_deny"}

\* What save_policy_file may leave behind: the whole table; the old file, when
\* it cannot be opened; or the first n lines, since write_text truncates
\* before it writes and the exception is swallowed.
SaveOutcomes(table) ==
    {table, policyFile} \cup
    {[t \in Tools |-> IF \E i \in 1..n : Lines[i] = t THEN table[t] ELSE Unset]
        : n \in 0..Len(Lines)}

\* Mutant of ApplyResponse: setdefault instead of an assignment.
ApplyFirstResponse(c, d) ==
    LET q == call[c]
        table == IF persistentAlways[q.tool] # Unset THEN persistentAlways
                 ELSE [persistentAlways EXCEPT ![q.tool] = StandingOf(d)]
    IN  IF Always(d)
        THEN /\ sessionAlways' =
                  [sessionAlways EXCEPT ![q.session][q.tool] = StandingOf(d)]
             /\ persistentAlways' = table
             /\ policyFile' \in SaveOutcomes(table)
             /\ given' = given \cup {<<q.tool, StandingOf(d)>>}
        ELSE UNCHANGED <<mem, policyFile, given>>

\* _apply_response: record an always-decision in both caches and save the
\* persistent one; a one-time decision leaves the caches alone.
ApplyResponse(c, d) ==
    LET q == call[c]
        table == [persistentAlways EXCEPT ![q.tool] = StandingOf(d)]
    IN  IF Always(d)
        THEN /\ sessionAlways' =
                  [sessionAlways EXCEPT ![q.session][q.tool] = StandingOf(d)]
             /\ persistentAlways' = table
             /\ policyFile' \in SaveOutcomes(table)
             /\ given' = given \cup {<<q.tool, StandingOf(d)>>}
        ELSE UNCHANGED <<mem, policyFile, given>>

\* check_and_wait returns: its frame, with the future, is gone.
Return(c, allowed, decision) ==
    /\ pc' = [pc EXCEPT ![c] = "returned"]
    /\ future' = [future EXCEPT ![c] = "none"]
    /\ interrupt' = [interrupt EXCEPT ![c] = "none"]
    /\ outcome' = [outcome EXCEPT ![c] =
                      [allowed |-> allowed, decision |-> decision]]
-----------------------------------------------------------------------------
(* The coroutine of a call.                                                *)

CheckAndWait(c, q) ==
    /\ pc[c] = "idle"
    /\ call' = [call EXCEPT ![c] = q]
    /\ \/ /\ Evaluate(q) = "allow"
          /\ Return(c, TRUE, "auto_allow")
          /\ UNCHANGED pending
       \/ /\ Evaluate(q) = "deny"
          /\ Return(c, FALSE, "auto_deny")
          /\ UNCHANGED pending
       \/ /\ Evaluate(q) = "ask"
          /\ pc' = [pc EXCEPT ![c] = "emitting"]
          /\ pending' = pending \cup {c}
          /\ future' = [future EXCEPT ![c] = "open"]
          /\ UNCHANGED <<interrupt, outcome>>
    /\ UNCHANGED <<ready, mem, policyFile, connected, restarts,
                   given, answered>>

\* The request has been published.  A future already completed is read without
\* suspending; an open one is awaited, under wait_for when timeout_s > 0.
EmitDone(c) ==
    /\ pc[c] = "emitting"
    /\ \/ /\ future[c] = "open"
          /\ pc' = [pc EXCEPT ![c] = "waiting"]
          /\ UNCHANGED <<future, interrupt, outcome, mem, policyFile, given>>
       \/ /\ future[c] \in Decisions
          /\ ApplyResponse(c, future[c])
          /\ Return(c, Allows(future[c]), future[c])
    /\ UNCHANGED <<call, pending, ready, connected, restarts, answered>>

\* Mutant of Schedule: completing a completed future wakes it again.
ScheduleAgain(c) ==
    ready' = IF pc[c] = "waiting" THEN Append(ready, c) ELSE ready

\* A future completed while its coroutine awaits it puts the coroutine on the
\* ready queue.
Schedule(c) ==
    ready' = IF pc[c] = "waiting" /\ future[c] = "open"
             THEN Append(ready, c) ELSE ready

\* Mutant of TimerFires: the entry is dropped but the wait is not ended.
TimerDropsEntry(c) ==
    /\ TimeoutOn
    /\ pc[c] = "waiting"
    /\ c \in pending
    /\ pending' = pending \ {c}
    /\ UNCHANGED <<call, pc, future, interrupt, ready, outcome, mem, policyFile,
                   connected, restarts, given, answered>>

\* wait_for's timer cancels the task.  A future that is already completed stays
\* completed: its coroutine is on the ready queue and finds the interrupt there.
TimerFires(c) ==
    /\ TimeoutOn
    /\ pc[c] = "waiting"
    /\ interrupt[c] = "none"
    /\ interrupt' = [interrupt EXCEPT ![c] = "timeout"]
    /\ Schedule(c)
    /\ future' = [future EXCEPT ![c] = IF @ = "open" THEN "cancelled" ELSE @]
    /\ UNCHANGED <<call, pc, pending, outcome, mem, policyFile, connected,
                   restarts, given, answered>>

\* The task is cancelled from outside: an await of the emitter is left at once,
\* an await of the future when the coroutine wakes.  Nothing takes the entry out
\* of _pending.
CancelTask(c) ==
    /\ \/ /\ pc[c] = "emitting"
          /\ pc' = [pc EXCEPT ![c] = "aborted"]
          /\ UNCHANGED <<interrupt, future, ready>>
       \/ /\ pc[c] = "waiting"
          /\ interrupt[c] # "cancel"
          /\ interrupt' = [interrupt EXCEPT ![c] = "cancel"]
          /\ Schedule(c)
          /\ future' = [future EXCEPT ![c] = IF @ = "open" THEN "cancelled" ELSE @]
          /\ UNCHANGED pc
    /\ UNCHANGED <<call, pending, outcome, mem, policyFile, connected, restarts,
                   given, answered>>

\* Mutant of Wake: the timeout is not caught, and the future is read as it is.
WakeUncaught ==
    /\ ready # <<>>
    /\ ready' = Tail(ready)
    /\ LET c == Head(ready)
       IN  /\ ApplyResponse(c, future[c])
           /\ Return(c, Allows(future[c]), future[c])
    /\ UNCHANGED <<call, pending, connected, restarts, answered>>

\* The coroutine at the head of the ready queue runs on.
Wake ==
    /\ ready # <<>>
    /\ ready' = Tail(ready)
    /\ LET c == Head(ready)
       IN  \/ /\ interrupt[c] = "cancel"
              /\ pc' = [pc EXCEPT ![c] = "aborted"]
              /\ UNCHANGED <<pending, future, interrupt, outcome, mem, policyFile,
                             given>>
           \/ /\ interrupt[c] = "timeout"
              /\ pending' = pending \ {c}
              /\ Return(c, FALSE, "timeout")
              /\ UNCHANGED <<mem, policyFile, given>>
           \/ /\ interrupt[c] = "none"
              /\ ApplyResponse(c, future[c])
              /\ Return(c, Allows(future[c]), future[c])
              /\ UNCHANGED pending
    /\ UNCHANGED <<call, connected, restarts, answered>>
-----------------------------------------------------------------------------
(* The other side: the front ends, and the process itself.                 *)

\* permission.respond; an id that is not pending (unknown, or answered or timed
\* out before) is logged and ignored, which is a stuttering step.
Respond(c, d) ==
    /\ connected # {}
    /\ c \in pending
    /\ pending' = pending \ {c}
    /\ Schedule(c)
    /\ \/ /\ future[c] = "open"
          /\ future' = [future EXCEPT ![c] = d]
          /\ answered' = Append(answered,
                [call |-> c, decision |-> d, waiting |-> pc[c] = "waiting"])
       \/ /\ future[c] # "open"
          /\ UNCHANGED <<future, answered>>
    /\ UNCHANGED <<call, pc, interrupt, outcome, mem, policyFile, connected,
                   restarts, given>>

\* The orders in which the members of a finite set can be put.
Orders(S) ==
    {o \in [1..Cardinality(S) -> S] :
        /\ \A x \in S : \E i \in DOMAIN o : o[i] = x
        /\ \A i, j \in DOMAIN o : o[i] = o[j] => i = j}

\* Mutant of CancelSession: the entries are dropped but their futures are not
\* completed.
CancelSessionDrops(s) ==
    /\ pending' = {c \in pending : call[c].session # s}
    /\ UNCHANGED <<future, ready>>

\* cancel_session: every pending request of the session is answered deny_once.
CancelSession(s) ==
    LET cancelled == {c \in pending : call[c].session = s}
        open      == {c \in cancelled : future[c] = "open"}
    IN  /\ pending' = pending \ cancelled
        /\ future' = [c \in Calls |->
                         IF c \in open THEN "deny_once" ELSE future[c]]
        /\ \E o \in Orders({c \in open : pc[c] = "waiting"}) :
              ready' = ready \o o

\* The connection handler's finally block ends the connection's subscriptions
\* and does nothing to the pending requests; cancel_session has no caller.
\* CancelHook shows the manager as it is meant to be used.
Disconnect(s) ==
    /\ s \in connected
    /\ connected' = connected \ {s}
    /\ \/ CancelHook /\ CancelSession(s)
       \/ ~CancelHook /\ UNCHANGED <<pending, future, ready>>
    /\ UNCHANGED <<call, pc, interrupt, outcome, mem, policyFile, restarts,
                   given, answered>>

Connect(s) ==
    /\ s \notin connected
    /\ connected' = connected \cup {s}
    /\ UNCHANGED <<call, pc, pending, future, interrupt, ready, outcome, mem,
                   policyFile, restarts, given, answered>>

\* The daemon dies and a new one loads policy.toml.  Calls in flight are gone.
Restart ==
    /\ restarts < MaxRestarts
    /\ restarts' = restarts + 1
    /\ pc' = [c \in Calls |->
                 IF pc[c] \in {"emitting", "waiting"} THEN "lost" ELSE pc[c]]
    /\ pending' = {}
    /\ ready' = <<>>
    /\ sessionAlways' = [s \in Sessions |-> [t \in Tools |-> Unset]]
    /\ persistentAlways' = policyFile
    /\ connected' = {}
    /\ answered' = <<>>
    /\ UNCHANGED <<call, future, interrupt, outcome, policyFile, given>>

Next ==
    \/ \E c \in Calls, q \in Requests : CheckAndWait(c, q)
    \/ \E c \in Calls : EmitDone(c)
    \/ \E c \in Calls : TimerFires(c)
    \/ \E c \in Calls : CancelTask(c)
    \/ Wake
    \/ \E c \in Calls, d \in Decisions : Respond(c, d)
    \/ \E s \in Flaky : Disconnect(s)
    \/ \E s \in Sessions : Connect(s)
    \/ Restart

Spec == Init /\ [][Next]_vars

\* The event loop runs what is ready and fires its timers.  Nothing makes a
\* user answer, and nothing makes a client read what is written to it: neither
\* Respond nor EmitDone is fair.
Fairness == WF_vars(Wake) /\ \A c \in Calls : WF_vars(TimerFires(c))

FairSpec == Spec /\ Fairness
-----------------------------------------------------------------------------
(* Properties.                                                             *)

\* No answer can be lost to a call that still waits: its entry is registered
\* as long as its future is open, and once the future is completed the
\* coroutine is on the ready queue, exactly once.  Otherwise check_and_wait
\* would hang although the user answered.
NoLostWakeup ==
    /\ \A c \in Calls :
          pc[c] = "waiting" =>
              IF future[c] = "open" THEN c \in pending
              ELSE \E i \in DOMAIN ready : ready[i] = c
    /\ \A i \in DOMAIN ready :
          pc[ready[i]] = "waiting" /\ future[ready[i]] # "open"
    /\ \A i, j \in DOMAIN ready : ready[i] = ready[j] => i = j

\* The always-answers to requests in Q that took effect: their places in the
\* order in which the answers were given.
Effective(Q) ==
    {i \in DOMAIN answered :
        /\ Always(answered[i].decision)
        /\ outcome[answered[i].call].decision = answered[i].decision
        /\ call[answered[i].call] \in Q}

\* The last of these answers is the given standing.  (An answer that arrives
\* while its own request is still being emitted to a slow client is applied
\* later than its turn: excluded here, and listed as a hazard.)
Stands(Q, standing) ==
    \A i \in Effective(Q) :
        (\A j \in Effective(Q) : answered[j].waiting /\ j <= i) =>
            standing = StandingOf(answered[i].decision)

AboutTool(t) == {q \in Requests : q.tool = t}
AboutSession(s, t) == {q \in Requests : q.session = s /\ q.tool = t}

\* When several requests for a tool are open at once and get different
\* always-answers, the answer given last is the one that stands for every
\* session.
LatestAnswerStands == \A t \in Tools : Stands(AboutTool(t), persistentAlways[t])

\* A session in which the user's last always-answer for a tool was a refusal
\* never lets that tool through unasked, whatever other sessions decided since.
SessionAnswerPrevails ==
    [][\A c \in Calls :
          pc[c] = "idle" /\ outcome'[c].decision = "auto_allow" =>
              Stands(AboutSession(call'[c].session, call'[c].tool), "allow")]_vars

\* Every allowed call has its reason: the manager implements PermissionGate.
Verdict(c) ==
    CASE pc[c] = "idle"                  -> "none"
      [] pc[c] \in {"emitting", "waiting"} -> "asked"
      [] pc[c] = "returned" /\ outcome[c].allowed -> "allowed"
      [] OTHER                           -> "refused"

Gate == INSTANCE PermissionGate WITH
            verdict <- [c \in Calls |-> Verdict(c)],
            asked   <- call,
            said    <- given

\* The refinement: no cache, file, timer, cancellation or restart ever lets a
\* call through that the policy, the user's answer to it, or a standing
\* permission the user gave for its tool does not.
ImplementsGate == Gate!Spec

\* check_and_wait does not hang when its session has no front end any more.
NoCallHangs ==
    \A c \in Calls :
        (pc[c] = "waiting" /\ call[c].session \notin connected)
            ~> (pc[c] # "waiting" \/ call[c].session \in connected)

\* A request that is pending while its session has a front end is resolved when
\* the front end goes, by cancel_session: it does not outlive the connection.
DesertedResolved ==
    \A c \in Calls :
        (pc[c] = "waiting" /\ call[c].session \in connected)
            ~> (pc[c] # "waiting" \/ [](call[c].session \in connected))
=============================================================================
