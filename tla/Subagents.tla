------------------------------ MODULE Subagents ------------------------------
(***************************************************************************)
(* The agents of one session: the runs its messages start, and the         *)
(* subagents they spawn (core/subagent/tool.py, core/subagent/registry.py, *)
(* with the loop of core/loop.py and the attempts of                       *)
(* core/tools/invocation.py).                                              *)
(*                                                                         *)
(* A foreground subagent runs inside its parent's call of spawn_agent, in  *)
(* the parent's task, under the time limit of a tool call.  A background   *)
(* subagent is a task of its own, registered with the registry its run     *)
(* made.  Runs of a session come one after the other (the session's lock); *)
(* background subagents go on meanwhile.                                   *)
(***************************************************************************)
EXTENDS Naturals, FiniteSets

CONSTANTS
    Runs,        \* the runs of the session
    Children,    \* bounds the subagents ever spawned
    None,        \* no agent
    MaxSteps,    \* agent.max_steps, of a run and of a subagent
    MaxRetries   \* _MAX_RETRIES

ASSUME SubagentAssumption ==
    /\ IsFiniteSet(Children) /\ Runs \cap Children = {}
    /\ None \notin Runs \cup Children
    /\ MaxSteps \in Nat \ {0} /\ MaxRetries \in Nat

Agents == Runs \cup Children
NestingLimit == 2

VARIABLES
    pc,        \* where an agent awaits
    step,      \* context.step
    status,    \* context.status
    fate,      \* how its coroutine came to an end
    call,      \* its call of spawn_agent: mode, attempt, the child of the attempt
    parent,    \* of a subagent
    mode,      \* "foreground" or "background"
    level,     \* 0 for a run; _depth + 1 of the tool that spawned a subagent
    home,      \* the run whose registry an agent was given
    registry,  \* run -> background subagents registered
    told       \* subagent, run -> the outcome agents of that run were told last

tree == <<parent, mode, level, home>>
vars == <<pc, step, status, fate, call, tree, registry, told>>

NoCall == [mode |-> "none", attempt |-> 0, child |-> None]
Modes == {"foreground", "background"}
Answers == {"result", "error", "unknown"}

TypeOK ==
    /\ pc \in [Agents -> {"unborn", "starting", "thinking", "spawning", "backoff",
                          "finishing", "ended"}]
    /\ step \in [Agents -> 0..MaxSteps]
    /\ status \in [Agents -> {"running", "success", "failed"}]
    /\ fate \in [Agents -> {"none", "returned", "raised", "cancelled"}]
    /\ call \in [Agents -> [mode : Modes \cup {"none"}, attempt : 0..MaxRetries + 1,
                            child : Children \cup {None}]]
    /\ parent \in [Children -> Agents \cup {None}]
    /\ mode \in [Children -> Modes \cup {"none"}]
    /\ level \in [Agents -> 0..NestingLimit]
    /\ home \in [Agents -> Runs \cup {None}]
    /\ registry \in [Runs -> SUBSET Children]
    /\ told \in [Children -> [Runs -> Answers \cup {"nothing"}]]

Init ==
    /\ pc = [a \in Agents |-> "unborn"]
    /\ step = [a \in Agents |-> 0]
    /\ status = [a \in Agents |-> "running"]
    /\ fate = [a \in Agents |-> "none"]
    /\ call = [a \in Agents |-> NoCall]
    /\ parent = [c \in Children |-> None]
    /\ mode = [c \in Children |-> "none"]
    /\ level = [a \in Agents |-> 0]
    /\ home = [a \in Agents |-> IF a \in Runs THEN a ELSE None]
    /\ registry = [r \in Runs |-> {}]
    /\ told = [c \in Children |-> [r \in Runs |-> "nothing"]]

Live(a) == pc[a] \notin {"unborn", "ended"}
-----------------------------------------------------------------------------
(* The loop of an agent.                                                   *)

\* A tool call of the agent is over: its next step, unless the limit is reached.
\* at is what has become of the other agents.
AfterTool(a, at) ==
    IF step[a] >= MaxSteps
    THEN /\ pc' = [at EXCEPT ![a] = "finishing"]
         /\ status' = [status EXCEPT ![a] = "failed"]
         /\ UNCHANGED step
    ELSE /\ pc' = [at EXCEPT ![a] = "thinking"]
         /\ step' = [step EXCEPT ![a] = @ + 1]
         /\ UNCHANGED status

\* A message of the session starts a run.
StartRun(r) ==
    /\ pc[r] = "unborn" /\ \A q \in Runs : ~Live(q)
    /\ pc' = [pc EXCEPT ![r] = "thinking"]
    /\ step' = [step EXCEPT ![r] = 1]
    /\ UNCHANGED <<status, fate, call, tree, registry, told>>

\* A step with no call of the two subagent tools.
PlainStep(a) ==
    /\ pc[a] = "thinking"
    /\ AfterTool(a, pc)
    /\ UNCHANGED <<fate, call, tree, registry, told>>

\* The LLM ends its turn, or its call fails.
EndLoop(a, s) ==
    /\ pc[a] = "thinking"
    /\ pc' = [pc EXCEPT ![a] = "finishing"]
    /\ status' = [status EXCEPT ![a] = s]
    /\ UNCHANGED <<step, fate, call, tree, registry, told>>

FinishRun(r) ==
    /\ r \in Runs /\ pc[r] = "finishing"
    /\ pc' = [pc EXCEPT ![r] = "ended"]
    /\ fate' = [fate EXCEPT ![r] = "returned"]
    /\ UNCHANGED <<step, status, call, tree, registry, told>>
-----------------------------------------------------------------------------
(* spawn_agent.                                                            *)

\* Mutant of HasSubagentTools: only the check in invoke is left, which compares
\* the depth of the tool, one less than that of the child.
HasSubagentToolsDeeper(a) == level[a] < NestingLimit + 1

\* A subagent at the limit is given neither spawn_agent nor agent_result.
HasSubagentTools(a) == level[a] < NestingLimit

\* A fresh run id.
Fresh == CHOOSE c \in Children : pc[c] = "unborn"

\* A new child announces itself: subagent.started is being published.
Announce(a, c, m, n) ==
    /\ pc[c] = "unborn" /\ c = Fresh
    /\ pc' = [pc EXCEPT ![a] = "spawning", ![c] = "starting"]
    /\ call' = [call EXCEPT ![a] = [mode |-> m, attempt |-> n, child |-> c]]
    /\ parent' = [parent EXCEPT ![c] = a]
    /\ mode' = [mode EXCEPT ![c] = m]
    /\ level' = [level EXCEPT ![c] = level[a] + 1]
    /\ home' = [home EXCEPT ![c] = home[a]]
    /\ step' = [step EXCEPT ![c] = 1]
    /\ UNCHANGED <<status, fate, registry, told>>

Spawn(a, c, m) ==
    /\ pc[a] = "thinking" /\ HasSubagentTools(a)
    /\ Announce(a, c, m, 1)

\* invoke_tool tries again, with another child.
SpawnAgain(a, c) ==
    /\ pc[a] = "backoff"
    /\ Announce(a, c, call[a].mode, call[a].attempt + 1)

\* What the caller of spawn_agent is told of the child c.
Tell(c, answer) == told' = [told EXCEPT ![c][home[c]] = answer]

\* spawn_agent returned a runtime_error, or raised: it is tried again, or the
\* agent gets the error.
AttemptFails(a, at) ==
    IF call[a].attempt <= MaxRetries
    THEN /\ pc' = [at EXCEPT ![a] = "backoff"]
         /\ call' = [call EXCEPT ![a].child = None]
         /\ UNCHANGED <<step, status, told>>
    ELSE /\ AfterTool(a, at)
         /\ call' = [call EXCEPT ![a] = NoCall]
         /\ Tell(call[a].child, "error")

\* Mutant of Begin: the coroutine of a background subagent is not made a task.
BeginUnscheduled(c) ==
    /\ pc[c] = "starting"
    /\ IF mode[c] = "foreground"
       THEN /\ pc' = [pc EXCEPT ![c] = "thinking"]
            /\ UNCHANGED <<step, status, call, registry>>
       ELSE /\ registry' = [registry EXCEPT ![home[c]] = @ \cup {c}]
            /\ call' = [call EXCEPT ![parent[c]] = NoCall]
            /\ AfterTool(parent[c], pc)
    /\ UNCHANGED <<fate, tree, told>>

\* subagent.started is out.  A background subagent gets its task, is registered,
\* and its parent goes on; a foreground one begins in the parent's call.
Begin(c) ==
    /\ pc[c] = "starting"
    /\ LET at == [pc EXCEPT ![c] = "thinking"]
       IN  \/ /\ mode[c] = "foreground"
              /\ pc' = at
              /\ UNCHANGED <<step, status, call, registry>>
           \/ /\ mode[c] = "background"
              /\ registry' = [registry EXCEPT ![home[c]] = @ \cup {c}]
              /\ call' = [call EXCEPT ![parent[c]] = NoCall]
              /\ AfterTool(parent[c], at)
    /\ UNCHANGED <<fate, tree, told>>

\* An exception leaves the subagent: its directory or ledger cannot be made, or
\* one of its events cannot be published.  No subagent.finished follows.
Raise(c) ==
    /\ c \in Children /\ pc[c] \in {"starting", "thinking", "backoff", "finishing"}
    /\ fate' = [fate EXCEPT ![c] = "raised"]
    /\ LET at == [pc EXCEPT ![c] = "ended"]
       IN  \/ /\ mode[c] = "foreground" \/ pc[c] = "starting"
              /\ AttemptFails(parent[c], at)
           \/ /\ mode[c] = "background" /\ pc[c] # "starting"
              /\ pc' = at
              /\ UNCHANGED <<step, status, call, told>>
    /\ UNCHANGED <<tree, registry>>

\* Mutant of Finish: the child's status does not matter to its parent.
FinishAnyhow(c) ==
    /\ c \in Children /\ pc[c] = "finishing"
    /\ fate' = [fate EXCEPT ![c] = "returned"]
    /\ LET at == [pc EXCEPT ![c] = "ended"]
       IN  \/ /\ mode[c] = "background"
              /\ pc' = at /\ UNCHANGED <<step, status, call, told>>
           \/ /\ mode[c] = "foreground"
              /\ AfterTool(parent[c], at)
              /\ call' = [call EXCEPT ![parent[c]] = NoCall]
              /\ Tell(c, "result")
    /\ UNCHANGED <<tree, registry>>

\* subagent.finished is out; spawn_agent returns to the parent of a foreground
\* subagent.
Finish(c) ==
    /\ c \in Children /\ pc[c] = "finishing"
    /\ fate' = [fate EXCEPT ![c] = "returned"]
    /\ LET at == [pc EXCEPT ![c] = "ended"]
       IN  \/ /\ mode[c] = "background"
              /\ pc' = at /\ UNCHANGED <<step, status, call, told>>
           \/ /\ mode[c] = "foreground" /\ status[c] = "success"
              /\ AfterTool(parent[c], at)
              /\ call' = [call EXCEPT ![parent[c]] = NoCall]
              /\ Tell(c, "result")
           \/ /\ mode[c] = "foreground" /\ status[c] = "failed"
              /\ AttemptFails(parent[c], at)
    /\ UNCHANGED <<tree, registry>>
-----------------------------------------------------------------------------
(* Time limits and cancellation.                                           *)

\* The agents whose coroutines run inside a's spawn_agent call, innermost last.
Inside(a) == IF pc[a] = "spawning" THEN {call[a].child} ELSE {}
Nested(a) == Inside(a) \cup UNION {Inside(c) : c \in Inside(a)}

Cut(S) == [a \in Agents |-> IF a \in S THEN "ended" ELSE pc[a]]
CutFate(S) == [a \in Agents |-> IF a \in S THEN "cancelled" ELSE fate[a]]

\* Mutant of TimeOut: the child of the child is not reached.
TimeOutShallow(a) ==
    /\ pc[a] = "spawning"
    /\ AfterTool(a, Cut(Inside(a)))
    /\ fate' = CutFate(Inside(a))
    /\ Tell(call[a].child, "error")
    /\ call' = [call EXCEPT ![a] = NoCall]
    /\ UNCHANGED <<tree, registry>>

\* The 120 s of a spawn_agent attempt are over: everything inside the call is
\* cancelled, with no subagent.finished, and a timeout is not tried again.
TimeOut(a) ==
    /\ pc[a] = "spawning"
    /\ AfterTool(a, Cut(Nested(a)))
    /\ fate' = CutFate(Nested(a))
    /\ Tell(call[a].child, "error")
    /\ call' = [b \in Agents |-> IF b \in Nested(a) \cup {a} THEN NoCall ELSE call[b]]
    /\ UNCHANGED <<tree, registry>>

\* The task of a run is cancelled, or an exception leaves its loop.  The run still
\* publishes run.finished; its background subagents go on.
CancelRun(r) ==
    /\ r \in Runs /\ pc[r] \in {"thinking", "spawning", "backoff"}
    /\ pc' = [Cut(Nested(r)) EXCEPT ![r] = "finishing"]
    /\ status' = [status EXCEPT ![r] = "failed"]
    /\ fate' = CutFate(Nested(r))
    /\ call' = [b \in Agents |-> IF b \in Nested(r) \cup {r} THEN NoCall ELSE call[b]]
    /\ UNCHANGED <<step, tree, registry, told>>
-----------------------------------------------------------------------------
(* agent_result.                                                           *)

\* task.exception() and task.cancelled(), never context.status: a subagent that
\* failed in its loop is answered like one that succeeded.
Answer(r, c) ==
    IF c \notin registry[r] THEN "unknown"
    ELSE IF Live(c) THEN "running"
    ELSE IF fate[c] = "returned" THEN "result"
    ELSE "error"

\* Mutant of AskResult: a result is handed out once.
AskResultOnce(a, c) ==
    /\ pc[a] = "thinking" /\ HasSubagentTools(a)
    /\ mode[c] = "background"
    /\ LET r == home[a] answer == Answer(r, c)
       IN  IF answer = "running" THEN UNCHANGED <<told, registry>>
           ELSE /\ told' = [told EXCEPT ![c][r] = answer]
                /\ registry' = [registry EXCEPT ![r] = @ \ {c}]
    /\ AfterTool(a, pc)
    /\ UNCHANGED <<fate, call, tree>>

\* An agent asks for a background subagent: its own, another's, or one that an
\* earlier run of the session started.
AskResult(a, c) ==
    /\ pc[a] = "thinking" /\ HasSubagentTools(a)
    /\ \E r \in Runs : c \in registry[r]
    /\ LET answer == Answer(home[a], c)
       IN  told' = IF answer = "running" THEN told
                   ELSE [told EXCEPT ![c][home[a]] = answer]
    /\ AfterTool(a, pc)
    /\ UNCHANGED <<fate, call, tree, registry>>

Next ==
    \/ \E r \in Runs : StartRun(r) \/ FinishRun(r) \/ CancelRun(r)
    \/ \E a \in Agents : PlainStep(a) \/ EndLoop(a, "success") \/ EndLoop(a, "failed")
                         \/ TimeOut(a)
    \/ \E a \in Agents, c \in Children :
          \/ \E m \in Modes : Spawn(a, c, m)
          \/ SpawnAgain(a, c) \/ AskResult(a, c)
    \/ \E c \in Children : Begin(c) \/ Raise(c) \/ Finish(c)

Spec == Init /\ [][Next]_vars

\* The loop runs on: LLM calls and tool calls have time limits, and the clients
\* read the events that are written to them.
Fairness ==
    /\ \A a \in Agents :
          /\ WF_vars(PlainStep(a) \/ EndLoop(a, "success") \/ EndLoop(a, "failed")
                     \/ \E c \in Children, m \in Modes : AskResult(a, c) \/ Spawn(a, c, m))
          /\ WF_vars(TimeOut(a))
          /\ WF_vars(\E c \in Children : SpawnAgain(a, c))
    /\ \A r \in Runs : WF_vars(FinishRun(r))
    /\ \A c \in Children : WF_vars(Begin(c) \/ Raise(c)) /\ WF_vars(Finish(c))

FairSpec == Spec /\ Fairness
-----------------------------------------------------------------------------
(* Properties.                                                             *)

\* A foreground subagent never outlives the call it serves: as long as it runs,
\* its parent is alive and waits for it and for no other, through every time-out
\* and cancellation, also of the parent's own parent.
ForegroundNested ==
    \A c \in Children :
        mode[c] = "foreground" /\ Live(c) =>
            pc[parent[c]] = "spawning" /\ call[parent[c]].child = c

\* What a parent is told of its foreground subagent agrees with the status that
\* subagent.finished has told everybody else.
ForegroundTold ==
    \A c \in Children :
        LET succeeded == status[c] = "success" /\ fate[c] = "returned"
        IN  mode[c] = "foreground" =>
                /\ told[c][home[c]] = "result" => succeeded
                /\ told[c][home[c]] = "error" => ~succeeded

\* A run that was given the outcome of a background subagent is given the same
\* whenever it asks again, and it never forgets a subagent it started.
AnswersStable ==
    [][\A c \in Children, r \in Runs :
          /\ told[c][r] \in {"result", "error"} => told'[c][r] = told[c][r]
          /\ r = home[c] => told'[c][r] # "unknown"]_vars

\* The bound on subagents keeps an agent from its next attempt.
OutOfChildren == \E a \in Agents : pc[a] = "backoff" /\ \A c \in Children : pc[c] # "unborn"

\* Every subagent comes to an end, also when its parent does not wait for it.
ChildrenEnd == \A c \in Children : Live(c) ~> ~Live(c) \/ OutOfChildren
=============================================================================
