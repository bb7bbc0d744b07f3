-------------------------- MODULE Subagents_proofs --------------------------
(***************************************************************************)
(* Theorems about Subagents for every number of runs, subagents, steps and *)
(* attempts.  Whatever ends an agent, a foreground subagent ends with the  *)
(* call it serves, and no outcome is told before there is one.             *)
(***************************************************************************)
EXTENDS Subagents, TLAPS

States == {"unborn", "starting", "thinking", "spawning", "backoff", "finishing", "ended"}

\* A subagent whose parent waits for it: it runs in the call, or its background
\* task does not exist yet.
Served(c) == Live(c) /\ (mode[c] = "foreground" \/ pc[c] = "starting")

\* An agent in spawn_agent waits for a subagent of its own.
Waiting ==
    \A a \in Agents :
        /\ pc[a] = "spawning" => /\ call[a].child \in Children /\ Served(call[a].child)
                                 /\ parent[call[a].child] = a
        /\ pc[a] \in {"spawning", "backoff"} => /\ call[a].mode \in Modes
                                                /\ level[a] < NestingLimit
        /\ pc[a] = "backoff" => call[a].attempt <= MaxRetries

\* And it waits for no other.
Nesting ==
    \A c \in Children : Served(c) => pc[parent[c]] = "spawning" /\ call[parent[c]].child = c

Family ==
    /\ \A r \in Runs : home[r] = r
    /\ \A c \in Children :
          /\ pc[c] = "unborn" => mode[c] = "none"
          /\ pc[c] # "unborn" =>
              /\ parent[c] \in Agents /\ parent[c] # c /\ pc[parent[c]] # "unborn"
              /\ mode[c] \in Modes /\ home[c] \in Runs
              /\ level[c] = level[parent[c]] + 1

\* The registry of a run holds the background subagents of its own agents.
Registered ==
    \A r \in Runs : \A c \in registry[r] :
        mode[c] = "background" /\ home[c] = r /\ pc[c] \notin {"unborn", "starting"}

\* An outcome is told when there is one, to the run of the subagent only.
Telling ==
    \A c \in Children :
        /\ \A r \in Runs :
              /\ pc[c] = "unborn" \/ Served(c) => told[c][r] = "nothing"
              /\ told[c][r] \in {"result", "error"} => r = home[c] /\ pc[c] = "ended"
        /\ pc[c] # "unborn" =>
              /\ told[c][home[c]] # "unknown"
              /\ c \in registry[home[c]] =>
                    /\ told[c][home[c]] = "result" => fate[c] = "returned"
                    /\ told[c][home[c]] = "error" => fate[c] # "returned"

TInv == Registered /\ Telling /\ ForegroundTold
IInv == TypeOK /\ Family /\ Waiting /\ Nesting /\ TInv
-----------------------------------------------------------------------------
(* What the operators do, agent by agent.                                  *)

LEMMA AfterToolFacts ==
    ASSUME TypeOK, SubagentAssumption, NEW a \in Agents, NEW at \in [Agents -> States],
           AfterTool(a, at)
    PROVE  /\ pc' \in [Agents -> States] /\ step' \in [Agents -> 0..MaxSteps]
           /\ status' \in [Agents -> {"running", "success", "failed"}]
           /\ pc'[a] \in {"thinking", "finishing"}
           /\ \A b \in Agents : b # a => pc'[b] = at[b] /\ status'[b] = status[b]
<1>1. /\ step \in [Agents -> 0..MaxSteps] /\ MaxSteps \in Nat
      /\ status \in [Agents -> {"running", "success", "failed"}]
  BY DEF TypeOK, SubagentAssumption
<1>2. CASE step[a] >= MaxSteps
  <2>1. /\ pc' = [at EXCEPT ![a] = "finishing"]
        /\ status' = [status EXCEPT ![a] = "failed"] /\ step' = step
    BY <1>2 DEF AfterTool
  <2>2. pc' \in [Agents -> States] /\ status' \in [Agents -> {"running", "success", "failed"}]
    BY <1>1, <2>1 DEF States
  <2> QED BY <1>1, <2>1, <2>2
<1>3. CASE ~(step[a] >= MaxSteps)
  <2>1. /\ pc' = [at EXCEPT ![a] = "thinking"]
        /\ step' = [step EXCEPT ![a] = @ + 1] /\ status' = status
    BY <1>3 DEF AfterTool
  <2>2. step[a] + 1 \in 0..MaxSteps
    BY <1>1, <1>3
  <2>3. pc' \in [Agents -> States] /\ step' \in [Agents -> 0..MaxSteps]
    BY <1>1, <2>1, <2>2 DEF States
  <2> QED BY <1>1, <2>1, <2>3
<1> QED BY <1>2, <1>3

LEMMA TellFacts ==
    ASSUME TypeOK, NEW c \in Children, home[c] \in Runs, NEW answer \in Answers,
           Tell(c, answer)
    PROVE  /\ told' \in [Children -> [Runs -> Answers \cup {"nothing"}]]
           /\ told'[c][home[c]] = answer
           /\ \A d \in Children, r \in Runs :
                 d # c \/ r # home[c] => told'[d][r] = told[d][r]
<1>1. told \in [Children -> [Runs -> Answers \cup {"nothing"}]]
  BY DEF TypeOK
<1>2. told' = [told EXCEPT ![c] = [told[c] EXCEPT ![home[c]] = answer]]
  BY <1>1 DEF Tell
<1>3. [told[c] EXCEPT ![home[c]] = answer] \in [Runs -> Answers \cup {"nothing"}]
  BY <1>1
<1>4. told' \in [Children -> [Runs -> Answers \cup {"nothing"}]]
  BY <1>1, <1>2, <1>3
<1> QED BY <1>1, <1>2, <1>4

LEMMA CallType ==
    ASSUME TypeOK, NEW a \in Agents
    PROVE  /\ call \in [Agents -> [mode : Modes \cup {"none"}, attempt : 0..MaxRetries + 1,
                                   child : Children \cup {None}]]
           /\ call[a].mode \in Modes \cup {"none"} /\ call[a].attempt \in 0..MaxRetries + 1
           /\ call[a].child \in Children \cup {None}
           /\ NoCall \in [mode : Modes \cup {"none"}, attempt : 0..MaxRetries + 1,
                          child : Children \cup {None}]
<1>1. MaxRetries \in Nat
  BY SubagentAssumption DEF SubagentAssumption
<1> QED BY <1>1 DEF TypeOK, NoCall

LEMMA AttemptFacts ==
    ASSUME TypeOK, SubagentAssumption, NEW a \in Agents, NEW c \in Children,
           call[a].child = c, home[c] \in Runs, call[a].mode \in Modes,
           NEW at \in [Agents -> States], AttemptFails(a, at)
    PROVE  /\ pc' \in [Agents -> States] /\ step' \in [Agents -> 0..MaxSteps]
           /\ status' \in [Agents -> {"running", "success", "failed"}]
           /\ call' \in [Agents -> [mode : Modes \cup {"none"}, attempt : 0..MaxRetries + 1,
                                    child : Children \cup {None}]]
           /\ told' \in [Children -> [Runs -> Answers \cup {"nothing"}]]
           /\ pc'[a] \in {"thinking", "finishing", "backoff"}
           /\ pc'[a] = "backoff" => call'[a].mode \in Modes /\ call'[a].attempt <= MaxRetries
           /\ \A b \in Agents :
                 b # a => pc'[b] = at[b] /\ status'[b] = status[b] /\ call'[b] = call[b]
           /\ \A d \in Children, r \in Runs :
                 \/ told'[d][r] = told[d][r]
                 \/ d = c /\ r = home[c] /\ told'[d][r] = "error"
<1>1. CASE call[a].attempt <= MaxRetries
  <2>1. /\ pc' = [at EXCEPT ![a] = "backoff"] /\ call' = [call EXCEPT ![a].child = None]
        /\ UNCHANGED <<step, status, told>>
    BY <1>1 DEF AttemptFails
  <2>2. pc' \in [Agents -> States] /\ pc'[a] = "backoff"
    BY <2>1 DEF States
  <2>3. call' = [call EXCEPT ![a] = [call[a] EXCEPT !.child = None]]
    BY <2>1, CallType
  <2>4. /\ [call[a] EXCEPT !.child = None] \in [mode : Modes \cup {"none"},
                 attempt : 0..MaxRetries + 1, child : Children \cup {None}]
        /\ [call[a] EXCEPT !.child = None].mode = call[a].mode
        /\ [call[a] EXCEPT !.child = None].attempt = call[a].attempt
    BY CallType
  <2>5. /\ call' \in [Agents -> [mode : Modes \cup {"none"}, attempt : 0..MaxRetries + 1,
                                 child : Children \cup {None}]]
        /\ call'[a].mode = call[a].mode /\ call'[a].attempt = call[a].attempt
        /\ \A b \in Agents : b # a => call'[b] = call[b]
    BY <2>3, <2>4, CallType
  <2>6. \A b \in Agents : b # a => pc'[b] = at[b]
    BY <2>1
  <2> QED BY <1>1, <2>1, <2>2, <2>5, <2>6 DEF TypeOK
<1>2. CASE ~(call[a].attempt <= MaxRetries)
  <2>1. AfterTool(a, at) /\ call' = [call EXCEPT ![a] = NoCall] /\ Tell(c, "error")
    BY <1>2 DEF AttemptFails
  <2>2. /\ call' \in [Agents -> [mode : Modes \cup {"none"}, attempt : 0..MaxRetries + 1,
                                 child : Children \cup {None}]]
        /\ \A b \in Agents : b # a => call'[b] = call[b]
    BY <2>1, CallType
  <2>3. "error" \in Answers
    BY DEF Answers
  <2>4. /\ told' \in [Children -> [Runs -> Answers \cup {"nothing"}]]
        /\ \A d \in Children, r \in Runs :
              \/ told'[d][r] = told[d][r]
              \/ d = c /\ r = home[c] /\ told'[d][r] = "error"
    BY <2>1, <2>3, TellFacts
  <2> QED BY <2>1, <2>2, <2>4, AfterToolFacts
<1> QED BY <1>1, <1>2

\* Everything that runs inside a call of spawn_agent, and nothing else, is cut off
\* with it: an agent two levels down spawns no further.
LEMMA NestedFacts ==
    ASSUME TypeOK, SubagentAssumption, Family, Waiting, Nesting, NEW a \in Agents
    PROVE  /\ Nested(a) \subseteq Children /\ a \notin Nested(a)
           /\ \A c \in Nested(a) : Served(c) /\ parent[c] \in Nested(a) \cup {a}
           /\ \A c \in Children : Served(c) /\ parent[c] \in Nested(a) \cup {a} => c \in Nested(a)
<1> DEFINE c1 == call[a].child
           c2 == call[c1].child
<1>0. Children \subseteq Agents /\ \A b \in Agents : level[b] \in 0..2
  BY DEF Agents, TypeOK, NestingLimit
<1>1. CASE pc[a] # "spawning"
  <2>1. Nested(a) = {}
    BY <1>1 DEF Nested, Inside
  <2> QED BY <1>1, <2>1 DEF Nesting
<1>2. CASE pc[a] = "spawning"
  <2>1. c1 \in Children /\ Served(c1) /\ parent[c1] = a /\ pc[c1] # "unborn"
    BY <1>2 DEF Waiting, Served, Live
  <2>2. level[c1] = level[a] + 1
    BY <2>1 DEF Family
  <2>3. Nested(a) = {c1} \cup Inside(c1)
    BY <1>2 DEF Nested, Inside
  <2>4. \A c \in Children : Served(c) /\ parent[c] = a => c = c1
    BY DEF Nesting
  <2>5. c1 # a
    BY <1>0, <2>2
  <2>6. CASE pc[c1] # "spawning"
    <3>1. Nested(a) = {c1}
      BY <2>3, <2>6 DEF Inside
    <3>2. \A c \in Children : Served(c) => parent[c] # c1
      BY <2>6 DEF Nesting
    <3> HIDE DEF c1
    <3> QED BY <2>1, <2>4, <2>5, <3>1, <3>2
  <2>7. CASE pc[c1] = "spawning"
    <3>1. c2 \in Children /\ Served(c2) /\ parent[c2] = c1 /\ pc[c2] # "unborn"
      BY <1>0, <2>1, <2>7 DEF Waiting, Served, Live
    <3>2. level[c2] = level[c1] + 1
      BY <3>1 DEF Family
    <3>3. Nested(a) = {c1, c2}
      BY <2>3, <2>7 DEF Inside
    <3>4. c2 # a /\ pc[c2] # "spawning"
      BY <1>0, <2>1, <2>2, <3>1, <3>2 DEF Waiting, NestingLimit
    <3>5. \A c \in Children : Served(c) => parent[c] # c2
      BY <3>4 DEF Nesting
    <3>6. \A c \in Children : Served(c) /\ parent[c] = c1 => c = c2
      BY DEF Nesting
    <3> HIDE DEF c1, c2
    <3> QED BY <2>1, <2>4, <2>5, <3>1, <3>3, <3>4, <3>5, <3>6
  <2> QED BY <2>6, <2>7
<1> QED BY <1>1, <1>2
-----------------------------------------------------------------------------
(* What most steps have in common.                                         *)

\* The agents of S end, or are background subagents that begin; those of G are
\* done with what they waited for.
Settles(S, G) ==
    /\ \A b \in Agents \ (S \cup G) : pc'[b] = pc[b] /\ call'[b] = call[b]
    /\ \A b \in S : /\ pc[b] # "unborn"
                    /\ \/ pc'[b] = "ended"
                       \/ pc'[b] = "thinking" /\ (b \in Children => mode[b] = "background")
    /\ \A b \in G : /\ \/ b \in Runs
                       \/ pc[b] \in {"thinking", "spawning", "backoff", "finishing"}
                       \/ pc[b] = "starting" /\ mode[b] = "foreground"
                    /\ pc'[b] \in {"thinking", "finishing", "backoff"}
                    /\ pc'[b] = "backoff" => /\ call'[b].mode \in Modes
                                             /\ call'[b].attempt <= MaxRetries
                                             /\ level[b] < NestingLimit
    /\ \A c \in Children : Served(c) => (parent[c] \in S \cup G <=> c \in S)

LEMMA TreeStep ==
    ASSUME Family, Waiting, Nesting, UNCHANGED tree, NEW S, NEW G, Settles(S, G)
    PROVE  Family' /\ Waiting' /\ Nesting'
<1> USE DEF Settles
<1>1. parent' = parent /\ mode' = mode /\ level' = level /\ home' = home
  BY DEF tree
<1>2. Children \subseteq Agents /\ Runs \cap Children = {}
  BY SubagentAssumption DEF Agents, SubagentAssumption
<1>3. \A b \in Agents : pc[b] # "unborn" => pc'[b] # "unborn"
  <2>1. \A b \in G : pc'[b] # "unborn"
    OBVIOUS
  <2>2. \A b \in S : pc'[b] # "unborn"
    OBVIOUS
  <2> QED BY <2>1, <2>2
<1>4. \A c \in Children : Served(c)' => Served(c) /\ c \notin S
  <2>1. SUFFICES ASSUME NEW c \in Children, Served(c)' PROVE Served(c) /\ c \notin S
    OBVIOUS
  <2>2. c \notin S
    BY <1>1, <2>1 DEF Served, Live, Modes
  <2>3. CASE c \in G
    BY <1>1, <1>2, <2>1, <2>3 DEF Served, Live
  <2>4. CASE c \notin G
    BY <1>1, <1>2, <2>1, <2>2, <2>4 DEF Served, Live
  <2> QED BY <2>2, <2>3, <2>4
<1>5. \A c \in Children : Served(c) /\ c \notin S => Served(c)'
  <2>1. SUFFICES ASSUME NEW c \in Children, Served(c), c \notin S PROVE Served(c)'
    OBVIOUS
  <2>2. CASE c \in G
    BY <1>1, <1>2, <2>1, <2>2 DEF Served, Live
  <2>3. CASE c \notin G
    BY <1>1, <1>2, <2>1, <2>3 DEF Served, Live
  <2> QED BY <2>2, <2>3
<1>6. \A c \in Children : pc'[c] = "unborn" <=> pc[c] = "unborn"
  <2>1. SUFFICES ASSUME NEW c \in Children, pc'[c] = "unborn" PROVE pc[c] = "unborn"
    BY <1>2, <1>3
  <2>2. c \notin S \cup G
    BY <2>1
  <2> QED BY <1>2, <2>1, <2>2
<1>7. Family'
  BY <1>1, <1>3, <1>6 DEF Family
<1>8. Nesting'
  <2>1. SUFFICES ASSUME NEW c \in Children, Served(c)'
                 PROVE  pc'[parent[c]] = "spawning" /\ call'[parent[c]].child = c
    BY <1>1 DEF Nesting
  <2>2. parent[c] \notin S \cup G /\ parent[c] \in Agents
    BY <1>4, <2>1 DEF Family, Served, Live
  <2> QED BY <1>4, <2>1, <2>2 DEF Nesting
<1>9. Waiting'
  <2>1. SUFFICES ASSUME NEW a \in Agents
                 PROVE  /\ pc'[a] = "spawning" =>
                              /\ call'[a].child \in Children /\ parent[call'[a].child] = a
                              /\ pc'[call'[a].child] \notin {"unborn", "ended"}
                              /\ \/ mode[call'[a].child] = "foreground"
                                 \/ pc'[call'[a].child] = "starting"
                        /\ pc'[a] \in {"spawning", "backoff"} => /\ call'[a].mode \in Modes
                                                                 /\ level[a] < NestingLimit
                        /\ pc'[a] = "backoff" => call'[a].attempt <= MaxRetries
    BY <1>1 DEF Waiting, Served, Live
  <2>2. CASE a \in S
    BY <2>2
  <2>3. CASE a \in G
    <3>1. pc'[a] = "backoff" => /\ call'[a].mode \in Modes /\ call'[a].attempt <= MaxRetries
                                /\ level[a] < NestingLimit
      BY <2>3
    <3>2. pc'[a] # "spawning"
      BY <2>3
    <3> QED BY <3>1, <3>2
  <2>4. CASE a \notin S \cup G
    <3>1. pc'[a] = pc[a] /\ call'[a] = call[a]
      BY <2>4
    <3>2. ASSUME pc[a] = "spawning"
          PROVE  /\ call[a].child \in Children /\ parent[call[a].child] = a
                 /\ pc'[call[a].child] \notin {"unborn", "ended"}
                 /\ mode[call[a].child] = "foreground" \/ pc'[call[a].child] = "starting"
      <4>1. call[a].child \in Children /\ Served(call[a].child) /\ parent[call[a].child] = a
        BY <3>2 DEF Waiting
      <4>2. call[a].child \notin S
        BY <2>4, <4>1
      <4> QED BY <1>1, <1>5, <4>1, <4>2 DEF Served, Live
    <3> QED BY <3>1, <3>2 DEF Waiting
  <2> QED BY <2>2, <2>3, <2>4
<1> QED BY <1>7, <1>8, <1>9

\* A run is told the same however often it asks.
Stable(c, r) == /\ told[c][r] \in {"result", "error"} => told'[c][r] = told[c][r]
                /\ r = home[c] => told'[c][r] # "unknown"

\* What is told in a step is an answer of agent_result, or that a subagent which was
\* waited for has ended.
LEMMA ToldStep ==
    ASSUME TypeOK, Family, TInv, UNCHANGED tree,
           \A c \in Children :
              /\ pc[c] = "ended" => pc'[c] = "ended" /\ fate'[c] = fate[c] /\ status'[c] = status[c]
              /\ pc'[c] = "unborn" <=> pc[c] = "unborn"
              /\ pc'[c] = "starting" => pc[c] = "starting",
           \A r \in Runs : registry[r] \subseteq registry'[r],
           \A r \in Runs : \A c \in registry'[r] :
              c \in registry[r] \/ /\ c \in Children /\ mode[c] = "background" /\ home[c] = r
                                   /\ Served(c) /\ pc'[c] = "thinking",
           \A c \in Children, r \in Runs :
              \/ told'[c][r] = told[c][r]
              \/ /\ \E q \in Runs : c \in registry[q]
                 /\ told'[c][r] = Answer(r, c) /\ Answer(r, c) # "running"
              \/ /\ r = home[c] /\ Served(c) /\ pc'[c] = "ended"
                 /\ \/ told'[c][r] = "result" /\ status'[c] = "success" /\ fate'[c] = "returned"
                    \/ /\ told'[c][r] = "error"
                       /\ ~(status'[c] = "success" /\ fate'[c] = "returned")
    PROVE  TInv' /\ \A c \in Children, r \in Runs : Stable(c, r)
<1>1. parent' = parent /\ mode' = mode /\ level' = level /\ home' = home
  BY DEF tree
<1>2. \A r \in Runs : registry[r] \subseteq Children
  BY DEF TypeOK
<1>3. \A c \in Children : Served(c)' => Served(c)
  BY <1>1 DEF Served, Live
<1>4. \A c \in Children : pc[c] # "unborn" => home[c] \in Runs
  BY DEF Family
<1>5. \A c \in Children, r \in Runs :
         c \in registry[r] => /\ mode[c] = "background" /\ home[c] = r /\ ~Served(c)
                              /\ pc[c] \notin {"unborn", "starting"}
  BY DEF TInv, Registered, Served
<1>6. Registered'
  <2>1. SUFFICES ASSUME NEW r \in Runs, NEW c \in registry'[r]
                 PROVE  /\ mode[c] = "background" /\ home[c] = r
                        /\ pc'[c] \notin {"unborn", "starting"}
    BY <1>1 DEF Registered
  <2> QED BY <1>2, <1>5, <2>1
<1>7. ASSUME NEW c \in Children, NEW r \in Runs
      PROVE  /\ Stable(c, r)
             /\ pc'[c] = "unborn" \/ Served(c)' => told'[c][r] = "nothing"
             /\ told'[c][r] \in {"result", "error"} => r = home[c] /\ pc'[c] = "ended"
             /\ mode[c] = "foreground" /\ r = home[c] =>
                   /\ told'[c][r] = "result" => status'[c] = "success" /\ fate'[c] = "returned"
                   /\ told'[c][r] = "error" => ~(status'[c] = "success" /\ fate'[c] = "returned")
             /\ r = home[c] /\ c \in registry'[r] =>
                   /\ told'[c][r] = "result" => fate'[c] = "returned"
                   /\ told'[c][r] = "error" => fate'[c] # "returned"
  <2>1. /\ pc[c] = "unborn" \/ Served(c) => told[c][r] = "nothing"
        /\ told[c][r] \in {"result", "error"} => r = home[c] /\ pc[c] = "ended"
        /\ pc[c] # "unborn" /\ r = home[c] =>
              /\ told[c][r] # "unknown"
              /\ c \in registry[r] => /\ told[c][r] = "result" => fate[c] = "returned"
                                      /\ told[c][r] = "error" => fate[c] # "returned"
        /\ mode[c] = "foreground" /\ r = home[c] =>
              /\ told[c][r] = "result" => status[c] = "success" /\ fate[c] = "returned"
              /\ told[c][r] = "error" => ~(status[c] = "success" /\ fate[c] = "returned")
    BY DEF TInv, Telling, ForegroundTold
  <2>2. CASE told'[c][r] = told[c][r]
    <3>1. c \in registry'[r] => c \in registry[r] \/ told[c][r] = "nothing"
      BY <2>1
    <3> QED BY <1>3, <2>1, <2>2, <3>1 DEF Stable
  <2>3. CASE /\ \E q \in Runs : c \in registry[q]
             /\ told'[c][r] = Answer(r, c) /\ Answer(r, c) # "running"
    <3>1. /\ mode[c] = "background" /\ ~Served(c) /\ pc[c] \notin {"unborn", "starting"}
          /\ \A q \in Runs : c \in registry[q] <=> q = home[c]
      BY <1>5, <2>3
    <3>2. CASE r # home[c]
      BY <1>3, <2>1, <2>3, <3>1, <3>2 DEF Answer, Stable
    <3>3. CASE r = home[c]
      <4>1. c \in registry[r]
        BY <3>1, <3>3
      <4>2. pc[c] = "ended"
        BY <2>3, <3>1, <4>1 DEF Answer, Live
      <4>3. told'[c][r] = IF fate[c] = "returned" THEN "result" ELSE "error"
        BY <2>3, <4>1, <4>2 DEF Answer, Live
      <4> QED BY <1>3, <2>1, <3>1, <3>3, <4>1, <4>2, <4>3 DEF Stable
    <3> QED BY <3>2, <3>3
  <2>4. CASE /\ r = home[c] /\ Served(c) /\ pc'[c] = "ended"
             /\ \/ told'[c][r] = "result" /\ status'[c] = "success" /\ fate'[c] = "returned"
                \/ /\ told'[c][r] = "error"
                   /\ ~(status'[c] = "success" /\ fate'[c] = "returned")
    <3>1. c \notin registry'[r]
      BY <1>5, <2>4
    <3>2. ~Served(c)'
      BY <2>4 DEF Served, Live
    <3> QED BY <2>1, <2>4, <3>1, <3>2 DEF Stable
  <2> QED BY <2>2, <2>3, <2>4
<1>8. Telling'
  BY <1>1, <1>4, <1>7 DEF Telling, Stable
<1>9. ForegroundTold'
  <2>1. SUFFICES ASSUME NEW c \in Children, mode[c] = "foreground"
                 PROVE  /\ told'[c][home[c]] = "result" =>
                              status'[c] = "success" /\ fate'[c] = "returned"
                        /\ told'[c][home[c]] = "error" =>
                              ~(status'[c] = "success" /\ fate'[c] = "returned")
    BY <1>1 DEF ForegroundTold
  <2>2. home[c] \in Runs
    BY <1>4, <2>1 DEF Family
  <2> QED BY <1>7, <2>1, <2>2
<1> QED BY <1>6, <1>7, <1>8, <1>9 DEF TInv
-----------------------------------------------------------------------------
(* The loop of an agent.                                                   *)

AllStable == \A c \in Children, r \in Runs : Stable(c, r)

\* A run begins, or an agent goes on with its loop.
LEMMA SoloStep ==
    ASSUME IInv, NEW a \in Agents, pc[a] = "thinking" \/ (a \in Runs /\ pc[a] = "unborn"),
           pc' \in [Agents -> States], step' \in [Agents -> 0..MaxSteps],
           status' \in [Agents -> {"running", "success", "failed"}],
           told' \in [Children -> [Runs -> Answers \cup {"nothing"}]],
           pc'[a] \in {"thinking", "finishing"},
           \A b \in Agents : b # a => pc'[b] = pc[b] /\ status'[b] = status[b],
           UNCHANGED <<fate, call, tree, registry>>,
           \A c \in Children, r \in Runs :
              \/ told'[c][r] = told[c][r]
              \/ /\ \E q \in Runs : c \in registry[q]
                 /\ told'[c][r] = Answer(r, c) /\ Answer(r, c) # "running"
    PROVE  IInv' /\ AllStable
<1> USE DEF IInv
<1>1. Children \subseteq Agents /\ Runs \cap Children = {}
  BY SubagentAssumption DEF Agents, SubagentAssumption
<1>2. TypeOK'
  BY DEF TypeOK, States, tree
<1>3. Family' /\ Waiting' /\ Nesting'
  <2>1. \A c \in Children : Served(c) => parent[c] # a
    BY DEF Nesting
  <2>2. Settles({}, {a})
    BY <2>1 DEF Settles
  <2> QED BY <1>1, <2>2, TreeStep
<1>4. /\ \A c \in Children :
            /\ pc[c] = "ended" => pc'[c] = "ended" /\ fate'[c] = fate[c] /\ status'[c] = status[c]
            /\ pc'[c] = "unborn" <=> pc[c] = "unborn"
            /\ pc'[c] = "starting" => pc[c] = "starting"
      /\ \A r \in Runs : registry'[r] = registry[r]
  BY <1>1
<1>5. TInv' /\ AllStable
  BY <1>4, ToldStep DEF AllStable
<1> QED BY <1>2, <1>3, <1>5

LEMMA LoopStep ==
    ASSUME IInv, NEW a \in Agents,
           \/ a \in Runs /\ StartRun(a)
           \/ PlainStep(a) \/ EndLoop(a, "success") \/ EndLoop(a, "failed")
           \/ \E c \in Children : AskResult(a, c)
    PROVE  IInv' /\ AllStable
<1>1. /\ pc \in [Agents -> States] /\ step \in [Agents -> 0..MaxSteps]
      /\ status \in [Agents -> {"running", "success", "failed"}]
      /\ told \in [Children -> [Runs -> Answers \cup {"nothing"}]]
      /\ 1 \in 0..MaxSteps /\ TypeOK
  BY SubagentAssumption DEF IInv, TypeOK, States, SubagentAssumption
<1>2. CASE a \in Runs /\ StartRun(a)
  <2>1. /\ pc[a] = "unborn" /\ pc' = [pc EXCEPT ![a] = "thinking"]
        /\ step' = [step EXCEPT ![a] = 1]
        /\ UNCHANGED <<status, fate, call, tree, registry, told>>
    BY <1>2 DEF StartRun
  <2>2. pc' \in [Agents -> States] /\ step' \in [Agents -> 0..MaxSteps]
    BY <1>1, <2>1 DEF States
  <2> QED BY <1>1, <1>2, <2>1, <2>2, SoloStep
<1>3. CASE PlainStep(a)
  <2>1. /\ pc[a] = "thinking" /\ AfterTool(a, pc)
        /\ UNCHANGED <<fate, call, tree, registry, told>>
    BY <1>3 DEF PlainStep
  <2>2. /\ pc' \in [Agents -> States] /\ step' \in [Agents -> 0..MaxSteps]
        /\ status' \in [Agents -> {"running", "success", "failed"}]
        /\ pc'[a] \in {"thinking", "finishing"}
        /\ \A b \in Agents : b # a => pc'[b] = pc[b] /\ status'[b] = status[b]
    BY <1>1, <2>1, SubagentAssumption, AfterToolFacts
  <2> QED BY <1>1, <2>1, <2>2, SoloStep
<1>4. ASSUME NEW s \in {"success", "failed"}, EndLoop(a, s) PROVE IInv' /\ AllStable
  <2>1. /\ pc[a] = "thinking" /\ pc' = [pc EXCEPT ![a] = "finishing"]
        /\ status' = [status EXCEPT ![a] = s]
        /\ UNCHANGED <<step, fate, call, tree, registry, told>>
    BY <1>4 DEF EndLoop
  <2>2. /\ pc' \in [Agents -> States]
        /\ status' \in [Agents -> {"running", "success", "failed"}]
    BY <1>1, <2>1 DEF States
  <2>3. /\ pc'[a] \in {"thinking", "finishing"}
        /\ \A b \in Agents : b # a => pc'[b] = pc[b] /\ status'[b] = status[b]
    BY <1>1, <2>1
  <2> QED BY <1>1, <2>1, <2>2, <2>3, SoloStep
<1>5. ASSUME NEW c \in Children, AskResult(a, c) PROVE IInv' /\ AllStable
  <2>1. /\ pc[a] = "thinking" /\ AfterTool(a, pc) /\ \E q \in Runs : c \in registry[q]
        /\ UNCHANGED <<fate, call, tree, registry>>
        /\ told' = IF Answer(home[a], c) = "running" THEN told
                   ELSE [told EXCEPT ![c][home[a]] = Answer(home[a], c)]
    BY <1>5 DEF AskResult
  <2>2. home[a] \in Runs
    BY <2>1 DEF IInv, Family, Agents
  <2>5. /\ pc' \in [Agents -> States] /\ step' \in [Agents -> 0..MaxSteps]
        /\ status' \in [Agents -> {"running", "success", "failed"}]
        /\ pc'[a] \in {"thinking", "finishing"}
        /\ \A b \in Agents : b # a => pc'[b] = pc[b] /\ status'[b] = status[b]
    BY <1>1, <2>1, SubagentAssumption, AfterToolFacts
  <2>3. CASE Answer(home[a], c) = "running"
    BY <1>1, <2>1, <2>3, <2>5, SoloStep
  <2>4. CASE Answer(home[a], c) # "running"
    <3>1. Answer(home[a], c) \in Answers
      BY <2>4 DEF Answer, Answers
    <3> DEFINE row == [told[c] EXCEPT ![home[a]] = Answer(home[a], c)]
    <3>2. row \in [Runs -> Answers \cup {"nothing"}] /\ told' = [told EXCEPT ![c] = row]
      BY <1>1, <2>1, <2>4, <3>1
    <3>3. /\ row[home[a]] = Answer(home[a], c)
          /\ \A r \in Runs : r # home[a] => row[r] = told[c][r]
      BY <1>1, <2>2
    <3> HIDE DEF row
    <3>4. told' \in [Children -> [Runs -> Answers \cup {"nothing"}]]
      BY <1>1, <3>2
    <3>5. \A d \in Children, r \in Runs :
             \/ told'[d][r] = told[d][r]
             \/ /\ \E q \in Runs : d \in registry[q]
                /\ told'[d][r] = Answer(r, d) /\ Answer(r, d) # "running"
      BY <1>1, <2>1, <2>4, <3>2, <3>3
    <3> QED BY <1>1, <2>1, <2>5, <3>4, <3>5, SoloStep
  <2> QED BY <2>3, <2>4
<1> QED BY <1>2, <1>3, <1>4, <1>5

LEMMA FinishRunStep == ASSUME IInv, NEW r \in Runs, FinishRun(r) PROVE IInv' /\ AllStable
<1> USE DEF IInv
<1>1. /\ pc[r] = "finishing" /\ pc' = [pc EXCEPT ![r] = "ended"]
      /\ fate' = [fate EXCEPT ![r] = "returned"]
      /\ UNCHANGED <<step, status, call, tree, registry, told>>
  BY DEF FinishRun
<1>2. Children \subseteq Agents /\ Runs \subseteq Agents /\ Runs \cap Children = {}
  BY SubagentAssumption DEF Agents, SubagentAssumption
<1>3. /\ pc'[r] = "ended" /\ \A b \in Agents : b # r => pc'[b] = pc[b] /\ fate'[b] = fate[b]
      /\ pc' \in [Agents -> States]
      /\ fate' \in [Agents -> {"none", "returned", "raised", "cancelled"}]
  BY <1>1, <1>2 DEF TypeOK, States
<1>4. TypeOK'
  BY <1>1, <1>3 DEF TypeOK, States, tree
<1>5. Family' /\ Waiting' /\ Nesting'
  <2>1. \A c \in Children : Served(c) => parent[c] # r
    BY <1>1 DEF Nesting
  <2>2. Settles({r}, {})
    BY <1>1, <1>2, <1>3, <2>1 DEF Settles
  <2> QED BY <1>1, <2>2, TreeStep
<1>6. TInv' /\ AllStable
  <2>1. /\ \A c \in Children :
              /\ pc[c] = "ended" => pc'[c] = "ended" /\ fate'[c] = fate[c] /\ status'[c] = status[c]
              /\ pc'[c] = "unborn" <=> pc[c] = "unborn"
              /\ pc'[c] = "starting" => pc[c] = "starting"
        /\ \A q \in Runs : registry'[q] = registry[q]
        /\ \A c \in Children, q \in Runs : told'[c][q] = told[c][q]
    BY <1>1, <1>2, <1>3
  <2> QED BY <1>1, <2>1, ToldStep DEF AllStable
<1> QED BY <1>4, <1>5, <1>6
-----------------------------------------------------------------------------
(* A new child.                                                            *)

LEMMA AnnounceStep ==
    ASSUME IInv, NEW a \in Agents, NEW c \in Children, NEW m \in Modes, NEW n \in Nat,
           n <= MaxRetries + 1, level[a] < NestingLimit,
           pc[a] \in {"thinking", "backoff"}, Announce(a, c, m, n)
    PROVE  IInv' /\ AllStable
<1> USE DEF IInv
<1>1. /\ pc[c] = "unborn" /\ pc' = [pc EXCEPT ![a] = "spawning", ![c] = "starting"]
      /\ call' = [call EXCEPT ![a] = [mode |-> m, attempt |-> n, child |-> c]]
      /\ parent' = [parent EXCEPT ![c] = a] /\ mode' = [mode EXCEPT ![c] = m]
      /\ level' = [level EXCEPT ![c] = level[a] + 1] /\ home' = [home EXCEPT ![c] = home[a]]
      /\ step' = [step EXCEPT ![c] = 1]
      /\ UNCHANGED <<status, fate, registry, told>>
  BY DEF Announce
<1>2. /\ Children \subseteq Agents /\ Runs \subseteq Agents /\ Runs \cap Children = {}
      /\ MaxSteps \in Nat \ {0} /\ MaxRetries \in Nat
  BY SubagentAssumption DEF Agents, SubagentAssumption
<1>3. c # a /\ level[a] + 1 \in 0..NestingLimit /\ home[a] \in Runs
  <2>1. level[a] \in 0..NestingLimit
    BY DEF TypeOK
  <2>2. level[a] + 1 \in 0..NestingLimit
    BY <2>1 DEF NestingLimit
  <2>3. home[a] \in Runs
    BY DEF Family, Agents
  <2> QED BY <1>1, <2>2, <2>3
<1>4. /\ pc' \in [Agents -> States] /\ pc'[a] = "spawning" /\ pc'[c] = "starting"
      /\ \A b \in Agents : b # a /\ b # c => pc'[b] = pc[b]
  BY <1>1, <1>2, <1>3 DEF TypeOK, States
<1>5. /\ call' \in [Agents -> [mode : Modes \cup {"none"}, attempt : 0..MaxRetries + 1,
                               child : Children \cup {None}]]
      /\ call'[a].mode = m /\ call'[a].attempt = n /\ call'[a].child = c
      /\ \A b \in Agents : b # a => call'[b] = call[b]
  <2>1. [mode |-> m, attempt |-> n, child |-> c] \in
           [mode : Modes \cup {"none"}, attempt : 0..MaxRetries + 1, child : Children \cup {None}]
    BY <1>2
  <2> QED BY <1>1, <2>1, CallType
<1>6. /\ parent' \in [Children -> Agents \cup {None}] /\ parent'[c] = a
      /\ mode' \in [Children -> Modes \cup {"none"}] /\ mode'[c] = m
      /\ level' \in [Agents -> 0..NestingLimit] /\ level'[c] = level[a] + 1
      /\ home' \in [Agents -> Runs \cup {None}] /\ home'[c] = home[a]
      /\ \A d \in Children : d # c => parent'[d] = parent[d] /\ mode'[d] = mode[d]
      /\ \A b \in Agents : b # c => level'[b] = level[b] /\ home'[b] = home[b]
  BY <1>1, <1>2, <1>3 DEF TypeOK
<1>7. TypeOK'
  <2>1. step' \in [Agents -> 0..MaxSteps]
    BY <1>1, <1>2 DEF TypeOK
  <2> QED BY <1>1, <1>4, <1>5, <1>6, <2>1 DEF TypeOK, States
<1>8. \A d \in Children : pc[d] # "unborn" => /\ d # c /\ parent[d] # c /\ parent[d] \in Agents
                                              /\ pc'[d] # "unborn" /\ pc'[parent[d]] # "unborn"
  <2>1. \A b \in Agents : pc[b] # "unborn" => pc'[b] # "unborn"
    BY <1>4
  <2> QED BY <1>1, <1>2, <2>1 DEF Family
<1>9. Family'
  <2>1. \A r \in Runs : home'[r] = r
    BY <1>2, <1>6 DEF Family
  <2>2. ASSUME NEW d \in Children
        PROVE  /\ pc'[d] = "unborn" => mode'[d] = "none"
               /\ pc'[d] # "unborn" =>
                     /\ parent'[d] \in Agents /\ parent'[d] # d /\ pc'[parent'[d]] # "unborn"
                     /\ mode'[d] \in Modes /\ home'[d] \in Runs
                     /\ level'[d] = level'[parent'[d]] + 1
    <3>1. CASE d = c
      BY <1>3, <1>4, <1>6, <3>1
    <3>2. CASE d # c
      <4>1. pc'[d] # "unborn" => pc[d] # "unborn"
        BY <1>1, <1>2, <1>3, <1>4, <3>2
      <4>2. pc[d] # "unborn" =>
               /\ parent'[d] = parent[d] /\ parent[d] \in Agents /\ parent[d] # d
               /\ pc'[parent[d]] # "unborn" /\ mode'[d] \in Modes /\ home'[d] \in Runs
               /\ level'[d] = level[parent[d]] + 1 /\ level'[parent[d]] = level[parent[d]]
        BY <1>2, <1>6, <1>8, <3>2 DEF Family
      <4> QED BY <1>2, <1>6, <1>8, <3>2, <4>1, <4>2 DEF Family
    <3> QED BY <3>1, <3>2
  <2> QED BY <2>1, <2>2 DEF Family
<1>10. \A d \in Children : d # c => (Served(d)' <=> Served(d))
  <2>1. SUFFICES ASSUME NEW d \in Children, d # c PROVE Served(d)' <=> Served(d)
    OBVIOUS
  <2>2. CASE d = a
    BY <1>2, <1>4, <1>6, <2>1, <2>2 DEF Served, Live
  <2>3. CASE d # a
    BY <1>2, <1>4, <1>6, <2>1, <2>3 DEF Served, Live
  <2> QED BY <2>2, <2>3
<1>11. Nesting'
  <2>1. SUFFICES ASSUME NEW d \in Children, Served(d)'
                 PROVE  pc'[parent'[d]] = "spawning" /\ call'[parent'[d]].child = d
    BY DEF Nesting
  <2>2. CASE d = c
    BY <1>4, <1>5, <1>6, <2>2
  <2>3. CASE d # c
    <3>1. Served(d) /\ pc[d] # "unborn"
      BY <1>10, <2>1, <2>3 DEF Served, Live
    <3>2. pc[parent[d]] = "spawning" /\ call[parent[d]].child = d /\ parent'[d] = parent[d]
      BY <1>6, <2>3, <3>1 DEF Nesting
    <3>3. parent[d] # a /\ parent[d] # c /\ parent[d] \in Agents
      BY <1>1, <1>8, <3>1, <3>2
    <3> QED BY <1>4, <1>5, <3>2, <3>3
  <2> QED BY <2>2, <2>3
<1>12. Waiting'
  <2>1. SUFFICES ASSUME NEW b \in Agents
                 PROVE  /\ pc'[b] = "spawning" =>
                              /\ call'[b].child \in Children /\ parent'[call'[b].child] = b
                              /\ pc'[call'[b].child] \notin {"unborn", "ended"}
                              /\ \/ mode'[call'[b].child] = "foreground"
                                 \/ pc'[call'[b].child] = "starting"
                        /\ pc'[b] \in {"spawning", "backoff"} => /\ call'[b].mode \in Modes
                                                                 /\ level'[b] < NestingLimit
                        /\ pc'[b] = "backoff" => call'[b].attempt <= MaxRetries
    BY DEF Waiting, Served, Live
  <2>2. CASE b = a
    BY <1>3, <1>4, <1>5, <1>6, <2>2
  <2>3. CASE b = c
    BY <1>4, <2>3
  <2>4. CASE b # a /\ b # c
    <3>1. pc'[b] = pc[b] /\ call'[b] = call[b] /\ level'[b] = level[b]
      BY <1>4, <1>5, <1>6, <2>4
    <3>2. ASSUME pc[b] = "spawning"
          PROVE  /\ call[b].child \in Children /\ parent'[call[b].child] = b
                 /\ pc'[call[b].child] \notin {"unborn", "ended"}
                 /\ mode'[call[b].child] = "foreground" \/ pc'[call[b].child] = "starting"
      <4>1. call[b].child \in Children /\ Served(call[b].child) /\ parent[call[b].child] = b
        BY <3>2 DEF Waiting
      <4>2. call[b].child # c
        BY <1>1, <4>1 DEF Served, Live
      <4> QED BY <1>6, <1>10, <4>1, <4>2 DEF Served, Live
    <3> QED BY <3>1, <3>2 DEF Waiting
  <2> QED BY <2>2, <2>3, <2>4
<1>13. \A r \in Runs : told[c][r] = "nothing" /\ c \notin registry[r]
  BY <1>1 DEF TInv, Telling, Registered
<1>14. Registered'
  <2>1. SUFFICES ASSUME NEW r \in Runs, NEW d \in registry[r]
                 PROVE  mode'[d] = "background" /\ home'[d] = r /\ pc'[d] \notin {"unborn", "starting"}
    BY <1>1 DEF Registered
  <2>2. d \in Children /\ d # c
    BY <1>13 DEF TypeOK
  <2>3. mode[d] = "background" /\ home[d] = r /\ pc[d] \notin {"unborn", "starting"}
    BY DEF TInv, Registered
  <2> QED BY <1>2, <1>4, <1>6, <2>2, <2>3
<1>15. Telling'
  <2>1. ASSUME NEW d \in Children
        PROVE  /\ \A r \in Runs :
                     /\ pc'[d] = "unborn" \/ Served(d)' => told[d][r] = "nothing"
                     /\ told[d][r] \in {"result", "error"} => r = home'[d] /\ pc'[d] = "ended"
               /\ pc'[d] # "unborn" =>
                     /\ told[d][home'[d]] # "unknown"
                     /\ d \in registry[home'[d]] =>
                           /\ told[d][home'[d]] = "result" => fate[d] = "returned"
                           /\ told[d][home'[d]] = "error" => fate[d] # "returned"
    <3>1. CASE d = c
      BY <1>3, <1>6, <1>13, <3>1
    <3>2. CASE d # c
      <4>1. /\ home'[d] = home[d]
            /\ pc[d] = "ended" => pc'[d] = "ended"
        BY <1>2, <1>4, <1>6, <3>2
      <4>2. (pc'[d] = "unborn") <=> (pc[d] = "unborn")
        BY <1>2, <1>4, <3>2
      <4> QED BY <1>10, <3>2, <4>1, <4>2 DEF TInv, Telling
    <3> QED BY <3>1, <3>2
  <2> QED BY <1>1, <2>1 DEF Telling
<1>16. ForegroundTold'
  <2>1. SUFFICES ASSUME NEW d \in Children, mode'[d] = "foreground"
                 PROVE  /\ told[d][home'[d]] = "result" => status[d] = "success" /\ fate[d] = "returned"
                        /\ told[d][home'[d]] = "error" => ~(status[d] = "success" /\ fate[d] = "returned")
    BY <1>1 DEF ForegroundTold
  <2>2. CASE d = c
    BY <1>3, <1>6, <1>13, <2>2
  <2>3. CASE d # c
    <3>1. home'[d] = home[d] /\ mode[d] = "foreground"
      BY <1>2, <1>6, <2>1, <2>3
    <3> QED BY <3>1 DEF TInv, ForegroundTold
  <2> QED BY <2>2, <2>3
<1>17. AllStable
  <2>1. SUFFICES ASSUME NEW d \in Children, NEW r \in Runs, r = home[d] PROVE told[d][r] # "unknown"
    BY <1>1 DEF AllStable, Stable
  <2> QED BY <2>1 DEF TInv, Telling
<1> QED BY <1>7, <1>9, <1>11, <1>12, <1>14, <1>15, <1>16, <1>17 DEF TInv
-----------------------------------------------------------------------------
(* The end of a subagent.                                                  *)

\* The parent of a subagent that is waited for.
LEMMA ParentFacts ==
    ASSUME IInv, NEW c \in Children, Served(c)
    PROVE  /\ parent[c] \in Agents /\ parent[c] # c /\ home[c] \in Runs
           /\ pc[parent[c]] = "spawning" /\ call[parent[c]].child = c
           /\ call[parent[c]].mode \in Modes /\ level[parent[c]] < NestingLimit
           /\ \A d \in Children : Served(d) /\ parent[d] = parent[c] => d = c
<1>1. pc[c] # "unborn"
  BY DEF Served, Live
<1>2. parent[c] \in Agents /\ parent[c] # c /\ home[c] \in Runs
  BY <1>1 DEF IInv, Family
<1>3. /\ pc[parent[c]] = "spawning" /\ call[parent[c]].child = c
      /\ \A d \in Children : Served(d) /\ parent[d] = parent[c] => d = c
  BY DEF IInv, Nesting
<1> QED BY <1>2, <1>3 DEF IInv, Waiting

\* The subagent c ends in a step in which the agents of G go on.
LEMMA ChildStep ==
    ASSUME IInv, NEW c \in Children, Live(c), pc[c] # "spawning", pc'[c] = "ended",
           NEW G, G = IF Served(c) THEN {parent[c]} ELSE {},
           \A b \in G : /\ pc'[b] \in {"thinking", "finishing", "backoff"}
                        /\ pc'[b] = "backoff" => /\ call'[b].mode \in Modes
                                                 /\ call'[b].attempt <= MaxRetries,
           \A b \in Agents : b \notin G \cup {c} => pc'[b] = pc[b],
           \A b \in Agents : b \notin G => call'[b] = call[b] /\ status'[b] = status[b],
           \A b \in Agents : b # c => fate'[b] = fate[b],
           UNCHANGED <<tree, registry>>, TypeOK',
           \A d \in Children, r \in Runs :
              \/ told'[d][r] = told[d][r]
              \/ /\ d = c /\ r = home[c] /\ Served(c)
                 /\ \/ told'[d][r] = "result" /\ status'[c] = "success" /\ fate'[c] = "returned"
                    \/ /\ told'[d][r] = "error"
                       /\ ~(status'[c] = "success" /\ fate'[c] = "returned")
    PROVE  IInv' /\ AllStable
<1> USE DEF IInv
<1>1. Children \subseteq Agents /\ Runs \cap Children = {}
  BY SubagentAssumption DEF Agents, SubagentAssumption
<1>2. \A b \in G : /\ b = parent[c] /\ Served(c) /\ b \in Agents /\ b # c
                   /\ pc[b] = "spawning" /\ level[b] < NestingLimit
  BY ParentFacts
<1>3. Family' /\ Waiting' /\ Nesting'
  <2>1. \A d \in Children : Served(d) => (parent[d] \in {c} \cup G <=> d \in {c})
    <3>1. \A d \in Children : Served(d) => parent[d] # c
      BY DEF Nesting
    <3>2. \A d \in Children : Served(d) /\ parent[d] \in G => d = c
      BY <1>2, ParentFacts
    <3>3. Served(c) => parent[c] \in G
      OBVIOUS
    <3> QED BY <3>1, <3>2, <3>3
  <2>2. Settles({c}, G)
    BY <1>1, <1>2, <2>1 DEF Settles, Live
  <2> QED BY <2>2, TreeStep
<1>4. /\ \A d \in Children :
            /\ pc[d] = "ended" => pc'[d] = "ended" /\ fate'[d] = fate[d] /\ status'[d] = status[d]
            /\ pc'[d] = "unborn" <=> pc[d] = "unborn"
            /\ pc'[d] = "starting" => pc[d] = "starting"
      /\ \A r \in Runs : registry'[r] = registry[r]
  <2>1. ASSUME NEW d \in Children
        PROVE  /\ pc[d] = "ended" => /\ pc'[d] = "ended" /\ fate'[d] = fate[d]
                                     /\ status'[d] = status[d]
               /\ pc'[d] = "unborn" <=> pc[d] = "unborn"
               /\ pc'[d] = "starting" => pc[d] = "starting"
    <3>1. CASE d = c
      BY <3>1 DEF Live
    <3>2. CASE d \in G
      BY <1>2, <3>2
    <3>3. CASE d # c /\ d \notin G
      BY <1>1, <3>3
    <3> QED BY <3>1, <3>2, <3>3
  <2> QED BY <2>1
<1>5. TInv' /\ AllStable
  BY <1>4, ToldStep DEF AllStable
<1> QED BY <1>3, <1>5
LEMMA BeginStep == ASSUME IInv, NEW c \in Children, Begin(c) PROVE IInv' /\ AllStable
<1> USE DEF IInv
<1> DEFINE at == [pc EXCEPT ![c] = "thinking"]
           p == parent[c]
<1>1. pc[c] = "starting" /\ UNCHANGED <<fate, tree, told>> /\ Served(c)
  BY DEF Begin, Served, Live
<1>2. Children \subseteq Agents /\ Runs \cap Children = {}
  BY SubagentAssumption DEF Agents, SubagentAssumption
<1>3. /\ at \in [Agents -> States] /\ at[c] = "thinking"
      /\ \A b \in Agents : b # c => at[b] = pc[b]
  BY <1>2 DEF TypeOK, States
<1>4. p \in Agents /\ p # c /\ home[c] \in Runs /\ pc[p] = "spawning"
  BY <1>1, ParentFacts
<1>5. \A d \in Children : Served(d) => parent[d] # c /\ (parent[d] = p => d = c)
  BY <1>1, ParentFacts DEF Nesting
<1>6. mode[c] \in Modes
  BY <1>1 DEF Family
<1> HIDE DEF at
<1>7. CASE mode[c] = "foreground"
  <2>1. pc' = at /\ UNCHANGED <<step, status, call, registry>>
    BY <1>7 DEF Begin, at
  <2>2. TypeOK'
    BY <1>1, <1>3, <2>1 DEF TypeOK, States, tree
  <2>3. Settles({}, {c})
    BY <1>1, <1>2, <1>3, <1>5, <1>7, <2>1 DEF Settles
  <2>4. \A d \in Children : /\ pc[d] = "ended" => pc'[d] = "ended"
                            /\ pc'[d] = "unborn" <=> pc[d] = "unborn"
                            /\ pc'[d] = "starting" => pc[d] = "starting"
    BY <1>1, <1>2, <1>3, <2>1
  <2>5. TInv' /\ AllStable
    BY <1>1, <2>1, <2>4, ToldStep DEF AllStable
  <2> QED BY <1>1, <2>2, <2>3, <2>5, TreeStep
<1>8. CASE mode[c] = "background"
  <2>1. /\ registry' = [registry EXCEPT ![home[c]] = @ \cup {c}]
        /\ call' = [call EXCEPT ![p] = NoCall] /\ AfterTool(p, at)
    BY <1>8 DEF Begin, at
  <2>2. /\ pc' \in [Agents -> States] /\ step' \in [Agents -> 0..MaxSteps]
        /\ status' \in [Agents -> {"running", "success", "failed"}]
        /\ pc'[p] \in {"thinking", "finishing"}
        /\ \A b \in Agents : b # p => pc'[b] = at[b] /\ status'[b] = status[b]
    BY <1>3, <1>4, <2>1, SubagentAssumption, AfterToolFacts
  <2>3. /\ call' \in [Agents -> [mode : Modes \cup {"none"}, attempt : 0..MaxRetries + 1,
                                 child : Children \cup {None}]]
        /\ \A b \in Agents : b # p => call'[b] = call[b]
    BY <1>4, <2>1, CallType
  <2>4. /\ registry' \in [Runs -> SUBSET Children]
        /\ \A r \in Runs : registry'[r] = IF r = home[c] THEN registry[r] \cup {c} ELSE registry[r]
    BY <1>4, <2>1 DEF TypeOK
  <2>5. TypeOK'
    BY <1>1, <2>2, <2>3, <2>4 DEF TypeOK, States, tree
  <2>6. pc'[c] = "thinking" /\ \A b \in Agents : b # p /\ b # c => pc'[b] = pc[b]
    BY <1>2, <1>3, <1>4, <2>2
  <2>7. Settles({c}, {p})
    BY <1>1, <1>2, <1>4, <1>5, <1>8, <2>2, <2>3, <2>6 DEF Settles
  <2>8. \A d \in Children :
           /\ pc[d] = "ended" => pc'[d] = "ended" /\ status'[d] = status[d]
           /\ pc'[d] = "unborn" <=> pc[d] = "unborn"
           /\ pc'[d] = "starting" => pc[d] = "starting"
    BY <1>1, <1>2, <1>4, <2>2, <2>6
  <2>9. /\ \A r \in Runs : registry[r] \subseteq registry'[r]
        /\ \A r \in Runs : \A d \in registry'[r] :
              d \in registry[r] \/ /\ d \in Children /\ mode[d] = "background" /\ home[d] = r
                                   /\ Served(d) /\ pc'[d] = "thinking"
    BY <1>1, <1>8, <2>4, <2>6
  <2>10. TInv' /\ AllStable
    BY <1>1, <2>8, <2>9, ToldStep DEF AllStable
  <2> QED BY <1>1, <2>5, <2>7, <2>10, TreeStep
<1> QED BY <1>6, <1>7, <1>8 DEF Modes

LEMMA RaiseStep == ASSUME IInv, NEW c \in Children, Raise(c) PROVE IInv' /\ AllStable
<1> USE DEF IInv
<1> DEFINE at == [pc EXCEPT ![c] = "ended"]
           p == parent[c]
           G == IF Served(c) THEN {p} ELSE {}
<1>1. /\ pc[c] \in {"starting", "thinking", "backoff", "finishing"}
      /\ fate' = [fate EXCEPT ![c] = "raised"] /\ UNCHANGED <<tree, registry>>
      /\ Live(c) /\ pc[c] # "spawning"
  BY DEF Raise, Live
<1>2. Children \subseteq Agents /\ Runs \cap Children = {}
  BY SubagentAssumption DEF Agents, SubagentAssumption
<1>3. /\ at \in [Agents -> States] /\ at[c] = "ended"
      /\ \A b \in Agents : b # c => at[b] = pc[b]
  BY <1>2 DEF TypeOK, States
<1>4. /\ fate' \in [Agents -> {"none", "returned", "raised", "cancelled"}]
      /\ fate'[c] = "raised" /\ \A b \in Agents : b # c => fate'[b] = fate[b]
  BY <1>1, <1>2 DEF TypeOK
<1>5. CASE (mode[c] = "foreground" \/ pc[c] = "starting") /\ AttemptFails(p, at)
  <2>1. Served(c) /\ G = {p}
    BY <1>1, <1>5 DEF Served
  <2>2. /\ p \in Agents /\ p # c /\ home[c] \in Runs /\ call[p].child = c
        /\ call[p].mode \in Modes
    BY <2>1, ParentFacts
  <2> HIDE DEF at, p, G
  <2>3. /\ pc' \in [Agents -> States] /\ step' \in [Agents -> 0..MaxSteps]
        /\ status' \in [Agents -> {"running", "success", "failed"}]
        /\ call' \in [Agents -> [mode : Modes \cup {"none"}, attempt : 0..MaxRetries + 1,
                                 child : Children \cup {None}]]
        /\ told' \in [Children -> [Runs -> Answers \cup {"nothing"}]]
        /\ pc'[p] \in {"thinking", "finishing", "backoff"}
        /\ pc'[p] = "backoff" => call'[p].mode \in Modes /\ call'[p].attempt <= MaxRetries
        /\ \A b \in Agents :
              b # p => pc'[b] = at[b] /\ status'[b] = status[b] /\ call'[b] = call[b]
        /\ \A d \in Children, r \in Runs :
              \/ told'[d][r] = told[d][r]
              \/ d = c /\ r = home[c] /\ told'[d][r] = "error"
    BY <1>3, <1>5, <2>2, SubagentAssumption, AttemptFacts
  <2>4. TypeOK'
    BY <1>1, <1>4, <2>3 DEF TypeOK, States, tree
  <2>5. pc'[c] = "ended" /\ \A b \in Agents : b \notin G \cup {c} => pc'[b] = pc[b]
    BY <1>2, <1>3, <2>1, <2>2, <2>3
  <2>6. /\ \A b \in G : /\ pc'[b] \in {"thinking", "finishing", "backoff"}
                        /\ pc'[b] = "backoff" => /\ call'[b].mode \in Modes
                                                 /\ call'[b].attempt <= MaxRetries
        /\ \A b \in Agents : b \notin G => call'[b] = call[b] /\ status'[b] = status[b]
    BY <2>1, <2>3
  <2>7. G = IF Served(c) THEN {parent[c]} ELSE {}
    BY DEF G, p
  <2>8. \A d \in Children, r \in Runs :
           \/ told'[d][r] = told[d][r]
           \/ /\ d = c /\ r = home[c] /\ Served(c)
              /\ \/ told'[d][r] = "result" /\ status'[c] = "success" /\ fate'[c] = "returned"
                 \/ /\ told'[d][r] = "error"
                    /\ ~(status'[c] = "success" /\ fate'[c] = "returned")
    BY <1>4, <2>1, <2>3
  <2> QED BY <1>1, <1>4, <2>4, <2>5, <2>6, <2>7, <2>8, ChildStep
<1>6. CASE /\ mode[c] = "background" /\ pc[c] # "starting"
           /\ pc' = at /\ UNCHANGED <<step, status, call, told>>
  <2>1. G = {} /\ ~Served(c)
    BY <1>6 DEF Served
  <2>2. TypeOK'
    BY <1>1, <1>3, <1>4, <1>6 DEF TypeOK, States, tree
  <2>3. G = IF Served(c) THEN {parent[c]} ELSE {}
    OBVIOUS
  <2> HIDE DEF at, G
  <2> QED BY <1>1, <1>2, <1>3, <1>4, <1>6, <2>1, <2>2, <2>3, ChildStep
<1> QED BY <1>5, <1>6 DEF Raise

LEMMA FinishStep == ASSUME IInv, NEW c \in Children, Finish(c) PROVE IInv' /\ AllStable
<1> USE DEF IInv
<1> DEFINE at == [pc EXCEPT ![c] = "ended"]
           p == parent[c]
           G == IF Served(c) THEN {p} ELSE {}
<1>1. /\ pc[c] = "finishing" /\ Live(c)
      /\ fate' = [fate EXCEPT ![c] = "returned"] /\ UNCHANGED <<tree, registry>>
  BY DEF Finish, Live
<1>2. Children \subseteq Agents /\ Runs \cap Children = {}
  BY SubagentAssumption DEF Agents, SubagentAssumption
<1>3. /\ at \in [Agents -> States] /\ at[c] = "ended"
      /\ \A b \in Agents : b # c => at[b] = pc[b]
  BY <1>2 DEF TypeOK, States
<1>4. /\ fate' \in [Agents -> {"none", "returned", "raised", "cancelled"}]
      /\ fate'[c] = "returned" /\ \A b \in Agents : b # c => fate'[b] = fate[b]
  BY <1>1, <1>2 DEF TypeOK
<1>5. G = IF Served(c) THEN {parent[c]} ELSE {}
  OBVIOUS
<1>6. CASE /\ mode[c] = "background"
           /\ pc' = at /\ UNCHANGED <<step, status, call, told>>
  <2>1. G = {} /\ ~Served(c)
    BY <1>1, <1>6 DEF Served
  <2>2. TypeOK'
    BY <1>1, <1>3, <1>4, <1>6 DEF TypeOK, States, tree
  <2> HIDE DEF at, G
  <2> QED BY <1>1, <1>2, <1>3, <1>4, <1>5, <1>6, <2>1, <2>2, ChildStep
<1>7. CASE mode[c] = "foreground"
  <2>1. Served(c) /\ G = {p}
    BY <1>1, <1>7 DEF Served
  <2>2. /\ p \in Agents /\ p # c /\ home[c] \in Runs /\ call[p].child = c
        /\ call[p].mode \in Modes
    BY <2>1, ParentFacts
  <2>3. \/ /\ status[c] = "success" /\ AfterTool(p, at)
           /\ call' = [call EXCEPT ![p] = NoCall] /\ Tell(c, "result")
        \/ status[c] = "failed" /\ AttemptFails(p, at)
    BY <1>7 DEF Finish, Modes
  <2> HIDE DEF at, p, G
  <2>4. /\ pc' \in [Agents -> States] /\ step' \in [Agents -> 0..MaxSteps]
        /\ status' \in [Agents -> {"running", "success", "failed"}]
        /\ call' \in [Agents -> [mode : Modes \cup {"none"}, attempt : 0..MaxRetries + 1,
                                 child : Children \cup {None}]]
        /\ told' \in [Children -> [Runs -> Answers \cup {"nothing"}]]
        /\ pc'[p] \in {"thinking", "finishing", "backoff"}
        /\ pc'[p] = "backoff" => call'[p].mode \in Modes /\ call'[p].attempt <= MaxRetries
        /\ \A b \in Agents :
              b # p => pc'[b] = at[b] /\ status'[b] = status[b] /\ call'[b] = call[b]
        /\ \A d \in Children, r \in Runs :
              \/ told'[d][r] = told[d][r]
              \/ /\ d = c /\ r = home[c]
                 /\ \/ told'[d][r] = "result" /\ status[c] = "success"
                    \/ told'[d][r] = "error" /\ status[c] = "failed"
    <3>1. CASE status[c] = "failed" /\ AttemptFails(p, at)
      BY <1>3, <2>2, <3>1, SubagentAssumption, AttemptFacts
    <3>2. CASE /\ status[c] = "success" /\ AfterTool(p, at)
               /\ call' = [call EXCEPT ![p] = NoCall] /\ Tell(c, "result")
      <4>1. /\ pc' \in [Agents -> States] /\ step' \in [Agents -> 0..MaxSteps]
            /\ status' \in [Agents -> {"running", "success", "failed"}]
            /\ pc'[p] \in {"thinking", "finishing"}
            /\ \A b \in Agents : b # p => pc'[b] = at[b] /\ status'[b] = status[b]
        BY <1>3, <2>2, <3>2, SubagentAssumption, AfterToolFacts
      <4>2. "result" \in Answers
        BY DEF Answers
      <4>3. /\ told' \in [Children -> [Runs -> Answers \cup {"nothing"}]]
            /\ \A d \in Children, r \in Runs :
                  told'[d][r] = told[d][r] \/ (d = c /\ r = home[c] /\ told'[d][r] = "result")
        BY <2>2, <3>2, <4>2, TellFacts
      <4>4. /\ call' \in [Agents -> [mode : Modes \cup {"none"}, attempt : 0..MaxRetries + 1,
                                     child : Children \cup {None}]]
            /\ \A b \in Agents : b # p => call'[b] = call[b]
        BY <2>2, <3>2, CallType
      <4> QED BY <3>2, <4>1, <4>3, <4>4
    <3> QED BY <2>3, <3>1, <3>2
  <2>5. TypeOK'
    BY <1>1, <1>4, <2>4 DEF TypeOK, States, tree
  <2>6. pc'[c] = "ended" /\ \A b \in Agents : b \notin G \cup {c} => pc'[b] = pc[b]
    BY <1>2, <1>3, <2>1, <2>2, <2>4
  <2>7. /\ \A b \in G : /\ pc'[b] \in {"thinking", "finishing", "backoff"}
                        /\ pc'[b] = "backoff" => /\ call'[b].mode \in Modes
                                                 /\ call'[b].attempt <= MaxRetries
        /\ \A b \in Agents : b \notin G => call'[b] = call[b] /\ status'[b] = status[b]
    BY <2>1, <2>4
  <2>8. status'[c] = status[c]
    BY <1>2, <2>2, <2>4
  <2>9. \A d \in Children, r \in Runs :
           \/ told'[d][r] = told[d][r]
           \/ /\ d = c /\ r = home[c] /\ Served(c)
              /\ \/ told'[d][r] = "result" /\ status'[c] = "success" /\ fate'[c] = "returned"
                 \/ /\ told'[d][r] = "error"
                    /\ ~(status'[c] = "success" /\ fate'[c] = "returned")
    BY <1>4, <2>1, <2>4, <2>8
  <2> QED BY <1>1, <1>4, <1>5, <2>5, <2>6, <2>7, <2>9, ChildStep
<1> QED BY <1>6, <1>7 DEF Finish
-----------------------------------------------------------------------------
(* Time limits and cancellation.                                           *)

\* Everything inside the call of a is cut off, and a goes on.
LEMMA CutStep ==
    ASSUME IInv, NEW a \in Agents, pc[a] \notin {"unborn", "starting", "ended"},
           NEW S, S = Nested(a),
           pc'[a] \in {"thinking", "finishing"},
           \A b \in Agents : b # a => /\ pc'[b] = IF b \in S THEN "ended" ELSE pc[b]
                                      /\ status'[b] = status[b],
           fate' = [b \in Agents |-> IF b \in S THEN "cancelled" ELSE fate[b]],
           call' = [b \in Agents |-> IF b \in S \cup {a} THEN NoCall ELSE call[b]],
           UNCHANGED <<tree, registry>>, TypeOK',
           \A c \in Children, r \in Runs :
              \/ told'[c][r] = told[c][r]
              \/ pc[a] = "spawning" /\ c = call[a].child /\ r = home[c] /\ told'[c][r] = "error"
    PROVE  IInv' /\ AllStable
<1> USE DEF IInv
<1>1. Children \subseteq Agents /\ Runs \cap Children = {}
  BY SubagentAssumption DEF Agents, SubagentAssumption
<1>2. /\ S \subseteq Children /\ a \notin S
      /\ \A c \in S : Served(c) /\ parent[c] \in S \cup {a}
      /\ \A c \in Children : Served(c) /\ parent[c] \in S \cup {a} => c \in S
  BY SubagentAssumption, NestedFacts
<1>3. \A c \in S : pc[c] \notin {"unborn", "ended"} /\ pc'[c] = "ended" /\ fate'[c] = "cancelled"
  BY <1>1, <1>2 DEF Served, Live
<1>4. Family' /\ Waiting' /\ Nesting'
  <2>1. a \in Runs \/ pc[a] \in {"thinking", "spawning", "backoff", "finishing"}
    BY DEF TypeOK
  <2>2. \A b \in Agents \ (S \cup {a}) : pc'[b] = pc[b] /\ call'[b] = call[b]
    OBVIOUS
  <2>3. Settles(S, {a})
    BY <1>1, <1>2, <1>3, <2>1, <2>2 DEF Settles
  <2> QED BY <2>3, TreeStep
<1>5. ASSUME NEW c \in Children
      PROVE  /\ pc[c] = "ended" => pc'[c] = "ended" /\ fate'[c] = fate[c] /\ status'[c] = status[c]
             /\ pc'[c] = "unborn" <=> pc[c] = "unborn"
             /\ pc'[c] = "starting" => pc[c] = "starting"
  <2>1. CASE c \in S
    BY <1>3, <2>1
  <2>2. CASE c = a
    BY <2>2
  <2>3. CASE c \notin S /\ c # a
    BY <1>1, <2>3
  <2> QED BY <2>1, <2>2, <2>3
<1>6. ASSUME NEW c \in Children, NEW r \in Runs
      PROVE  \/ told'[c][r] = told[c][r]
             \/ /\ r = home[c] /\ Served(c) /\ pc'[c] = "ended" /\ told'[c][r] = "error"
                /\ ~(status'[c] = "success" /\ fate'[c] = "returned")
  <2>1. ASSUME pc[a] = "spawning", c = call[a].child PROVE c \in S
    BY <1>2, <2>1 DEF Waiting
  <2>2. ASSUME told'[c][r] # told[c][r]
        PROVE  /\ pc[a] = "spawning" /\ c = call[a].child
               /\ r = home[c] /\ told'[c][r] = "error"
    BY <2>2
  <2>3. ASSUME told'[c][r] # told[c][r]
        PROVE  Served(c) /\ pc'[c] = "ended" /\ fate'[c] = "cancelled"
    BY <1>2, <1>3, <2>1, <2>2, <2>3
  <2> QED BY <2>2, <2>3
<1>7. \A r \in Runs : registry'[r] = registry[r]
  OBVIOUS
<1>8. TInv' /\ AllStable
  BY <1>5, <1>6, <1>7, ToldStep DEF AllStable
<1> QED BY <1>4, <1>8

LEMMA CutTypes ==
    ASSUME TypeOK, NEW S, NEW a \in Agents
    PROVE  /\ Cut(S) \in [Agents -> States]
           /\ CutFate(S) \in [Agents -> {"none", "returned", "raised", "cancelled"}]
           /\ [b \in Agents |-> IF b \in S \cup {a} THEN NoCall ELSE call[b]]
                 \in [Agents -> [mode : Modes \cup {"none"}, attempt : 0..MaxRetries + 1,
                                 child : Children \cup {None}]]
<1>1. \A b \in Agents : /\ pc[b] \in States
                        /\ fate[b] \in {"none", "returned", "raised", "cancelled"}
  BY DEF TypeOK, States
<1>2. Cut(S) \in [Agents -> States]
  BY <1>1 DEF Cut, States
<1>3. CutFate(S) \in [Agents -> {"none", "returned", "raised", "cancelled"}]
  BY <1>1 DEF CutFate
<1> QED BY <1>2, <1>3, CallType

LEMMA TimeOutStep == ASSUME IInv, NEW a \in Agents, TimeOut(a) PROVE IInv' /\ AllStable
<1> USE DEF IInv
<1> DEFINE S == Nested(a)
<1>1. /\ pc[a] = "spawning" /\ AfterTool(a, Cut(S)) /\ fate' = CutFate(S)
      /\ Tell(call[a].child, "error")
      /\ call' = [b \in Agents |-> IF b \in S \cup {a} THEN NoCall ELSE call[b]]
      /\ UNCHANGED <<tree, registry>>
  BY DEF TimeOut
<1>2. S = Nested(a)
  OBVIOUS
<1> HIDE DEF S
<1>3. /\ pc' \in [Agents -> States] /\ step' \in [Agents -> 0..MaxSteps]
      /\ status' \in [Agents -> {"running", "success", "failed"}]
      /\ pc'[a] \in {"thinking", "finishing"}
      /\ \A b \in Agents : b # a => pc'[b] = Cut(S)[b] /\ status'[b] = status[b]
  BY <1>1, CutTypes, SubagentAssumption, AfterToolFacts
<1>4. call[a].child \in Children /\ home[call[a].child] \in Runs
  <2>1. call[a].child \in Children /\ Served(call[a].child)
    BY <1>1 DEF Waiting
  <2> QED BY <2>1, ParentFacts
<1>5. /\ told' \in [Children -> [Runs -> Answers \cup {"nothing"}]]
      /\ \A c \in Children, r \in Runs :
            \/ told'[c][r] = told[c][r]
            \/ pc[a] = "spawning" /\ c = call[a].child /\ r = home[c] /\ told'[c][r] = "error"
  <2>1. "error" \in Answers
    BY DEF Answers
  <2> QED BY <1>1, <1>4, <2>1, TellFacts
<1>6. TypeOK'
  BY <1>1, <1>3, <1>5, CutTypes DEF TypeOK, States, tree
<1>7. /\ \A b \in Agents : b # a => /\ pc'[b] = IF b \in S THEN "ended" ELSE pc[b]
                                    /\ status'[b] = status[b]
      /\ fate' = [b \in Agents |-> IF b \in S THEN "cancelled" ELSE fate[b]]
  BY <1>1, <1>3 DEF Cut, CutFate
<1> QED BY <1>1, <1>2, <1>3, <1>5, <1>6, <1>7, CutStep

LEMMA CancelRunStep == ASSUME IInv, NEW r \in Runs, CancelRun(r) PROVE IInv' /\ AllStable
<1> USE DEF IInv
<1> DEFINE S == Nested(r)
<1>1. /\ pc[r] \in {"thinking", "spawning", "backoff"}
      /\ pc' = [Cut(S) EXCEPT ![r] = "finishing"] /\ status' = [status EXCEPT ![r] = "failed"]
      /\ fate' = CutFate(S)
      /\ call' = [b \in Agents |-> IF b \in S \cup {r} THEN NoCall ELSE call[b]]
      /\ UNCHANGED <<step, tree, registry, told>>
  BY DEF CancelRun
<1>2. S = Nested(r) /\ r \in Agents
  BY DEF Agents
<1> HIDE DEF S
<1>3. /\ pc' \in [Agents -> States] /\ pc'[r] = "finishing"
      /\ \A b \in Agents : b # r => pc'[b] = Cut(S)[b]
  BY <1>1, <1>2, CutTypes DEF States
<1>4. /\ status' \in [Agents -> {"running", "success", "failed"}]
      /\ \A b \in Agents : b # r => status'[b] = status[b]
  BY <1>1 DEF TypeOK
<1>5. TypeOK'
  BY <1>1, <1>2, <1>3, <1>4, CutTypes DEF TypeOK, States, tree
<1>6. /\ \A b \in Agents : b # r => /\ pc'[b] = IF b \in S THEN "ended" ELSE pc[b]
                                    /\ status'[b] = status[b]
      /\ fate' = [b \in Agents |-> IF b \in S THEN "cancelled" ELSE fate[b]]
  BY <1>1, <1>3, <1>4 DEF Cut, CutFate
<1> QED BY <1>1, <1>2, <1>3, <1>5, <1>6, CutStep
-----------------------------------------------------------------------------
(* The theorems.                                                           *)

LEMMA InitHolds == ASSUME Init PROVE IInv
<1> USE DEF Init
<1>1. TypeOK
  <2>1. NoCall \in [mode : Modes \cup {"none"}, attempt : 0..MaxRetries + 1,
                    child : Children \cup {None}]
    BY SubagentAssumption DEF NoCall, SubagentAssumption
  <2>2. 0 \in 0..MaxSteps /\ 0 \in 0..NestingLimit
    BY SubagentAssumption DEF SubagentAssumption, NestingLimit
  <2> QED BY <2>1, <2>2 DEF TypeOK
<1>2. Children \subseteq Agents /\ Runs \subseteq Agents
  BY DEF Agents
<1>3. Family /\ Waiting /\ Nesting
  BY <1>2 DEF Family, Waiting, Nesting, Served, Live
<1>4. \A c \in Children : home[c] = None
  BY SubagentAssumption, <1>2 DEF SubagentAssumption
<1>5. TInv
  BY <1>2, <1>4 DEF TInv, Registered, Telling, ForegroundTold, Served, Live
<1> QED BY <1>1, <1>3, <1>5 DEF IInv

LEMMA StepHolds == ASSUME IInv, Next PROVE IInv' /\ AllStable
<1>1. ASSUME NEW r \in Runs, StartRun(r) \/ FinishRun(r) \/ CancelRun(r)
      PROVE  IInv' /\ AllStable
  <2>1. r \in Agents
    BY DEF Agents
  <2> QED BY <1>1, <2>1, LoopStep, FinishRunStep, CancelRunStep
<1>2. ASSUME NEW a \in Agents, \/ PlainStep(a) \/ EndLoop(a, "success") \/ EndLoop(a, "failed")
                               \/ TimeOut(a)
      PROVE  IInv' /\ AllStable
  BY <1>2, LoopStep, TimeOutStep
<1>3. ASSUME NEW a \in Agents, NEW c \in Children, NEW m \in Modes, Spawn(a, c, m)
      PROVE  IInv' /\ AllStable
  <2>1. 1 \in Nat /\ 1 <= MaxRetries + 1
    BY SubagentAssumption DEF SubagentAssumption
  <2> QED BY <1>3, <2>1, AnnounceStep DEF Spawn, HasSubagentTools
<1>4. ASSUME NEW a \in Agents, NEW c \in Children, SpawnAgain(a, c)
      PROVE  IInv' /\ AllStable
  <2>1. pc[a] = "backoff" /\ Announce(a, c, call[a].mode, call[a].attempt + 1)
    BY <1>4 DEF SpawnAgain
  <2>2. /\ call[a].mode \in Modes /\ level[a] < NestingLimit
        /\ call[a].attempt <= MaxRetries
    BY <2>1 DEF IInv, Waiting
  <2>3. call[a].attempt + 1 \in Nat /\ call[a].attempt + 1 <= MaxRetries + 1
    BY <2>2, CallType, SubagentAssumption DEF IInv, SubagentAssumption
  <2> QED BY <2>1, <2>2, <2>3, AnnounceStep
<1>5. ASSUME NEW a \in Agents, NEW c \in Children, AskResult(a, c)
      PROVE  IInv' /\ AllStable
  BY <1>5, LoopStep
<1>6. ASSUME NEW c \in Children, Begin(c) \/ Raise(c) \/ Finish(c)
      PROVE  IInv' /\ AllStable
  BY <1>6, BeginStep, RaiseStep, FinishStep
<1> QED BY <1>1, <1>2, <1>3, <1>4, <1>5, <1>6 DEF Next

LEMMA StutterHolds == ASSUME IInv, UNCHANGED vars PROVE IInv' /\ AllStable
<1>1. UNCHANGED <<pc, step, status, fate, call, parent, mode, level, home, registry, told>>
  BY DEF vars, tree
<1>2. IInv'
  BY <1>1 DEF IInv, TypeOK, Family, Waiting, Nesting, TInv, Registered, Telling,
              ForegroundTold, Served, Live
<1>3. AllStable
  <2>1. SUFFICES ASSUME NEW c \in Children, NEW r \in Runs, r = home[c] PROVE told[c][r] # "unknown"
    BY <1>1 DEF AllStable, Stable
  <2> QED BY <2>1 DEF IInv, TInv, Telling
<1> QED BY <1>2, <1>3

LEMMA Inductive == Spec => []IInv
<1>1. IInv /\ [Next]_vars => IInv'
  BY StepHolds, StutterHolds
<1> QED BY InitHolds, <1>1, PTL DEF Spec

\* Every state of the agents and of the registries is of its type; in particular no
\* agent is deeper than NestingLimit, and none takes more than MaxSteps steps.
THEOREM TypeCorrect == Spec => []TypeOK
<1>1. IInv => TypeOK
  BY DEF IInv
<1> QED BY <1>1, Inductive, PTL

\* A foreground subagent never outlives the call of spawn_agent it serves, whoever is
\* timed out or cancelled at whatever depth.
THEOREM ForegroundStaysNested == Spec => []ForegroundNested
<1>1. IInv => ForegroundNested
  BY DEF IInv, Nesting, ForegroundNested, Served
<1> QED BY <1>1, Inductive, PTL

\* spawn_agent tells a parent of its foreground subagent what subagent.finished has
\* told everybody else.
THEOREM ForegroundToldTrue == Spec => []ForegroundTold
<1>1. IInv => ForegroundTold
  BY DEF IInv, TInv
<1> QED BY <1>1, Inductive, PTL

\* agent_result gives a run the same outcome of a background subagent whenever it
\* asks again, and never forgets a subagent the run started.
THEOREM AnswersStayStable == Spec => AnswersStable
<1>1. IInv /\ [Next]_vars =>
         [\A c \in Children, r \in Runs :
             /\ told[c][r] \in {"result", "error"} => told'[c][r] = told[c][r]
             /\ r = home[c] => told'[c][r] # "unknown"]_vars
  BY StepHolds DEF AllStable, Stable
<1> QED BY <1>1, Inductive, PTL DEF Spec, AnswersStable
=============================================================================
