------------------------------ MODULE McpClient ------------------------------
(***************************************************************************)
(* The tool calls of all sessions on one MCP server: the JSON-RPC client   *)
(* they share (core/mcp/client.py), the wrapper that turns its exceptions  *)
(* into tool results (core/mcp/tool.py), and the attempts of invoke_tool   *)
(* (core/tools/invocation.py).                                             *)
(*                                                                         *)
(* A call takes its request id, then waits for the lock; with the lock it  *)
(* writes the request and reads lines until one bears its id.  The server  *)
(* is external: it answers in its own time, also requests nobody waits for *)
(* any more, sends notifications and requests of its own, or goes away.    *)
(***************************************************************************)
EXTENDS Naturals, Sequences, FiniteSets

CONSTANTS
    Calls,       \* tool calls that passed the permission check
    MaxRetries,  \* _MAX_RETRIES
    OwnIds,      \* ids the server gives to requests of its own
    MaxExtras    \* bound on lines of the server that answer nothing

ASSUME McpAssumption ==
    /\ IsFiniteSet(Calls)
    /\ MaxRetries \in Nat /\ MaxExtras \in Nat /\ OwnIds \subseteq Nat

VARIABLES
    pc,        \* where a call stands
    attempt,   \* of invoke_tool
    id,        \* the request id of the attempt
    lastId,    \* self._id
    lock,      \* the lock's holder and its waiters, in order
    sent,      \* history: the requests written, in order
    answered,  \* ids the server has answered
    lines,     \* written by the server and not read yet
    extras,
    closed,    \* the server has closed the connection
    outcome    \* what invoke_tool returned

vars == <<pc, attempt, id, lastId, lock, sent, answered, lines, extras, closed, outcome>>

Ids == Nat \ {0}
NoId == 0

\* initialize and tools/list have the first ids of a connection.
HandshakeIds == 2

\* What a line can be: an answer, a notification or something that is no JSON, a
\* line that makes the reader raise (over the limit, or JSON but no object), or a
\* request of the server.
Line(kind, i) == [kind |-> kind, id |-> i]
Kinds == {"result", "error", "notice", "bad", "request"}

Outcome(kind, i) == [kind |-> kind, id |-> IF kind = "result" THEN i ELSE NoId]

TypeOK ==
    /\ pc \in [Calls -> {"idle", "queued", "writing", "reading", "backoff", "done"}]
    /\ attempt \in [Calls -> 0..MaxRetries + 1]
    /\ id \in [Calls -> Nat]
    /\ lastId \in Ids
    /\ lock \in Seq(Calls)
    /\ sent \in Seq([id : Ids, by : Calls])
    /\ answered \subseteq Ids
    /\ lines \in Seq([kind : Kinds, id : Nat])
    /\ extras \in 0..MaxExtras
    /\ closed \in BOOLEAN
    /\ outcome \in [Calls -> [kind : {"none", "result", "error", "abandoned"}, id : Nat]]

\* start_all has connected and listed the tools.
Init ==
    /\ pc = [c \in Calls |-> "idle"]
    /\ attempt = [c \in Calls |-> 0]
    /\ id = [c \in Calls |-> NoId]
    /\ lastId = HandshakeIds
    /\ lock = <<>> /\ sent = <<>> /\ answered = {} /\ lines = <<>>
    /\ extras = 0 /\ closed = FALSE
    /\ outcome = [c \in Calls |-> Outcome("none", NoId)]

Holds(c) == lock # <<>> /\ Head(lock) = c
-----------------------------------------------------------------------------
(* The client.                                                             *)

\* An attempt: call_tool takes an id and joins the lock's queue.
Call(c) ==
    /\ pc[c] \in {"idle", "backoff"}
    /\ pc' = [pc EXCEPT ![c] = "queued"]
    /\ attempt' = [attempt EXCEPT ![c] = @ + 1]
    /\ lastId' = lastId + 1
    /\ id' = [id EXCEPT ![c] = lastId + 1]
    /\ lock' = Append(lock, c)
    /\ UNCHANGED <<sent, answered, lines, extras, closed, outcome>>

\* Mutant of Write: the request is written before the lock is held.
WriteUnlocked(c) ==
    /\ pc[c] = "queued"
    /\ pc' = [pc EXCEPT ![c] = "writing"]
    /\ sent' = Append(sent, [id |-> id[c], by |-> c])
    /\ UNCHANGED <<attempt, id, lastId, lock, answered, lines, extras, closed, outcome>>

\* With the lock the request is written, and drained.
Write(c) ==
    /\ pc[c] = "queued" /\ Holds(c)
    /\ pc' = [pc EXCEPT ![c] = "writing"]
    /\ sent' = Append(sent, [id |-> id[c], by |-> c])
    /\ UNCHANGED <<attempt, id, lastId, lock, answered, lines, extras, closed, outcome>>

Drained(c) ==
    /\ pc[c] = "writing"
    /\ pc' = [pc EXCEPT ![c] = "reading"]
    /\ UNCHANGED <<attempt, id, lastId, lock, sent, answered, lines, extras, closed,
                   outcome>>

\* The lock is given up, or its queue left.
Leave(c) ==
    \E n \in DOMAIN lock :
        /\ lock[n] = c
        /\ lock' = SubSeq(lock, 1, n - 1) \o SubSeq(lock, n + 1, Len(lock))

\* Mutant of Return: a call that failed is tried over and over.
ReturnAlwaysRetried(c, kind) ==
    /\ Leave(c)
    /\ \/ /\ kind = "error"
          /\ pc' = [pc EXCEPT ![c] = "backoff"]
          /\ UNCHANGED outcome
       \/ /\ kind # "error"
          /\ pc' = [pc EXCEPT ![c] = "done"]
          /\ outcome' = [outcome EXCEPT ![c] = Outcome(kind, id[c])]

\* Mutant of Return: one attempt more than the limit.
ReturnRetriedOnceMore(c, kind) ==
    /\ Leave(c)
    /\ \/ /\ kind = "error" /\ attempt[c] <= MaxRetries + 1
          /\ pc' = [pc EXCEPT ![c] = "backoff"]
          /\ UNCHANGED outcome
       \/ /\ kind = "error" => attempt[c] > MaxRetries + 1
          /\ pc' = [pc EXCEPT ![c] = "done"]
          /\ outcome' = [outcome EXCEPT ![c] = Outcome(kind, id[c])]

\* The attempt is over and the lock free.  Every exception becomes a
\* runtime_error, which is retried; a result is returned.
Return(c, kind) ==
    /\ Leave(c)
    /\ \/ /\ kind = "error" /\ attempt[c] <= MaxRetries
          /\ pc' = [pc EXCEPT ![c] = "backoff"]
          /\ UNCHANGED outcome
       \/ /\ kind = "error" => attempt[c] > MaxRetries
          /\ pc' = [pc EXCEPT ![c] = "done"]
          /\ outcome' = [outcome EXCEPT ![c] = Outcome(kind, id[c])]

\* Mutant of IsFor: the first answer is taken for this request's.
IsForAnyone(line, c) == line.kind \in {"result", "error", "request"}

\* Whether a line ends the wait of c: it bears the id.  Nothing tells an answer
\* from a request of the server that happens to bear the same id.
IsFor(line, c) == line.kind \in {"result", "error", "request"} /\ line.id = id[c]

\* The holder reads the next line: its answer, a line that raises, or one to
\* be ignored.
ReadLine(c) ==
    /\ pc[c] = "reading" /\ lines # <<>>
    /\ lines' = Tail(lines)
    /\ LET line == Head(lines)
       IN  \/ /\ IsFor(line, c)
              /\ Return(c, IF line.kind = "error" THEN "error" ELSE "result")
           \/ /\ line.kind = "bad"
              /\ Return(c, "error")
           \/ /\ ~IsFor(line, c) /\ line.kind # "bad"
              /\ UNCHANGED <<pc, lock, outcome>>
    /\ UNCHANGED <<attempt, id, lastId, sent, answered, extras, closed>>

\* There is no line: 30 s pass, or the connection is closed.
ReadFails(c) ==
    /\ pc[c] = "reading" /\ lines = <<>>
    /\ Return(c, "error")
    /\ UNCHANGED <<attempt, id, lastId, sent, answered, lines, extras, closed>>

\* A write to a closed connection fails.
WriteFails(c) ==
    /\ pc[c] = "writing" /\ closed
    /\ Return(c, "error")
    /\ UNCHANGED <<attempt, id, lastId, sent, answered, lines, extras, closed>>

\* Mutant of Abandon: the cancelled call keeps its place.
AbandonQueued(c) ==
    /\ pc[c] \in {"queued", "writing", "reading"}
    /\ IF pc[c] = "queued" THEN UNCHANGED lock ELSE Leave(c)
    /\ pc' = [pc EXCEPT ![c] = "done"]
    /\ outcome' = [outcome EXCEPT ![c] = Outcome("abandoned", NoId)]
    /\ UNCHANGED <<attempt, id, lastId, sent, answered, lines, extras, closed>>

\* Mutant of Abandon: only reading has a time limit.
AbandonReading(c) ==
    /\ pc[c] = "reading"
    /\ Leave(c)
    /\ pc' = [pc EXCEPT ![c] = "done"]
    /\ outcome' = [outcome EXCEPT ![c] = Outcome("abandoned", NoId)]
    /\ UNCHANGED <<attempt, id, lastId, sent, answered, lines, extras, closed>>

\* The attempt runs into the 120 s of invoke_tool, the time in the lock's queue
\* included, or its run is cancelled: wherever it awaits, it leaves the lock.  An
\* answer that comes later stays in the stream.
Abandon(c) ==
    /\ pc[c] \in {"queued", "writing", "reading"}
    /\ Leave(c)
    /\ pc' = [pc EXCEPT ![c] = "done"]
    /\ outcome' = [outcome EXCEPT ![c] = Outcome("abandoned", NoId)]
    /\ UNCHANGED <<attempt, id, lastId, sent, answered, lines, extras, closed>>

\* Cancelled while it waits for its next attempt.
CancelBackoff(c) ==
    /\ pc[c] = "backoff"
    /\ pc' = [pc EXCEPT ![c] = "done"]
    /\ outcome' = [outcome EXCEPT ![c] = Outcome("abandoned", NoId)]
    /\ UNCHANGED <<attempt, id, lastId, lock, sent, answered, lines, extras, closed>>
-----------------------------------------------------------------------------
(* The server.                                                             *)

\* What comes after the last call has ended is read by nobody and left out.
Put(line) ==
    /\ ~closed /\ \E c \in Calls : pc[c] # "done"
    /\ lines' = Append(lines, line)

Answer(i, kind) ==
    /\ i \notin answered /\ \E n \in DOMAIN sent : sent[n].id = i
    /\ answered' = answered \cup {i}
    /\ Put(Line(kind, i))
    /\ UNCHANGED <<pc, attempt, id, lastId, lock, sent, extras, closed, outcome>>

Extra(line) ==
    /\ extras < MaxExtras
    /\ extras' = extras + 1
    /\ Put(line)
    /\ UNCHANGED <<pc, attempt, id, lastId, lock, sent, answered, closed, outcome>>

Close ==
    /\ ~closed
    /\ closed' = TRUE
    /\ UNCHANGED <<pc, attempt, id, lastId, lock, sent, answered, lines, extras, outcome>>

Next ==
    \/ \E c \in Calls :
          \/ Call(c) \/ Write(c) \/ Drained(c) \/ ReadLine(c) \/ ReadFails(c)
          \/ WriteFails(c) \/ Abandon(c) \/ CancelBackoff(c)
    \/ \E i \in 1..lastId, kind \in {"result", "error"} : Answer(i, kind)
    \/ \E kind \in {"notice", "bad"} : Extra(Line(kind, NoId))
    \/ \E i \in OwnIds : Extra(Line("request", i))
    \/ Close

Spec == Init /\ [][Next]_vars

\* Attempts are made and limited in time (Abandon).  Nothing is expected of the server, not
\* even that it reads what is written to it.
Fairness ==
    \A c \in Calls :
        /\ WF_vars(Call(c)) /\ WF_vars(Write(c)) /\ WF_vars(ReadLine(c))
        /\ WF_vars(Abandon(c))

FairSpec == Spec /\ Fairness
-----------------------------------------------------------------------------
(* Properties.                                                             *)

\* A call that returns a result returns the server's answer to its own last
\* request, whatever late answers of timed-out or cancelled calls lie before it
\* in the stream.
AnswersOwn ==
    \A c \in Calls :
        outcome[c].kind = "result" =>
            /\ outcome[c].id \in answered
            /\ \E n \in DOMAIN sent : sent[n] = [id |-> outcome[c].id, by |-> c]
            /\ \A n \in DOMAIN sent : sent[n].by = c => sent[n].id <= outcome[c].id

\* The connection is used by one call at a time, and the lock never stays with a
\* call that is over: no failure, time-out or cancellation shuts the server off
\* for the calls behind it.
LockSound ==
    /\ \A c \in Calls : pc[c] \in {"writing", "reading"} => Holds(c)
    /\ \A n \in DOMAIN lock : pc[lock[n]] \in {"queued", "writing", "reading"}
    /\ \A m, n \in DOMAIN lock : lock[m] = lock[n] => m = n

\* The server sees the ids in increasing order, although an id is taken before
\* the lock is.
SentInOrder == \A m, n \in DOMAIN sent : m < n => sent[m].id < sent[n].id

\* However often its attempts fail or its answers come too late, the server is
\* asked to execute a call at most MaxRetries + 1 times.
ExecutionsBounded ==
    \A c \in Calls :
        Cardinality({n \in DOMAIN sent : sent[n].by = c}) <= MaxRetries + 1

\* Every call ends, also when the server is silent, talks about other things all
\* the time, or is gone.
CallsEnd == \A c \in Calls : pc[c] = "queued" ~> pc[c] = "done"
=============================================================================
