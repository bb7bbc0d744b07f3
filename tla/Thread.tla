------------------------------- MODULE Thread -------------------------------
(***************************************************************************)
(* The messages of a conversation, the rows of a session's thread.jsonl    *)
(* (core/session/store.py), and what the LLM API accepts.  A message is    *)
(* known by its role and by the tool calls it makes or answers; its text   *)
(* is not modelled, except for the number of the user's message.           *)
(***************************************************************************)
EXTENDS Naturals, Sequences

Message(role, n, uses, results) ==
    [role |-> role, n |-> n, uses |-> uses, results |-> results]

User(n) == Message("user", n, {}, {})          \* the n-th message of the user
Reply(ids) == Message("assistant", 0, ids, {}) \* a response that calls tools
Results(ids) == Message("user", 0, {}, ids)    \* tool_result blocks only
Summary == Message("user", 0, {}, {})          \* the two messages a compaction
Ack == Message("assistant", 0, {}, {})         \*   puts in place of all others

\* Mutant of AddResult: every result is a message of its own.
AddResultAlone(ms, id) == Append(ms, Results({id}))

\* add_tool_result: the results of one step share one message.
AddResult(ms, id) ==
    IF ms # <<>> /\ ms[Len(ms)].results # {}
    THEN [ms EXCEPT ![Len(ms)].results = @ \cup {id}]
    ELSE Append(ms, Results({id}))

-----------------------------------------------------------------------------
(* _trim_orphan_tool_use.                                                  *)

\* The tool calls among the first i messages still without a result.
Pending(ms, i) ==
    UNION {{u \in ms[j].uses : \A k \in j + 1..i : u \notin ms[k].results}
              : j \in 1..i}

\* last_balanced: the longest prefix without a pending call.
LastBalanced(ms) ==
    CHOOSE i \in 0..Len(ms) :
        /\ Pending(ms, i) = {}
        /\ \A j \in i + 1..Len(ms) : Pending(ms, j) # {}

TrimOrphans(ms) ==
    IF Pending(ms, Len(ms)) = {} THEN ms ELSE SubSeq(ms, 1, LastBalanced(ms))
-----------------------------------------------------------------------------
\* What the API demands of a request: every tool call is answered in the very
\* next message, and a result answers a call of the message before it.
Legal(ms) ==
    /\ ms # <<>>
    /\ \A i \in DOMAIN ms :
          /\ ms[i].uses # {} => i < Len(ms) /\ ms[i].uses \subseteq ms[i + 1].results
          /\ ms[i].results # {} => i > 1 /\ ms[i].results \subseteq ms[i - 1].uses
=============================================================================
