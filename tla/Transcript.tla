----------------------------- MODULE Transcript -----------------------------
(***************************************************************************)
(* What a session promises about thread.jsonl: how the rows that are kept  *)
(* follow the conversation.  No loop, tool calls, prefill or torn rows:    *)
(* AgentSession has those and implements this specification.               *)
(***************************************************************************)
EXTENDS Naturals, Sequences

CONSTANT Condensed   \* the messages a compaction puts in place of all others

VARIABLES
    said,     \* the conversation as it takes place
    kept,     \* the rows that can be read
    phase,    \* "idle", "busy" while a command holds the session, "stopped"
    status,   \* a "closed" session takes no more messages
    lost      \* what went wrong that may keep a message from the rows

vars == <<said, kept, phase, status, lost>>

\* t is s with messages added to it.
Grows(s, t) == Len(s) <= Len(t) /\ \A i \in 1..Len(s) : t[i] = s[i]

\* The same, but the last message of s, the results of a step, may have changed.
GrowsLast(s, t) == Len(s) <= Len(t) /\ \A i \in 1..Len(s) - 1 : t[i] = s[i]

Init ==
    /\ said = <<>> /\ kept = <<>>
    /\ phase = "idle" /\ status = "open" /\ lost = {}

\* A message of the user is kept before anything is done about it.  If that
\* fails the command may fail.
Say ==
    /\ phase = "idle" /\ status = "open"
    /\ Grows(said, said') /\ Len(said') = Len(said) + 1
    /\ Grows(kept, kept') /\ (lost' # {} \/ kept' = said')
    /\ phase' = "busy" \/ (phase' = "idle" /\ lost' # {})
    /\ UNCHANGED status

\* The run says something: the rows stay as they are, and what is kept stays
\* part of what is said.
Go ==
    /\ phase = "busy" /\ phase' = "busy"
    /\ GrowsLast(said, said')
    /\ lost' # {} \/ Grows(kept, said')
    /\ UNCHANGED <<kept, status>>

\* The command ends, however it ends: now all that was said is kept.  A run may
\* close its session.
End ==
    /\ phase = "busy" /\ phase' \in {"idle", "stopped"}
    /\ Grows(kept, kept') /\ (lost' # {} \/ kept' = said)
    /\ status = "closed" => status' = "closed"
    /\ said' = said

\* session.compact takes a session, a closed one too, ...
Reserve ==
    /\ phase = "idle" /\ phase' = "busy"
    /\ UNCHANGED <<said, kept, status, lost>>

\* ... and is the only one that takes rows away.
Condense ==
    /\ phase = "busy" /\ phase' = "idle"
    /\ said' = Condensed
    /\ Grows(kept', Condensed) /\ (lost' # {} \/ kept' = Condensed)
    /\ UNCHANGED status

Close ==
    /\ phase = "idle" /\ status' = "closed"
    /\ UNCHANGED <<said, kept, phase, lost>>

Stop ==
    /\ phase = "idle" /\ phase' = "stopped"
    /\ UNCHANGED <<said, kept, status, lost>>

Next ==
    /\ lost \subseteq lost'
    /\ Say \/ Go \/ End \/ Reserve \/ Condense \/ Close \/ Stop

Spec == Init /\ [][Next]_vars
=============================================================================
