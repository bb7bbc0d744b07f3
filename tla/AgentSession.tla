---------------------------- MODULE AgentSession ----------------------------
(***************************************************************************)
(* One session of the daemon, from the user's message to the stored        *)
(* thread: SessionManager (core/session/manager.py), the run it starts     *)
(* (core/runner.py), the plan-act-observe loop (core/loop.py), the tool    *)
(* calls of a step (core/tools/invocation.py), compaction                  *)
(* (core/compact/compactor.py) and thread.jsonl (core/session/store.py).   *)
(*                                                                         *)
(* pc says where the task that holds the session's lock awaits: pc "idle"  *)
(* is a free lock.  A command that finds the lock taken is refused with    *)
(* SESSION_BUSY and changes nothing, so it is not a step here; neither are *)
(* get_history and the awaits that only publish an event.                  *)
(***************************************************************************)
EXTENDS Thread, FiniteSets

CONSTANTS
    MaxMessages,   \* bound on the messages the user sends
    MaxCommands,   \* bound on session.compact commands
    MaxSteps,      \* agent.max_steps
    MaxBatch,      \* bound on the tool calls of one response
    MaxRetries,    \* _MAX_RETRIES
    AutoCompact,   \* compaction.auto_threshold > 0
    MaxFaults      \* bound on failed writes and on exceptions out of a tool call

ASSUME SessionAssumption ==
    /\ {MaxMessages, MaxSteps, MaxBatch} \subseteq Nat \ {0}
    /\ {MaxCommands, MaxRetries, MaxFaults} \subseteq Nat
    /\ AutoCompact \in BOOLEAN

VARIABLES
    mode,      \* "chat" or "one_shot"
    status,    \* Session.status
    pc,        \* where the holder of the lock awaits
    thread,    \* the rows of thread.jsonl that can be read
    torn,      \* the file ends in the middle of a row
    sent,      \* messages accepted from the user
    commands,  \* session.compact commands carried out
    faults,    \* failed writes and exceptions so far
    messages,  \* context.messages
    prefill,   \* prefill_len
    step,      \* context.step
    outcome,   \* context.status, and the reason of a failure
    calls,     \* tool calls of the response that are still to be invoked
    attempt,   \* of the first of them; 0 before it is permitted
    used,      \* ids of tool calls handed out
    ignored,   \* history: the calls that came with a stop reason nobody acts on
    said,      \* history: the conversation as it took place
    lost       \* history: what may keep a message from the thread or a request

run == <<messages, prefill, step, outcome, calls, attempt>>
vars == <<mode, status, pc, thread, torn, sent, commands, faults, run, used, ignored,
          said, lost>>

Ids == Nat \ {0}
Messages == [role : {"user", "assistant"}, n : Nat,
             uses : SUBSET Ids, results : SUBSET Ids]

TypeOK ==
    /\ mode \in {"chat", "one_shot"}
    /\ status \in {"active", "waiting_for_input", "closed"}
    /\ pc \in {"idle", "starting", "thinking", "acting", "compacting",
               "finishing", "condensing", "stopped"}
    /\ {thread, messages, said} \subseteq Seq(Messages)
    /\ torn \in BOOLEAN
    /\ sent \in 0..MaxMessages /\ commands \in 0..MaxCommands
    /\ faults \in 0..MaxFaults
    /\ prefill \in Nat /\ step \in 0..MaxSteps
    /\ outcome \in {"none", "running", "success", "llm_error",
                    "exceeded_max_steps", "cancelled", "raised"}
    /\ calls \in Seq(Ids) /\ attempt \in 0..MaxRetries + 1 /\ used \in Nat
    /\ ignored \subseteq Ids
    /\ lost \subseteq {"write", "compaction", "cancel", "raise"}

NoRun ==
    /\ messages = <<>> /\ prefill = 0 /\ step = 0 /\ outcome = "none"
    /\ calls = <<>> /\ attempt = 0

Init ==
    /\ mode \in {"chat", "one_shot"}
    /\ status = "active"
    /\ pc = "idle"
    /\ thread = <<>> /\ torn = FALSE
    /\ sent = 0 /\ commands = 0 /\ faults = 0 /\ used = 0
    /\ NoRun
    /\ said = <<>> /\ lost = {} /\ ignored = {}
-----------------------------------------------------------------------------
(* thread.jsonl.                                                           *)

\* A row that follows half a row joins its line, which no reader can parse.
Readable(rows) == IF torn THEN Tail(rows) ELSE rows

\* A write fails, or an exception goes through the handlers.
Fault == faults < MaxFaults /\ faults' = faults + 1

\* append_message for every row: all are written, or a write fails at a row,
\* which leaves nothing of it or the beginning of its line.
AppendAll(rows) ==
    /\ thread' = thread \o (IF rows = <<>> THEN rows ELSE Readable(rows))
    /\ torn' = (torn /\ rows = <<>>)
    /\ UNCHANGED faults

AppendFails(rows) ==
    /\ Fault
    /\ \E k \in 0..Len(rows) - 1, tear \in BOOLEAN :
          /\ thread' = IF k = 0 THEN thread
                       ELSE thread \o Readable(SubSeq(rows, 1, k))
          /\ torn' = (tear \/ (torn /\ k = 0))
    /\ lost' = lost \cup {"write"}
-----------------------------------------------------------------------------
(* Commands that take a free lock.                                         *)

\* session.send_message: the message is stored before the run starts.
SendMessage ==
    /\ pc = "idle" /\ status # "closed" /\ sent < MaxMessages
    /\ sent' = sent + 1
    /\ said' = Append(said, User(sent'))
    /\ \/ /\ AppendAll(<<User(sent')>>)
          /\ pc' = "starting"
          /\ lost' = IF torn THEN lost \cup {"write"} ELSE lost
       \/ AppendFails(<<User(sent')>>) /\ UNCHANGED pc
    /\ UNCHANGED <<mode, status, commands, run, used, ignored>>

\* Mutant of StartRun: the history is read before the message is stored.
StartRunStale ==
    /\ pc = "starting"
    /\ LET history == TrimOrphans(SubSeq(thread, 1, Len(thread) - 1))
       IN  /\ messages' = IF history = <<>> THEN <<User(sent)>> ELSE history
           /\ prefill' = Len(history)
    /\ pc' = "thinking"
    /\ step' = 1
    /\ outcome' = "running"
    /\ UNCHANGED <<mode, status, thread, torn, sent, commands, faults, calls, attempt,
                   used, ignored, said, lost>>

\* run_and_capture up to the first LLM call.  The goal is used only when the
\* thread has no readable message at all.
StartRun ==
    /\ pc = "starting"
    /\ LET history == TrimOrphans(thread)
       IN  /\ messages' = IF history = <<>> THEN <<User(sent)>> ELSE history
           /\ prefill' = Len(history)
    /\ pc' = "thinking"
    /\ step' = 1
    /\ outcome' = "running"
    /\ UNCHANGED <<mode, status, thread, torn, sent, commands, faults, calls, attempt,
                   used, ignored, said, lost>>

\* send_message raises between the message and the run: the session's directory
\* cannot be written, or the message is a bare "/".
StartFails ==
    /\ pc = "starting"
    /\ pc' = "idle"
    /\ UNCHANGED <<mode, status, thread, torn, sent, commands, faults, run, used, ignored,
                   said, lost>>

\* session.close
Close ==
    /\ pc = "idle"
    /\ status' = "closed"
    /\ UNCHANGED <<mode, pc, thread, torn, sent, commands, faults, run, used, ignored,
                   said, lost>>

\* session.compact: the summary is awaited under the lock; a closed session may
\* be compacted too.
Compact ==
    /\ pc = "idle" /\ commands < MaxCommands
    /\ commands' = commands + 1
    /\ pc' = "condensing"
    /\ UNCHANGED <<mode, status, thread, torn, sent, faults, run, used, ignored, said,
                   lost>>

\* write_compacted renames the old file and writes a new one.
Condense ==
    /\ pc = "condensing"
    /\ pc' = "idle"
    /\ \/ UNCHANGED <<thread, torn, faults, said, lost>>  \* no summary: command fails
       \/ /\ thread' = <<Summary, Ack>>
          /\ torn' = FALSE
          /\ said' = <<Summary, Ack>>
          /\ UNCHANGED <<faults, lost>>
       \/ /\ Fault
          /\ thread' \in {<<>>, <<Summary>>}
          /\ torn' \in BOOLEAN
          /\ said' = <<Summary, Ack>>
          /\ lost' = lost \cup {"write"}
    /\ UNCHANGED <<mode, status, sent, commands, run, used, ignored>>
-----------------------------------------------------------------------------
(* The loop.                                                               *)

NextStep == pc' = "thinking" /\ step' = step + 1 /\ UNCHANGED outcome
EndRun(result) == pc' = "finishing" /\ outcome' = result /\ UNCHANGED step

\* Mutant of EndStep: an off-by-one lets a step more through.
EndStepLate == IF step > MaxSteps THEN EndRun("exceeded_max_steps") ELSE NextStep

\* The end of a step whose response did not end the turn.
EndStep == IF step >= MaxSteps THEN EndRun("exceeded_max_steps") ELSE NextStep

\* After the last tool result the context may be over the threshold.
EndToolStep ==
    \/ EndStep
    \/ /\ AutoCompact /\ step < MaxSteps
       /\ pc' = "compacting"
       /\ UNCHANGED <<step, outcome>>

\* Mutant of Respond: the calls cut off by the token limit get no results.
RespondUnbalanced(stop, n) ==
    /\ pc = "thinking" /\ (stop = "tool_use" => n > 0)
    /\ LET ids == used + 1..used + n
       IN  /\ messages' = Append(messages, Reply(ids))
           /\ said' = Append(said, Reply(ids))
           /\ calls' = IF stop = "tool_use" THEN [i \in 1..n |-> used + i] ELSE <<>>
           /\ ignored' = IF stop \in {"end_turn", "other"} THEN ignored \cup ids ELSE ignored
    /\ used' = used + n
    /\ CASE stop = "tool_use" -> pc' = "acting" /\ UNCHANGED <<step, outcome>>
         [] stop = "end_turn" -> EndRun("success")
         [] OTHER             -> EndStep
    /\ UNCHANGED <<mode, status, thread, torn, sent, commands, faults, prefill, attempt, lost>>

\* provider.chat returns, after its own retries, with a reason to stop and with n
\* tool calls, which it collects whatever the reason; the API gives the reason
\* "tool_use" only when there are some.  Calls that ran into the token limit are
\* answered with errors at once; under "end_turn", and under the reasons the loop
\* does not know, they stay in the context without a result.
Respond(stop, n) ==
    /\ pc = "thinking" /\ (stop = "tool_use" => n > 0)
    /\ LET ids == used + 1..used + n
           new == IF stop = "max_tokens" /\ n > 0
                  THEN <<Reply(ids), Results(ids)>> ELSE <<Reply(ids)>>
       IN  /\ messages' = messages \o new
           /\ said' = said \o new
           /\ calls' = IF stop = "tool_use" THEN [i \in 1..n |-> used + i] ELSE <<>>
           /\ ignored' = IF stop \in {"end_turn", "other"} THEN ignored \cup ids ELSE ignored
    /\ used' = used + n
    /\ CASE stop = "tool_use" -> pc' = "acting" /\ UNCHANGED <<step, outcome>>
         [] stop = "end_turn" -> EndRun("success")
         [] OTHER             -> EndStep
    /\ UNCHANGED <<mode, status, thread, torn, sent, commands, faults, prefill, attempt, lost>>

ChatFails ==
    /\ pc = "thinking"
    /\ EndRun("llm_error")
    /\ UNCHANGED <<mode, status, thread, torn, sent, commands, faults, messages, prefill,
                   calls, attempt, used, ignored, said, lost>>

\* The compactor replaces the context, or leaves it alone when it gets no summary.
CompactContext ==
    /\ pc = "compacting"
    /\ NextStep
    /\ \/ messages' = <<Summary, Ack>> /\ lost' = lost \cup {"compaction"}
       \/ UNCHANGED <<messages, lost>>
    /\ UNCHANGED <<mode, status, thread, torn, sent, commands, faults, prefill, calls,
                   attempt, used, ignored, said>>
-----------------------------------------------------------------------------
(* invoke_tool, for the first of calls.                                    *)

\* The call is over: its result, good or bad, goes into the context.
Answer ==
    /\ messages' = AddResult(messages, Head(calls))
    /\ said' = AddResult(said, Head(calls))
    /\ calls' = Tail(calls)
    /\ attempt' = 0
    /\ IF Tail(calls) = <<>> THEN EndToolStep ELSE UNCHANGED <<pc, step, outcome>>

\* An unknown tool, parameters that do not validate, or a refused permission.
Reject ==
    /\ pc = "acting" /\ attempt = 0
    /\ Answer
    /\ UNCHANGED <<mode, status, thread, torn, sent, commands, faults, prefill, used,
                   ignored, lost>>

Permit ==
    /\ pc = "acting" /\ attempt = 0
    /\ attempt' = 1
    /\ UNCHANGED <<mode, status, pc, thread, torn, sent, commands, faults, messages,
                   prefill, step, outcome, calls, used, ignored, said, lost>>

\* The tool returned, timed out, or failed in a way that is not retried.
Return ==
    /\ pc = "acting" /\ attempt > 0
    /\ Answer
    /\ UNCHANGED <<mode, status, thread, torn, sent, commands, faults, prefill, used,
                   ignored, lost>>

\* Mutant of Retry: a retry asks for permission again, which forgets the count.
RetryFromStart ==
    /\ pc = "acting" /\ attempt > 0
    /\ attempt <= MaxRetries
    /\ attempt' = 0
    /\ UNCHANGED <<mode, status, pc, thread, torn, sent, commands, faults, messages,
                   prefill, step, outcome, calls, used, ignored, said, lost>>

\* runtime_error and rate_limited are retried; the last one is returned.
Retry ==
    /\ pc = "acting" /\ attempt > 0
    /\ attempt <= MaxRetries
    /\ attempt' = attempt + 1
    /\ UNCHANGED <<mode, status, pc, thread, torn, sent, commands, faults, messages,
                   prefill, step, outcome, calls, used, ignored, said, lost>>

\* invoke_tool raises: an event about the call, the error text of a tool in it for
\* one, cannot be serialised for a client.  The run fails as "llm_error", and the
\* calls that have no result yet never get one.
InvokeRaises ==
    /\ pc = "acting"
    /\ EndRun("raised") /\ Fault
    /\ calls' = <<>> /\ attempt' = 0
    /\ lost' = lost \cup {"raise"}
    /\ UNCHANGED <<mode, status, thread, torn, sent, commands, messages, prefill, used,
                   ignored, said>>
-----------------------------------------------------------------------------
(* The end of a run.                                                       *)

DropRun ==
    /\ messages' = <<>> /\ prefill' = 0 /\ step' = 0 /\ outcome' = "none"
    /\ calls' = <<>> /\ attempt' = 0

\* Mutant of FinishRun: only a successful run stores its messages.
FinishGoodRun ==
    /\ pc = "finishing"
    /\ IF outcome = "success"
       THEN AppendAll(SubSeq(messages, prefill + 1, Len(messages)))
       ELSE UNCHANGED <<thread, torn, faults>>
    /\ status' = IF outcome = "cancelled" THEN status
                 ELSE IF mode = "one_shot" THEN "closed" ELSE "waiting_for_input"
    /\ pc' = IF outcome = "cancelled" THEN "stopped" ELSE "idle"
    /\ DropRun
    /\ UNCHANGED <<mode, sent, commands, used, ignored, said, lost>>

\* Mutant of FinishRun: the thread is written anew from what the run started with.
FinishRunAnew ==
    /\ pc = "finishing"
    /\ thread' = SubSeq(thread, 1, prefill)
                    \o SubSeq(messages, prefill + 1, Len(messages))
    /\ status' = IF outcome = "cancelled" THEN status
                 ELSE IF mode = "one_shot" THEN "closed" ELSE "waiting_for_input"
    /\ pc' = IF outcome = "cancelled" THEN "stopped" ELSE "idle"
    /\ torn' = FALSE
    /\ DropRun
    /\ UNCHANGED <<mode, sent, commands, faults, used, ignored, said, lost>>

\* run.finished is out.  The messages after the prefill are stored, whatever the
\* outcome; when that fails send_message raises and the status stays.  A
\* cancelled run raises after it has stored them.
FinishRun ==
    /\ pc = "finishing"
    /\ LET new == SubSeq(messages, prefill + 1, Len(messages))
       IN  \/ /\ AppendAll(new)
              /\ lost' = IF torn /\ new # <<>> THEN lost \cup {"write"} ELSE lost
              /\ status' = IF outcome = "cancelled" THEN status
                           ELSE IF mode = "one_shot" THEN "closed"
                           ELSE "waiting_for_input"
           \/ AppendFails(new) /\ UNCHANGED status
    /\ pc' = IF outcome = "cancelled" THEN "stopped" ELSE "idle"
    /\ DropRun
    /\ UNCHANGED <<mode, sent, commands, used, ignored, said>>

\* The daemon shuts down and cancels every task.  A run is cancelled at its
\* await and goes on to publish run.finished; a cancellation that meets that
\* very await, or a run that has not started, ends the task.
Shutdown ==
    /\ pc # "stopped"
    /\ \/ /\ pc \in {"thinking", "acting", "compacting"}
          /\ EndRun("cancelled")
          /\ calls' = <<>> /\ attempt' = 0
          /\ UNCHANGED <<messages, prefill, lost>>
       \/ /\ pc = "finishing" /\ outcome # "cancelled"
          /\ pc' = "stopped"
          /\ lost' = lost \cup {"cancel"}
          /\ DropRun
       \/ /\ pc \in {"idle", "starting", "condensing"}
          /\ pc' = "stopped"
          /\ UNCHANGED <<run, lost>>
    /\ UNCHANGED <<mode, status, thread, torn, sent, commands, faults, used, ignored,
                   said>>

StopReasons == {"end_turn", "tool_use", "max_tokens", "other"}

\* What the task that holds the lock does next.
Holder ==
    \/ StartRun \/ StartFails \/ Condense
    \/ \E stop \in StopReasons, n \in 0..MaxBatch : Respond(stop, n)
    \/ ChatFails \/ CompactContext
    \/ Reject \/ Permit \/ Return \/ Retry \/ InvokeRaises
    \/ FinishRun

Next ==
    \/ SendMessage \/ Close \/ Compact \/ Shutdown
    \/ Holder

Spec == Init /\ [][Next]_vars

\* The loop runs on, the LLM client and the tools have time limits (600 s of the
\* SDK, 120 s per attempt), and so has a request for permission: the holder's
\* await ends.  Nothing makes a user write.
FairSpec == Spec /\ WF_vars(Holder)
-----------------------------------------------------------------------------
(* Properties.                                                             *)

\* No call of ms came with a stop reason nobody acts on.
NoneIgnored(ms) == \A i \in DOMAIN ms : ms[i].uses \cap ignored = {}

\* Every request the loop sends is one the API accepts: no tool call is left
\* without its result, none is answered twice, in any order of replies, retries,
\* refusals, failures and earlier runs of the session.  Only a call that the model
\* made with "end_turn" or an unknown stop reason spoils the requests it is in.
RequestLegal == pc = "thinking" /\ NoneIgnored(messages) => Legal(messages)

\* The same while no run of the session has compacted its own context.
LegalUnlessCompacted == "compaction" \notin lost => RequestLegal

\* Between runs the thread holds the conversation as it took place: nothing is
\* missing and nothing is there twice, also after a failed, cancelled or
\* step-limited run.  Only three things can lose a message: a failed write, a
\* compaction inside a run, a cancellation while run.finished is published.
ThreadComplete ==
    pc \in {"idle", "stopped"} /\ lost = {} => thread = said

\* The first request of a run ends with the message that started it, if that
\* message can be read from the thread.
NewestMessageSeen ==
    (pc = "thinking" /\ step = 1 /\ \E i \in DOMAIN thread : thread[i] = User(sent)) =>
        messages[Len(messages)] = User(sent)

\* The same while no write has failed, no exception has ended a run and no call
\* in the thread was ignored: each of them can leave a call without its result in
\* the thread, and the trim then cuts off every later message.
SeenUnlessFailed ==
    lost \cap {"write", "raise"} = {} /\ NoneIgnored(thread) => NewestMessageSeen

\* A run that neither an exception nor a cancellation ended has every tool call
\* answered, except those the loop ignores for the reason they came with.
RunEndsBalanced ==
    pc = "finishing" /\ outcome \notin {"cancelled", "raised"} =>
        Pending(messages, Len(messages)) \subseteq ignored

Record == INSTANCE Transcript WITH
              kept      <- thread,
              phase     <- IF pc \in {"idle", "stopped"} THEN pc ELSE "busy",
              status    <- IF status = "closed" THEN "closed" ELSE "open",
              Condensed <- <<Summary, Ack>>

\* The refinement: only session.compact takes rows of the thread away, and the
\* trim, the prefill, a failed or cancelled run and a torn row never do; a run
\* changes no row while it goes on, and when its command ends, all that was said
\* is kept, unless one of the things in lost has happened.
KeepsTranscript == Record!Spec

\* No run, answer or compaction ever reopens a closed session.
ClosedIsFinal == [][status = "closed" => status' = "closed"]_vars

\* A run that is started ends, and the session's lock is free again.
RunsEnd == pc # "idle" ~> pc \in {"idle", "stopped"}
=============================================================================
