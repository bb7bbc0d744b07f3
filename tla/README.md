# A TLA+ model of AnvilCode

AnvilCode is a coding agent in two processes: a daemon, `anvil-core`, that owns the sessions and
runs the agent, and front ends (a TUI and `anvil chat`) that talk to it over a local TCP
connection. The daemon is one asyncio event loop: all its concurrency is coroutines that
interleave where they await. That is what these modules model.

Paths below are relative to `src/src/anvil_code/` unless they start with `src/`.

## Contents

| Module | Models | Kind |
| --- | --- | --- |
| `PermissionGate` | what the permission manager promises | abstract specification |
| `PermissionManager` | `core/permissions/` | detailed specification |
| `PermissionManager_proofs` | type correctness, no lost wake-up, the manager implements the gate, the order of answers | theorems |
| `Thread` | messages, `thread.jsonl`, the trim of orphans | operators |
| `Transcript` | what a session promises about `thread.jsonl` | abstract specification |
| `AgentSession` | one session: manager, run, loop, tool calls, store, compaction | detailed specification, uses `Thread` |
| `AgentSession_proofs` | type correctness, the complete thread, legal requests, the newest message, the end of runs, closed sessions, the session implements the transcript | theorems |
| `EventStream` | bus, ledgers, broadcaster, subscription with replay | specification |
| `EventStream_proofs` | type correctness, complete ledgers, ordered and gapless streams | theorems |
| `Subagents` | `spawn_agent`, `agent_result`, the registry of a run | specification |
| `Subagents_proofs` | type correctness, nesting, what parents are told | theorems |
| `McpClient` | tool calls on one MCP server | specification |
| `McpClient_proofs` | type correctness, the lock, the order of requests, executions, own answers | theorems |
| `FrontEnd` | TUI and `anvil chat` against the daemon, over a connection | specification |
| `FrontEnd_proofs` | type correctness, a busy TUI has a command outstanding | theorems |
| `TaskBoard` | `core/task/` and the tools that use it | specification |
| `TaskBoard_proofs` | type correctness, completed tasks hold nothing up, the board never runs dry | theorems |
| `Daemon` | the life of the daemon process, its commands, its `anvil run` clients, its trace writer | specification |
| `Daemon_proofs` | type correctness, the pid file, the order of the shutdown, what clients are told | theorems |
| `MCPermission`, `MCSession`, `MCEvents`, `MCSubagents`, `MCMcp`, `MCFrontEnd`, `MCTasks`, `MCDaemon` | instances for TLC | model-checking modules |

## Inventory

### Components, their state and their operations

- **Permission manager** (`core/permissions/manager.py`, `policy.py`, `storage.py`). State:
  `_pending` (tool_use_id to future), `_session_always`, `_persistent_always`, `policy.toml`.
  Operations: `check_and_wait` (called by each tool call), `respond` (from a front end),
  `cancel_session`, loading and saving the policy file. Correct when no call is allowed without a
  reason, no answer is lost, and no call waits for ever.
- **Session manager and thread store** (`core/session/`). State: per session a status, a lock,
  `thread.jsonl`. Operations: create, send_message, compact, close, get_history. Correct when the
  thread is the conversation as it took place, a closed session stays closed, and the lock is
  released.
- **Runner, loop, tool invocation, compactor** (`core/runner.py`, `core/loop.py`,
  `core/context.py`, `core/tools/invocation.py`, `core/compact/compactor.py`). State: the context
  of a run (messages, step, status), the length of its prefill, the attempt of the current tool
  call. Correct when each request to the LLM is one the API accepts (each `tool_use` with its
  `tool_result`), runs are bounded and end.
- **Events** (`core/events/`, `core/transport/ipc_broadcaster.py`, `core/app.py`). State: the
  handlers of the bus, the open ledgers, the list of subscriptions. Operations: publish,
  subscribe with replay, unsubscribe. Correct when the ledger of a run is complete and a client
  sees events in order, without gaps and once.
- **Socket server and client, TUI, anvil chat** (`core/transport/socket_server.py`,
  `core/transport/socket_client.py`, `tui/app.py`, `cli/commands/chat.py`). State: futures by
  command id, the TUI's `_busy` and its permission selects, chat's `pending_permission_id`.
  Correct when commands end, the user can always go on, and an answer reaches the request it is
  meant for.
- **Subagents** (`core/subagent/`). State: a task registry per run, nested coroutines. Correct
  when nothing outlives the call it serves, nesting and retries are bounded, and a parent is told
  what happened.
- **MCP client** (`core/mcp/`). State: next request id, a lock, the stream of lines. Correct when
  a call gets its own answer and the lock is never lost.
- **Task manager** (`core/task/manager.py`). State: one JSON file per task, the next id. Operations:
  create, update (which, for a completion, rewrites the files of all dependants), list, get.
  Correct when a completed task holds nothing up and an id is never given twice.
- **Daemon life cycle** (`core/app.py`, `cli/commands/core.py`). State: the pid file, the port, the
  shutdown event, `_running_runs`, the connections. Operations: `core start`, `core stop`, booting,
  the shutdown step by step. Correct when the pid file names the daemon that serves, when nothing
  is closed before the runs that need it have ended, and when the shutdown ends.
- **Trace writer and tracing provider** (`core/trace/`). State: a queue and the task that drains
  it. Operations: emit, drain, stop. Correct when a shutdown neither drops records nor waits for
  ever.
- **LLM provider, built-in tools, skills, agent profiles, configuration, `anvil ping` and
  `anvil trace`**: see "Not modelled".

### How they interact

A front end sends a line; the server makes a task of it. `session.send_message` takes the
session's lock, stores the message, and awaits a run. The run publishes events on the bus, which
calls the broadcaster (awaiting the drain of every subscribed connection) and then each open
ledger. A tool call of the loop asks the permission manager, which publishes a request and awaits
a future that the `permission.respond` task of some connection completes. The tool may be an MCP
call (a lock shared by all sessions), `spawn_agent` (a nested loop in the same task, or a task
of its own) or one of the task tools. At the end of the run its new messages are appended to the
thread. Every LLM call and every event leaves a record in the queue of the trace writer. The
daemon's `agent.run` makes a tracked task of a run without a session; the shutdown cancels these
tasks, awaits them, closes the MCP servers, then the connections and the port, and last waits for
the trace queue.

### What is hard

The list is in `PROJECT.json`, "hazards", each at its line. In short: a future that an answer, a
timer and a cancellation race for; always-answers applied in the order of wake-ups; half-written
policy and thread files; a slice of messages taken with a length that compaction has made stale;
replay that awaits before it subscribes; a slow client that stops publishers; nested time-outs;
late answers on a shared stream; commands that must overtake one another; clients whose state
outlives their connection; files of several tasks rewritten one after another; a daemon that
still accepts work while it shuts down; commands that share a pid file with a slow boot.

## Modules and code

### PermissionManager

One call is one coroutine of `check_and_wait`; a step is the code between two awaits.
`CheckAndWait` is the function up to the emission of the request, with the six tiers in
`Evaluate` and `Standing`; `EmitDone` is the return of the emitter; `TimerFires`, `CancelTask` and
`Wake` are what asyncio does to a coroutine under `wait_for`; `Respond` is the command,
`ApplyResponse` is `_apply_response` with its save. The ready queue is modelled because the order
of wake-ups decides whose always-answer is applied last. `SaveOutcomes` is what
`save_policy_file` may leave behind, its exception being swallowed: the new table, the old file,
or its first lines. `future`, `interrupt` and `ready` are state of asyncio rather than of the
program.

`Flaky` names the sessions whose front end may disconnect, which bounds the instance. `CancelHook`
tells whether a disconnect calls `cancel_session`. In the code it does not (`FALSE`, used by
PermissionRestart and PermissionHang); `TRUE`, used by PermissionSessions, checks
the function itself, as the documentation means it to be used. Even then a disconnect resolves only
what waits at that moment: a call of a session that has already lost its front end registers its
request all the same. `DesertedResolved` therefore speaks of calls that wait while their front end
is there, `NoCallHangs`, which needs the time limit, of all. The history variables `given` and
`answered` record what the user decided. `LatestAnswerStands` and `SessionAnswerPrevails` speak of
positions in `answered`: the last one about a tool, or about a tool in a session, is the one that
`Stands`.

### Thread and AgentSession

`Thread` has the messages by role and by the tool calls they make or answer, and
`_trim_orphan_tool_use` as a definition of the longest balanced prefix. `AgentSession` is the
task that holds the session's lock: `pc` is its await. `Respond` is one return of `provider.chat`
with everything the loop does up to the next await; `Reject`, `Permit`, `Return`, `Retry` and
`InvokeRaises` are `invoke_tool`; `CompactContext` is the compaction inside a run, `Compact` and
`Condense` the command; `FinishRun` is `run.finished` and what follows it in the runner and in
`send_message`. `AutoCompact` says whether `compaction.auto_threshold` is positive. `MaxFaults`
bounds failed writes and exceptions out of a tool call.

`Respond` takes any number of tool calls with any stop reason, because `chat` collects them
whatever the reason is (`core/llm/provider.py:142`); only that `tool_use` comes with at least one
is taken from the API. The loop invokes the calls of `tool_use` and answers those of `max_tokens`
with errors. Those under `end_turn` or a reason it does not know (`refusal`, `pause_turn`) it
stores without a result, and `ignored` remembers them. `said` is the conversation as it took
place. `lost` remembers which of the known ways to lose a message a behaviour has met, so that
properties can say precisely under what they hold.

`Transcript` is what a reader of `thread.jsonl` may rely on, without loop, tools, prefill or torn
rows: a command holds the session (`Say`, `Reserve`), a run adds to the conversation and stores
nothing (`Go`), and when the command ends (`End`) everything said is kept, unless something is in
`lost`. Even then rows are only added; `Condense` alone takes any away. `KeepsTranscript` is the
refinement: `kept` is the thread, a session is "busy" whenever its lock is held.

### EventStream

A run publishes one event at a time, `Length` of them, the first `run.started` and the last
`run.finished`; `todo` holds the clients its event still goes to, and the run awaits the drain of
the first. `Publish` and `DrainReturns` are the broadcaster's loop, at whose end `WriteLedgers`
calls the ledgers, any of which may fail to write its row (`EventWriter.handle` logs the error and
goes on). `DrainCut` is a cancellation that meets a publication in a drain: the `except` of the
broadcaster does not catch it, so that neither the clients left nor any ledger get the event. The
run goes on, to `run.finished` at the least, unless the event is `run.started` or `run.finished`
itself, which are published outside the runner's `try`. `MaxFaults` bounds both, `missed` and
`unrecorded` remember what they took from whom. `Subscribe` and `JoinLive` are the two halves of
`event.subscribe` around the drain of the replay. `Stallers` are clients that may keep their
connection and not read; for any other client a drain returns in time. `seam` is the length of a
client's replay. `Kept` is a list comprehension with a membership test, which the broadcaster uses
to take a connection out of its list and, in effect, to choose the subscriptions of an event. It is
a recursive function, so that its lemmas can be proved; an assumption of `MCEvents` compares it with
`SelectSeq`.

### Subagents

`StartRun`, `PlainStep`, `EndLoop` and `FinishRun` are the loop of any agent, reduced to steps.
`Spawn`, `Begin`, `Finish` and `Raise` are `SpawnAgentTool.invoke` around its awaits, `SpawnAgain`
a retry of `invoke_tool`. `TimeOut` and `CancelRun` cut everything that runs inside a call.
`level` is the depth of an agent, `home` the run whose registry it was given. `OutOfChildren` is
the bound on subagents standing in the way of a retry; `ChildrenEnd` excuses it. `AskResult` tells
what `agent_result` answers: it looks only at the task (`core/subagent/tool.py:328`), so that a
background subagent whose loop failed is reported as completed. That is what the code does, and
`AnswersStable` says no more than that the answer does not change.

### McpClient

`Call`, `Write`, `Drained`, `ReadLine`, `ReadFails`, `WriteFails` are `call_tool` and `_call`,
`Return` and `Abandon` the attempts and the time limit of `invoke_tool`. `Answer`, `Extra` and
`Close` are the server, which is external: it may answer any request once, at any time, as a
result or an error, send notifications, unreadable lines and requests of its own (`OwnIds`, at
most `MaxExtras` lines), or go away. `ReadFails` covers the 30 s of the reader and the closed
connection. `OwnIds` holds an id that the client does not use for a call: nothing in `IsFor` tells
a request of the server with the id of an outstanding call from its answer, so with a colliding
id `AnswersOwn` is false.

### FrontEnd

`tui` chooses the front end and `limited` whether permissions have a time limit; both are set once
and checked in both values. The daemon half (`Serve`, `Ask`, `TimeOut`, `EndRun`, `Release`,
`RunFails`) is reduced to what a client sees of a run. `Release` comes after `EndRun` because
`session.waiting_for_input` is published before the lock is released. `Submit`, `Decide`,
`Reconnect` are the TUI; `Type`, `ReadLine` are `anvil chat`; `Quit`, `Receive`, `Lost`, `Leave` are
shared. The error that refuses `session.close` is a kind of its own (`refused`), because the TUI
resets `_busy` when `session.send_message` fails (`tui/app.py:671`) and at no other error. A line
typed into chat carries what the user meant by it. The input loop awaits the reply of
`session.send_message` before it reads on, so that an answer typed while the run asks is read after
`session.waiting_for_input` has cleared `pending_permission_id` (`cli/commands/chat.py:46`) and goes
to the agent as a message, and the request runs into its time limit. `ReadLine` does this; no
property excludes it.

### TaskBoard

An operation of `TaskManager` has no await, so that it is one action: `Create`, `Update` with
`_clear_dependency`, and `Reopen`, a new manager on a directory that exists. The runner makes a
manager once for a run; the model lets one be made between any two operations, which includes that.
`CreateFails` and `UpdateFails` are the same operations when a `write_text` fails or the process
dies: it truncates before it writes, so that the file is torn; the files of the dependants rewritten
before it keep their new content. `update` loads the task first and saves it last, over whatever
`_clear_dependency` did to its own file meanwhile; `Changed` is what it saves. `late` remembers the
dependencies that were stated when the other task had already been completed, because the code
accepts those and never clears them (until that task is completed again). A torn file cannot be
listed or loaded but counts as existing when the next id is chosen or a dependency is checked.

### Daemon

Daemons, commands and clients are processes of their own, numbered in the order in which they
begin. `Start`, `Spawn`, `WritePid` and `Stop`, `Kill`, `Unlink` are the two CLI commands cut where
another process can come between; `raced` remembers whether two commands overlapped or a start met
a daemon that was booting. `StartServers` and `Bind` are the boot (the signal handlers are
installed in the step that binds the port), and `BootFails` any error that ends it: the
configuration, a missing key, the port. `Shutdown`, `CloseServers`, `ServersClosed` and `StopServer`
are the end of `CoreApp.run`; `CancelRest` and `Exit` are what `asyncio.run` does afterwards: it
cancels the tasks that are left, late runs among them, and waits for them and for their
`run.finished`. `start_all` skips a server that fails, so that `mcp` says only whether the servers
have been started, are closed, or are `stuck`: `McpClient.close` awaits `wait_closed()` of a TCP
connection without a limit (`core/mcp/client.py:146`), until `ServerReads`.

Clients are `anvil run` processes: `Join` connects and subscribes to the events of all runs,
`AgentRun` sends the command, `Hear` is what any `run.finished` does to them. A run is `created`
(its task has not run yet), at the `model`, or has been held up or cancelled and is to `finish`.
Runs of `session.send_message` are not tracked by the daemon and are the subject of `AgentSession`;
an `agent.run` that is refused leaves nothing behind. `met` tells what befell a run: `late`,
accepted after the signal, which `CoreApp.run` neither cancels nor awaits; `cut`, ended by the
cancellation without a `run.finished`, because it had not begun or because that event was just held
up by a client that does not read; or `failed` (`StartFails`): `send_message` raised before
`run.started`, on the message "/" or a file that cannot be written, though `agent.run` had replied.
A stalled client holds up the runs that publish also while its connection is being closed, since
it stays subscribed until its buffers are empty.

`backlog` and `drain` are the trace writer, whose queue matters only in so far as `queue.join()`
returns when it has once been empty. `DrainDies` is a record that cannot be serialised or written:
the exception ends the task, the records behind it stay, and `stop` waits for ever.

## Runs

| Run | Bounds | Shows |
| --- | --- | --- |
| PermissionSessions | 3 calls (symmetric), 2 sessions, 1 tool | no lost wake-up; the latest always-answer stands; a session's refusal prevails, with a disconnect that cancels its session |
| PermissionRestart | 2 calls, 1 session, 2 tools, all command classes, 1 restart | types; implements `PermissionGate`; with a time limit a call whose front end has gone comes back |
| PermissionHang | 1 call, no time limit | *violation*: the code does not call it, and a request that waits at the disconnect goes on waiting |
| SessionThread | 2 messages, 1 compact command, 2 steps, 2 calls a response, 2 retries, 1 fault | requests are legal unless a run has compacted; the thread is complete; the newest message is seen; runs end balanced; implements `Transcript`; runs end |
| SessionCompaction | 3 messages, 3 steps, 1 call a response | *violation*: an illegal request after an in-loop compaction |
| EventDelivery | a run of 3 events and one of 2, a global client that replays and may stall, a run-scoped client, 1 fault | ledgers complete; streams ordered, without duplicates or gaps; a cancelled publication or a failed write costs a ledger or a stream that event and no other; runs finish |
| EventReplayGap | 1 run of 4 events, 1 client | *violation*: replay then live leaves a gap |
| SubagentTree | 1 run, 3 subagents, 2 steps, 1 retry | no foreground subagent outlives its call; parents are told the truth; stable answers; all end |
| McpCalls | 2 calls, 1 retry, 1 extra line | own answers; sound lock; ids in order; bounded executions; calls end |
| FrontEndCommands | 3 commands, 2 requests, 2 connections, either client | busy only with a command outstanding; commands and runs end |
| TaskDependencies | 3 tasks, 1 dependency changed by an update, 1 failed write | types, ids and files; a completed task holds nothing up |
| DaemonLife | 3 `core` commands, 2 daemons, 2 `anvil run` clients | the pid file names the daemon that serves; runs end before what they need is closed; which clients are left waiting; a stopped daemon ends |

Why the bounds are enough. Each run has room for the contention its properties speak of and for one
more actor: two calls whose answers cross and a third that sees the result; two messages, so that a
second run starts from what the first one left, and a fault, so that a torn row meets the next
write; two runs on one bus, one of them foreign to a ledger; a loss of an event, before, in or after
the other run's broadcast; three subagents, so that the innermost is two levels below the run, at
the limit, and a retry has a child to start; two MCP calls, each with a second attempt, so that an
old answer lies before a new one; two connections, so that a session is left behind; three tasks, so
that a completion has two dependants and a failed write falls before, between or after them; two
daemons, so that one stops while the next boots, and two clients, so that one run comes after the
signal and one client holds up another's events. More actors repeat these meetings. Deadlock is
checked in the PermissionManager runs, where only the end of all calls with `Connect` and `Respond`
left is possible, and in TaskDependencies; the others set `CHECK_DEADLOCK FALSE` because their
bounds stop the user, the runs or the server, which is an end and not a fault.

Conditions in properties, and the behaviour they leave out:

- `LatestAnswerStands` and `SessionAnswerPrevails` speak of answers given while their call waited.
  An answer that arrives while its own request is still being emitted to a slow client is applied
  when the emitter returns, possibly after a later one.
- `LegalUnlessCompacted` excludes behaviours in which a run compacted its own context:
  SessionCompaction shows what happens then. It also excludes requests that contain an ignored call
  (`NoneIgnored`), and `RunEndsBalanced` counts no ignored call: the code stores such a call without
  its result. Under a reason the loop does not know, the next request of the run contains it; the
  runs that follow trim the thread in front of it.
- `ThreadComplete` excludes failed writes, exceptions, in-loop compaction and a cancellation that
  meets the publication of `run.finished` (the run's messages are then not stored at all).
- `SeenUnlessFailed` excludes failed writes, exceptions out of a tool call, and a thread with an
  ignored call. Each may leave a call without its result in `thread.jsonl`, and from then on
  `_trim_orphan_tool_use` cuts off every later message: the user goes on writing and the model never
  sees it. The tolerance for bad rows that `src/README.md:156` describes does not extend to this.
- `LedgerComplete` excepts what is in `unrecorded`, `LiveGapless` what is in `missed`. A cancelled
  run goes straight to `run.finished`: that is a run with fewer events, of which neither says
  anything. A row that the file object keeps after a failed flush counts as lost.
- `LedgerComplete` speaks of the events of the ledger's own run. A ledger also takes the events of
  any other run that publishes while it is open, since all runs share the daemon's bus and
  `EventWriter` does not filter (`core/runner.py:186`; `src/DESIGN.md:64` calls for ledgers with
  one run id).
- `BusyHasCommand` speaks of the first connection. After a reconnect `_busy` is still set if the
  connection was lost in the middle of a run, because the worker's `send_command` ends in a
  `CancelledError` that `_do_send_message` does not catch.
- `BlockersOpen` excepts the dependencies in `late`.
- `PidNamesServing` speaks of commands that did not race. A start during a slow boot finds no
  listener, spawns a second daemon, which ends at the bind, and writes its pid over the right one.
- `OldRunsEndFirst` and `ClientsTold` except runs that are `late`, `ClientsTold` also those that
  were `cut` or `failed`: `anvil run` then waits for ever, since nothing wakes it when its
  connection ends (`cli/commands/run.py:104`).
- `StopEnds` excepts a daemon whose drain task has died, an MCP server that never reads, and
  clients that are stalled for good: the shutdown awaits the runs before it closes the connections
  that hold them up, and `asyncio.run` awaits late runs after it. None of these waits has a limit.
- `RunsEnd` of `FrontEnd` excuses a run that waits, without a time limit, for an answer nobody can
  give any more.

### Findings

Three runs show a disagreement between the code and its own documentation; `PROJECT.json`,
"findings", quotes the lines: requests that wait at a disconnect and are not resolved, the stale
prefill length after in-loop compaction, and the gap between replay and live stream.

## Fairness

- `PermissionManager`: the loop runs what is ready (`Wake`) and fires its timers. Neither the user
  (`Respond`) nor the drain of a client (`EmitDone`) is fair. Without a time limit only `Wake` is
  left, as in PermissionHang.
- `AgentSession`: the holder of the lock goes on (`Holder`), because LLM calls, tool attempts and
  permission requests have time limits. With `permission.timeout_s = 0`, or a client that does not
  read, this is not so: PermissionHang and EventStream treat those.
- `EventStream`: runs publish (weak fairness) and drains return (strong fairness: a client that
  stalls and reads again infinitely often lets every drain through). A client that stalls for good
  is excused by the property. Nothing has to be cancelled or to fail.
- `Subagents`: loops go on, calls of `spawn_agent` time out, retries happen.
- `McpClient`: attempts are made, the holder of the lock writes and reads what is there, and the
  attempt's 120 s end (`Abandon`). Nothing is assumed of the server.
- `FrontEnd`: the daemon serves lines, runs go on, lines on a standing connection arrive, a client
  that leaves exits, requests with a limit time out, and the user of the TUI answers what is on
  the screen. Nobody is assumed to type into `anvil chat`.

- `TaskBoard` has none: it makes no promise about progress.
- `Daemon`: the steps of a shutdown, the drain task and a `run.finished` that nothing holds up go
  on. No command is assumed to be typed, no client or MCP server to read, no model to answer and no
  boot to end.

## Proofs

TLAPS checks 34 theorems, in eight groups, and with them every safety property of the runs that
pass. They hold for all values of the constants that satisfy the named assumption of their module,
which TLC evaluates in the runs. Each group rests on an inductive invariant (the permission manager
on one and two extensions of it), kept by a lemma for each action or group of actions.

### PermissionManager

Five theorems about `PermissionManager`, for all finite sets of calls, all sets of
sessions, tools and requests, every policy, any number of restarts, and with or without time
limit and disconnect hook. They rest on `PermissionAssumption`, which TLC evaluates in every run
of `MCPermission`.

- `TypeCorrect` and `NoLostWakeupHolds`. Neither invariant is
  inductive alone. `TypeInv` joins `TypeOK`, `NoLostWakeup` and `Running`, which says what a
  coroutine in flight relies on: a call that is not idle has a request, an emitting call has an
  open or answered future, a waiting call that was not interrupted finds an answer when it wakes.
  There is a lemma per action (or group of actions) and conjunct. The hard part is the queue:
  removing its head keeps the rest without repetition (`WakeQueue`), appending one call needs its
  future to have been open (`ScheduleKeeps`), and `cancel_session` appends a whole set in some
  order (`OrdersAreSequences`, `DisconnectQueue`).
- `ManagerImplementsGate`. `GateInv` adds `CachesWereGiven`: every entry of a cache or of the
  policy file is a decision the user once gave. With it, a verdict taken from a cache is one the
  gate permits (`EvaluateIsPermitted`), and each action of the manager is a step of the gate or
  leaves its variables alone (`JudgeStep`, `AnswerStep`, `GiveUpStep`, `GateStep`). A restart
  refuses all calls in flight at once, which is why `GiveUp` takes a set.
- `LastAnswerStands` (`LatestAnswerStands`) and `SessionsKeepTheirAnswer`
  (`SessionAnswerPrevails`). The answer is given in `respond`, the caches change only when the
  coroutine wakes, and nothing in the code compares the two orders: what keeps them equal is that
  the loop's queue is first in, first out. `OrderInv` extends `TypeInv` by that argument. `InTurn`:
  of two calls answered while they waited, the one answered later is still behind the earlier one.
  `Recorded`: a coroutine that wakes with an always-decision applies one that is on record, and
  `Answered` and `Undecided` tie the record to futures and outcomes. Then `CachesFollow`: at any
  moment the caches agree with the last answer among those already applied. A call answered during
  its emission has no place in the queue at its answer, and is the stated exception.

### TaskBoard

Three theorems for any number of tasks, of ids that an update names and of failed writes.
`TypeCorrect` and `CompletedHoldNothing` (`BlockersOpen`) follow from `IInv`, which has two parts
beyond the types. `Clear`: no readable task, whether open or completed, waits for another that is
completed. `BlockersOpen` alone is not inductive because a completed task can be opened again and
brings its dependencies with it. `NoGaps`: only a creation that failed leaves a file at or above
the next id. The lemmas say what the operators return (`ClearedFiles`, `ChangedTask`,
`UpdatedFiles`), then which part each action keeps. `NeverRunsDry` uses the invariant for a
property that no run checks, because its instances are shallow: as long as dependencies point to
earlier tasks, none was stated too late and every file is readable, work that is not finished has
a task that waits for nothing. It takes the open task with the lowest id, which exists because
`<` on the naturals is well founded.

### Daemon

Four theorems for any number of daemons, commands and clients: `TypeCorrect`, `PidFileTrue`
(`PidNamesServing`), `ShutdownInOrder` (`OldRunsEndFirst`) and `NobodyForgotten` (`ClientsTold`).
One inductive invariant carries them, in three parts that follow the variables, so that an action
that leaves the variables of a part alone keeps it by one lemma (`ProcKept`, `CliKept`, `RunKept`).

- `ProcInv`: `Equipped` says which phase has the port, open servers and a drain task.
- `CliInv`: `Held` says that a pid somebody holds is that of a process; `Alone` says that commands
  that do not race exclude each other, and what each of them knows of the one daemon that can be
  up (`Known`): between `Spawn` and `WritePid` the command holds its pid, between `Stop` and `Kill`
  too, and before a `Spawn` or an `Unlink` there is none.
- `RunInv`: `Linked` ties connections to the port and runs to daemons; `Awaited` says that a run
  that is not late lives only in a daemon that serves or gathers, and that a client that waits for
  a run that was neither late nor cut and did not fail waits for one that lives.

### AgentSession

Seven theorems for any number of messages, steps, calls in a response, attempts, failed writes and
exceptions: `TypeCorrect`, `ThreadIsComplete`, `RequestsAreLegal`, `NewestIsSeen`,
`RunsEndBalanced`, `ClosedStaysClosed` and `SessionKeepsTranscript`. The properties speak of a
request or of the time between runs; the invariant says what has to hold on the way there.

- `Balanced`: among the messages of a run the calls without a result are those still to be invoked
  and ignored ones, and the last message but one, or the last, is the response that made them
  (`Asked`), so that the next result goes where the API wants it.
- `Stored`: unless a write failed or an exception ended a run, the thread has no call without its
  result but ignored ones, so that without those the trim (`TrimFacts`) returns the whole of it, the
  new message included. `Begun`: unless a write failed, a thread begins with a message of the user,
  which makes no call, so that the trim never cuts all of it off.
- `Complete`: the conversation as it took place is the thread followed by the messages after the
  prefill (`Continues`). Storing those is then all there is to do (`JoinContinues`).
- `Sound`, until a run compacts its context: in the thread and in the context each result answers
  the message before it and no id is used twice (`Answers`), and the slice that will be stored
  starts with no result and shares no id with the thread (`Slice`). That the loop's compaction
  breaks `Slice` is what SessionCompaction shows. With nothing pending, `Answers` makes a request
  legal (`AnsweredNext`).
- `Control` says where the holder of the lock can be: not in a run when the session is closed, nor
  when the file is torn.

`TrimOrphans` is defined with `CHOOSE`; `LastBalancedExists` shows that what it chooses exists.
The other lemmas say what one message or one result more does to each part of the invariant.

- `SessionKeepsTranscript` (`KeepsTranscript`) is the refinement of `Transcript`. Every step is one
  of a run (`GoMaps`), the end of a command (`EndMaps`), or one of its own. Whatever is written to
  the file adds to it, also when the write fails or joins half a row (`WritesGrow`); `Complete` in
  the state after the step says that what is kept is a beginning of what is said, and all of it
  when no run is under way (`KeptOfSaid`); a result changes only a message that no other follows
  (`AddResultGrows`). The run checks it in the place of `ClosedIsFinal`, which it contains.

### EventStream

Four theorems for any number of runs, events and clients, whatever the clients replay, and
whichever of them break off or stop reading: `TypeCorrect`, `LedgersAreComplete`
(`LedgerComplete`), `StreamsStayInOrder` (`StreamInOrder`) and `LiveStreamsAreGapless`
(`LiveGapless`).

- The lemmas about `Kept` need induction over a sequence. The library's induction theorems take a
  formula for a parameter, which the provers cannot instantiate. `NatSetInduction` says the same of
  a set of numbers and follows from a theorem without such a parameter, that `<` is well founded on
  the naturals. With it `KeptMembers` (what is kept are the members in the set, none of them twice
  if none was there twice) and `KeptAppend` hold for all sequences.
- `Due` is the number the invariant turns on: the last event of a run that can have been written to
  a client. It is one less than the run has begun to publish while the client waits in the queue of
  the broadcast behind the client whose drain is awaited. `ReceivedBehind` says that a client has
  nothing beyond it, from which `StreamInOrder` follows for the next event; `CaughtUp` that a live
  client which has one event of a run from its live stream has all later ones that are due, from
  which `LiveGapless` follows. `LedgersBehind` does for the replayed ledgers what `ReceivedBehind`
  does for the streams: an event reaches the ledgers last, so that a copy of a ledger, taken in the
  middle of a broadcast, is never ahead of it.
- `UnrecordedBehind` says that what a ledger is known to lack is through, so that the next event is
  still expected in it; `CaughtUp` and `LiveGapless` hold up to `missed`.
- `LiveOnce`, `UnderWay`, `ReplayedOnly` and `LedgerOpen` are what the actions rely on: the
  broadcaster's list has exactly the live clients, each once; a broadcast under way goes to clients
  that were live at its start; before it is live a client has nothing but its replay; and a run
  that publishes has its ledger open.
- `Publish` and `DrainReturns` end in the same `Proceed`. `Going` states what both bring to it
  (`PublishGoes`, `DrainGoes`), and one lemma for each part of the invariant shows what it does.

### McpClient

Five theorems for any set of calls, any number of retries and whatever the server says.
`LockStaysSound` and `RequestsInOrder` rest on `Queue`: an id is taken in the step that joins the
lock's queue, so that the queue, from the holder on, is in the order of the ids, and stays so when
a call gives up in its middle (`LeaveQueue`). `Written` adds that all requests on the wire are
older than the ids in the queue. `ExecutionsAreBounded` counts requests: an attempt writes at most
one, and what is in the queue has not written its own. `AnswersAreOwn` follows from `Stream` under
`OwnIdsApart`, that the server uses for its own requests no id the client uses for a call; without
it the property is false.

### Subagents

Four theorems for any number of runs, subagents, steps and attempts. `ForegroundStaysNested` needs
both directions: `Waiting`, an agent in `spawn_agent` waits for a subagent of its own that lives;
`Nesting`, a subagent that is served is the one its parent waits for. Every action that ends an
agent ends what runs inside its call, and the two parts say that nothing else was served by it.
`Family` keeps levels and homes apart per agent. `ForegroundToldTrue` and `AnswersStayStable` come
from `Registered` and `Telling`: nothing is told of a subagent that is served, and only its own
run is told how it ended.

### FrontEnd

Two theorems for any number of connections, commands and requests. `BusyKnowsCommand` is about the
lines on their way: `Outstanding` says that a busy TUI waits for a message which either has not
been answered or whose reply comes only behind a line that frees the TUI. It holds because
`session.waiting_for_input` and the reply use the same connection, in this order. `Numbered` keeps
the numbers of commands and answers apart, without which a reply could end another command, and
says that `session.close` is a client's last command, so that its refusal ends no message.

### Only model-checked

Liveness (`NoCallHangs`, `DesertedResolved`, `RunsEnd`, `RunsFinish`, `ChildrenEnd`, `CallsEnd`,
`CommandsEnd`, `StopEnds`), which is out of the prover's reach here: it rests on fairness and on
ENABLED. That `Kept` is `SelectSeq` is compared on sequences of up to four members. The three
findings are counterexamples, which no proof could give.

## Not modelled

- `core/llm/provider.py` beyond what `chat` returns, built-in tools, skills, agent profiles,
  configuration, memory files, `anvil ping` and `anvil trace`: no concurrency, or no state, or
  pure I/O.
- The content of messages, prompts, commands and patterns. A command is the class of pattern it
  falls in; a message is its role, its number and its tool calls.
- Events that cannot be serialised, in `EventStream` (`AgentSession` models what they do to a run
  in `InvokeRaises`), topics, and a second subscription of one connection.
- The processes of MCP servers, and which of them fail to start.
- Rendering and key handling of the TUI, its `/compact` command, and which select it removes when
  a request is denied.

## Plan

Done: the permission manager with its abstract specification and proofs, then the session, the
event stream, subagents, the MCP client and the front ends, each with its runs.

Then the task manager and the life cycle of the daemon, each with an inductive invariant and its
theorems.

Every safety property of the passing runs is a theorem, and two components implement an abstract
specification. Next, in this order:

1. What the findings leave true, as theorems with their conditions: that a client whose replay meets
   no publication catches up, and that a request is legal after a compaction whose run stored
   nothing of its old context.
2. An abstract specification of the broadcaster (a log per run of which each client sees a
   part without holes) which `EventStream` implements; `Due` gives the refinement mapping.
3. The steps of the liveness arguments that are safety: which action is enabled while a command is
   outstanding, as invariants.
