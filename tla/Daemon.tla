------------------------------- MODULE Daemon --------------------------------
(***************************************************************************)
(* The life of the daemon process, from `anvil core start` to the end of   *)
(* its shutdown (cli/commands/core.py, CoreApp.run in core/app.py), with   *)
(* what the order of these steps is for: the MCP servers, the port and its *)
(* connections, the trace writer, and the runs that `anvil run` clients    *)
(* wait for (cli/commands/run.py).                                         *)
(*                                                                         *)
(* Several daemons and CLI commands may exist at once; they share the port *)
(* and the pid file.  Inside a daemon the steps between two awaits are one *)
(* action.                                                                 *)
(***************************************************************************)
EXTENDS Naturals

CONSTANTS
    MaxDaemons,   \* bound on daemon processes
    MaxCommands,  \* bound on `anvil core start` and `anvil core stop` commands
    MaxClients    \* bound on `anvil run` processes

ASSUME DaemonAssumption == {MaxDaemons, MaxCommands, MaxClients} \subseteq Nat

\* Each kind is numbered in the order in which its processes begin.
Daemons == 1..MaxDaemons
Commands == 1..MaxCommands
Clients == 1..MaxClients
Nobody == 0

VARIABLES
    pidFile,  \* the process that ~/.anvil/anvil-core.pid names
    port,     \* the daemon that listens
    cmd,      \* the CLI commands: where they are and the pid they hold
    raced,    \* history: commands overlapped, or a daemon was started while one booted
    phase,    \* where CoreApp.run is
    term,     \* daemons with their shutdown event set
    mcp,      \* the MCP servers of a daemon: not started, started, closed again, or
              \* one of them waited for, because it does not read what is left for it
    drain,    \* the task of the trace writer
    backlog,  \* daemons with records in the trace queue
    client,   \* the `anvil run` processes
    run,      \* their runs: where they are, in which daemon, and how they were met
    stalled   \* clients that have stopped reading, and whose connection the daemon has

cliVars == <<pidFile, cmd, raced>>
runVars == <<client, run, stalled>>
procVars == <<port, phase, term, mcp>>
traceVars == <<drain, backlog>>
vars == <<cliVars, procVars, traceVars, runVars>>

Booting == {"connect", "bind"}
Stopping == {"gather", "close", "stop", "join", "joined", "cancel"}
Phases == {"none", "serve", "exited"} \cup Booting \cup Stopping

TypeOK ==
    /\ {pidFile, port} \subseteq Daemons \cup {Nobody}
    /\ cmd \in [Commands -> [at : {"idle", "spawn", "write", "kill", "unlink", "done"},
                             pid : Daemons \cup {Nobody}]]
    /\ raced \in BOOLEAN
    /\ phase \in [Daemons -> Phases]
    /\ \A d \in Daemons : port = d => phase[d] \in {"serve", "gather", "close", "stop"}
    /\ term \subseteq {d \in Daemons : phase[d] \in {"serve"} \cup Stopping}
    /\ mcp \in [Daemons -> {"none", "open", "stuck", "closed"}]
    /\ drain \in [Daemons -> {"off", "up", "dead"}]
    /\ backlog \subseteq Daemons
    /\ client \in [Clients -> {"out", "joined", "heard", "waiting", "gone", "lost"}]
    /\ run \in [Clients -> [at : {"none", "created", "model", "finish", "over"},
                            in : Daemons \cup {Nobody},
                            met : {"", "late", "cut", "failed"}]]
    /\ stalled \subseteq Clients

Init ==
    /\ pidFile = Nobody /\ port = Nobody
    /\ cmd = [k \in Commands |-> [at |-> "idle", pid |-> Nobody]]
    /\ raced = FALSE
    /\ phase = [d \in Daemons |-> "none"]
    /\ term = {}
    /\ mcp = [d \in Daemons |-> "none"]
    /\ drain = [d \in Daemons |-> "off"]
    /\ backlog = {}
    /\ client = [c \in Clients |-> "out"]
    /\ run = [c \in Clients |-> [at |-> "none", in |-> Nobody, met |-> ""]]
    /\ stalled = {}
-----------------------------------------------------------------------------
(* The CLI commands.                                                       *)

Step(k, at, pid) == cmd' = [cmd EXCEPT ![k] = [at |-> at, pid |-> pid]]

\* k is the next command that somebody types.
Typed(k) == cmd[k].at = "idle" /\ \A j \in 1..k - 1 : cmd[j].at # "idle"

Active(k) == cmd[k].at \notin {"idle", "done"}
Quiet == \A k \in Commands : ~Active(k)
BootsNow == \E d \in Daemons : phase[d] \in Booting

\* Mutant of Start: the daemon is not asked first.
StartUnasked(k) ==
    /\ Typed(k)
    /\ Step(k, "spawn", Nobody)
    /\ raced' = (raced \/ ~Quiet \/ BootsNow)
    /\ UNCHANGED <<pidFile, procVars, traceVars, runVars>>

\* start, with a connection that tells whether a daemon listens.
Start(k) ==
    /\ Typed(k)
    /\ Step(k, IF port = Nobody THEN "spawn" ELSE "done", Nobody)
    /\ raced' = (raced \/ ~Quiet \/ BootsNow)
    /\ UNCHANGED <<pidFile, procVars, traceVars, runVars>>

\* The new process reads its configuration and starts the trace writer.
Spawn(k) ==
    /\ cmd[k].at = "spawn"
    /\ \E d \in Daemons :
          /\ phase[d] = "none" /\ \A e \in 1..d - 1 : phase[e] # "none"
          /\ phase' = [phase EXCEPT ![d] = "connect"]
          /\ drain' = [drain EXCEPT ![d] = "up"]
          /\ Step(k, "write", d)
    /\ UNCHANGED <<pidFile, raced, port, term, mcp, backlog, runVars>>

WritePid(k) ==
    /\ cmd[k].at = "write"
    /\ pidFile' = cmd[k].pid
    /\ Step(k, "done", Nobody)
    /\ UNCHANGED <<raced, procVars, traceVars, runVars>>

\* stop, up to the question whether the process in the file is alive.
Stop(k) ==
    /\ Typed(k)
    /\ IF pidFile = Nobody THEN Step(k, "done", Nobody)
       ELSE IF phase[pidFile] = "exited" THEN Step(k, "unlink", Nobody)
       ELSE Step(k, "kill", pidFile)
    /\ raced' = (raced \/ ~Quiet)
    /\ UNCHANGED <<pidFile, procVars, traceVars, runVars>>

Enter(d, p) == phase' = [phase EXCEPT ![d] = p]

\* The process ends, and what it held with it.
Gone(d) ==
    /\ Enter(d, "exited")
    /\ mcp' = [mcp EXCEPT ![d] = "none"]
    /\ drain' = [drain EXCEPT ![d] = "off"]
    /\ term' = term \ {d}
    /\ UNCHANGED port

\* SIGTERM ends a process that has not installed its handlers, and sets the event
\* of one that has.  For one that is gone the command raises and keeps the file.
Kill(k) ==
    /\ cmd[k].at = "kill"
    /\ LET d == cmd[k].pid
       IN  /\ \/ phase[d] \in Booting /\ Gone(d)
              \/ /\ phase[d] \notin Booting
                 /\ term' = term \cup ({d} \ {e \in Daemons : phase[e] = "exited"})
                 /\ UNCHANGED <<port, phase, mcp, drain>>
           /\ Step(k, IF phase[d] = "exited" THEN "done" ELSE "unlink", Nobody)
    /\ UNCHANGED <<pidFile, raced, backlog, runVars>>

Unlink(k) ==
    /\ cmd[k].at = "unlink"
    /\ pidFile' = Nobody
    /\ Step(k, "done", Nobody)
    /\ UNCHANGED <<raced, procVars, traceVars, runVars>>
-----------------------------------------------------------------------------
(* The daemon until it serves.                                             *)

\* start_all connects to every server and lists its tools.  It skips one that fails;
\* if that fails once it is connected, its process is left to itself.  Then
\* SocketServer.start asks for a daemon on the port.
StartServers(d) ==
    /\ phase[d] = "connect"
    /\ IF port # Nobody THEN Gone(d)
       ELSE /\ mcp' = [mcp EXCEPT ![d] = "open"]
            /\ Enter(d, "bind")
            /\ UNCHANGED <<port, term, drain>>
    /\ UNCHANGED <<cliVars, backlog, runVars>>

\* The signal handlers are installed in the same step.
Bind(d) ==
    /\ phase[d] = "bind"
    /\ IF port # Nobody THEN Gone(d)
       ELSE Enter(d, "serve") /\ port' = d /\ UNCHANGED <<term, mcp, drain>>
    /\ UNCHANGED <<cliVars, backlog, runVars>>

\* The configuration, an API key that is missing, or the port ends the process.
BootFails(d) ==
    /\ phase[d] \in Booting
    /\ Gone(d)
    /\ UNCHANGED <<cliVars, backlog, runVars>>
-----------------------------------------------------------------------------
(* Runs and the clients that wait for them.                                *)

Live(c) == run[c].at \in {"created", "model", "finish"}
Connected(c) == client[c] \in {"joined", "heard", "waiting"}
Emit(d) == backlog' = backlog \cup {d}

\* A client of d holds up publish when its buffers are full, also when its
\* connection is being closed and waits for them to be read.
Blocked(d) == \E c \in stalled : run[c].in = d

\* `anvil run` connects and subscribes to the events of all runs.
Join(c) ==
    /\ client[c] = "out" /\ \A b \in 1..c - 1 : client[b] # "out"
    /\ port # Nobody
    /\ client' = [client EXCEPT ![c] = "joined"]
    /\ run' = [run EXCEPT ![c].in = port]
    /\ Emit(port)
    /\ UNCHANGED <<cliVars, procVars, drain, stalled>>

\* agent.run: the task is created and tracked, whatever the daemon is doing.
AgentRun(c) ==
    LET d == run[c].in
    IN  /\ client[c] \in {"joined", "heard"}
        /\ client' = [client EXCEPT ![c] = IF @ = "heard" THEN "gone" ELSE "waiting"]
        /\ run' = [run EXCEPT ![c].at = "created",
                              ![c].met = IF phase[d] = "serve" THEN "" ELSE "late"]
        /\ stalled' = {b \in stalled : b = c => client[c] = "joined"}
        /\ Emit(d)
        /\ UNCHANGED <<cliVars, procVars, drain>>

Advance(c, from, to) ==
    /\ run[c].at = from
    /\ run' = [run EXCEPT ![c].at = to]
    /\ Emit(run[c].in)
    /\ UNCHANGED <<cliVars, procVars, drain, client, stalled>>

\* send_message up to the publication of run.started and the first request.
RunStarts(c) == ~Blocked(run[c].in) /\ Advance(c, "created", "model")

\* An exception before run.started, on a message "/" or a file that cannot be written,
\* ends the task.  agent.run has replied, and nobody looks at the result.
StartFails(c) ==
    /\ run[c].at = "created"
    /\ run' = [run EXCEPT ![c].at = "over", ![c].met = "failed"]
    /\ Emit(run[c].in) \/ UNCHANGED backlog
    /\ UNCHANGED <<cliVars, procVars, drain, client, stalled>>

\* TracingProvider.chat wrote a record before the call, and writes one after it; the
\* run goes on with its next step.
ModelAnswers(c) == ~Blocked(run[c].in) /\ Advance(c, "model", "model")

\* The run has ended, and a client holds up run.finished.
HeldUp(c) == Blocked(run[c].in) /\ Advance(c, "model", "finish")

\* What a client does with run.finished of any run: it is done once it has its reply.
Hear(who) ==
    /\ client' = [c \in Clients |-> IF c \notin who THEN client[c]
                                    ELSE IF client[c] = "joined" THEN "heard"
                                    ELSE IF client[c] = "waiting" THEN "gone"
                                    ELSE client[c]]
    /\ UNCHANGED stalled

ClientsOf(d) == {c \in Clients : Connected(c) /\ run[c].in = d}

Over(c) == [run[c] EXCEPT !.at = "over", !.in = Nobody]

\* run.finished reaches every client, and the run is over.
Finish(c) ==
    LET d == run[c].in
    IN  /\ ~Blocked(d)
        /\ Hear(ClientsOf(d))
        /\ run' = [run EXCEPT ![c] = Over(c)]
        /\ Emit(d)
        /\ UNCHANGED <<cliVars, procVars, drain>>

EndRun(c) == run[c].at = "model" /\ Finish(c)

\* ... after it was held up, or because the run was cancelled.
Finished(c) == run[c].at = "finish" /\ Finish(c)

\* A client's process is stopped or slow, and goes on.
Stall(c) ==
    /\ Connected(c)
    /\ stalled' = stalled \cup {c}
    /\ UNCHANGED <<cliVars, procVars, traceVars, client, run>>

ReadAgain(c) ==
    /\ c \in stalled
    /\ stalled' = stalled \ {c}
    /\ UNCHANGED <<cliVars, procVars, traceVars, client, run>>
-----------------------------------------------------------------------------
(* The trace writer.                                                       *)

\* The queue is empty for a moment, and a join that waits for it returns.
Emptied(d) ==
    /\ backlog' = backlog \ {d}
    /\ phase' = [phase EXCEPT ![d] = IF @ = "join" THEN "joined" ELSE @]

DrainWrites(d) ==
    /\ drain[d] = "up" /\ d \in backlog
    /\ Emptied(d)
    /\ UNCHANGED <<cliVars, port, term, mcp, drain, runVars>>

\* A record cannot be serialised or written: the task ends, and no other takes the
\* records behind it.
DrainDies(d) ==
    /\ drain[d] = "up" /\ d \in backlog
    /\ drain' = [drain EXCEPT ![d] = "dead"]
    /\ Emptied(d) \/ UNCHANGED <<backlog, phase>>
    /\ UNCHANGED <<cliVars, port, term, mcp, runVars>>
-----------------------------------------------------------------------------
(* The shutdown.                                                           *)

Tracked(d) == {c \in Clients : Live(c) /\ run[c].in = d}

\* Mutant of Shutdown: the runner does not catch the cancellation.
ShutdownUncaught(d) ==
    /\ phase[d] = "serve" /\ d \in term
    /\ Enter(d, "gather")
    /\ run' = [c \in Clients |-> IF c \in Tracked(d) THEN [run[c] EXCEPT !.at = "over"]
                                 ELSE run[c]]
    /\ \E who \in SUBSET (ClientsOf(d) \ stalled) :
          /\ (\A c \in Tracked(d) : run[c].at # "finish") => who = {}
          /\ Hear(who)
    /\ backlog' = IF Tracked(d) = {} THEN backlog ELSE backlog \cup {d}
    /\ UNCHANGED <<cliVars, port, term, mcp, drain>>

\* The event is set: every tracked run is cancelled, once.  A run that has begun
\* publishes run.finished; one that has not, or whose run.finished was held up by
\* a client, ends at once and in silence.
Shutdown(d) ==
    /\ phase[d] = "serve" /\ d \in term
    /\ Enter(d, "gather")
    /\ run' = [c \in Clients |->
                 IF c \notin Tracked(d) THEN run[c]
                 ELSE IF run[c].at = "model" THEN [run[c] EXCEPT !.at = "finish"]
                 ELSE [run[c] EXCEPT !.at = "over", !.met = "cut"]]
    /\ \E who \in SUBSET (ClientsOf(d) \ stalled) :
          /\ (\A c \in Tracked(d) : run[c].at # "finish") => who = {}
          /\ Hear(who)
    /\ backlog' = IF Tracked(d) = {} THEN backlog ELSE backlog \cup {d}
    /\ UNCHANGED <<cliVars, port, term, mcp, drain>>

\* Mutant of CloseServers: the cancelled runs are not awaited.
CloseServersAtOnce(d) ==
    /\ phase[d] = "gather"
    /\ \E m \in {"stuck", "closed"} : mcp' = [mcp EXCEPT ![d] = m]
    /\ Enter(d, "close")
    /\ UNCHANGED <<cliVars, port, term, traceVars, runVars>>

\* Mutant of CloseServers: runs that came later are awaited too.
CloseServersWhenIdle(d) ==
    /\ phase[d] = "gather"
    /\ Tracked(d) = {}
    /\ \E m \in {"stuck", "closed"} : mcp' = [mcp EXCEPT ![d] = m]
    /\ Enter(d, "close")
    /\ UNCHANGED <<cliVars, port, term, traceVars, runVars>>

\* gather ends with the runs it was given, not with those that came after, and
\* stop_all closes the servers whose tools were listed.  It waits, without limit, for
\* one behind a TCP connection to read what is still unsent.
CloseServers(d) ==
    /\ phase[d] = "gather"
    /\ \A c \in Tracked(d) : run[c].met = "late"
    /\ \E m \in {"stuck", "closed"} : mcp' = [mcp EXCEPT ![d] = m]
    /\ Enter(d, "close")
    /\ UNCHANGED <<cliVars, port, term, traceVars, runVars>>

\* That server reads, or goes away.
ServerReads(d) ==
    /\ mcp[d] = "stuck"
    /\ mcp' = [mcp EXCEPT ![d] = "closed"]
    /\ UNCHANGED <<cliVars, port, phase, term, traceVars, runVars>>

\* stop_all returns.
ServersClosed(d) ==
    /\ phase[d] = "close" /\ mcp[d] = "closed"
    /\ Enter(d, "stop")
    /\ UNCHANGED <<cliVars, port, term, mcp, traceVars, runVars>>

\* Mutant of StopServer: only the connections are closed.
StopServerListening(d) ==
    /\ phase[d] = "stop"
    /\ client' = [c \in Clients |-> IF c \notin ClientsOf(d) THEN client[c]
                                    ELSE IF client[c] = "waiting" THEN "lost" ELSE "gone"]
    /\ Enter(d, IF d \in backlog THEN "join" ELSE "joined")
    /\ UNCHANGED <<cliVars, port, term, mcp, traceVars, run, stalled>>

\* The connections are closed and the port is given up; stop of the trace writer
\* waits for its queue.  A client that has no reply yet raises; one that waits for
\* run.finished waits for ever.  The connection of one that does not read stays
\* subscribed until its buffers are empty.
StopServer(d) ==
    /\ phase[d] = "stop"
    /\ port' = Nobody
    /\ client' = [c \in Clients |-> IF c \notin ClientsOf(d) THEN client[c]
                                    ELSE IF client[c] = "waiting" THEN "lost" ELSE "gone"]
    /\ Enter(d, IF d \in backlog THEN "join" ELSE "joined")
    /\ UNCHANGED <<cliVars, term, mcp, traceVars, run, stalled>>

\* TraceWriter.stop, once the queue has been empty, ends its task.  asyncio.run then
\* cancels what is left: late runs, as Shutdown does with the others, and the tasks
\* of connections, some of which drop their subscription before a run publishes.
CancelRest(d) ==
    /\ phase[d] = "joined"
    /\ Enter(d, "cancel")
    /\ drain' = [drain EXCEPT ![d] = "off"]
    /\ run' = [c \in Clients |->
                 IF c \notin Tracked(d) THEN run[c]
                 ELSE [run[c] EXCEPT !.at = IF @ = "model" THEN "finish" ELSE "over"]]
    /\ \E out \in SUBSET {c \in stalled : run[c].in = d} : stalled' = stalled \ out
    /\ UNCHANGED <<cliVars, port, term, mcp, backlog, client>>

\* asyncio.run waits for what it cancelled, and the process ends.
Exit(d) ==
    /\ phase[d] = "cancel"
    /\ Tracked(d) = {}
    /\ stalled' = {c \in stalled : run[c].in # d}
    /\ backlog' = backlog \ {d}
    /\ Gone(d)
    /\ UNCHANGED <<cliVars, client, run>>

Boot(d) == StartServers(d) \/ Bind(d) \/ BootFails(d)
ShutDown(d) ==
    \/ Shutdown(d) \/ CloseServers(d) \/ ServersClosed(d)
    \/ StopServer(d) \/ CancelRest(d) \/ Exit(d)

Next ==
    \/ \E k \in Commands : \/ Start(k) \/ Spawn(k) \/ WritePid(k)
                           \/ Stop(k) \/ Kill(k) \/ Unlink(k)
    \/ \E d \in Daemons : \/ Boot(d) \/ ShutDown(d) \/ ServerReads(d)
                          \/ DrainWrites(d) \/ DrainDies(d)
    \/ \E c \in Clients : \/ Join(c) \/ AgentRun(c)
                          \/ RunStarts(c) \/ StartFails(c)
                          \/ ModelAnswers(c) \/ EndRun(c)
                          \/ HeldUp(c) \/ Finished(c)
                          \/ Stall(c) \/ ReadAgain(c)

Fairness ==
    /\ \A d \in Daemons : WF_vars(ShutDown(d)) /\ WF_vars(DrainWrites(d))
    /\ \A c \in Clients : WF_vars(Finished(c))

Spec == Init /\ [][Next]_vars /\ Fairness
-----------------------------------------------------------------------------
(* Properties.                                                             *)

\* When no command is under way, and none overlapped with another or met a daemon
\* that was booting, the daemon that serves is the one `anvil core stop` will find.
PidNamesServing ==
    Quiet /\ ~raced =>
        \A d \in Daemons : phase[d] = "serve" /\ d \notin term => pidFile = d

\* Whatever the shutdown does, a run it was to wait for still has its MCP servers,
\* the connection its client listens on and the trace.
OldRunsEndFirst ==
    \A c \in Clients : Live(c) /\ run[c].met # "late" =>
        /\ mcp[run[c].in] \notin {"stuck", "closed"}
        /\ port = run[c].in
        /\ drain[run[c].in] # "off"

\* A client waits for a run that lives, unless the run was cut off before it could
\* publish run.finished or had failed before run.started.  Of the clients of a daemon
\* that shuts down only those, and the ones whose run came too late, are left to wait
\* for ever.
ClientsTold ==
    \A c \in Clients :
        /\ client[c] = "waiting" => Live(c) \/ run[c].met \in {"cut", "failed"}
        /\ client[c] = "lost" => run[c].met \in {"late", "cut", "failed"}

\* A daemon that is told to stop does: no run, late command or backlog holds it, unless
\* clients keep holding up its events, an MCP server never reads what was sent to it, or
\* its trace writer has died.
StopEnds ==
    <>[](stalled = {} /\ \A d \in Daemons : mcp[d] # "stuck") =>
        \A d \in Daemons : (d \in term) ~> (phase[d] = "exited" \/ drain[d] = "dead")
=============================================================================
