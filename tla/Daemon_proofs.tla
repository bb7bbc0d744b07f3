----------------------------- MODULE Daemon_proofs -----------------------------
(***************************************************************************)
(* Theorems about Daemon for every number of daemons, commands and         *)
(* clients.  The inductive invariant has three parts, after the variables  *)
(* they are about: the processes, the commands and the runs.               *)
(***************************************************************************)
EXTENDS Daemon, TLAPS

CmdRecords == [at : {"idle", "spawn", "write", "kill", "unlink", "done"},
               pid : Daemons \cup {Nobody}]
RunRecords == [at : {"none", "created", "model", "finish", "over"},
               in : Daemons \cup {Nobody},
               met : {"", "late", "cut", "failed"}]

ProcType ==
    /\ port \in Daemons \cup {Nobody}
    /\ phase \in [Daemons -> Phases]
    /\ \A d \in Daemons : port = d => phase[d] \in {"serve", "gather", "close", "stop"}
    /\ term \subseteq {d \in Daemons : phase[d] \in {"serve"} \cup Stopping}
    /\ mcp \in [Daemons -> {"none", "open", "stuck", "closed"}]
    /\ drain \in [Daemons -> {"off", "up", "dead"}]
    /\ backlog \subseteq Daemons

CliType ==
    /\ pidFile \in Daemons \cup {Nobody}
    /\ cmd \in [Commands -> CmdRecords]
    /\ raced \in BOOLEAN

RunType ==
    /\ client \in [Clients -> {"out", "joined", "heard", "waiting", "gone", "lost"}]
    /\ run \in [Clients -> RunRecords]
    /\ stalled \subseteq Clients

\* What a daemon has while it is in a phase.
Equipped ==
    \A d \in Daemons :
        /\ phase[d] \in {"serve", "gather", "close", "stop"} => port = d
        /\ phase[d] \in {"bind", "serve", "gather"} => mcp[d] \notin {"stuck", "closed"}
        /\ phase[d] \in {"none", "connect"} => mcp[d] = "none"
        /\ phase[d] \notin {"none", "cancel", "exited"} => drain[d] # "off"

ProcInv == ProcType /\ Equipped

\* A pid that a command or the file holds is that of a process that has begun.
Held ==
    /\ pidFile # Nobody => phase[pidFile] # "none"
    /\ \A k \in Commands : cmd[k].at \in {"write", "kill"} =>
          cmd[k].pid # Nobody /\ phase[cmd[k].pid] # "none"

\* A daemon that boots or serves and is not told to stop.
Up(d) == phase[d] \in Booting \cup {"serve"} /\ d \notin term

\* The commands know of the daemon that is up.
Known(d) ==
    /\ \A k \in Commands :
          /\ cmd[k].at \notin {"spawn", "unlink"}
          /\ cmd[k].at \in {"write", "kill"} => cmd[k].pid = d
    /\ (\A k \in Commands : cmd[k].at # "write") => pidFile = d

\* Commands that do not race are alone.
Alone ==
    ~raced =>
        /\ \A j, k \in Commands : Active(j) /\ Active(k) => j = k
        /\ \A d \in Daemons : Up(d) => Known(d)

CliInv == CliType /\ Held /\ Alone

\* A connection leads to the daemon that listens, and its client has at most one
\* run, which belongs to that daemon.
Linked(c) ==
    /\ Connected(c) => run[c].in # Nobody /\ run[c].in = port
    /\ client[c] \in {"out", "joined", "heard"} => run[c].at = "none"
    /\ Live(c) => run[c].in # Nobody

\* A run that is not late is over before its daemon closes the servers, and a client
\* waits for a run that lives, unless it was cut off or failed too early to tell.
Awaited(c) ==
    /\ Live(c) /\ run[c].met # "late" => phase[run[c].in] \in {"serve", "gather"}
    /\ client[c] = "waiting" => Live(c) \/ run[c].met \in {"cut", "failed"}
    /\ client[c] = "lost" => run[c].met \in {"late", "cut", "failed"}

RunInv == RunType /\ \A c \in Clients : Linked(c) /\ Awaited(c)

IInv == ProcInv /\ CliInv /\ RunInv

LEMMA Types == TypeOK <=> ProcType /\ CliType /\ RunType
BY DEF TypeOK, ProcType, CliType, RunType, CmdRecords, RunRecords

\* No daemon is Nobody.
LEMMA SomeDaemon == /\ \A d \in Daemons : d # Nobody
                    /\ Booting \cap ({"none", "serve", "exited"} \cup Stopping) = {}
                    /\ Booting \cup Stopping \cup {"none", "serve", "exited"} = Phases
BY DaemonAssumption DEF Daemons, Nobody, Booting, Stopping, Phases
-----------------------------------------------------------------------------
(* Steps that leave a part alone.                                          *)

LEMMA ProcKept ==
    ASSUME ProcInv, UNCHANGED <<procVars, drain>>, backlog' \subseteq Daemons
    PROVE  ProcInv'
BY DEF ProcInv, ProcType, Equipped, procVars

\* Other steps never forget a process, and bring none up.
LEMMA CliKept ==
    ASSUME CliInv, UNCHANGED cliVars,
           \A d \in Daemons : phase[d] # "none" => phase'[d] # "none",
           \A d \in Daemons : Up(d)' => Up(d)
    PROVE  CliInv'
<1>1. cmd' = cmd /\ pidFile' = pidFile /\ raced' = raced
  BY DEF cliVars
<1>2. CliType'
  BY <1>1 DEF CliInv, CliType
<1>3. Held'
  BY <1>1 DEF CliInv, CliType, Held, CmdRecords
<1>4. \A d \in Daemons : Known(d) => Known(d)'
  BY <1>1 DEF Known
<1>5. \A k \in Commands : Active(k)' <=> Active(k)
  BY <1>1 DEF Active
<1>6. Alone'
  BY <1>1, <1>4, <1>5 DEF CliInv, Alone
<1> QED BY <1>2, <1>3, <1>6 DEF CliInv

\* Clients and runs notice a new daemon only if there was none.
LEMMA RunKept ==
    ASSUME RunInv, UNCHANGED <<client, run>>, stalled' \subseteq Clients,
           port' = port \/ port = Nobody,
           \A c \in Clients : Live(c) /\ run[c].met # "late" =>
               phase'[run[c].in] \in {"serve", "gather"}
    PROVE  RunInv'
<1>1. RunType'
  BY DEF RunInv, RunType
<1>2. ASSUME NEW c \in Clients PROVE Linked(c)' /\ Awaited(c)'
  <2>1. Linked(c) /\ Awaited(c)
    BY DEF RunInv
  <2>2. client'[c] = client[c] /\ run'[c] = run[c]
    OBVIOUS
  <2>3. (Live(c)' <=> Live(c)) /\ (Connected(c)' <=> Connected(c))
    BY DEF Live, Connected
  <2> QED BY <2>1, <2>2, <2>3 DEF Linked, Awaited
<1> QED BY <1>1, <1>2 DEF RunInv

\* A process that was not serving has no run that is not late.
LEMMA NotServing ==
    ASSUME RunInv, ProcType, NEW d \in Daemons, phase[d] \notin {"serve", "gather"},
           \A e \in Daemons : e # d => phase'[e] = phase[e]
    PROVE  \A c \in Clients : Live(c) /\ run[c].met # "late" =>
               phase'[run[c].in] \in {"serve", "gather"}
<1>1. ASSUME NEW c \in Clients, Live(c), run[c].met # "late"
      PROVE  phase'[run[c].in] \in {"serve", "gather"}
  <2>1. Linked(c) /\ Awaited(c) /\ run[c] \in RunRecords
    BY DEF RunInv, RunType
  <2>2. run[c].in \in Daemons
    BY <1>1, <2>1 DEF Linked, RunRecords
  <2> QED BY <1>1, <2>1, <2>2 DEF Awaited
<1> QED BY <1>1

\* No step but the start of a process changes the phase of more than one daemon.
LEMMA PhaseMoves ==
    ASSUME ProcType, NEW d \in Daemons, NEW p \in Phases, Enter(d, p)
    PROVE  /\ phase' \in [Daemons -> Phases] /\ phase'[d] = p
           /\ \A e \in Daemons : e # d => phase'[e] = phase[e]
BY DEF ProcType, Enter
-----------------------------------------------------------------------------
(* The steps of a daemon that do not touch the runs.                       *)

\* The process of a daemon that boots, or is done, ends.
LEMMA GoneProc ==
    ASSUME ProcInv, NEW d \in Daemons, phase[d] \in Booting \cup {"cancel"}, Gone(d),
           backlog' \subseteq Daemons
    PROVE  /\ ProcInv'
           /\ \A e \in Daemons : phase'[e] = IF e = d THEN "exited" ELSE phase[e]
           /\ \A e \in Daemons : Up(e)' => Up(e)
<1>1. /\ phase' \in [Daemons -> Phases] /\ phase'[d] = "exited"
      /\ \A e \in Daemons : e # d => phase'[e] = phase[e]
  BY PhaseMoves DEF ProcInv, Gone, Phases
<1>2. phase[d] \notin {"serve", "gather", "close", "stop", "exited"}
  BY DEF Booting
<1>3. /\ port' = port /\ term' = term \ {d}
      /\ mcp' = [mcp EXCEPT ![d] = "none"] /\ drain' = [drain EXCEPT ![d] = "off"]
  BY DEF Gone
<1>4. ProcType'
  BY <1>1, <1>2, <1>3 DEF ProcInv, ProcType
<1>5. Equipped'
  BY <1>1, <1>2, <1>3 DEF ProcInv, ProcType, Equipped
<1>6. \A e \in Daemons : Up(e)' => Up(e)
  BY <1>1, <1>3 DEF Up, Booting
<1> QED BY <1>1, <1>4, <1>5, <1>6 DEF ProcInv

LEMMA BootStep ==
    ASSUME IInv, NEW d \in Daemons, Boot(d)
    PROVE  IInv'
<1> USE DEF IInv
<1>1. /\ UNCHANGED <<cliVars, runVars>> /\ backlog' = backlog
      /\ phase[d] \in Booting /\ (port' = port \/ port = Nobody)
  BY DEF Boot, StartServers, Bind, BootFails, Gone, Booting
<1>2. /\ ProcInv'
      /\ \A e \in Daemons : e # d => phase'[e] = phase[e]
      /\ phase'[d] # "none"
      /\ \A e \in Daemons : Up(e)' => Up(e)
  <2>1. CASE Gone(d)
    BY <1>1, <2>1, GoneProc DEF ProcInv, ProcType
  <2>2. CASE ~Gone(d)
    <3>1. PICK p \in {"bind", "serve"} : Enter(d, p)
      BY <2>2 DEF Boot, StartServers, Bind, BootFails
    <3>2. /\ phase' \in [Daemons -> Phases] /\ phase'[d] = p
          /\ \A e \in Daemons : e # d => phase'[e] = phase[e]
      BY <3>1, PhaseMoves DEF ProcInv, Phases, Booting
    <3>3. /\ term' = term /\ drain' = drain
          /\ \/ phase[d] = "connect" /\ p = "bind" /\ port' = port
                /\ mcp' = [mcp EXCEPT ![d] = "open"]
             \/ phase[d] = "bind" /\ p = "serve" /\ port = Nobody /\ port' = d
                /\ mcp' = mcp
      <4>1. CASE StartServers(d)
        BY <2>2, <3>2, <4>1 DEF StartServers, Enter, ProcInv, ProcType
      <4>2. CASE Bind(d)
        BY <2>2, <3>2, <4>2 DEF Bind, Enter, ProcInv, ProcType
      <4> QED BY <2>2, <4>1, <4>2 DEF Boot, BootFails
    <3>4. ProcType'
      BY <1>1, <3>2, <3>3, SomeDaemon DEF ProcInv, ProcType
    <3>5. Equipped'
      BY <1>1, <3>2, <3>3, SomeDaemon DEF ProcInv, ProcType, Equipped, Booting
    <3>6. \A e \in Daemons : Up(e)' => Up(e)
      BY <1>1, <3>2, <3>3 DEF Up
    <3> QED BY <3>1, <3>2, <3>4, <3>5, <3>6 DEF ProcInv
  <2> QED BY <2>1, <2>2
<1>3. CliInv'
  BY <1>1, <1>2, CliKept
<1>4. RunInv'
  <2>1. phase[d] \notin {"serve", "gather"}
    BY <1>1 DEF Booting
  <2> QED BY <1>1, <1>2, <2>1, NotServing, RunKept DEF runVars, RunInv, RunType, ProcInv
<1> QED BY <1>2, <1>3, <1>4

LEMMA DrainStep ==
    ASSUME IInv, NEW d \in Daemons, DrainWrites(d) \/ DrainDies(d)
    PROVE  IInv'
<1> USE DEF IInv
<1>1. /\ UNCHANGED <<cliVars, runVars, port, term, mcp>> /\ backlog' \subseteq Daemons
      /\ drain' \in [Daemons -> {"off", "up", "dead"}]
      /\ \A e \in Daemons : drain[e] # "off" => drain'[e] # "off"
  BY DEF DrainWrites, DrainDies, Emptied, ProcInv, ProcType
<1>2. /\ phase' \in [Daemons -> Phases]
      /\ \A e \in Daemons : phase'[e] = phase[e] \/ (phase[e] = "join" /\ phase'[e] = "joined")
  <2>1. phase \in [Daemons -> Phases] /\ "joined" \in Phases
    BY DEF ProcInv, ProcType, Phases, Stopping
  <2>2. \/ phase' = phase
        \/ phase' = [phase EXCEPT ![d] = IF @ = "join" THEN "joined" ELSE @]
    BY DEF DrainWrites, DrainDies, Emptied
  <2> QED BY <2>1, <2>2
<1>3. ProcType'
  BY <1>1, <1>2 DEF ProcInv, ProcType, Stopping
<1>4. Equipped'
  BY <1>1, <1>2 DEF ProcInv, ProcType, Equipped
<1>5. \A e \in Daemons : (phase[e] # "none" => phase'[e] # "none") /\ (Up(e)' => Up(e))
  BY <1>1, <1>2 DEF Up, Booting
<1>6. CliInv'
  BY <1>1, <1>5, CliKept
<1>7. RunInv'
  <2>1. \A c \in Clients : Live(c) /\ run[c].met # "late" =>
            phase'[run[c].in] \in {"serve", "gather"}
    BY <1>2 DEF RunInv, RunType, RunRecords, Linked, Awaited
  <2> QED BY <1>1, <2>1, RunKept DEF runVars, RunInv, RunType
<1> QED BY <1>3, <1>4, <1>6, <1>7 DEF ProcInv

LEMMA CloseServersStep ==
    ASSUME IInv, NEW d \in Daemons, CloseServers(d)
    PROVE  IInv'
<1> USE DEF IInv
<1>1. /\ UNCHANGED <<cliVars, port, term, traceVars, runVars>> /\ phase[d] = "gather"
      /\ \A c \in Tracked(d) : run[c].met = "late"
      /\ mcp' \in [Daemons -> {"none", "open", "stuck", "closed"}]
      /\ \A e \in Daemons : e # d => mcp'[e] = mcp[e]
  BY DEF CloseServers, ProcInv, ProcType
<1>2. /\ phase' \in [Daemons -> Phases] /\ phase'[d] = "close"
      /\ \A e \in Daemons : e # d => phase'[e] = phase[e]
  BY PhaseMoves DEF CloseServers, ProcInv, Phases, Stopping
<1>3. ProcType'
  BY <1>1, <1>2 DEF ProcInv, ProcType, Stopping, traceVars
<1>4. Equipped'
  BY <1>1, <1>2 DEF ProcInv, ProcType, Equipped, traceVars
<1>5. \A e \in Daemons : (phase[e] # "none" => phase'[e] # "none") /\ (Up(e)' => Up(e))
  BY <1>1, <1>2 DEF Up, Booting
<1>6. CliInv'
  BY <1>1, <1>5, CliKept
<1>7. RunInv'
  <2>1. \A c \in Clients : Live(c) /\ run[c].met # "late" =>
            phase'[run[c].in] \in {"serve", "gather"}
    BY <1>1, <1>2 DEF RunInv, RunType, RunRecords, Linked, Awaited, Tracked
  <2> QED BY <1>1, <2>1, RunKept DEF runVars, RunInv, RunType
<1> QED BY <1>3, <1>4, <1>6, <1>7 DEF ProcInv

LEMMA ServerReadsStep ==
    ASSUME IInv, NEW d \in Daemons, ServerReads(d)
    PROVE  IInv'
<1> USE DEF IInv
<1>1. /\ UNCHANGED <<cliVars, port, phase, term, traceVars, runVars>> /\ mcp[d] = "stuck"
      /\ mcp' = [mcp EXCEPT ![d] = "closed"]
  BY DEF ServerReads
<1>2. ProcInv'
  BY <1>1 DEF ProcInv, ProcType, Equipped, traceVars
<1>3. CliInv'
  BY <1>1, CliKept DEF Up
<1>4. RunInv'
  <2>1. \A c \in Clients : Live(c) /\ run[c].met # "late" =>
            phase'[run[c].in] \in {"serve", "gather"}
    BY <1>1 DEF RunInv, Awaited
  <2> QED BY <1>1, <2>1, RunKept DEF runVars, RunInv, RunType
<1> QED BY <1>2, <1>3, <1>4

LEMMA ServersClosedStep ==
    ASSUME IInv, NEW d \in Daemons, ServersClosed(d)
    PROVE  IInv'
<1> USE DEF IInv
<1>1. /\ UNCHANGED <<cliVars, port, term, mcp, traceVars, runVars>> /\ phase[d] = "close"
  BY DEF ServersClosed
<1>2. /\ phase' \in [Daemons -> Phases] /\ phase'[d] = "stop"
      /\ \A e \in Daemons : e # d => phase'[e] = phase[e]
  BY PhaseMoves DEF ServersClosed, ProcInv, Phases, Stopping
<1>3. ProcInv'
  BY <1>1, <1>2 DEF ProcInv, ProcType, Equipped, Stopping, traceVars
<1>4. \A e \in Daemons : (phase[e] # "none" => phase'[e] # "none") /\ (Up(e)' => Up(e))
  BY <1>1, <1>2 DEF Up, Booting
<1>5. CliInv'
  BY <1>1, <1>4, CliKept
<1>6. RunInv'
  BY <1>1, <1>2, NotServing, RunKept DEF runVars, RunInv, RunType, ProcInv
<1> QED BY <1>3, <1>5, <1>6
-----------------------------------------------------------------------------
(* The commands.                                                           *)

\* What a step does to the record of its command.
LEMMA CmdMoves ==
    ASSUME CliType, NEW k \in Commands,
           NEW at \in {"idle", "spawn", "write", "kill", "unlink", "done"},
           NEW pid \in Daemons \cup {Nobody}, Step(k, at, pid)
    PROVE  /\ cmd' \in [Commands -> CmdRecords]
           /\ cmd'[k].at = at /\ cmd'[k].pid = pid
           /\ \A j \in Commands : j # k => cmd'[j] = cmd[j]
<1>1. [at |-> at, pid |-> pid] \in CmdRecords
  BY DEF CmdRecords
<1> QED BY <1>1 DEF CliType, Step

\* A command that does not race is the only one before and after its step.
LEMMA OthersRest ==
    ASSUME CliInv, ~raced', NEW k \in Commands,
           \/ ~raced /\ Active(k)
           \/ Quiet /\ ~raced,
           \A j \in Commands : j # k => cmd'[j] = cmd[j]
    PROVE  /\ \A j \in Commands : j # k => ~Active(j) /\ ~Active(j)'
           /\ \A i, j \in Commands : Active(i)' /\ Active(j)' => i = j
<1>1. \A j \in Commands : j # k => ~Active(j)
  BY DEF CliInv, Alone, Quiet
<1>2. \A j \in Commands : j # k => ~Active(j)'
  BY <1>1 DEF Active
<1> QED BY <1>1, <1>2

\* The part of the commands, for a step that leaves the daemons alone.
LEMMA CliStep ==
    ASSUME IInv, NEW k \in Commands,
           Start(k) \/ WritePid(k) \/ Stop(k) \/ Unlink(k)
    PROVE  CliInv'
<1> USE DEF IInv
<1>1. UNCHANGED <<procVars, traceVars, runVars>>
  BY DEF Start, WritePid, Stop, Unlink
<1>2. /\ phase' = phase /\ \A d \in Daemons : Up(d)' <=> Up(d)
  BY <1>1 DEF procVars, Up
<1>3. CliType
  BY DEF CliInv
<1>4. CASE Start(k)
  <2>1. /\ ~Active(k) /\ pidFile' = pidFile /\ raced' = (raced \/ ~Quiet \/ BootsNow)
        /\ Step(k, IF port = Nobody THEN "spawn" ELSE "done", Nobody)
    BY <1>4 DEF Start, Typed, Active
  <2>2. PICK at \in {"spawn", "done"} :
           Step(k, at, Nobody) /\ (at = "spawn" => port = Nobody)
    BY <2>1
  <2>3. /\ cmd' \in [Commands -> CmdRecords] /\ cmd'[k].at = at
        /\ \A j \in Commands : j # k => cmd'[j] = cmd[j]
    BY <1>3, <2>2, CmdMoves
  <2>4. CliType'
    BY <1>3, <2>1, <2>3 DEF CliType
  <2>5. Held'
    BY <1>2, <2>1, <2>3 DEF CliInv, CliType, Held, CmdRecords
  <2>6. ASSUME ~raced' PROVE Alone'
    <3>1. ~raced /\ Quiet /\ ~BootsNow
      BY <1>3, <2>1, <2>6 DEF CliType
    <3>2. /\ \A j \in Commands : j # k => ~Active(j) /\ ~Active(j)'
          /\ \A i, j \in Commands : Active(i)' /\ Active(j)' => i = j
      BY <2>3, <2>6, <3>1, OthersRest
    <3>3. ASSUME NEW d \in Daemons, Up(d) PROVE Known(d)'
      <4>1. phase[d] = "serve" /\ port = d /\ port # Nobody
        BY <3>1, <3>3, SomeDaemon DEF Up, BootsNow, ProcInv, Equipped
      <4>2. at = "done" /\ pidFile = d
        BY <2>2, <3>1, <3>3, <4>1 DEF CliInv, Alone, Known, Quiet, Active
      <4> QED BY <2>1, <2>3, <3>2, <4>2 DEF Known, Active
    <3> QED BY <1>2, <3>2, <3>3 DEF Alone
  <2> QED BY <2>4, <2>5, <2>6 DEF CliInv, Alone
<1>5. CASE WritePid(k)
  <2>1. /\ Active(k) /\ cmd[k].at = "write" /\ pidFile' = cmd[k].pid /\ raced' = raced
        /\ Step(k, "done", Nobody)
    BY <1>5 DEF WritePid, Active
  <2>2. /\ cmd' \in [Commands -> CmdRecords] /\ cmd'[k].at = "done"
        /\ \A j \in Commands : j # k => cmd'[j] = cmd[j]
    BY <1>3, <2>1, CmdMoves
  <2>3. CliType'
    BY <1>3, <2>1, <2>2 DEF CliType, CmdRecords
  <2>4. Held'
    BY <1>2, <2>1, <2>2 DEF CliInv, CliType, Held, CmdRecords
  <2>5. ASSUME ~raced' PROVE Alone'
    <3>1. /\ \A j \in Commands : j # k => ~Active(j) /\ ~Active(j)'
          /\ \A i, j \in Commands : Active(i)' /\ Active(j)' => i = j
      BY <2>1, <2>2, <2>5, OthersRest
    <3>2. ASSUME NEW d \in Daemons, Up(d) PROVE Known(d)'
      <4>1. pidFile' = d
        BY <2>1, <2>5, <3>2 DEF CliInv, Alone, Known
      <4> QED BY <2>2, <3>1, <4>1 DEF Known, Active
    <3> QED BY <1>2, <3>1, <3>2 DEF Alone
  <2> QED BY <2>3, <2>4, <2>5 DEF CliInv, Alone
<1>6. CASE Stop(k)
  <2>1. /\ ~Active(k) /\ pidFile' = pidFile /\ raced' = (raced \/ ~Quiet)
    BY <1>6 DEF Stop, Typed, Active
  <2>2. PICK at \in {"done", "unlink", "kill"}, pid \in Daemons \cup {Nobody} :
           /\ Step(k, at, pid)
           /\ \/ at = "done" /\ pidFile = Nobody
              \/ at = "unlink" /\ pidFile # Nobody /\ phase[pidFile] = "exited"
              \/ at = "kill" /\ pid = pidFile /\ pidFile # Nobody
    BY <1>3, <1>6 DEF Stop, CliType
  <2>3. /\ cmd' \in [Commands -> CmdRecords] /\ cmd'[k].at = at /\ cmd'[k].pid = pid
        /\ \A j \in Commands : j # k => cmd'[j] = cmd[j]
    BY <1>3, <2>2, CmdMoves
  <2>4. CliType'
    BY <1>3, <2>1, <2>3 DEF CliType
  <2>5. Held'
    BY <1>2, <2>1, <2>2, <2>3 DEF CliInv, CliType, Held
  <2>6. ASSUME ~raced' PROVE Alone'
    <3>1. ~raced /\ Quiet
      BY <1>3, <2>1, <2>6 DEF CliType
    <3>2. /\ \A j \in Commands : j # k => ~Active(j) /\ ~Active(j)'
          /\ \A i, j \in Commands : Active(i)' /\ Active(j)' => i = j
      BY <2>3, <2>6, <3>1, OthersRest
    <3>3. ASSUME NEW d \in Daemons, Up(d) PROVE Known(d)'
      <4>1. pidFile = d /\ d # Nobody /\ phase[d] # "exited"
        BY <3>1, <3>3, SomeDaemon DEF CliInv, Alone, Known, Quiet, Active, Up, Booting
      <4>2. at = "kill" /\ pid = d
        BY <2>2, <4>1
      <4> QED BY <2>1, <2>3, <3>2, <4>1, <4>2 DEF Known, Active
    <3> QED BY <1>2, <3>2, <3>3 DEF Alone
  <2> QED BY <2>4, <2>5, <2>6 DEF CliInv, Alone
<1>7. CASE Unlink(k)
  <2>1. /\ Active(k) /\ cmd[k].at = "unlink" /\ pidFile' = Nobody /\ raced' = raced
        /\ Step(k, "done", Nobody)
    BY <1>7 DEF Unlink, Active
  <2>2. /\ cmd' \in [Commands -> CmdRecords] /\ cmd'[k].at = "done"
        /\ \A j \in Commands : j # k => cmd'[j] = cmd[j]
    BY <1>3, <2>1, CmdMoves
  <2>3. CliType'
    BY <1>3, <2>1, <2>2 DEF CliType
  <2>4. Held'
    BY <1>2, <2>1, <2>2 DEF CliInv, CliType, Held, CmdRecords
  <2>5. ASSUME ~raced' PROVE Alone'
    <3>1. /\ \A j \in Commands : j # k => ~Active(j) /\ ~Active(j)'
          /\ \A i, j \in Commands : Active(i)' /\ Active(j)' => i = j
      BY <2>1, <2>2, <2>5, OthersRest
    <3>2. \A d \in Daemons : ~Up(d)
      BY <2>1, <2>5 DEF CliInv, Alone, Known
    <3> QED BY <1>2, <3>1, <3>2 DEF Alone
  <2> QED BY <2>3, <2>4, <2>5 DEF CliInv, Alone
<1> QED BY <1>4, <1>5, <1>6, <1>7
-----------------------------------------------------------------------------
LEMMA SpawnStep ==
    ASSUME IInv, NEW k \in Commands, Spawn(k)
    PROVE  IInv'
<1> USE DEF IInv
<1>1. /\ Active(k) /\ cmd[k].at = "spawn" /\ pidFile' = pidFile /\ raced' = raced
      /\ UNCHANGED <<port, term, mcp, backlog, runVars>>
  BY DEF Spawn, Active
<1>2. PICK d \in Daemons :
         /\ phase[d] = "none"
         /\ phase' = [phase EXCEPT ![d] = "connect"]
         /\ drain' = [drain EXCEPT ![d] = "up"]
         /\ Step(k, "write", d)
  BY DEF Spawn
<1>3. /\ phase' \in [Daemons -> Phases] /\ phase'[d] = "connect"
      /\ \A e \in Daemons : e # d => phase'[e] = phase[e]
  BY <1>2, PhaseMoves DEF ProcInv, Enter, Phases, Booting
<1>4. /\ cmd' \in [Commands -> CmdRecords] /\ cmd'[k].at = "write" /\ cmd'[k].pid = d
      /\ \A j \in Commands : j # k => cmd'[j] = cmd[j]
  BY <1>2, CmdMoves DEF CliInv
<1>5. ProcInv'
  <2>1. ProcType'
    BY <1>1, <1>2, <1>3, SomeDaemon DEF ProcInv, ProcType, Stopping
  <2>2. Equipped'
    BY <1>1, <1>2, <1>3 DEF ProcInv, ProcType, Equipped
  <2> QED BY <2>1, <2>2 DEF ProcInv
<1>6. CliInv'
  <2>1. CliType'
    BY <1>1, <1>4 DEF CliInv, CliType
  <2>2. Held'
    BY <1>1, <1>3, <1>4, SomeDaemon DEF CliInv, CliType, Held, CmdRecords
  <2>3. ASSUME ~raced' PROVE Alone'
    <3>1. /\ \A j \in Commands : j # k => ~Active(j) /\ ~Active(j)'
          /\ \A i, j \in Commands : Active(i)' /\ Active(j)' => i = j
      BY <1>1, <1>4, <2>3, OthersRest
    <3>2. \A e \in Daemons : ~Up(e)
      BY <1>1, <2>3 DEF CliInv, Alone, Known
    <3>3. \A e \in Daemons : Up(e)' => e = d
      BY <1>1, <1>3, <3>2 DEF Up
    <3>4. Known(d)'
      BY <1>4, <3>1 DEF Known, Active
    <3> QED BY <3>1, <3>3, <3>4 DEF Alone
  <2> QED BY <2>1, <2>2, <2>3 DEF CliInv, Alone
<1>7. RunInv'
  <2>1. \A c \in Clients : Live(c) /\ run[c].met # "late" =>
            phase'[run[c].in] \in {"serve", "gather"}
    BY <1>2, <1>3, NotServing DEF ProcInv
  <2> QED BY <1>1, <2>1, RunKept DEF runVars, RunInv, RunType
<1> QED BY <1>5, <1>6, <1>7

LEMMA KillStep ==
    ASSUME IInv, NEW k \in Commands, Kill(k)
    PROVE  IInv'
<1> USE DEF IInv
<1>1. PICK d \in Daemons :
         cmd[k].at = "kill" /\ cmd[k].pid = d /\ phase[d] # "none"
  BY DEF Kill, CliInv, CliType, Held, CmdRecords
<1>2. /\ Active(k)
      /\ pidFile' = pidFile /\ raced' = raced /\ backlog' = backlog
      /\ UNCHANGED runVars
  BY <1>1 DEF Kill, Active
<1>3. PICK at \in {"done", "unlink"} : Step(k, at, Nobody)
  BY DEF Kill
<1>4. /\ cmd' \in [Commands -> CmdRecords] /\ cmd'[k].at = at
      /\ \A j \in Commands : j # k => cmd'[j] = cmd[j]
  BY <1>3, CmdMoves DEF CliInv
<1>5. /\ ProcInv'
      /\ port' = port
      /\ \A e \in Daemons : phase'[e] = phase[e] \/ (phase[e] \in Booting /\ phase'[e] = "exited")
      /\ \A e \in Daemons : Up(e)' => Up(e)
      /\ ~Up(d)'
  <2>1. CASE phase[d] \in Booting
    <3>1. Gone(d)
      BY <1>1, <2>1 DEF Kill
    <3>2. /\ ProcInv'
          /\ \A e \in Daemons : phase'[e] = IF e = d THEN "exited" ELSE phase[e]
          /\ \A e \in Daemons : Up(e)' => Up(e)
      BY <1>1, <1>2, <2>1, <3>1, GoneProc DEF ProcInv, ProcType
    <3>3. ~Up(d)'
      BY <1>1, <1>2, <3>2 DEF Up, Booting
    <3> QED BY <1>1, <1>2, <2>1, <3>1, <3>2, <3>3 DEF Gone
  <2>2. CASE phase[d] \notin Booting
    <3>1. /\ term' = term \cup ({d} \ {e \in Daemons : phase[e] = "exited"})
          /\ UNCHANGED <<port, phase, mcp, drain>>
      BY <1>1, <2>2 DEF Kill
    <3>2. phase[d] \in {"serve", "exited"} \cup Stopping
      BY <1>1, <1>2, <2>2 DEF ProcInv, ProcType, Phases
    <3>3. term' \subseteq {e \in Daemons : phase'[e] \in {"serve"} \cup Stopping}
      BY <1>1, <1>2, <3>1, <3>2 DEF ProcInv, ProcType
    <3>4. ProcInv'
      BY <1>1, <1>2, <3>1, <3>3 DEF ProcInv, ProcType, Equipped
    <3> QED BY <1>1, <1>2, <2>2, <3>1, <3>4 DEF Up
  <2> QED BY <2>1, <2>2
<1>6. CliInv'
  <2>1. CliType'
    BY <1>1, <1>2, <1>4 DEF CliInv, CliType
  <2>2. \A e \in Daemons : phase[e] # "none" => phase'[e] # "none"
    BY <1>5
  <2>3. Held'
    BY <1>1, <1>2, <1>4, <2>2 DEF CliInv, CliType, Held, CmdRecords
  <2>4. ASSUME ~raced' PROVE Alone'
    <3>1. /\ \A j \in Commands : j # k => ~Active(j) /\ ~Active(j)'
          /\ \A i, j \in Commands : Active(i)' /\ Active(j)' => i = j
      BY <1>1, <1>2, <1>4, <2>4, OthersRest
    <3>2. \A e \in Daemons : Up(e) => e = d
      BY <1>1, <1>2, <2>4 DEF CliInv, Alone, Known
    <3>3. \A e \in Daemons : ~Up(e)'
      BY <1>5, <3>2
    <3> QED BY <3>1, <3>3 DEF Alone
  <2> QED BY <2>1, <2>3, <2>4 DEF CliInv, Alone
<1>7. RunInv'
  <2>1. \A c \in Clients : Live(c) /\ run[c].met # "late" =>
            phase'[run[c].in] \in {"serve", "gather"}
    BY <1>5 DEF RunInv, RunType, RunRecords, Linked, Awaited, Booting
  <2> QED BY <1>1, <1>2, <1>5, <2>1, RunKept DEF runVars, RunInv, RunType
<1> QED BY <1>5, <1>6, <1>7

LEMMA CommandStep ==
    ASSUME IInv, NEW k \in Commands,
           Start(k) \/ WritePid(k) \/ Stop(k) \/ Unlink(k)
    PROVE  IInv'
<1> USE DEF IInv
<1>1. UNCHANGED <<procVars, traceVars, runVars>>
  BY DEF Start, WritePid, Stop, Unlink
<1>2. ProcInv'
  BY <1>1, ProcKept DEF traceVars, ProcInv, ProcType
<1>3. RunInv'
  <2>1. phase' = phase /\ port' = port
    BY <1>1 DEF procVars
  <2>2. \A c \in Clients : Live(c) /\ run[c].met # "late" =>
            phase'[run[c].in] \in {"serve", "gather"}
    BY <2>1 DEF RunInv, Awaited
  <2> QED BY <1>1, <2>1, <2>2, RunKept DEF runVars, RunInv, RunType
<1> QED BY <1>2, <1>3, CliStep
-----------------------------------------------------------------------------
(* The runs.                                                               *)

\* The step of a run or a client is none of a daemon or a command.
LEMMA OnlyRuns ==
    ASSUME IInv, UNCHANGED <<cliVars, procVars, drain>>, backlog' \subseteq Daemons, RunInv'
    PROVE  IInv'
<1>1. phase' = phase /\ term' = term
  BY DEF procVars
<1>2. ProcInv'
  BY ProcKept DEF IInv
<1>3. CliInv'
  BY <1>1, CliKept DEF IInv, Up
<1> QED BY <1>2, <1>3 DEF IInv

\* A run that is live is in a daemon.
LEMMA LiveIn ==
    ASSUME RunInv, NEW c \in Clients, Live(c)
    PROVE  /\ run[c] \in RunRecords /\ run[c].in \in Daemons
           /\ client[c] \in {"waiting", "gone", "lost"}
<1>1. run[c] \in RunRecords /\ Linked(c)
      /\ client[c] \in {"out", "joined", "heard", "waiting", "gone", "lost"}
  BY DEF RunInv, RunType
<1> QED BY <1>1 DEF Linked, RunRecords, Live

LEMMA JoinStep == ASSUME IInv, NEW c \in Clients, Join(c) PROVE IInv'
<1> USE DEF IInv
<1>1. /\ client[c] = "out" /\ port \in Daemons /\ port # Nobody
      /\ client' = [client EXCEPT ![c] = "joined"]
      /\ run' = [run EXCEPT ![c].in = port]
      /\ UNCHANGED <<cliVars, procVars, drain, stalled>>
      /\ backlog' \subseteq Daemons
  BY DEF Join, Emit, ProcInv, ProcType
<1>2. run \in [Clients -> RunRecords] /\ run[c] \in RunRecords
  BY DEF RunInv, RunType
<1>3. /\ run' \in [Clients -> RunRecords]
      /\ run'[c].in = port /\ run'[c].at = run[c].at /\ run'[c].met = run[c].met
      /\ \A b \in Clients : b # c => run'[b] = run[b]
  BY <1>1, <1>2 DEF RunRecords
<1>4. /\ client' \in [Clients -> {"out", "joined", "heard", "waiting", "gone", "lost"}]
      /\ client'[c] = "joined" /\ \A b \in Clients : b # c => client'[b] = client[b]
  BY <1>1 DEF RunInv, RunType
<1>5. phase' = phase /\ port' = port
  BY <1>1 DEF procVars
<1>6. ASSUME NEW b \in Clients PROVE Linked(b)' /\ Awaited(b)'
  <2>1. Linked(b) /\ Awaited(b)
    BY DEF RunInv
  <2>2. CASE b = c
    BY <1>1, <1>3, <1>4, <1>5, <2>1, <2>2 DEF Linked, Awaited, Live, Connected
  <2>3. CASE b # c
    BY <1>3, <1>4, <1>5, <2>1, <2>3 DEF Linked, Awaited, Live, Connected
  <2> QED BY <2>2, <2>3
<1>7. RunInv'
  BY <1>1, <1>3, <1>4, <1>6 DEF RunInv, RunType
<1> QED BY <1>1, <1>7, OnlyRuns

LEMMA AgentRunStep == ASSUME IInv, NEW c \in Clients, AgentRun(c) PROVE IInv'
<1> USE DEF IInv
<1>1. /\ client[c] \in {"joined", "heard"} /\ stalled' \subseteq stalled
      /\ UNCHANGED <<cliVars, procVars, drain>>
      /\ backlog' = backlog \cup {run[c].in}
  BY DEF AgentRun, Emit
<1>2. run[c] \in RunRecords /\ run \in [Clients -> RunRecords]
      /\ run[c].in # Nobody /\ run[c].in = port
  BY <1>1 DEF RunInv, RunType, Linked, Connected
<1>3. run[c].in \in Daemons
  BY <1>2 DEF RunRecords
<1>4. PICK m \in {"", "late"} :
         /\ run' = [run EXCEPT ![c].at = "created", ![c].met = m]
         /\ m = "" => phase[run[c].in] = "serve"
  BY DEF AgentRun
<1>5. /\ run' \in [Clients -> RunRecords]
      /\ run'[c].in = run[c].in /\ run'[c].at = "created" /\ run'[c].met = m
      /\ \A b \in Clients : b # c => run'[b] = run[b]
  BY <1>2, <1>4 DEF RunRecords
<1>6. /\ client' \in [Clients -> {"out", "joined", "heard", "waiting", "gone", "lost"}]
      /\ client'[c] \in {"waiting", "gone"}
      /\ \A b \in Clients : b # c => client'[b] = client[b]
  BY DEF AgentRun, RunInv, RunType
<1>7. phase' = phase /\ port' = port
  BY <1>1 DEF procVars
<1>8. ASSUME NEW b \in Clients PROVE Linked(b)' /\ Awaited(b)'
  <2>1. Linked(b) /\ Awaited(b)
    BY DEF RunInv
  <2>2. CASE b = c
    BY <1>2, <1>4, <1>5, <1>6, <1>7, <2>2 DEF Linked, Awaited, Live, Connected
  <2>3. CASE b # c
    BY <1>5, <1>6, <1>7, <2>1, <2>3 DEF Linked, Awaited, Live, Connected
  <2> QED BY <2>2, <2>3
<1>9. RunInv'
  BY <1>1, <1>5, <1>6, <1>8 DEF RunInv, RunType
<1> QED BY <1>1, <1>3, <1>9, OnlyRuns DEF ProcInv, ProcType

LEMMA AdvanceStep ==
    ASSUME IInv, NEW c \in Clients, RunStarts(c) \/ ModelAnswers(c) \/ HeldUp(c)
    PROVE  IInv'
<1> USE DEF IInv
<1>1. PICK from \in {"created", "model"}, to \in {"model", "finish"} : Advance(c, from, to)
  BY DEF RunStarts, ModelAnswers, HeldUp
<1>2. /\ Live(c) /\ run' = [run EXCEPT ![c].at = to]
      /\ backlog' = backlog \cup {run[c].in}
      /\ UNCHANGED <<cliVars, procVars, drain, client, stalled>>
  BY <1>1 DEF Advance, Emit, Live
<1>3. run[c] \in RunRecords /\ run[c].in \in Daemons /\ run \in [Clients -> RunRecords]
  BY <1>2, LiveIn DEF RunInv, RunType
<1>4. /\ run' \in [Clients -> RunRecords]
      /\ run'[c].in = run[c].in /\ run'[c].at = to /\ run'[c].met = run[c].met
      /\ \A b \in Clients : b # c => run'[b] = run[b]
  BY <1>2, <1>3 DEF RunRecords
<1>5. phase' = phase /\ port' = port /\ client' = client
  BY <1>2 DEF procVars
<1>6. ASSUME NEW b \in Clients PROVE Linked(b)' /\ Awaited(b)'
  <2>1. Linked(b) /\ Awaited(b)
    BY DEF RunInv
  <2>2. CASE b = c
    BY <1>2, <1>4, <1>5, <2>1, <2>2, LiveIn DEF Linked, Awaited, Live, Connected
  <2>3. CASE b # c
    BY <1>4, <1>5, <2>1, <2>3 DEF Linked, Awaited, Live, Connected
  <2> QED BY <2>2, <2>3
<1>7. RunInv'
  BY <1>2, <1>4, <1>6 DEF RunInv, RunType
<1> QED BY <1>2, <1>3, <1>7, OnlyRuns DEF ProcInv, ProcType

LEMMA StartFailsStep == ASSUME IInv, NEW c \in Clients, StartFails(c) PROVE IInv'
<1> USE DEF IInv
<1>1. /\ Live(c) /\ run' = [run EXCEPT ![c].at = "over", ![c].met = "failed"]
      /\ backlog' \subseteq backlog \cup {run[c].in}
      /\ UNCHANGED <<cliVars, procVars, drain, client, stalled>>
  BY DEF StartFails, Emit, Live
<1>2. run[c] \in RunRecords /\ run[c].in \in Daemons /\ run \in [Clients -> RunRecords]
  BY <1>1, LiveIn DEF RunInv, RunType
<1>3. /\ run' \in [Clients -> RunRecords]
      /\ run'[c].in = run[c].in /\ run'[c].at = "over" /\ run'[c].met = "failed"
      /\ \A b \in Clients : b # c => run'[b] = run[b]
  BY <1>1, <1>2 DEF RunRecords
<1>4. phase' = phase /\ port' = port /\ client' = client
  BY <1>1 DEF procVars
<1>5. ASSUME NEW b \in Clients PROVE Linked(b)' /\ Awaited(b)'
  <2>1. Linked(b) /\ Awaited(b)
    BY DEF RunInv
  <2>2. CASE b = c
    BY <1>1, <1>3, <1>4, <2>1, <2>2, LiveIn DEF Linked, Awaited, Live, Connected
  <2>3. CASE b # c
    BY <1>3, <1>4, <2>1, <2>3 DEF Linked, Awaited, Live, Connected
  <2> QED BY <2>2, <2>3
<1>6. RunInv'
  BY <1>1, <1>3, <1>5 DEF RunInv, RunType
<1> QED BY <1>1, <1>2, <1>6, OnlyRuns DEF ProcInv, ProcType

\* Clients that hear of the end of a run.
LEMMA HearType ==
    ASSUME RunType, NEW who \in SUBSET Clients, Hear(who)
    PROVE  /\ client' \in [Clients -> {"out", "joined", "heard", "waiting", "gone", "lost"}]
           /\ \A b \in Clients :
                 /\ client'[b] = client[b]
                    \/ (client[b] = "joined" /\ client'[b] = "heard")
                    \/ (client[b] = "waiting" /\ client'[b] = "gone")
                 /\ b \in who => client'[b] # "waiting"
           /\ stalled' = stalled
BY DEF RunType, Hear

LEMMA FinishStep ==
    ASSUME IInv, NEW c \in Clients, EndRun(c) \/ Finished(c)
    PROVE  IInv'
<1> USE DEF IInv
<1>1. /\ Live(c) /\ Hear(ClientsOf(run[c].in))
      /\ run' = [run EXCEPT ![c] = Over(c)]
      /\ backlog' = backlog \cup {run[c].in}
      /\ UNCHANGED <<cliVars, procVars, drain>>
  BY DEF EndRun, Finished, Finish, Live, Emit
<1>2. /\ run[c] \in RunRecords /\ run[c].in \in Daemons /\ run \in [Clients -> RunRecords]
      /\ client[c] \in {"waiting", "gone", "lost"}
  BY <1>1, LiveIn DEF RunInv, RunType
<1>3. /\ Over(c) \in RunRecords /\ Over(c).at = "over" /\ Over(c).met = run[c].met
  BY <1>2 DEF Over, RunRecords
<1>4. /\ run' \in [Clients -> RunRecords]
      /\ run'[c].at = "over" /\ run'[c].met = run[c].met
      /\ \A b \in Clients : b # c => run'[b] = run[b]
  BY <1>1, <1>2, <1>3
<1>5. phase' = phase /\ port' = port
  BY <1>1 DEF procVars
<1>6. /\ client' \in [Clients -> {"out", "joined", "heard", "waiting", "gone", "lost"}]
      /\ \A b \in Clients :
            /\ client'[b] = client[b]
               \/ (client[b] = "joined" /\ client'[b] = "heard")
               \/ (client[b] = "waiting" /\ client'[b] = "gone")
            /\ b \in ClientsOf(run[c].in) => client'[b] # "waiting"
      /\ stalled' \subseteq Clients
  BY <1>1, HearType DEF ClientsOf, RunInv, RunType
<1>7. client'[c] \in {"gone", "lost"} /\ (client'[c] = "lost" => client[c] = "lost")
  <2>1. client[c] = "waiting" => c \in ClientsOf(run[c].in)
    BY DEF ClientsOf, Connected
  <2> QED BY <1>2, <1>6, <2>1
<1>8. ASSUME NEW b \in Clients PROVE Linked(b)' /\ Awaited(b)'
  <2>1. Linked(b) /\ Awaited(b)
    BY DEF RunInv
  <2>2. CASE b = c
    BY <1>4, <1>7, <2>1, <2>2 DEF Linked, Awaited, Live, Connected
  <2>3. CASE b # c
    BY <1>4, <1>5, <1>6, <2>1, <2>3 DEF Linked, Awaited, Live, Connected
  <2> QED BY <2>2, <2>3
<1>9. RunInv'
  BY <1>4, <1>6, <1>8 DEF RunInv, RunType
<1> QED BY <1>1, <1>2, <1>9, OnlyRuns DEF ProcInv, ProcType

LEMMA StallStep ==
    ASSUME IInv, NEW c \in Clients, Stall(c) \/ ReadAgain(c)
    PROVE  IInv'
<1> USE DEF IInv
<1>1. /\ UNCHANGED <<cliVars, procVars, traceVars, client, run>> /\ stalled' \subseteq Clients
  BY DEF Stall, ReadAgain, RunInv, RunType
<1>2. phase' = phase /\ port' = port
  BY <1>1 DEF procVars
<1>3. \A b \in Clients : Live(b) /\ run[b].met # "late" =>
          phase'[run[b].in] \in {"serve", "gather"}
  BY <1>2 DEF RunInv, Awaited
<1>4. RunInv'
  BY <1>1, <1>2, <1>3, RunKept
<1> QED BY <1>1, <1>4, OnlyRuns DEF traceVars, ProcInv, ProcType
-----------------------------------------------------------------------------
(* The shutdown.                                                           *)

LEMMA ShutdownStep == ASSUME IInv, NEW d \in Daemons, Shutdown(d) PROVE IInv'
<1> USE DEF IInv
<1>1. /\ phase[d] = "serve" /\ UNCHANGED <<cliVars, port, term, mcp, drain>>
      /\ backlog' \subseteq Daemons
  BY DEF Shutdown, ProcInv, ProcType
<1>2. /\ phase' \in [Daemons -> Phases] /\ phase'[d] = "gather"
      /\ \A e \in Daemons : e # d => phase'[e] = phase[e]
  BY PhaseMoves DEF Shutdown, ProcInv, Phases, Stopping
<1>3. PICK who \in SUBSET Clients : Hear(who)
  BY DEF Shutdown, ClientsOf
<1>4. /\ client' \in [Clients -> {"out", "joined", "heard", "waiting", "gone", "lost"}]
      /\ \A b \in Clients :
            \/ client'[b] = client[b]
            \/ client[b] = "joined" /\ client'[b] = "heard"
            \/ client[b] = "waiting" /\ client'[b] = "gone"
      /\ stalled' \subseteq Clients
  BY <1>3, HearType DEF RunInv, RunType
<1>5. ProcInv'
  <2>1. ProcType'
    BY <1>1, <1>2 DEF ProcInv, ProcType, Stopping
  <2>2. Equipped'
    BY <1>1, <1>2 DEF ProcInv, Equipped
  <2> QED BY <2>1, <2>2 DEF ProcInv
<1>6. CliInv'
  <2>1. \A e \in Daemons : (phase[e] # "none" => phase'[e] # "none") /\ (Up(e)' => Up(e))
    BY <1>1, <1>2 DEF Up, Booting
  <2> QED BY <1>1, <2>1, CliKept
<1>7. ASSUME NEW c \in Clients
      PROVE  /\ run'[c] \in RunRecords /\ run'[c].in = run[c].in
             /\ Live(c)' => Live(c)
             /\ \/ run'[c].at = run[c].at /\ run'[c].met = run[c].met
                \/ Live(c) /\ run'[c].at = "finish" /\ run'[c].met = run[c].met
                \/ Live(c) /\ run'[c].at = "over" /\ run'[c].met = "cut"
  <2>1. run[c] \in RunRecords
    BY DEF RunInv, RunType
  <2>2. \/ run'[c] = run[c]
        \/ Live(c) /\ run'[c] = [run[c] EXCEPT !.at = "finish"]
        \/ Live(c) /\ run'[c] = [run[c] EXCEPT !.at = "over", !.met = "cut"]
    BY DEF Shutdown, Tracked
  <2> QED BY <2>1, <2>2 DEF RunRecords, Live
<1>8. run' \in [Clients -> RunRecords]
  <2>1. run' = [c \in Clients |-> run'[c]]
    BY DEF Shutdown
  <2> QED BY <1>7, <2>1
<1>9. ASSUME NEW c \in Clients PROVE Linked(c)' /\ Awaited(c)'
  <2>1. Linked(c) /\ Awaited(c)
    BY DEF RunInv
  <2>2. Linked(c)'
    BY <1>1, <1>4, <1>7, <2>1 DEF Linked, Live, Connected
  <2>3. Live(c)' => run[c].in \in Daemons
    BY <1>7, LiveIn
  <2>4. Live(c)' /\ run'[c].met # "late" => phase'[run'[c].in] \in {"serve", "gather"}
    <3>1. Live(c)' => Live(c) /\ run'[c].met = run[c].met /\ run'[c].in = run[c].in
      BY <1>7 DEF Live
    <3> QED BY <1>2, <2>1, <2>3, <3>1 DEF Awaited
  <2>5. client'[c] = "waiting" => Live(c)' \/ run'[c].met \in {"cut", "failed"}
    BY <1>4, <1>7, <2>1 DEF Awaited, Live
  <2>6. client'[c] = "lost" => run'[c].met \in {"late", "cut", "failed"}
    BY <1>4, <1>7, <2>1 DEF Awaited
  <2> QED BY <2>2, <2>4, <2>5, <2>6 DEF Awaited
<1> QED BY <1>4, <1>5, <1>6, <1>8, <1>9 DEF RunInv, RunType

LEMMA StopServerStep == ASSUME IInv, NEW d \in Daemons, StopServer(d) PROVE IInv'
<1> USE DEF IInv
<1>1. /\ phase[d] = "stop" /\ port' = Nobody /\ stalled' = stalled
      /\ UNCHANGED <<cliVars, term, mcp, traceVars, run>>
  BY DEF StopServer
<1>2. PICK p \in {"join", "joined"} : Enter(d, p)
  BY DEF StopServer
<1>3. /\ phase' \in [Daemons -> Phases] /\ phase'[d] = p
      /\ \A e \in Daemons : e # d => phase'[e] = phase[e]
  BY <1>2, PhaseMoves DEF ProcInv, Phases, Stopping
<1>4. port = d
  BY <1>1 DEF ProcInv, Equipped
<1>5. ProcInv'
  <2>1. ProcType'
    BY <1>1, <1>3, SomeDaemon DEF ProcInv, ProcType, Stopping, traceVars
  <2>2. Equipped'
    BY <1>1, <1>3, <1>4, SomeDaemon DEF ProcInv, Equipped, traceVars
  <2> QED BY <2>1, <2>2 DEF ProcInv
<1>6. CliInv'
  <2>1. \A e \in Daemons : (phase[e] # "none" => phase'[e] # "none") /\ (Up(e)' => Up(e))
    BY <1>1, <1>3 DEF Up, Booting
  <2> QED BY <1>1, <2>1, CliKept
<1>7. \A c \in Clients :
         client'[c] = IF c \notin ClientsOf(d) THEN client[c]
                      ELSE IF client[c] = "waiting" THEN "lost" ELSE "gone"
  BY DEF StopServer
<1>8. client' \in [Clients -> {"out", "joined", "heard", "waiting", "gone", "lost"}]
  <2>1. client' = [c \in Clients |-> client'[c]]
    BY DEF StopServer
  <2> QED BY <1>7, <2>1 DEF RunInv, RunType
<1>9. ASSUME NEW c \in Clients PROVE Linked(c)' /\ Awaited(c)'
  <2>1. Linked(c) /\ Awaited(c)
    BY DEF RunInv
  <2>2. Connected(c) => c \in ClientsOf(d)
    BY <1>4, <2>1 DEF ClientsOf, Linked
  <2>3. ~Connected(c)' /\ (client'[c] = client[c] \/ Connected(c))
    BY <1>7, <2>2 DEF Connected, ClientsOf
  <2>4. run'[c] = run[c] /\ (Live(c)' <=> Live(c))
    BY <1>1 DEF Live
  <2>5. Linked(c)'
    BY <1>7, <2>1, <2>3, <2>4 DEF Linked
  <2>6. Live(c) /\ run[c].met # "late" => run[c].in \in Daemons /\ run[c].in # d
    BY <1>1, <2>1, LiveIn DEF Awaited
  <2>7. client[c] = "waiting" => run[c].met \in {"late", "cut", "failed"}
    <3>1. SUFFICES ASSUME client[c] = "waiting", run[c].met \notin {"late", "cut", "failed"}
                   PROVE  FALSE
      OBVIOUS
    <3>2. Live(c) /\ run[c].in = port
      BY <2>1, <3>1 DEF Awaited, Linked, Connected
    <3> QED BY <1>4, <2>6, <3>1, <3>2
  <2>8. Awaited(c)'
    <3>1. client'[c] = "lost" => run[c].met \in {"late", "cut", "failed"}
      BY <1>7, <2>1, <2>7 DEF Awaited
    <3>2. client'[c] # "waiting"
      BY <2>3 DEF Connected
    <3> QED BY <1>3, <2>1, <2>4, <2>6, <3>1, <3>2 DEF Awaited
  <2> QED BY <2>5, <2>8
<1> QED BY <1>1, <1>5, <1>6, <1>8, <1>9 DEF RunInv, RunType

LEMMA CancelRestStep == ASSUME IInv, NEW d \in Daemons, CancelRest(d) PROVE IInv'
<1> USE DEF IInv
<1>1. /\ phase[d] = "joined" /\ UNCHANGED <<cliVars, port, term, mcp, backlog, client>>
      /\ drain' = [drain EXCEPT ![d] = "off"] /\ stalled' \subseteq stalled
  BY DEF CancelRest
<1>2. /\ phase' \in [Daemons -> Phases] /\ phase'[d] = "cancel"
      /\ \A e \in Daemons : e # d => phase'[e] = phase[e]
  BY PhaseMoves DEF CancelRest, ProcInv, Phases, Stopping
<1>3. ProcInv'
  <2>1. ProcType'
    BY <1>1, <1>2 DEF ProcInv, ProcType, Stopping
  <2>2. Equipped'
    BY <1>1, <1>2 DEF ProcInv, ProcType, Equipped
  <2> QED BY <2>1, <2>2 DEF ProcInv
<1>4. CliInv'
  <2>1. \A e \in Daemons : (phase[e] # "none" => phase'[e] # "none") /\ (Up(e)' => Up(e))
    BY <1>1, <1>2 DEF Up, Booting
  <2> QED BY <1>1, <2>1, CliKept
<1>5. port # d
  BY <1>1 DEF ProcInv, ProcType
<1>6. ASSUME NEW c \in Clients
      PROVE  /\ run'[c] \in RunRecords
             /\ run'[c].in = run[c].in /\ run'[c].met = run[c].met
             /\ \/ run'[c] = run[c] /\ ~(Live(c) /\ run[c].in = d)
                \/ /\ Live(c) /\ run[c].in = d
                   /\ run'[c].at \in {"finish", "over"}
  <2>1. run[c] \in RunRecords
    BY DEF RunInv, RunType
  <2>2. \/ run'[c] = run[c] /\ ~(Live(c) /\ run[c].in = d)
        \/ /\ Live(c) /\ run[c].in = d
           /\ \E at \in {"finish", "over"} : run'[c] = [run[c] EXCEPT !.at = at]
    BY DEF CancelRest, Tracked
  <2> QED BY <2>1, <2>2 DEF RunRecords
<1>7. run' \in [Clients -> RunRecords]
  <2>1. run' = [c \in Clients |-> run'[c]]
    BY DEF CancelRest
  <2> QED BY <1>6, <2>1
<1>8. ASSUME NEW c \in Clients PROVE Linked(c)' /\ Awaited(c)'
  <2>1. Linked(c) /\ Awaited(c) /\ client'[c] = client[c]
    BY <1>1 DEF RunInv
  <2>2. CASE run'[c] = run[c] /\ ~(Live(c) /\ run[c].in = d)
    <3>1. (Live(c)' <=> Live(c)) /\ (Connected(c)' <=> Connected(c))
      BY <2>1, <2>2 DEF Live, Connected
    <3>2. Live(c) => run[c].in \in Daemons
      BY LiveIn
    <3> QED BY <1>1, <1>2, <2>1, <2>2, <3>1, <3>2 DEF Linked, Awaited
  <2>3. CASE Live(c) /\ run[c].in = d /\ run'[c].at \in {"finish", "over"}
    <3>1. client[c] \in {"gone", "lost"} /\ run[c].met = "late"
      BY <1>1, <1>5, <2>1, <2>3, LiveIn DEF Linked, Awaited, Connected
    <3>2. run'[c].in # Nobody
      BY <1>6, <2>1, <2>3 DEF Linked
    <3> QED BY <1>6, <2>1, <2>3, <3>1, <3>2 DEF Linked, Awaited, Live, Connected
  <2> QED BY <1>6, <2>2, <2>3
<1> QED BY <1>1, <1>3, <1>4, <1>7, <1>8 DEF RunInv, RunType

LEMMA ExitStep == ASSUME IInv, NEW d \in Daemons, Exit(d) PROVE IInv'
<1> USE DEF IInv
<1>1. /\ phase[d] = "cancel" /\ Gone(d) /\ backlog' \subseteq Daemons
      /\ Tracked(d) = {} /\ stalled' \subseteq Clients
      /\ UNCHANGED <<cliVars, client, run>>
  BY DEF Exit, ProcInv, ProcType, RunInv, RunType
<1>2. /\ ProcInv' /\ port' = port
      /\ \A e \in Daemons : phase'[e] = IF e = d THEN "exited" ELSE phase[e]
      /\ \A e \in Daemons : Up(e)' => Up(e)
  BY <1>1, GoneProc DEF Gone
<1>3. CliInv'
  BY <1>1, <1>2, CliKept
<1>4. RunInv'
  BY <1>1, <1>2, NotServing, RunKept DEF ProcInv
<1> QED BY <1>2, <1>3, <1>4
-----------------------------------------------------------------------------
(* The theorems.                                                           *)

LEMMA Inductive == Init /\ [][Next]_vars => []IInv
<1>1. Init => IInv
  <2> SUFFICES ASSUME Init PROVE IInv
    OBVIOUS
  <2>1. ProcType
    BY SomeDaemon DEF Init, ProcType, Phases
  <2>2. Equipped
    BY DEF Init, Equipped
  <2>3. CliType
    BY DEF Init, CliType, CmdRecords
  <2>4. Held /\ Alone
    BY DEF Init, Held, Alone, Active, Up, Booting
  <2>5. RunType
    BY DEF Init, RunType, RunRecords
  <2>6. \A c \in Clients : Linked(c) /\ Awaited(c)
    BY DEF Init, Linked, Awaited, Connected, Live
  <2> QED BY <2>1, <2>2, <2>3, <2>4, <2>5, <2>6 DEF IInv, ProcInv, CliInv, RunInv
<1>2. IInv /\ [Next]_vars => IInv'
  <2> SUFFICES ASSUME IInv, [Next]_vars PROVE IInv'
    OBVIOUS
  <2>1. ASSUME NEW k \in Commands,
               Start(k) \/ Spawn(k) \/ WritePid(k) \/ Stop(k) \/ Kill(k) \/ Unlink(k)
        PROVE  IInv'
    BY <2>1, CommandStep, SpawnStep, KillStep
  <2>2. ASSUME NEW d \in Daemons,
               Boot(d) \/ ServerReads(d) \/ DrainWrites(d) \/ DrainDies(d)
        PROVE  IInv'
    BY <2>2, BootStep, ServerReadsStep, DrainStep
  <2>3. ASSUME NEW d \in Daemons, ShutDown(d) PROVE IInv'
    BY <2>3, ShutdownStep, CloseServersStep, ServersClosedStep, StopServerStep,
       CancelRestStep, ExitStep DEF ShutDown
  <2>4. ASSUME NEW c \in Clients,
               \/ Join(c) \/ AgentRun(c)
               \/ RunStarts(c) \/ StartFails(c)
               \/ ModelAnswers(c) \/ EndRun(c)
               \/ HeldUp(c) \/ Finished(c)
               \/ Stall(c) \/ ReadAgain(c)
        PROVE  IInv'
    BY <2>4, JoinStep, AgentRunStep, AdvanceStep, StartFailsStep, FinishStep, StallStep
  <2>5. CASE UNCHANGED vars
    <3>1. UNCHANGED <<cliVars, procVars, traceVars, runVars>>
      BY <2>5 DEF vars
    <3>2. phase' = phase /\ port' = port /\ \A d \in Daemons : Up(d)' <=> Up(d)
      BY <3>1 DEF procVars, Up
    <3>3. \A b \in Clients : Live(b) /\ run[b].met # "late" =>
              phase'[run[b].in] \in {"serve", "gather"}
      BY <3>2 DEF IInv, RunInv, Awaited
    <3>4. RunInv'
      BY <3>1, <3>2, <3>3, RunKept DEF IInv, RunInv, RunType, runVars
    <3> QED BY <3>1, <3>4, OnlyRuns DEF IInv, ProcInv, ProcType, traceVars
  <2> QED BY <2>1, <2>2, <2>3, <2>4, <2>5 DEF Next
<1> QED BY <1>1, <1>2, PTL

\* The processes, commands, clients and runs stay in the states the model gives them,
\* and the port belongs to a daemon that listens.
THEOREM TypeCorrect == Spec => []TypeOK
<1>1. IInv => TypeOK
  BY Types DEF IInv, ProcInv, CliInv, RunInv
<1> QED BY <1>1, Inductive, PTL DEF Spec

\* Commands that are not typed into each other or into a boot leave a pid file by which
\* `anvil core stop` finds the daemon that serves.
THEOREM PidFileTrue == Spec => []PidNamesServing
<1>1. IInv => PidNamesServing
  <2>1. SUFFICES ASSUME IInv, Quiet, ~raced, NEW d \in Daemons, phase[d] = "serve", d \notin term
                 PROVE  pidFile = d
    BY DEF PidNamesServing
  <2>2. Known(d)
    BY <2>1 DEF IInv, CliInv, Alone, Up
  <2> QED BY <2>1, <2>2 DEF Known, Quiet, Active
<1> QED BY <1>1, Inductive, PTL DEF Spec

\* The order of the shutdown holds for any number of runs: none that it waits for loses
\* its servers, its client's connection or the trace.
THEOREM ShutdownInOrder == Spec => []OldRunsEndFirst
<1>1. IInv => OldRunsEndFirst
  <2>1. SUFFICES ASSUME IInv, NEW c \in Clients, Live(c), run[c].met # "late"
                 PROVE  /\ mcp[run[c].in] \notin {"stuck", "closed"}
                        /\ port = run[c].in
                        /\ drain[run[c].in] # "off"
    BY DEF OldRunsEndFirst
  <2>2. run[c].in \in Daemons /\ phase[run[c].in] \in {"serve", "gather"}
    BY <2>1, LiveIn DEF IInv, RunInv, Awaited
  <2> QED BY <2>2, <2>1 DEF IInv, ProcInv, Equipped
<1> QED BY <1>1, Inductive, PTL DEF Spec

\* For any number of clients: one that waits has a run that lives, and one that is left
\* behind by a shutdown had a run that came too late, unless its run was cut off or
\* failed before it could publish anything.
THEOREM NobodyForgotten == Spec => []ClientsTold
<1>1. IInv => ClientsTold
  BY DEF IInv, RunInv, Awaited, ClientsTold
<1> QED BY <1>1, Inductive, PTL DEF Spec
=============================================================================
