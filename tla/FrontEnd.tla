------------------------------ MODULE FrontEnd ------------------------------
(***************************************************************************)
(* A front end and the daemon: the commands, replies and events on a TCP   *)
(* connection (transport/socket_client.py, core/transport/socket_server.py)*)
(* and the two interactive clients, the TUI (tui/app.py) and anvil chat    *)
(* (cli/commands/chat.py).                                                 *)
(*                                                                         *)
(* Both subscribe to the events of all sessions, create a session on every *)
(* connection, send messages, answer requests for permission and close the *)
(* session when they leave.  The TUI sends a message in a worker and       *)
(* connects again; anvil chat awaits every command in its input loop and   *)
(* ends with its connection.  A run is reduced to what a client sees of it.*)
(***************************************************************************)
EXTENDS Naturals, Sequences

CONSTANTS
    MaxConns,     \* bound on connections
    MaxCommands,  \* bound on the user's messages and session.close commands
    MaxAsks       \* bound on requests for permission

ASSUME FrontEndAssumption ==
    /\ MaxConns \in Nat \ {0}
    /\ {MaxCommands, MaxAsks} \subseteq Nat

VARIABLES
    tui,      \* the front end is the TUI; otherwise anvil chat
    limited,  \* permission.timeout_s > 0
    phase,    \* "open", "leaving" (session.close is sent) or "gone"
    up,       \* the connection stands
    conn,     \* its number, and that of the session created on it
    toCore, toClient,  \* lines on the way
    waiting,  \* SocketClient._pending, by the number of the command
    issued,   \* messages and session.close commands of the user
    busy,     \* _busy of the TUI; in anvil chat: the loop awaits a reply
    shown,    \* requests on the screen; in anvil chat: pending_permission_id
    stdin,    \* lines typed into anvil chat and not read
    run,      \* of every session
    caller,   \* the command its run answers
    ask,      \* the request its run waits on
    asks      \* requests made

client == <<phase, waiting, issued, busy, shown, stdin>>
core == <<run, caller, ask, asks>>
vars == <<tui, limited, phase, up, conn, toCore, toClient, waiting, issued, busy, shown,
          stdin, run, caller, ask, asks>>

Sessions == 1..MaxConns
Asks == 1..MaxAsks
Numbers == 1..MaxCommands + MaxAsks
\* The number of the command that answers request id; the others count from 1.
AnswerTo(id) == MaxCommands + id
Lines == {"message", "decision", "late"}

\* content is what the user meant by the line: a message, an answer to a request
\* that waits, or one to a request that is over though still on the screen.
Command(method, n, content, id) ==
    [method |-> method, n |-> n, content |-> content, ask |-> id]
\* A reply or an event.  The error that answers session.close has a kind of its own:
\* the worker that sends messages does not see it.
Replies == {"ok", "error", "refused"}
Reply(kind, n) == [kind |-> kind, arg |-> n]
Event(kind, id) == [kind |-> kind, arg |-> id]

TypeOK ==
    /\ {tui, limited, up, busy} \subseteq BOOLEAN
    /\ phase \in {"open", "leaving", "gone"}
    /\ conn \in Sessions
    /\ toCore \in Seq([method : {"send", "respond", "close"}, n : Numbers,
                       content : Lines, ask : 0..MaxAsks])
    /\ toClient \in Seq([kind : Replies \cup {"requested", "denied", "waiting",
                                                 "closed"}, arg : Nat])
    /\ waiting \subseteq Numbers /\ issued \in 0..MaxCommands
    /\ shown \subseteq Asks /\ stdin \in Seq(Lines)
    /\ run \in [Sessions -> {"none", "running", "asking", "finishing", "closed"}]
    /\ caller \in [Sessions -> 0..MaxCommands]
    /\ ask \in [Sessions -> 0..MaxAsks] /\ asks \in 0..MaxAsks
    /\ \A s \in Sessions : run[s] = "asking" <=> ask[s] # 0

Init ==
    /\ tui \in BOOLEAN /\ limited \in BOOLEAN
    /\ phase = "open" /\ up = TRUE /\ conn = 1
    /\ toCore = <<>> /\ toClient = <<>>
    /\ waiting = {} /\ issued = 0 /\ busy = FALSE /\ shown = {} /\ stdin = <<>>
    /\ run = [s \in Sessions |-> "none"]
    /\ caller = [s \in Sessions |-> 0] /\ ask = [s \in Sessions |-> 0] /\ asks = 0
-----------------------------------------------------------------------------
(* The daemon.                                                             *)

\* A line is written to the connection if it stands.
Tell(lines) == toClient' = IF up THEN toClient \o lines ELSE toClient
\* A reply goes to the connection its command came from, if that one stands.
TellReply(s, events, reply) == Tell(events \o (IF s = conn THEN <<reply>> ELSE <<>>))

\* session.send_message: the reply comes with the end of the run.
ServeSend(c) ==
    IF run[conn] = "none"
    THEN /\ run' = [run EXCEPT ![conn] = "running"]
         /\ caller' = [caller EXCEPT ![conn] = c.n]
         /\ UNCHANGED <<toClient, ask>>
    ELSE Tell(<<Reply("error", c.n)>>) /\ UNCHANGED <<run, caller, ask>>

\* permission.respond: an answer to no request is ignored.
ServeRespond(c) ==
    /\ run' = [s \in Sessions |-> IF ask[s] = c.ask THEN "running" ELSE run[s]]
    /\ ask' = [s \in Sessions |-> IF ask[s] = c.ask THEN 0 ELSE ask[s]]
    /\ Tell(<<Reply("ok", c.n)>>)
    /\ UNCHANGED caller

ServeClose(c) ==
    IF run[conn] \in {"none", "closed"}
    THEN /\ run' = [run EXCEPT ![conn] = "closed"]
         /\ Tell(<<Event("closed", 0), Reply("ok", c.n)>>)
         /\ UNCHANGED <<caller, ask>>
    ELSE Tell(<<Reply("refused", c.n)>>) /\ UNCHANGED <<run, caller, ask>>

\* Mutant of Serve: the read loop awaits the handler of every line.
ServeInline ==
    /\ toCore # <<>> /\ run[conn] \in {"none", "closed"}
    /\ toCore' = Tail(toCore)
    /\ LET c == Head(toCore)
       IN  \/ c.method = "send" /\ ServeSend(c)
           \/ c.method = "respond" /\ ServeRespond(c)
           \/ c.method = "close" /\ ServeClose(c)
    /\ UNCHANGED <<tui, limited, up, conn, client, asks>>

\* The read loop makes a task of the next line, so that a handler that takes its
\* time keeps no other line waiting.
Serve ==
    /\ toCore # <<>>
    /\ toCore' = Tail(toCore)
    /\ LET c == Head(toCore)
       IN  \/ c.method = "send" /\ ServeSend(c)
           \/ c.method = "respond" /\ ServeRespond(c)
           \/ c.method = "close" /\ ServeClose(c)
    /\ UNCHANGED <<tui, limited, up, conn, client, asks>>

\* A run asks for permission.
Ask(s) ==
    /\ run[s] = "running" /\ asks < MaxAsks
    /\ asks' = asks + 1
    /\ run' = [run EXCEPT ![s] = "asking"]
    /\ ask' = [ask EXCEPT ![s] = asks + 1]
    /\ Tell(<<Event("requested", asks + 1)>>)
    /\ UNCHANGED <<tui, limited, up, conn, toCore, client, caller>>

\* Mutant of TimeOut: the request stays on the books.
TimeOutKeeps(s) ==
    /\ run[s] = "asking" /\ limited
    /\ run' = [run EXCEPT ![s] = "running"]
    /\ Tell(<<Event("denied", ask[s])>>)
    /\ UNCHANGED <<tui, limited, up, conn, toCore, client, caller, ask, asks>>

\* Nobody answered in time: permission.denied.
TimeOut(s) ==
    /\ run[s] = "asking" /\ limited
    /\ run' = [run EXCEPT ![s] = "running"]
    /\ ask' = [ask EXCEPT ![s] = 0]
    /\ Tell(<<Event("denied", ask[s])>>)
    /\ UNCHANGED <<tui, limited, up, conn, toCore, client, caller, asks>>

\* The run is over: session.waiting_for_input is out, and the lock is still held.
EndRun(s) ==
    /\ run[s] = "running"
    /\ run' = [run EXCEPT ![s] = "finishing"]
    /\ Tell(<<Event("waiting", 0)>>)
    /\ UNCHANGED <<tui, limited, up, conn, toCore, client, caller, ask, asks>>

\* Mutant of Release: a reply that cannot be sent keeps the lock.
ReleaseIfHeard(s) ==
    /\ run[s] = "finishing" /\ up /\ s = conn
    /\ run' = [run EXCEPT ![s] = "none"]
    /\ TellReply(s, <<>>, Reply("ok", caller[s]))
    /\ UNCHANGED <<tui, limited, up, conn, toCore, client, caller, ask, asks>>

\* The lock is free and send_message answered, whether anybody listens or not.
Release(s) ==
    /\ run[s] = "finishing"
    /\ run' = [run EXCEPT ![s] = "none"]
    /\ TellReply(s, <<>>, Reply("ok", caller[s]))
    /\ UNCHANGED <<tui, limited, up, conn, toCore, client, caller, ask, asks>>

\* send_message raises: before the run, in it, or when its messages are stored.
RunFails(s) ==
    /\ run[s] \in {"running", "finishing"}
    /\ run' = [run EXCEPT ![s] = "none"]
    /\ TellReply(s, <<>>, Reply("error", caller[s]))
    /\ UNCHANGED <<tui, limited, up, conn, toCore, client, caller, ask, asks>>
-----------------------------------------------------------------------------
(* The client.                                                             *)

\* send_command: a future is registered and the line written.
SendCommand(command) ==
    /\ waiting' = waiting \cup {command.n}
    /\ toCore' = IF up THEN Append(toCore, command) ELSE toCore

Issue(method, content) ==
    /\ issued < MaxCommands
    /\ issued' = issued + 1
    /\ SendCommand(Command(method, issued + 1, content, 0))

Respond(id) ==
    /\ SendCommand(Command("respond", AnswerTo(id), "decision", id))
    /\ UNCHANGED issued

\* The TUI: a message is sent in a worker, unless an agent is at work.
Submit ==
    /\ tui /\ phase = "open" /\ up /\ ~busy
    /\ Issue("send", "message")
    /\ busy' = TRUE
    /\ UNCHANGED <<tui, limited, phase, up, conn, toClient, shown, stdin, core>>

\* The TUI: the user picks a decision of one of the selects; it goes nowhere while
\* there is no client.
Decide(id) ==
    /\ tui /\ phase = "open" /\ id \in shown
    /\ shown' = shown \ {id}
    /\ \/ up /\ Respond(id)
       \/ ~up /\ UNCHANGED <<issued, waiting, toCore>>
    /\ UNCHANGED <<tui, limited, phase, up, conn, toClient, busy, stdin, core>>

\* anvil chat: the user types an answer when a request is on the screen, and a
\* message otherwise, whether the loop reads or not.
Type ==
    /\ ~tui /\ phase = "open" /\ stdin = <<>>
    /\ stdin' = <<IF shown = {} THEN "message"
                 ELSE IF \E s \in Sessions : ask[s] \in shown THEN "decision"
                 ELSE "late">>
    /\ UNCHANGED <<tui, limited, phase, up, conn, toCore, toClient, waiting, issued, busy,
                   shown, core>>

\* anvil chat: the input loop takes a line, for a decision if it knows of a
\* request.  Without a connection the command ends the program or is awaited for
\* ever.
ReadLine ==
    /\ ~tui /\ phase = "open" /\ ~busy /\ stdin # <<>>
    /\ stdin' = Tail(stdin)
    /\ \/ /\ shown # {} /\ Head(stdin) = "message"
          /\ UNCHANGED <<waiting, issued, busy, shown, toCore, phase>>
       \/ /\ shown # {} /\ Head(stdin) # "message"
          /\ Respond(CHOOSE id \in shown : TRUE)
          /\ shown' = {} /\ busy' = TRUE
          /\ phase' \in IF up THEN {phase} ELSE {phase, "gone"}
       \/ /\ shown = {}
          /\ Issue("send", Head(stdin))
          /\ busy' = TRUE
          /\ phase' \in IF up THEN {phase} ELSE {phase, "gone"}
          /\ UNCHANGED shown
    /\ UNCHANGED <<tui, limited, up, conn, toClient, core>>

\* The user leaves: session.close is sent and awaited, if there is a connection.
Quit ==
    /\ phase = "open"
    /\ ~tui => ~busy /\ stdin = <<>>
    /\ \/ /\ up /\ Issue("close", "message")
          /\ phase' = "leaving"
       \/ /\ ~up
          /\ phase' = "gone"
          /\ UNCHANGED <<waiting, issued, toCore>>
    /\ UNCHANGED <<tui, limited, up, conn, toClient, busy, shown, stdin, core>>

\* Mutant of Handled: an error leaves the TUI busy.
HandledLoosely(line) ==
    IF tui THEN (busy /\ line.kind \notin {"waiting", "closed"})
           ELSE (busy /\ line.kind \notin Replies)

\* _busy after a line.  The TUI resets it when send_message fails and for the events of
\* every session; anvil chat reads on after any reply.
Handled(line) ==
    IF tui THEN (busy /\ line.kind \notin {"error", "waiting", "closed"})
           ELSE (busy /\ line.kind \notin Replies)

\* The requests on the screen after a line.  The TUI puts one select next to the
\* other; anvil chat knows of the last request only.
TuiShown(line) ==
    CASE line.kind = "requested" -> shown \cup {line.arg}
      [] line.kind = "denied"    -> shown \ {line.arg}
      [] OTHER                   -> shown

ChatShown(line) ==
    CASE line.kind = "requested" -> {line.arg}
      [] line.kind = "waiting"   -> {}
      [] OTHER                   -> shown

\* run_event_loop hands the next line on.
Receive ==
    /\ up /\ toClient # <<>>
    /\ toClient' = Tail(toClient)
    /\ LET line == Head(toClient)
       IN  /\ waiting' = IF line.kind \in Replies THEN waiting \ {line.arg}
                         ELSE waiting
           /\ busy' = Handled(line)
           /\ shown' = IF tui THEN TuiShown(line) ELSE ChatShown(line)
    /\ UNCHANGED <<tui, limited, phase, up, conn, toCore, issued, stdin, core>>

\* The connection is over: what is on the way to the client is lost, what is on
\* the way to the daemon may be; no handler is stopped.  The futures are
\* cancelled, which ends anvil chat if it awaits one.
Disconnect ==
    /\ up' = FALSE
    /\ toCore' \in {<<>>, toCore} /\ toClient' = <<>>
    /\ waiting' = {}

Lost ==
    /\ up
    /\ Disconnect
    /\ phase' = IF phase = "leaving" \/ (~tui /\ busy) THEN "gone" ELSE phase
    /\ UNCHANGED <<tui, limited, conn, issued, busy, shown, stdin, core>>

\* The reply to session.close, good or bad, is there: the program exits.
Leave ==
    /\ phase = "leaving" /\ up /\ issued \notin waiting
    /\ Disconnect
    /\ phase' = "gone"
    /\ UNCHANGED <<tui, limited, conn, issued, busy, shown, stdin, core>>

\* The TUI connects again, subscribes and creates a new session.  _busy stays.
Reconnect ==
    /\ tui /\ phase = "open" /\ ~up /\ conn < MaxConns
    /\ up' = TRUE /\ conn' = conn + 1
    /\ toCore' = <<>>
    /\ UNCHANGED <<tui, limited, toClient, client, core>>

Next ==
    \/ Serve
    \/ \E s \in Sessions : Ask(s) \/ TimeOut(s) \/ EndRun(s) \/ Release(s) \/ RunFails(s)
    \/ Submit \/ \E id \in Asks : Decide(id)
    \/ Type \/ ReadLine \/ Quit \/ Receive \/ Lost \/ Leave \/ Reconnect

Spec == Init /\ [][Next]_vars

\* The daemon serves, a run goes on (with its next request, its end or a failure),
\* what is on a connection arrives, a client that leaves exits, and a request has
\* its time limit if there is one.  The user of the TUI answers what is on the
\* screen; nothing else is asked of a user.
Fairness ==
    /\ WF_vars(Serve) /\ WF_vars(Receive) /\ WF_vars(Leave)
    /\ \A s \in Sessions :
          WF_vars(Ask(s) \/ EndRun(s)) /\ WF_vars(TimeOut(s)) /\ WF_vars(Release(s))
    /\ \A id \in Asks : WF_vars(Decide(id))

FairSpec == Spec /\ Fairness
-----------------------------------------------------------------------------
(* Properties.                                                             *)

\* The TUI is busy only while a command of it is outstanding, as long as its
\* connection has stood: no refusal, failure or end of a run leaves the input
\* closed behind it.
BusyHasCommand == tui /\ busy /\ up /\ conn = 1 => waiting # {}

\* A command ends with its reply or with the connection.  In the TUI this needs no
\* time limit on permissions: the answer overtakes the message it belongs to.
CommandsEnd ==
    \A n \in Numbers :
        n \in waiting /\ up /\ (tui \/ limited) ~> n \notin waiting

\* A run ends without its client.  Only a request without a time limit that nobody
\* can see any more holds it up.
RunsEnd ==
    \A s \in Sessions :
        run[s] \in {"running", "asking", "finishing"} /\ (tui \/ limited) ~>
            \/ run[s] \notin {"running", "asking", "finishing"}
            \/ [](~limited /\ ask[s] # 0 /\ (ask[s] \notin shown \/ phase # "open"))
=============================================================================
