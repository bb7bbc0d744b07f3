----------------------------- MODULE EventStream -----------------------------
(***************************************************************************)
(* The way of an event from a run to its ledger and to the clients:        *)
(* EventBus.publish (core/events/bus.py), the broadcaster                  *)
(* (core/transport/ipc_broadcaster.py), one EventWriter per run            *)
(* (core/events/writer.py, opened and closed by core/runner.py), and       *)
(* event.subscribe with its replay (core/app.py), on connections that may  *)
(* break at any moment (core/transport/socket_server.py).                  *)
(*                                                                         *)
(* publish calls its handlers one after the other: the broadcaster, which  *)
(* awaits drain() after each write to a client, then every open ledger.    *)
(* Each run publishes from one task, so an event of a run is through       *)
(* before the next one starts; events of different runs interleave at the  *)
(* drains.  Two things go wrong with an event on its way: the task that    *)
(* publishes is cancelled at a drain (a tool out of time, a sub-agent out  *)
(* of time, the end of the daemon), which cuts the publication off, and a  *)
(* row cannot be written, which the EventWriter only logs.                 *)
(* Topics are not modelled: every client asks for all of them.             *)
(***************************************************************************)
EXTENDS Naturals, Sequences

CONSTANTS
    Runs,        \* run ids
    Clients,     \* connections; a client that comes back is another one
    MaxEvents,   \* bound on the events of a run
    Length,      \* run -> its events: the first is run.started, the last
                 \* run.finished
    Scope,       \* client -> "global", or the run of a "run:<id>" scope
    ReplayRun,   \* client -> replay_from_run, or "none"
    Stallers,    \* clients that may stop reading without disconnecting
    MaxFaults    \* bound: publications cut off, and rounds of failed writes

ASSUME StreamAssumption ==
    /\ MaxEvents \in Nat \ {0}
    /\ Length \in [Runs -> 1..MaxEvents]
    /\ "global" \notin Runs /\ "none" \notin Runs
    /\ Scope \in [Clients -> Runs \cup {"global"}]
    /\ ReplayRun \in [Clients -> Runs \cup {"none"}]
    /\ Stallers \subseteq Clients
    /\ MaxFaults \in Nat

VARIABLES
    count,       \* events a run has begun to publish
    todo,        \* run -> clients its event still goes to: it awaits the
                 \* drain of the first; <<>> when nothing is being published
    ledger,      \* run -> its events.jsonl
    open,        \* runs whose EventWriter has its file open
    subscribed,  \* the broadcaster's list of subscriptions
    conn,        \* client -> the state of its connection
    stalled,     \* connected clients that do not read
    received,    \* client -> events written to its connection
    seam,        \* client -> how many of these were replayed
    faults,      \* publications cut off and rounds of failed writes so far
    missed,      \* history: client -> events cut off before it was their turn
    unrecorded   \* history: events cut off, or not written to their ledger

losses == <<faults, missed, unrecorded>>

vars == <<count, todo, ledger, open, subscribed, conn, stalled, received, seam,
          losses>>

Event(r, k) == [run |-> r, k |-> k]

Events == [run : Runs, k : 1..MaxEvents]

TypeOK ==
    /\ count \in [Runs -> 0..MaxEvents]
    /\ todo \in [Runs -> Seq(Clients)]
    /\ ledger \in [Runs -> Seq(Events)]
    /\ open \subseteq Runs
    /\ subscribed \in Seq(Clients)
    /\ conn \in [Clients -> {"new", "replaying", "live", "gone"}]
    /\ stalled \subseteq Stallers
    /\ received \in [Clients -> Seq(Events)]
    /\ seam \in [Clients -> Nat]
    /\ faults \in 0..MaxFaults
    /\ missed \in [Clients -> SUBSET Events]
    /\ unrecorded \subseteq Events

Init ==
    /\ count = [r \in Runs |-> 0]
    /\ todo = [r \in Runs |-> <<>>]
    /\ ledger = [r \in Runs |-> <<>>]
    /\ open = {}
    /\ subscribed = <<>>
    /\ conn = [c \in Clients |-> "new"]
    /\ stalled = {}
    /\ received = [c \in Clients |-> <<>>]
    /\ seam = [c \in Clients |-> 0]
    /\ faults = 0
    /\ missed = [c \in Clients |-> {}]
    /\ unrecorded = {}
-----------------------------------------------------------------------------
(* Publishing.                                                             *)

\* _matches_scope
Wants(c, r) == Scope[c] \in {"global", r}

\* The members of s that are in S, in their order: SelectSeq with a set for its
\* test, as a function that a proof can unfold.
Kept(s, S) ==
    LET kept[n \in 0..Len(s)] ==
            IF n = 0 THEN <<>>
            ELSE IF s[n] \in S THEN Append(kept[n - 1], s[n]) ELSE kept[n - 1]
    IN  kept[Len(s)]

\* The subscriptions an event of the run goes to.
Matching(r) == Kept(subscribed, {c \in Clients : Wants(c, r)})

\* write() to a connection that is gone is lost.
Write(c, es) ==
    received' = [received EXCEPT ![c] = IF conn[c] = "gone" THEN @ ELSE @ \o es]

\* As if the error of a failed write left the EventWriter, and publish with it.
WriteLedgersRaises(r, k, opened, failing) ==
    /\ ledger' = [q \in Runs |-> IF q \in opened /\ failing = {}
                                 THEN Append(ledger[q], Event(r, k))
                                 ELSE ledger[q]]
    /\ open' = IF k = Length[r] THEN opened \ {r} ELSE opened
    /\ \/ failing = {} /\ UNCHANGED faults
       \/ failing # {} /\ faults < MaxFaults /\ faults' = faults + 1
    /\ unrecorded' = unrecorded \cup {e \in {Event(r, k)} : r \in failing}

\* The last handlers: every open ledger takes the event, its run's own and any
\* other, for all runs share one bus, but those whose write fails, which is
\* logged.  After run.finished the file is closed.
WriteLedgers(r, k, opened, failing) ==
    /\ ledger' = [q \in Runs |-> IF q \in opened \ failing
                                 THEN Append(ledger[q], Event(r, k))
                                 ELSE ledger[q]]
    /\ open' = IF k = Length[r] THEN opened \ {r} ELSE opened
    /\ \/ failing = {} /\ UNCHANGED faults
       \/ failing # {} /\ faults < MaxFaults /\ faults' = faults + 1
    /\ unrecorded' = unrecorded \cup {e \in {Event(r, k)} : r \in failing}

\* Write the event to the first of the clients left and await its drain; with
\* none left, finish.
Proceed(r, k, clients, opened) ==
    /\ todo' = [todo EXCEPT ![r] = clients]
    /\ \/ /\ clients = <<>>
          /\ \E failing \in SUBSET opened : WriteLedgers(r, k, opened, failing)
          /\ UNCHANGED received
       \/ /\ clients # <<>>
          /\ Write(Head(clients), <<Event(r, k)>>)
          /\ open' = opened
          /\ UNCHANGED <<ledger, faults, unrecorded>>
    /\ UNCHANGED missed

\* As if a run still published after run.finished.
PublishPastEnd(r) ==
    /\ todo[r] = <<>>
    /\ count[r] <= Length[r]
    /\ count' = [count EXCEPT ![r] = @ + 1]
    /\ Proceed(r, count[r] + 1, Matching(r), IF count[r] = 0 THEN open \cup {r} ELSE open)
    /\ UNCHANGED <<subscribed, conn, stalled, seam>>

\* The run publishes its next event, to the subscriptions of this moment.  Its
\* ledger is opened before run.started, and all it publishes it publishes while
\* the ledger is open.
Publish(r) ==
    /\ todo[r] = <<>>
    /\ count[r] < Length[r] /\ (count[r] = 0 \/ r \in open)
    /\ count' = [count EXCEPT ![r] = @ + 1]
    /\ Proceed(r, count[r] + 1, Matching(r), IF count[r] = 0 THEN open \cup {r} ELSE open)
    /\ UNCHANGED <<subscribed, conn, stalled, seam>>

\* As if the error of a lost connection left the broadcaster's loop.
DrainEndsBroadcast(r) ==
    /\ todo[r] # <<>>
    /\ Head(todo[r]) \notin stalled
    /\ Proceed(r, count[r], IF conn[Head(todo[r])] = "gone" THEN <<>> ELSE Tail(todo[r]),
               open)
    /\ UNCHANGED <<count, subscribed, conn, stalled, seam>>

\* drain returns when the client has read enough, or raises when the connection
\* is lost; both go on with the next client.
DrainReturns(r) ==
    /\ todo[r] # <<>>
    /\ Head(todo[r]) \notin stalled
    /\ Proceed(r, count[r], Tail(todo[r]), open)
    /\ UNCHANGED <<count, subscribed, conn, stalled, seam>>

\* As if the EventWriter were not left when run.started or run.finished is cut off.
DrainCutLeaksFile(r) ==
    /\ todo[r] # <<>>
    /\ faults < MaxFaults
    /\ todo' = [todo EXCEPT ![r] = <<>>]
    /\ LET e == Event(r, count[r])
       IN  /\ missed' = [c \in Clients |->
                            IF \E i \in 2..Len(todo[r]) : todo[r][i] = c
                            THEN missed[c] \cup {e} ELSE missed[c]]
           /\ unrecorded' = unrecorded \cup {e}
    /\ faults' = faults + 1
    /\ UNCHANGED <<count, ledger, open, subscribed, conn, stalled, received, seam>>

\* The task is cancelled while it awaits a drain.  The broadcaster passes the
\* cancellation on, and so does publish: neither the clients left nor any ledger
\* gets the event.  run.started and run.finished are published outside the try of
\* the run, which then ends without more events; any other event it goes on after,
\* to run.finished at the least.
DrainCut(r) ==
    /\ todo[r] # <<>>
    /\ faults < MaxFaults
    /\ todo' = [todo EXCEPT ![r] = <<>>]
    /\ open' = IF count[r] \in {1, Length[r]} THEN open \ {r} ELSE open
    /\ LET e == Event(r, count[r])
       IN  /\ missed' = [c \in Clients |->
                            IF \E i \in 2..Len(todo[r]) : todo[r][i] = c
                            THEN missed[c] \cup {e} ELSE missed[c]]
           /\ unrecorded' = unrecorded \cup {e}
    /\ faults' = faults + 1
    /\ UNCHANGED <<count, ledger, subscribed, conn, stalled, received, seam>>
-----------------------------------------------------------------------------
(* The clients.                                                            *)

\* As if the subscription were made before the replay as well as after it.
SubscribeFirst(c) ==
    /\ conn[c] = "new"
    /\ LET replay == IF ReplayRun[c] = "none" THEN <<>> ELSE ledger[ReplayRun[c]]
       IN  /\ Write(c, replay)
           /\ seam' = [seam EXCEPT ![c] = Len(replay)]
           /\ conn' = [conn EXCEPT ![c] = IF replay = <<>> THEN "live" ELSE "replaying"]
    /\ subscribed' = Append(subscribed, c)
    /\ UNCHANGED <<count, todo, ledger, open, stalled, losses>>

\* event.subscribe: the replayed run's ledger is read and written out in one go;
\* only if there was something to write is its drain awaited.
Subscribe(c) ==
    /\ conn[c] = "new"
    /\ LET replay == IF ReplayRun[c] = "none" THEN <<>> ELSE ledger[ReplayRun[c]]
       IN  /\ Write(c, replay)
           /\ seam' = [seam EXCEPT ![c] = Len(replay)]
           /\ \/ /\ replay # <<>>
                 /\ conn' = [conn EXCEPT ![c] = "replaying"]
                 /\ UNCHANGED subscribed
              \/ /\ replay = <<>>
                 /\ conn' = [conn EXCEPT ![c] = "live"]
                 /\ subscribed' = Append(subscribed, c)
    /\ UNCHANGED <<count, todo, ledger, open, stalled, losses>>

\* The drain of the replay returns; only now does the broadcaster know the client.
JoinLive(c) ==
    /\ conn[c] = "replaying" /\ c \notin stalled
    /\ conn' = [conn EXCEPT ![c] = "live"]
    /\ subscribed' = Append(subscribed, c)
    /\ UNCHANGED <<count, todo, ledger, open, stalled, received, seam, losses>>

\* The connection handler's finally takes the subscriptions out.  A broadcast
\* under way has its own copy of the list and still writes to the connection.
Disconnect(c) ==
    /\ conn[c] \in {"replaying", "live"}
    /\ conn' = [conn EXCEPT ![c] = "gone"]
    /\ subscribed' = Kept(subscribed, Clients \ {c})
    /\ stalled' = stalled \ {c}
    /\ UNCHANGED <<count, todo, ledger, open, received, seam, losses>>

Stall(c) ==
    /\ c \in Stallers \ stalled /\ conn[c] \in {"replaying", "live"}
    /\ stalled' = stalled \cup {c}
    /\ UNCHANGED <<count, todo, ledger, open, subscribed, conn, received, seam, losses>>

ReadAgain(c) ==
    /\ c \in stalled
    /\ stalled' = stalled \ {c}
    /\ UNCHANGED <<count, todo, ledger, open, subscribed, conn, received, seam, losses>>

Next ==
    \/ \E r \in Runs : Publish(r) \/ DrainReturns(r) \/ DrainCut(r)
    \/ \E c \in Clients : Subscribe(c) \/ JoinLive(c) \/ Disconnect(c)
                          \/ Stall(c) \/ ReadAgain(c)

Spec == Init /\ [][Next]_vars

\* Runs go on; nothing has to be cancelled or to fail.  A drain returns once its
\* client has read what was buffered, even if the client stops again at once: the
\* wake-up is not taken back, so a client that reads over and over lets every drain
\* through.
Fairness == \A r \in Runs : WF_vars(Publish(r)) /\ SF_vars(DrainReturns(r))

FairSpec == Spec /\ Fairness
-----------------------------------------------------------------------------
(* Properties.                                                             *)

Of(r, es) == Kept(es, [run : {r}, k : Nat])

\* The events of a run that are through all handlers.
Through(r) == IF todo[r] = <<>> THEN count[r] ELSE count[r] - 1

\* A run's ledger records its events once and in order, whichever clients come,
\* go, or break off in the middle of a broadcast; all that a cancelled
\* publication or a failed write takes out of it is the one event.
LedgerComplete ==
    \A r \in Runs :
        Of(r, ledger[r]) = Kept([k \in 1..Through(r) |-> Event(r, k)],
                                Events \ unrecorded)

\* No client sees an event twice, or two events of a run out of order: neither
\* live, nor replayed, nor where the replay ends and the live stream begins.
StreamInOrder ==
    \A c \in Clients : \A i, j \in DOMAIN received[c] :
        i < j /\ received[c][i].run = received[c][j].run =>
            received[c][i].k < received[c][j].k

\* Once the live stream of a client has begun, no event of a run is skipped but
\* one whose publication was cancelled before the client's turn.
LiveGapless ==
    \A c \in Clients : \A i \in seam[c] + 1..Len(received[c]) :
        \A j \in i + 1..Len(received[c]) :
            LET e == received[c][i] f == received[c][j]
            IN  e.run = f.run =>
                    \A k \in e.k + 1..f.k - 1 :
                        \/ \E m \in i + 1..j - 1 :
                              received[c][m].run = e.run /\ received[c][m].k = k
                        \/ Event(e.run, k) \in missed[c]

\* A client that replays a run and then follows it live has all events of the
\* run that went through before its last one.
ReplayCatchesUp ==
    \A c \in Clients : \A i \in DOMAIN received[c] :
        LET e == received[c][i]
        IN  conn[c] = "live" /\ e.run = ReplayRun[c] =>
                \A k \in 1..e.k - 1 : \E j \in 1..i - 1 :
                    received[c][j] = Event(e.run, k)

\* The run has left its EventWriter for good.
Ended(r) == count[r] > 0 /\ r \notin open /\ todo[r] = <<>>

\* A run gets to its end although clients break off, publications are cut off and
\* writes fail, unless a client keeps its connection open and does not read.
RunsFinish ==
    \A r \in Runs : <>Ended(r) \/ <>[](stalled # {})
=============================================================================
