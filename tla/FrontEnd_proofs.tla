--------------------------- MODULE FrontEnd_proofs ---------------------------
(***************************************************************************)
(* Theorems about FrontEnd for every number of connections, commands and   *)
(* requests: the TUI is never left busy by a command that is over.         *)
(***************************************************************************)
EXTENDS FrontEnd, SequenceTheorems, TLAPS

CommandLines == [method : {"send", "respond", "close"}, n : Numbers, content : Lines,
                 ask : 0..MaxAsks]
ClientLines == [kind : Replies \cup {"requested", "denied", "waiting", "closed"}, arg : Nat]

\* The next number of a message or session.close command is in use nowhere, and a
\* request on the way to the client is one.
Numbered ==
    /\ \A i \in DOMAIN toCore :
          IF toCore[i].method = "respond"
          THEN toCore[i].n > MaxCommands /\ toCore[i].ask # 0
          ELSE toCore[i].n <= issued
    /\ \A i \in DOMAIN toCore :
          toCore[i].method = "close" => phase # "open" /\ toCore[i].n = issued
    /\ \A s \in Sessions : caller[s] <= issued
    /\ \A i \in DOMAIN toClient :
          toClient[i].kind \in Replies =>
              toClient[i].arg <= issued \/ toClient[i].arg > MaxCommands
    /\ \A i \in DOMAIN toClient : toClient[i].kind = "requested" => toClient[i].arg \in Asks

\* The lines after which the TUI is not busy, and those that end command n.
Frees(line) == line.kind \in {"error", "waiting", "closed"}
Ends(line, n) == line.kind \in Replies /\ line.arg = n

\* The numbers a message can have: session.close is the last command of a client.
Messages == {n \in 1..issued : phase # "open" => n # issued}

\* Message n is on the way to the daemon or its run goes on.
Pending(n) ==
    /\ \/ \E i \in DOMAIN toCore : toCore[i].method = "send" /\ toCore[i].n = n
       \/ run[1] \in {"running", "asking"} /\ caller[1] = n
    /\ ~(run[1] = "finishing" /\ caller[1] = n)

\* While the TUI is busy it waits for a message whose reply it does not see before
\* a line that frees it.
Outstanding ==
    tui /\ busy /\ up /\ conn = 1 =>
        \E n \in waiting :
            /\ n \in Messages
            /\ \A i \in DOMAIN toClient : Ends(toClient[i], n) => \E j \in 1..i : Frees(toClient[j])
            /\ Pending(n) \/ \E j \in DOMAIN toClient : Frees(toClient[j])

IInv == TypeOK /\ Numbered /\ Outstanding
-----------------------------------------------------------------------------
(* Sequences, line by line.                                                *)

LEMMA Appended ==
    ASSUME NEW S, NEW s \in Seq(S), NEW e \in S
    PROVE  /\ Append(s, e) \in Seq(S)
           /\ DOMAIN s = 1..Len(s) /\ Len(s) \in Nat
           /\ DOMAIN Append(s, e) = 1..Len(s) + 1
           /\ \A i \in 1..Len(s) : Append(s, e)[i] = s[i]
           /\ Append(s, e)[Len(s) + 1] = e
<1>1. DOMAIN s = 1..Len(s) /\ Len(s) \in Nat
  BY LenProperties
<1>2. Append(s, e) \in Seq(S) /\ Len(Append(s, e)) = Len(s) + 1
  BY AppendProperties
<1>3. DOMAIN Append(s, e) = 1..Len(s) + 1
  BY <1>2, LenProperties
<1> QED BY <1>1, <1>2, <1>3, AppendProperties

LEMMA Joined ==
    ASSUME NEW S, NEW s \in Seq(S), NEW t \in Seq(S)
    PROVE  /\ s \o t \in Seq(S)
           /\ DOMAIN s = 1..Len(s) /\ DOMAIN t = 1..Len(t)
           /\ Len(s) \in Nat /\ Len(t) \in Nat
           /\ DOMAIN (s \o t) = 1..Len(s) + Len(t)
           /\ \A i \in DOMAIN s : (s \o t)[i] = s[i]
           /\ \A i \in DOMAIN t : (s \o t)[Len(s) + i] = t[i]
<1>1. /\ DOMAIN s = 1..Len(s) /\ DOMAIN t = 1..Len(t)
      /\ Len(s) \in Nat /\ Len(t) \in Nat
  BY LenProperties
<1>2. /\ s \o t \in Seq(S) /\ Len(s \o t) = Len(s) + Len(t)
      /\ \A i \in 1..Len(s) + Len(t) : (s \o t)[i] = IF i <= Len(s) THEN s[i] ELSE t[i - Len(s)]
  BY ConcatProperties
<1>3. DOMAIN (s \o t) = 1..Len(s) + Len(t)
  BY <1>2, LenProperties
<1>4. \A i \in DOMAIN s : (s \o t)[i] = s[i]
  BY <1>1, <1>2
<1>5. \A i \in DOMAIN t : (s \o t)[Len(s) + i] = t[i]
  BY <1>1, <1>2
<1> QED BY <1>1, <1>2, <1>3, <1>4, <1>5

LEMMA Rest ==
    ASSUME NEW S, NEW s \in Seq(S), s # <<>>
    PROVE  /\ Tail(s) \in Seq(S) /\ Head(s) \in S
           /\ DOMAIN s = 1..Len(s) /\ Len(s) \in Nat \ {0} /\ Head(s) = s[1]
           /\ DOMAIN Tail(s) = 1..Len(s) - 1
           /\ \A i \in 1..Len(s) - 1 : Tail(s)[i] = s[i + 1]
<1>1. DOMAIN s = 1..Len(s) /\ Len(s) \in Nat \ {0}
  BY LenProperties, EmptySeq
<1>2. /\ Tail(s) \in Seq(S) /\ Len(Tail(s)) = Len(s) - 1 /\ Head(s) = s[1]
      /\ \A i \in 1..Len(Tail(s)) : Tail(s)[i] = s[i + 1]
  BY HeadTailProperties
<1>3. Head(s) \in S
  BY <1>1, <1>2, ElementOfSeq
<1> QED BY <1>1, <1>2, <1>3, LenProperties
-----------------------------------------------------------------------------
(* What the daemon does.                                                   *)

\* The message that is outstanding stays so when lines are written to the client, as
\* long as its end comes with a line that frees the TUI.
Follow(lines) ==
    /\ lines \in Seq(ClientLines)
    /\ toClient' = IF up THEN toClient \o lines ELSE toClient
    /\ \A i \in DOMAIN lines :
          lines[i].kind \in Replies =>
              lines[i].arg <= issued \/ lines[i].arg > MaxCommands
    /\ \A i \in DOMAIN lines : lines[i].kind = "requested" => lines[i].arg \in Asks
    /\ conn = 1 => \A n \in Messages : Pending(n) =>
          /\ Pending(n)' \/ \E j \in DOMAIN lines : Frees(lines[j])
          /\ \A i \in DOMAIN lines : Ends(lines[i], n) => \E j \in 1..i : Frees(lines[j])

LEMMA FollowStep ==
    ASSUME IInv, UNCHANGED <<tui, phase, up, conn, waiting, issued, busy>>,
           NEW lines, Follow(lines)
    PROVE  /\ toClient' \in Seq(ClientLines)
           /\ \A i \in DOMAIN toClient' :
                 toClient'[i].kind \in Replies =>
                     toClient'[i].arg <= issued \/ toClient'[i].arg > MaxCommands
           /\ \A i \in DOMAIN toClient' :
                 toClient'[i].kind = "requested" => toClient'[i].arg \in Asks
           /\ Outstanding'
<1>1. /\ toClient \in Seq(ClientLines) /\ lines \in Seq(ClientLines)
      /\ waiting \subseteq Numbers /\ issued \in Nat
  BY FrontEndAssumption DEF IInv, TypeOK, ClientLines, Follow, FrontEndAssumption
<1>2. CASE ~up
  BY <1>1, <1>2 DEF Follow, IInv, Numbered, Outstanding
<1>3. CASE up
  <2>1. toClient' = toClient \o lines
    BY <1>3 DEF Follow
  <2>2. /\ toClient' \in Seq(ClientLines)
        /\ DOMAIN toClient = 1..Len(toClient) /\ DOMAIN lines = 1..Len(lines)
        /\ Len(toClient) \in Nat /\ Len(lines) \in Nat
        /\ DOMAIN toClient' = 1..Len(toClient) + Len(lines)
        /\ \A i \in DOMAIN toClient : toClient'[i] = toClient[i]
        /\ \A i \in DOMAIN lines : toClient'[Len(toClient) + i] = lines[i]
    BY <1>1, <2>1, Joined
  <2>3. \A i \in DOMAIN toClient' :
           i \in DOMAIN toClient \/ \E j \in DOMAIN lines : i = Len(toClient) + j
    <3>1. SUFFICES ASSUME NEW i \in DOMAIN toClient', i \notin DOMAIN toClient
                   PROVE  i - Len(toClient) \in DOMAIN lines /\ i = Len(toClient) + (i - Len(toClient))
      OBVIOUS
    <3> QED BY <2>2, <3>1
  <2>4. \A i \in DOMAIN toClient' :
           toClient'[i].kind \in Replies =>
               toClient'[i].arg <= issued \/ toClient'[i].arg > MaxCommands
    BY <2>2, <2>3 DEF IInv, Numbered, Follow
  <2>7. \A i \in DOMAIN toClient' : toClient'[i].kind = "requested" => toClient'[i].arg \in Asks
    BY <2>2, <2>3 DEF IInv, Numbered, Follow
  <2>5. ASSUME tui, busy, conn = 1
        PROVE  \E n \in waiting :
                  /\ n \in Messages
                  /\ \A i \in DOMAIN toClient' :
                        Ends(toClient'[i], n) => \E j \in 1..i : Frees(toClient'[j])
                  /\ Pending(n)' \/ \E j \in DOMAIN toClient' : Frees(toClient'[j])
    <3>1. PICK n \in waiting :
             /\ n \in Messages
             /\ \A i \in DOMAIN toClient : Ends(toClient[i], n) => \E j \in 1..i : Frees(toClient[j])
             /\ Pending(n) \/ \E j \in DOMAIN toClient : Frees(toClient[j])
      BY <1>3, <2>5 DEF IInv, Outstanding
    <3>2. n \in Messages
      BY <3>1
    <3>3. ASSUME NEW j \in DOMAIN toClient, Frees(toClient[j])
          PROVE  /\ j \in DOMAIN toClient' /\ Frees(toClient'[j])
                 /\ \A i \in DOMAIN lines : j \in 1..Len(toClient) + i
      BY <2>2, <3>3
    <3>4. ASSUME NEW j \in DOMAIN lines, Frees(lines[j])
          PROVE  Len(toClient) + j \in DOMAIN toClient' /\ Frees(toClient'[Len(toClient) + j])
      BY <2>2, <3>4
    <3>5. Pending(n)' \/ \E j \in DOMAIN toClient' : Frees(toClient'[j])
      BY <2>5, <3>1, <3>2, <3>3, <3>4 DEF Follow
    <3>6. ASSUME NEW i \in DOMAIN toClient', Ends(toClient'[i], n)
          PROVE  \E j \in 1..i : Frees(toClient'[j])
      <4>1. CASE i \in DOMAIN toClient
        <5>1. PICK j \in 1..i : Frees(toClient[j])
          BY <2>2, <3>1, <3>6, <4>1
        <5>2. j \in DOMAIN toClient
          BY <2>2, <4>1
        <5> QED BY <3>3, <5>1, <5>2
      <4>2. ASSUME NEW k \in DOMAIN lines, i = Len(toClient) + k
            PROVE  \E j \in 1..i : Frees(toClient'[j])
        <5>1. Ends(lines[k], n)
          BY <2>2, <3>6, <4>2
        <5>2. CASE Pending(n)
          <6>1. PICK j \in 1..k : Frees(lines[j])
            BY <2>5, <3>2, <5>1, <5>2 DEF Follow
          <6>2. j \in DOMAIN lines /\ Len(toClient) + j \in 1..i
            BY <2>2, <4>2
          <6> QED BY <3>4, <6>1, <6>2
        <5>3. CASE \E j \in DOMAIN toClient : Frees(toClient[j])
          BY <3>3, <4>2, <5>3
        <5> QED BY <3>1, <5>2, <5>3
      <4> QED BY <2>3, <4>1, <4>2
    <3> QED BY <3>1, <3>5, <3>6
  <2>6. Outstanding'
    BY <2>5 DEF Outstanding, Messages
  <2> QED BY <2>2, <2>4, <2>6, <2>7
<1> QED BY <1>2, <1>3

LEMMA CoreStep ==
    ASSUME IInv, UNCHANGED <<tui, limited, up, conn, client>>, NEW lines, Follow(lines),
           toCore' \in Seq(CommandLines),
           \A i \in DOMAIN toCore' : \E j \in DOMAIN toCore : toCore'[i] = toCore[j],
           run' \in [Sessions -> {"none", "running", "asking", "finishing", "closed"}],
           caller' \in [Sessions -> 0..MaxCommands], \A s \in Sessions : caller'[s] <= issued,
           ask' \in [Sessions -> 0..MaxAsks], asks' \in 0..MaxAsks,
           \A s \in Sessions : run'[s] = "asking" <=> ask'[s] # 0
    PROVE  IInv'
<1>1. UNCHANGED <<phase, waiting, issued, busy, shown, stdin>>
  BY DEF client
<1>2. /\ toClient' \in Seq(ClientLines)
      /\ \A i \in DOMAIN toClient' :
            toClient'[i].kind \in Replies =>
                toClient'[i].arg <= issued \/ toClient'[i].arg > MaxCommands
      /\ \A i \in DOMAIN toClient' : toClient'[i].kind = "requested" => toClient'[i].arg \in Asks
      /\ Outstanding'
  BY <1>1, FollowStep
<1>3. TypeOK'
  <2>1. {tui, limited, up, busy}' = {tui, limited, up, busy}
    BY <1>1
  <2> QED BY <1>1, <1>2, <2>1 DEF IInv, TypeOK, CommandLines, ClientLines
<1>4. Numbered'
  <2>1. \A i \in DOMAIN toCore' :
           IF toCore'[i].method = "respond"
           THEN toCore'[i].n > MaxCommands /\ toCore'[i].ask # 0
           ELSE toCore'[i].n <= issued
    BY DEF IInv, Numbered
  <2>2. \A i \in DOMAIN toCore' :
           toCore'[i].method = "close" => phase # "open" /\ toCore'[i].n = issued
    BY DEF IInv, Numbered
  <2> QED BY <1>1, <1>2, <2>1, <2>2 DEF Numbered
<1> QED BY <1>2, <1>3, <1>4 DEF IInv

\* One line, or an event and a reply.
LEMMA OneLine ==
    ASSUME NEW l \in ClientLines
    PROVE  <<l>> \in Seq(ClientLines) /\ DOMAIN <<l>> = {1} /\ <<l>>[1] = l
OBVIOUS

LEMMA TwoLines ==
    ASSUME NEW k \in ClientLines, NEW l \in ClientLines
    PROVE  /\ <<k, l>> \in Seq(ClientLines) /\ DOMAIN <<k, l>> = {1, 2}
           /\ <<k, l>>[1] = k /\ <<k, l>>[2] = l
OBVIOUS

\* The types of what a step of the daemon changes.
LEMMA CoreTypes ==
    ASSUME IInv
    PROVE  /\ run \in [Sessions -> {"none", "running", "asking", "finishing", "closed"}]
           /\ caller \in [Sessions -> 0..MaxCommands] /\ ask \in [Sessions -> 0..MaxAsks]
           /\ asks \in 0..MaxAsks /\ issued \in 0..MaxCommands /\ conn \in Sessions
           /\ \A s \in Sessions : /\ run[s] = "asking" <=> ask[s] # 0
                                  /\ caller[s] <= issued
           /\ toCore \in Seq(CommandLines) /\ toClient \in Seq(ClientLines)
           /\ MaxCommands \in Nat /\ MaxAsks \in Nat /\ MaxConns \in Nat \ {0} /\ 1 \in Sessions
           /\ \A s \in Sessions : caller[s] \in Nat /\ ask[s] \in Nat
<1>1. MaxCommands \in Nat /\ MaxAsks \in Nat /\ MaxConns \in Nat \ {0}
  BY FrontEndAssumption DEF FrontEndAssumption
<1>2. /\ run \in [Sessions -> {"none", "running", "asking", "finishing", "closed"}]
      /\ caller \in [Sessions -> 0..MaxCommands] /\ ask \in [Sessions -> 0..MaxAsks]
      /\ asks \in 0..MaxAsks /\ issued \in 0..MaxCommands /\ conn \in Sessions
      /\ \A s \in Sessions : run[s] = "asking" <=> ask[s] # 0
      /\ toCore \in Seq(CommandLines) /\ toClient \in Seq(ClientLines)
  BY DEF IInv, TypeOK, CommandLines, ClientLines
<1>3. \A s \in Sessions : caller[s] <= issued
  BY DEF IInv, Numbered
<1> QED BY <1>1, <1>2, <1>3 DEF Sessions

\* A step of the run of s, with the line it writes.
LEMMA RunStep ==
    ASSUME IInv, UNCHANGED <<tui, limited, up, conn, toCore, client, caller>>,
           NEW s \in Sessions, NEW state \in {"none", "running", "asking", "finishing"},
           run' = [run EXCEPT ![s] = state],
           ask' \in [Sessions -> 0..MaxAsks], asks' \in 0..MaxAsks,
           \A q \in Sessions : run'[q] = "asking" <=> ask'[q] # 0,
           NEW line \in ClientLines, NEW lines, lines = <<line>> \/ lines = <<>>,
           toClient' = IF up THEN toClient \o lines ELSE toClient,
           line.kind \in Replies => line.arg = caller[s],
           line.kind = "requested" => line.arg \in Asks,
           \/ /\ run[s] \in {"running", "asking"} /\ state \in {"running", "asking"}
              /\ line.kind \notin Replies
           \/ Frees(line) /\ (lines = <<>> => s # conn)
           \/ run[s] = "finishing" /\ state = "none" /\ (lines # <<>> => s = conn)
    PROVE  IInv'
<1>1. lines \in Seq(ClientLines) /\ \A i \in DOMAIN lines : i = 1 /\ lines[1] = line
  <2>1. CASE lines = <<line>>
    BY <2>1, OneLine
  <2>2. CASE lines = <<>>
    BY <2>2, EmptySeq
  <2> QED BY <2>1, <2>2
<1>2. run' \in [Sessions -> {"none", "running", "asking", "finishing", "closed"}]
  BY CoreTypes
<1>3. conn = 1 => \A n \in 1..issued : Pending(n) =>
         /\ Pending(n)' \/ \E j \in DOMAIN lines : Frees(lines[j])
         /\ \A i \in DOMAIN lines : Ends(lines[i], n) => \E j \in 1..i : Frees(lines[j])
  <2>1. SUFFICES ASSUME conn = 1, NEW n \in 1..issued, Pending(n)
                 PROVE  /\ Pending(n)' \/ \E j \in DOMAIN lines : Frees(lines[j])
                        /\ \A i \in DOMAIN lines :
                              Ends(lines[i], n) => \E j \in 1..i : Frees(lines[j])
    OBVIOUS
  <2>2. run'[s] = state /\ \A q \in Sessions : q # s => run'[q] = run[q]
    BY CoreTypes
  <2>3. CASE lines # <<>> /\ Frees(line)
    <3>1. 1 \in DOMAIN lines /\ Frees(lines[1]) /\ \A i \in DOMAIN lines : 1 \in 1..i
      BY <2>3, OneLine
    <3> QED BY <3>1
  <2>4. CASE lines = <<>> \/ line.kind \notin Replies
    <3>1. \A i \in DOMAIN lines : ~Ends(lines[i], n)
      BY <1>1, <2>4 DEF Ends
    <3>2. CASE s # 1
      <4>1. run'[1] = run[1] /\ toCore' = toCore /\ caller' = caller
        BY <2>2, <3>2, CoreTypes
      <4> QED BY <2>1, <3>1, <4>1 DEF Pending
    <3>3. CASE /\ s = 1 /\ run[s] \in {"running", "asking"} /\ state \in {"running", "asking"}
      BY <2>1, <2>2, <3>1, <3>3 DEF Pending
    <3>4. CASE s = 1 /\ Frees(line) /\ lines # <<>>
      BY <2>3, <3>4
    <3>5. CASE s = 1 /\ run[s] = "finishing" /\ state = "none"
      BY <2>1, <2>2, <3>1, <3>5 DEF Pending
    <3> QED BY <2>1, <3>2, <3>3, <3>4, <3>5
  <2>5. CASE s = 1 /\ run[s] = "finishing" /\ state = "none"
    <3>1. caller[1] # n
      BY <2>1, <2>5 DEF Pending
    <3>2. Pending(n)'
      BY <2>1, <2>2, <2>5 DEF Pending
    <3>3. \A i \in DOMAIN lines : ~Ends(lines[i], n)
      BY <1>1, <2>5, <3>1 DEF Ends
    <3> QED BY <3>2, <3>3
  <2> QED BY <2>1, <2>3, <2>4, <2>5
<1>4. \A i \in DOMAIN lines :
         lines[i].kind \in Replies => lines[i].arg <= issued \/ lines[i].arg > MaxCommands
  BY <1>1, CoreTypes
<1>8. \A i \in DOMAIN lines : lines[i].kind = "requested" => lines[i].arg \in Asks
  BY <1>1
<1>5. Follow(lines)
  BY <1>1, <1>3, <1>4, <1>8 DEF Follow, Messages
<1>6. \A i \in DOMAIN toCore' : \E j \in DOMAIN toCore : toCore'[i] = toCore[j]
  OBVIOUS
<1>7. toCore' \in Seq(CommandLines) /\ caller' \in [Sessions -> 0..MaxCommands]
      /\ \A q \in Sessions : caller'[q] <= issued
  BY CoreTypes
<1> QED BY <1>2, <1>5, <1>6, <1>7, CoreStep

LEMMA AskStep == ASSUME IInv, NEW s \in Sessions, Ask(s) PROVE IInv'
<1>1. /\ run[s] = "running" /\ asks < MaxAsks /\ asks' = asks + 1
      /\ run' = [run EXCEPT ![s] = "asking"] /\ ask' = [ask EXCEPT ![s] = asks + 1]
      /\ UNCHANGED <<tui, limited, up, conn, toCore, client, caller>>
  BY DEF Ask
<1> DEFINE line == Event("requested", asks + 1)
           lines == <<line>>
<1>2. toClient' = IF up THEN toClient \o lines ELSE toClient
  BY DEF Ask, Tell
<1>3. line \in ClientLines /\ line.kind = "requested" /\ line.arg \in Asks
  BY <1>1, CoreTypes DEF Event, ClientLines, Asks
<1>4. asks' \in 0..MaxAsks /\ ask' \in [Sessions -> 0..MaxAsks] /\ asks + 1 # 0
  <2>1. asks + 1 \in 0..MaxAsks /\ asks + 1 # 0
    BY <1>1, CoreTypes
  <2> QED BY <1>1, <2>1, CoreTypes
<1>5. \A q \in Sessions : run'[q] = "asking" <=> ask'[q] # 0
  BY <1>1, <1>4, CoreTypes
<1> HIDE DEF line
<1> QED BY <1>1, <1>2, <1>3, <1>4, <1>5, RunStep DEF Replies

LEMMA TimeOutStep == ASSUME IInv, NEW s \in Sessions, TimeOut(s) PROVE IInv'
<1>1. /\ run[s] = "asking" /\ run' = [run EXCEPT ![s] = "running"]
      /\ ask' = [ask EXCEPT ![s] = 0]
      /\ UNCHANGED <<tui, limited, up, conn, toCore, client, caller, asks>>
  BY DEF TimeOut
<1> DEFINE line == Event("denied", ask[s])
           lines == <<line>>
<1>2. toClient' = IF up THEN toClient \o lines ELSE toClient
  BY DEF TimeOut, Tell
<1>3. line \in ClientLines /\ line.kind = "denied"
  BY CoreTypes DEF Event, ClientLines
<1>4. /\ asks' \in 0..MaxAsks /\ ask' \in [Sessions -> 0..MaxAsks]
      /\ \A q \in Sessions : run'[q] = "asking" <=> ask'[q] # 0
  BY <1>1, CoreTypes
<1> HIDE DEF line
<1> QED BY <1>1, <1>2, <1>3, <1>4, RunStep DEF Replies

LEMMA EndRunStep == ASSUME IInv, NEW s \in Sessions, EndRun(s) PROVE IInv'
<1>1. /\ run[s] = "running" /\ run' = [run EXCEPT ![s] = "finishing"]
      /\ UNCHANGED <<tui, limited, up, conn, toCore, client, caller, ask, asks>>
  BY DEF EndRun
<1> DEFINE line == Event("waiting", 0)
           lines == <<line>>
<1>2. toClient' = IF up THEN toClient \o lines ELSE toClient
  BY DEF EndRun, Tell
<1>3. line \in ClientLines /\ line.kind = "waiting" /\ lines # <<>>
  BY DEF Event, ClientLines
<1>4. /\ asks' \in 0..MaxAsks /\ ask' \in [Sessions -> 0..MaxAsks]
      /\ \A q \in Sessions : run'[q] = "asking" <=> ask'[q] # 0
  BY <1>1, CoreTypes
<1> HIDE DEF line
<1> QED BY <1>1, <1>2, <1>3, <1>4, RunStep DEF Frees, Replies

LEMMA ReplyStep == ASSUME IInv, NEW s \in Sessions, Release(s) \/ RunFails(s) PROVE IInv'
<1>1. PICK kind \in {"ok", "error"} :
         /\ \/ kind = "ok" /\ run[s] = "finishing"
            \/ kind = "error" /\ run[s] \in {"running", "finishing"}
         /\ TellReply(s, <<>>, Reply(kind, caller[s]))
         /\ run' = [run EXCEPT ![s] = "none"]
         /\ UNCHANGED <<tui, limited, up, conn, toCore, client, caller, ask, asks>>
  BY DEF Release, RunFails
<1> DEFINE line == Reply(kind, caller[s])
           lines == IF s = conn THEN <<line>> ELSE <<>>
<1>2. line \in ClientLines /\ line.kind = kind /\ line.arg = caller[s]
  BY CoreTypes DEF Reply, ClientLines, Replies
<1>3. toClient' = IF up THEN toClient \o lines ELSE toClient
  <2>1. <<>> \o lines = lines
    <3>1. lines \in Seq(ClientLines)
      BY <1>2
    <3> QED BY <3>1, ConcatEmptySeq
  <2> QED BY <1>1, <2>1 DEF TellReply, Tell
<1>4. /\ asks' \in 0..MaxAsks /\ ask' \in [Sessions -> 0..MaxAsks]
      /\ \A q \in Sessions : run'[q] = "asking" <=> ask'[q] # 0
  BY <1>1, CoreTypes
<1>5. /\ lines = <<line>> \/ lines = <<>>
      /\ lines = <<>> <=> s # conn
  OBVIOUS
<1> HIDE DEF line, lines
<1> QED BY <1>1, <1>2, <1>3, <1>4, <1>5, RunStep DEF Frees

\* The command the daemon takes, and what is left on the way.
LEMMA NextCommand ==
    ASSUME IInv, toCore # <<>>, toCore' = Tail(toCore)
    PROVE  /\ Head(toCore) \in CommandLines /\ toCore' \in Seq(CommandLines)
           /\ \A i \in DOMAIN toCore' : \E j \in DOMAIN toCore : toCore'[i] = toCore[j]
           /\ \A j \in DOMAIN toCore :
                 toCore[j] = Head(toCore) \/ \E i \in DOMAIN toCore' : toCore'[i] = toCore[j]
           /\ IF Head(toCore).method = "respond"
              THEN Head(toCore).n > MaxCommands /\ Head(toCore).ask # 0
              ELSE Head(toCore).n <= issued
           /\ Head(toCore).method = "close" => phase # "open" /\ Head(toCore).n = issued
<1>1. /\ Tail(toCore) \in Seq(CommandLines) /\ Head(toCore) \in CommandLines
      /\ DOMAIN toCore = 1..Len(toCore) /\ Len(toCore) \in Nat \ {0} /\ Head(toCore) = toCore[1]
      /\ DOMAIN Tail(toCore) = 1..Len(toCore) - 1
      /\ \A i \in 1..Len(toCore) - 1 : Tail(toCore)[i] = toCore[i + 1]
  BY CoreTypes, Rest
<1>2. \A i \in DOMAIN toCore' : i + 1 \in DOMAIN toCore /\ toCore'[i] = toCore[i + 1]
  BY <1>1
<1>3. ASSUME NEW j \in DOMAIN toCore, j # 1
      PROVE  j - 1 \in DOMAIN toCore' /\ toCore'[j - 1] = toCore[j]
  BY <1>1, <1>3
<1>4. 1 \in DOMAIN toCore
  BY <1>1
<1> QED BY <1>1, <1>2, <1>3, <1>4 DEF IInv, Numbered

LEMMA ServeStep == ASSUME IInv, Serve PROVE IInv'
<1> DEFINE c == Head(toCore)
<1>1. /\ toCore # <<>> /\ toCore' = Tail(toCore)
      /\ UNCHANGED <<tui, limited, up, conn, client, asks>>
      /\ \/ c.method = "send" /\ ServeSend(c)
         \/ c.method = "respond" /\ ServeRespond(c)
         \/ c.method = "close" /\ ServeClose(c)
  BY DEF Serve
<1>2. /\ c \in CommandLines /\ toCore' \in Seq(CommandLines)
      /\ \A i \in DOMAIN toCore' : \E j \in DOMAIN toCore : toCore'[i] = toCore[j]
      /\ \A j \in DOMAIN toCore :
            toCore[j] = c \/ \E i \in DOMAIN toCore' : toCore'[i] = toCore[j]
      /\ IF c.method = "respond" THEN c.n > MaxCommands /\ c.ask # 0 ELSE c.n <= issued
      /\ c.method = "close" => phase # "open" /\ c.n = issued
  BY <1>1, NextCommand
<1> HIDE DEF c
<1>3. c.n \in Nat /\ c.n # 0 /\ c.ask \in 0..MaxAsks
  BY <1>2, CoreTypes DEF CommandLines, Numbers
<1>4. ASSUME NEW l \in ClientLines, l.kind \in Replies => l.arg = c.n
      PROVE  l.kind \in Replies => l.arg <= issued \/ l.arg > MaxCommands
  BY <1>2, <1>4
<1>5. CASE c.method = "send" /\ run[conn] = "none" /\ ServeSend(c)
  <2>1. /\ run' = [run EXCEPT ![conn] = "running"] /\ caller' = [caller EXCEPT ![conn] = c.n]
        /\ UNCHANGED <<toClient, ask>>
    BY <1>5 DEF ServeSend
  <2>2. c.n \in 0..MaxCommands /\ c.n <= issued
    BY <1>2, <1>3, <1>5, CoreTypes
  <2>3. /\ run' \in [Sessions -> {"none", "running", "asking", "finishing", "closed"}]
        /\ caller' \in [Sessions -> 0..MaxCommands] /\ \A s \in Sessions : caller'[s] <= issued
        /\ \A s \in Sessions : run'[s] = "asking" <=> ask'[s] # 0
    BY <2>1, <2>2, <1>5, CoreTypes
  <2>4. conn = 1 => \A n \in 1..issued : Pending(n) => Pending(n)'
    <3>1. SUFFICES ASSUME conn = 1, NEW n \in 1..issued, Pending(n) PROVE Pending(n)'
      OBVIOUS
    <3>2. run'[1] = "running" /\ caller'[1] = c.n /\ run[1] = "none"
      BY <1>5, <2>1, <3>1, CoreTypes
    <3>3. PICK j \in DOMAIN toCore : toCore[j].method = "send" /\ toCore[j].n = n
      BY <3>1, <3>2 DEF Pending
    <3>4. CASE toCore[j] = c
      BY <3>2, <3>3, <3>4 DEF Pending
    <3>5. CASE \E i \in DOMAIN toCore' : toCore'[i] = toCore[j]
      BY <3>2, <3>3, <3>5 DEF Pending
    <3> QED BY <1>2, <3>4, <3>5
  <2>5. Follow(<<>>)
    <3>1. toClient \o <<>> = toClient /\ <<>> \in Seq(ClientLines) /\ DOMAIN <<>> = {}
      BY CoreTypes, ConcatEmptySeq, EmptySeq
    <3> QED BY <2>1, <2>4, <3>1 DEF Follow, Messages
  <2> QED BY <1>1, <1>2, <2>1, <2>3, <2>5, CoreTypes, CoreStep
<1>6. CASE c.method = "respond" /\ ServeRespond(c)
  <2> DEFINE l == Reply("ok", c.n)
  <2>1. /\ run' = [s \in Sessions |-> IF ask[s] = c.ask THEN "running" ELSE run[s]]
        /\ ask' = [s \in Sessions |-> IF ask[s] = c.ask THEN 0 ELSE ask[s]]
        /\ toClient' = IF up THEN toClient \o <<l>> ELSE toClient
        /\ UNCHANGED caller
    BY <1>6 DEF ServeRespond, Tell
  <2>2. /\ run' \in [Sessions -> {"none", "running", "asking", "finishing", "closed"}]
        /\ ask' \in [Sessions -> 0..MaxAsks]
        /\ \A s \in Sessions : run'[s] = "asking" <=> ask'[s] # 0
    BY <1>2, <1>6, <2>1, CoreTypes
  <2>3. l \in ClientLines /\ l.kind = "ok" /\ l.arg = c.n
    BY <1>3 DEF Reply, ClientLines, Replies
  <2> HIDE DEF l
  <2>4. ASSUME conn = 1, NEW n \in 1..issued, Pending(n)
        PROVE  Pending(n)' /\ \A i \in DOMAIN <<l>> : ~Ends(<<l>>[i], n)
    <3>1. \/ run'[1] = run[1]
          \/ run[1] = "asking" /\ run'[1] = "running"
      BY <1>2, <1>6, <2>1, CoreTypes
    <3>2. \A j \in DOMAIN toCore : toCore[j].method = "send" =>
             \E i \in DOMAIN toCore' : toCore'[i] = toCore[j]
      BY <1>2, <1>6
    <3>3. Pending(n)'
      BY <2>1, <2>4, <3>1, <3>2 DEF Pending
    <3>4. c.n # n
      BY <1>2, <1>3, <1>6, <2>4, CoreTypes
    <3> QED BY <2>3, <3>3, <3>4, OneLine DEF Ends
  <2>6. \A i \in DOMAIN <<l>> : <<l>>[i].kind # "requested"
    BY <2>3, OneLine
  <2>5. Follow(<<l>>)
    BY <1>4, <2>1, <2>3, <2>4, <2>6, OneLine DEF Follow, Messages
  <2> QED BY <1>1, <1>2, <2>1, <2>2, <2>5, CoreTypes, CoreStep
<1>7. CASE /\ c.method = "send" /\ UNCHANGED <<run, caller, ask>>
           /\ Tell(<<Reply("error", c.n)>>)
  <2> DEFINE l == Reply("error", c.n)
  <2>1. l \in ClientLines /\ l.kind = "error" /\ l.arg = c.n
    BY <1>3 DEF Reply, ClientLines, Replies
  <2>2. toClient' = IF up THEN toClient \o <<l>> ELSE toClient
    BY <1>7 DEF Tell
  <2> HIDE DEF l
  <2>3. 1 \in DOMAIN <<l>> /\ Frees(<<l>>[1]) /\ \A i \in DOMAIN <<l>> : 1 \in 1..i
    BY <2>1, OneLine DEF Frees
  <2>4. \A i \in DOMAIN <<l>> : <<l>>[i] = l
    BY <2>1, OneLine
  <2>5. \A i \in DOMAIN <<l>> : <<l>>[i].kind \in Replies =>
           <<l>>[i].arg <= issued \/ <<l>>[i].arg > MaxCommands
    BY <1>4, <2>1, <2>4
  <2>7. \A i \in DOMAIN <<l>> : <<l>>[i].kind # "requested"
    BY <2>1, <2>4
  <2>6. Follow(<<l>>)
    BY <2>1, <2>2, <2>3, <2>5, <2>7, OneLine DEF Follow
  <2> QED BY <1>1, <1>2, <1>7, <2>6, CoreTypes, CoreStep
<1>8. CASE /\ c.method = "close" /\ run[conn] \in {"none", "closed"} /\ ServeClose(c)
  <2> DEFINE k == Event("closed", 0)
             l == Reply("ok", c.n)
  <2>1. /\ run' = [run EXCEPT ![conn] = "closed"] /\ UNCHANGED <<caller, ask>>
        /\ toClient' = IF up THEN toClient \o <<k, l>> ELSE toClient
    BY <1>8 DEF ServeClose, Tell
  <2>2. /\ run' \in [Sessions -> {"none", "running", "asking", "finishing", "closed"}]
        /\ \A s \in Sessions : run'[s] = "asking" <=> ask'[s] # 0
    BY <1>8, <2>1, CoreTypes
  <2>3. /\ k \in ClientLines /\ k.kind = "closed"
        /\ l \in ClientLines /\ l.kind = "ok" /\ l.arg = c.n
    BY <1>3 DEF Reply, Event, ClientLines, Replies
  <2> HIDE DEF k, l
  <2>4. /\ 1 \in DOMAIN <<k, l>> /\ Frees(<<k, l>>[1]) /\ \A i \in DOMAIN <<k, l>> : 1 \in 1..i
        /\ \A i \in DOMAIN <<k, l>> : <<k, l>>[i] \in {k, l}
    BY <2>3, TwoLines DEF Frees
  <2>5. \A i \in DOMAIN <<k, l>> : <<k, l>>[i].kind \in Replies =>
           <<k, l>>[i].arg <= issued \/ <<k, l>>[i].arg > MaxCommands
    BY <1>4, <2>3, <2>4 DEF Replies
  <2>7. \A i \in DOMAIN <<k, l>> : <<k, l>>[i].kind # "requested"
    BY <2>3, <2>4
  <2>6. Follow(<<k, l>>)
    BY <2>1, <2>3, <2>4, <2>5, <2>7, TwoLines DEF Follow
  <2> QED BY <1>1, <1>2, <2>1, <2>2, <2>6, CoreTypes, CoreStep
<1>9. CASE c.method = "send" /\ ServeSend(c)
  BY <1>5, <1>7, <1>9 DEF ServeSend
<1>11. CASE /\ c.method = "close" /\ UNCHANGED <<run, caller, ask>>
            /\ Tell(<<Reply("refused", c.n)>>)
  <2> DEFINE l == Reply("refused", c.n)
  <2>1. l \in ClientLines /\ l.kind = "refused" /\ l.arg = c.n
    BY <1>3 DEF Reply, ClientLines, Replies
  <2>2. toClient' = IF up THEN toClient \o <<l>> ELSE toClient
    BY <1>11 DEF Tell
  <2> HIDE DEF l
  <2>3. ASSUME NEW n \in Messages, Pending(n)
        PROVE  Pending(n)' /\ \A i \in DOMAIN <<l>> : ~Ends(<<l>>[i], n)
    <3>1. \A j \in DOMAIN toCore : toCore[j].method = "send" =>
             \E i \in DOMAIN toCore' : toCore'[i] = toCore[j]
      BY <1>2, <1>11
    <3>2. Pending(n)'
      BY <1>11, <2>3, <3>1 DEF Pending
    <3>3. c.n # n
      BY <1>2, <1>11, <2>3 DEF Messages
    <3> QED BY <2>1, <3>2, <3>3, OneLine DEF Ends
  <2>4. \A i \in DOMAIN <<l>> : <<l>>[i] = l
    BY <2>1, OneLine
  <2>5. \A i \in DOMAIN <<l>> : <<l>>[i].kind \in Replies =>
           <<l>>[i].arg <= issued \/ <<l>>[i].arg > MaxCommands
    BY <1>4, <2>1, <2>4
  <2>7. \A i \in DOMAIN <<l>> : <<l>>[i].kind # "requested"
    BY <2>1, <2>4
  <2>6. Follow(<<l>>)
    BY <2>1, <2>2, <2>3, <2>5, <2>7, OneLine DEF Follow
  <2> QED BY <1>1, <1>2, <1>11, <2>6, CoreTypes, CoreStep
<1>10. CASE c.method = "close" /\ ServeClose(c)
  BY <1>8, <1>10, <1>11 DEF ServeClose
<1> QED BY <1>1, <1>6, <1>9, <1>10
-----------------------------------------------------------------------------
(* What the client does.                                                   *)

ClientTypeOK ==
    /\ {tui, limited, up, busy} \subseteq BOOLEAN
    /\ phase \in {"open", "leaving", "gone"}
    /\ toCore \in Seq(CommandLines)
    /\ waiting \subseteq Numbers /\ issued \in 0..MaxCommands
    /\ shown \subseteq Asks /\ stdin \in Seq(Lines)

LEMMA ClientTypes ==
    ASSUME IInv
    PROVE  ClientTypeOK
BY DEF IInv, TypeOK, ClientTypeOK, CommandLines

\* The client adds to what is on the way, and gets busy only with a message of its own.
LEMMA ClientStep ==
    ASSUME IInv, UNCHANGED <<tui, limited, up, conn, toClient, core>>, ClientTypeOK',
           phase = "open", waiting \subseteq waiting', issued' = issued \/ issued' = issued + 1,
           tui /\ up /\ phase' # "open" => busy' = busy /\ issued' = issued + 1,
           \A j \in DOMAIN toCore : \E i \in DOMAIN toCore' : toCore'[i] = toCore[j],
           \A i \in DOMAIN toCore' :
              \/ \E j \in DOMAIN toCore : toCore'[i] = toCore[j]
              \/ /\ IF toCore'[i].method = "respond"
                    THEN toCore'[i].n > MaxCommands /\ toCore'[i].ask # 0
                    ELSE toCore'[i].n <= issued'
                 /\ toCore'[i].method = "close" => phase' # "open" /\ toCore'[i].n = issued',
           tui /\ up /\ busy' =>
              \/ busy
              \/ /\ issued' = issued + 1 /\ issued' \in waiting'
                 /\ \E i \in DOMAIN toCore' :
                       toCore'[i].method = "send" /\ toCore'[i].n = issued'
    PROVE  IInv'
<1>1. UNCHANGED <<run, caller, ask, asks>>
  BY DEF core
<1>2. issued \in Nat /\ issued' \in Nat /\ issued <= issued' /\ issued' <= MaxCommands
      /\ MaxCommands \in Nat
  BY CoreTypes DEF ClientTypeOK
<1>3. TypeOK'
  BY <1>1 DEF IInv, TypeOK, ClientTypeOK, CommandLines
<1>4. /\ \A i \in DOMAIN toCore : toCore[i].n \in Nat
      /\ \A i \in DOMAIN toClient : toClient[i].arg \in Nat
      /\ \A s \in Sessions : caller[s] \in Nat
  <2>1. \A i \in DOMAIN toCore : toCore[i] \in CommandLines
    BY CoreTypes, LenProperties, ElementOfSeq
  <2>2. \A i \in DOMAIN toClient : toClient[i] \in ClientLines
    BY CoreTypes, LenProperties, ElementOfSeq
  <2>3. \A l \in CommandLines : l.n \in Nat
    BY CoreTypes DEF CommandLines, Numbers
  <2>4. \A l \in ClientLines : l.arg \in Nat
    BY DEF ClientLines
  <2> QED BY <2>1, <2>2, <2>3, <2>4, CoreTypes
<1>5. Numbered'
  <2>1. \A i \in DOMAIN toCore' :
           IF toCore'[i].method = "respond"
           THEN toCore'[i].n > MaxCommands /\ toCore'[i].ask # 0
           ELSE toCore'[i].n <= issued'
    BY <1>2, <1>4 DEF IInv, Numbered
  <2>2. \A s \in Sessions : caller[s] <= issued'
    BY <1>2, <1>4 DEF IInv, Numbered
  <2>3. \A i \in DOMAIN toClient :
           toClient[i].kind \in Replies =>
               toClient[i].arg <= issued' \/ toClient[i].arg > MaxCommands
    BY <1>2, <1>4 DEF IInv, Numbered
  <2>4. \A i \in DOMAIN toClient : toClient[i].kind = "requested" => toClient[i].arg \in Asks
    BY DEF IInv, Numbered
  <2>5. \A i \in DOMAIN toCore' :
           toCore'[i].method = "close" => phase' # "open" /\ toCore'[i].n = issued'
    BY DEF IInv, Numbered
  <2> QED BY <1>1, <2>1, <2>2, <2>3, <2>4, <2>5 DEF Numbered
<1>6. \A n : Pending(n) => Pending(n)'
  BY <1>1 DEF Pending
<1>7. Outstanding'
  <2>1. SUFFICES ASSUME tui, up, busy', conn = 1
                 PROVE  \E n \in waiting' :
                           /\ n \in Messages'
                           /\ \A i \in DOMAIN toClient :
                                 Ends(toClient[i], n) => \E j \in 1..i : Frees(toClient[j])
                           /\ Pending(n)' \/ \E j \in DOMAIN toClient : Frees(toClient[j])
    BY DEF Outstanding
  <2>2. CASE busy
    <3>1. PICK n \in waiting :
             /\ n \in Messages
             /\ \A i \in DOMAIN toClient : Ends(toClient[i], n) => \E j \in 1..i : Frees(toClient[j])
             /\ Pending(n) \/ \E j \in DOMAIN toClient : Frees(toClient[j])
      BY <2>1, <2>2 DEF IInv, Outstanding
    <3>2. n \in 1..issued /\ n \in 1..issued' /\ (phase' # "open" => n # issued')
      <4>1. n \in 1..issued
        BY <3>1 DEF Messages
      <4>2. phase' # "open" => issued' = issued + 1
        BY <2>1
      <4> QED BY <1>2, <4>1, <4>2
    <3>3. n \in Messages'
      BY <3>2 DEF Messages
    <3> QED BY <1>6, <3>1, <3>3
  <2>3. CASE /\ ~busy /\ issued' = issued + 1 /\ issued' \in waiting'
             /\ \E i \in DOMAIN toCore' : toCore'[i].method = "send" /\ toCore'[i].n = issued'
    <3>1. PICK n \in waiting' : n = issued'
      BY <2>3
    <3>2. n = issued + 1 /\ n <= issued' /\ n <= MaxCommands
      BY <1>2, <2>3, <3>1
    <3>3. \A i \in DOMAIN toClient : ~Ends(toClient[i], n)
      BY <1>2, <1>4, <3>2 DEF Ends, IInv, Numbered
    <3>4. caller'[1] # n
      BY <1>1, <1>2, <1>4, <3>2, CoreTypes
    <3>5. \E i \in DOMAIN toCore' : toCore'[i].method = "send" /\ toCore'[i].n = n
      BY <2>3, <3>1
    <3>6. Pending(n)'
      BY <3>4, <3>5 DEF Pending
    <3>7. n \in Messages'
      <4>1. phase' = "open" /\ n \in 1..issued'
        <5>1. phase' = "open"
          BY <2>1, <2>3
        <5> QED BY <1>2, <3>2, <5>1
      <4> QED BY <4>1 DEF Messages
    <3> QED BY <3>3, <3>6, <3>7
  <2> QED BY <2>1, <2>2, <2>3
<1> QED BY <1>3, <1>5, <1>7 DEF IInv

\* What a command adds.
LEMMA Sent ==
    ASSUME IInv, NEW command \in CommandLines, SendCommand(command)
    PROVE  /\ waiting' \subseteq Numbers /\ waiting' = waiting \cup {command.n}
           /\ toCore' \in Seq(CommandLines)
           /\ \A j \in DOMAIN toCore : \E i \in DOMAIN toCore' : toCore'[i] = toCore[j]
           /\ \A i \in DOMAIN toCore' :
                 toCore'[i] = command \/ \E j \in DOMAIN toCore : toCore'[i] = toCore[j]
           /\ up => \E i \in DOMAIN toCore' : toCore'[i] = command
<1>1. waiting' = waiting \cup {command.n} /\ toCore' = IF up THEN Append(toCore, command) ELSE toCore
  BY DEF SendCommand
<1>2. waiting' \subseteq Numbers
  BY <1>1 DEF CommandLines, IInv, TypeOK
<1>3. CASE up
  <2>1. /\ toCore' \in Seq(CommandLines)
        /\ DOMAIN toCore = 1..Len(toCore) /\ Len(toCore) \in Nat
        /\ DOMAIN toCore' = 1..Len(toCore) + 1
        /\ \A i \in 1..Len(toCore) : toCore'[i] = toCore[i]
        /\ toCore'[Len(toCore) + 1] = command
    BY <1>1, <1>3, CoreTypes, Appended
  <2>2. \A j \in DOMAIN toCore : j \in DOMAIN toCore' /\ toCore'[j] = toCore[j]
    BY <2>1
  <2>3. \A i \in DOMAIN toCore' : i \in DOMAIN toCore \/ i = Len(toCore) + 1
    BY <2>1
  <2>4. Len(toCore) + 1 \in DOMAIN toCore'
    BY <2>1
  <2> QED BY <1>1, <1>2, <2>1, <2>2, <2>3, <2>4
<1>4. CASE ~up
  BY <1>1, <1>2, <1>4, CoreTypes
<1> QED BY <1>3, <1>4

LEMMA Issued ==
    ASSUME IInv, NEW method \in {"send", "close"}, NEW content \in Lines, Issue(method, content)
    PROVE  /\ issued' = issued + 1 /\ issued' \in 0..MaxCommands
           /\ Command(method, issued + 1, content, 0) \in CommandLines
           /\ SendCommand(Command(method, issued + 1, content, 0))
<1>1. issued < MaxCommands /\ issued' = issued + 1 /\ issued \in Nat /\ MaxCommands \in Nat
      /\ MaxAsks \in Nat
  BY CoreTypes DEF Issue
<1>2. issued + 1 \in Numbers /\ issued + 1 \in 0..MaxCommands /\ 0 \in 0..MaxAsks
  BY <1>1 DEF Numbers
<1> QED BY <1>1, <1>2 DEF Issue, Command, CommandLines

LEMMA Answered ==
    ASSUME IInv, NEW id \in Asks, Respond(id)
    PROVE  /\ issued' = issued /\ AnswerTo(id) > MaxCommands /\ id # 0
           /\ Command("respond", AnswerTo(id), "decision", id) \in CommandLines
           /\ SendCommand(Command("respond", AnswerTo(id), "decision", id))
<1>1. MaxCommands \in Nat /\ MaxAsks \in Nat
  BY CoreTypes
<1>2. /\ MaxCommands + id \in Numbers /\ MaxCommands + id > MaxCommands /\ id # 0
      /\ id \in 0..MaxAsks
  BY <1>1 DEF Numbers, Asks
<1>3. "decision" \in Lines
  BY DEF Lines
<1> QED BY <1>2, <1>3 DEF Respond, AnswerTo, Command, CommandLines

LEMMA SubmitStep == ASSUME IInv, Submit PROVE IInv'
<1>1. /\ tui /\ phase = "open" /\ up /\ Issue("send", "message") /\ busy' = TRUE
      /\ UNCHANGED <<tui, limited, phase, up, conn, toClient, shown, stdin, core>>
  BY DEF Submit
<1> DEFINE command == Command("send", issued + 1, "message", 0)
<1>2. /\ issued' = issued + 1 /\ issued' \in 0..MaxCommands
      /\ command \in CommandLines /\ SendCommand(command)
  <2>1. "message" \in Lines
    BY DEF Lines
  <2> QED BY <1>1, <2>1, Issued
<1>3. command.method = "send" /\ command.n = issued'
  BY <1>2 DEF Command
<1> HIDE DEF command
<1>4. /\ waiting' \subseteq Numbers /\ waiting' = waiting \cup {command.n}
      /\ toCore' \in Seq(CommandLines)
      /\ \A j \in DOMAIN toCore : \E i \in DOMAIN toCore' : toCore'[i] = toCore[j]
      /\ \A i \in DOMAIN toCore' :
            toCore'[i] = command \/ \E j \in DOMAIN toCore : toCore'[i] = toCore[j]
      /\ \E i \in DOMAIN toCore' : toCore'[i] = command
  BY <1>1, <1>2, Sent
<1>5. ClientTypeOK'
  <2>1. {tui, limited, up, busy}' \subseteq BOOLEAN
    BY <1>1, ClientTypes DEF ClientTypeOK
  <2> QED BY <1>1, <1>2, <1>4, <2>1, ClientTypes DEF ClientTypeOK
<1>6. command.n <= issued' /\ command.method # "close" /\ phase' = "open"
  BY <1>1, <1>2, <1>3
<1> QED BY <1>1, <1>2, <1>3, <1>4, <1>5, <1>6, ClientStep

LEMMA DecideStep == ASSUME IInv, NEW id \in Asks, Decide(id) PROVE IInv'
<1>1. /\ phase = "open" /\ phase' = "open" /\ shown' = shown \ {id}
      /\ UNCHANGED <<tui, limited, phase, up, conn, toClient, busy, stdin, core>>
  BY DEF Decide
<1>2. CASE up /\ Respond(id)
  <2> DEFINE command == Command("respond", AnswerTo(id), "decision", id)
  <2>1. /\ issued' = issued /\ AnswerTo(id) > MaxCommands /\ id # 0
        /\ command \in CommandLines /\ SendCommand(command)
    BY <1>2, Answered
  <2>2. command.method = "respond" /\ command.n = AnswerTo(id) /\ command.ask = id
    BY DEF Command
  <2> HIDE DEF command
  <2>3. /\ waiting' \subseteq Numbers /\ waiting' = waiting \cup {command.n}
        /\ toCore' \in Seq(CommandLines)
        /\ \A j \in DOMAIN toCore : \E i \in DOMAIN toCore' : toCore'[i] = toCore[j]
        /\ \A i \in DOMAIN toCore' :
              toCore'[i] = command \/ \E j \in DOMAIN toCore : toCore'[i] = toCore[j]
    BY <2>1, Sent
  <2>4. ClientTypeOK'
    <3>1. {tui, limited, up, busy}' = {tui, limited, up, busy}
      BY <1>1
    <3> QED BY <1>1, <2>1, <2>3, <3>1, ClientTypes DEF ClientTypeOK
  <2> QED BY <1>1, <2>1, <2>2, <2>3, <2>4, ClientStep
<1>3. CASE ~up /\ UNCHANGED <<issued, waiting, toCore>>
  <2>1. ClientTypeOK'
    <3>1. {tui, limited, up, busy}' = {tui, limited, up, busy}
      BY <1>1
    <3> QED BY <1>1, <1>3, <3>1, ClientTypes DEF ClientTypeOK
  <2> QED BY <1>1, <1>3, <2>1, ClientStep
<1> QED BY <1>2, <1>3 DEF Decide

LEMMA TypeStep == ASSUME IInv, Type PROVE IInv'
<1>1. /\ ~tui /\ phase = "open"
      /\ UNCHANGED <<tui, limited, phase, up, conn, toCore, toClient, waiting, issued, busy,
                     shown, core>>
  BY DEF Type
<1>2. stdin' \in Seq(Lines)
  <2>1. \A l \in Lines : <<l>> \in Seq(Lines)
    OBVIOUS
  <2> QED BY <2>1 DEF Type, Lines
<1>3. {tui, limited, up, busy}' = {tui, limited, up, busy}
  BY <1>1
<1>4. ClientTypeOK'
  BY <1>1, <1>2, <1>3, ClientTypes DEF ClientTypeOK
<1> QED BY <1>1, <1>4, ClientStep

LEMMA ReadLineStep == ASSUME IInv, ReadLine PROVE IInv'
<1>1. /\ ~tui /\ phase = "open" /\ stdin # <<>> /\ stdin' = Tail(stdin)
      /\ UNCHANGED <<tui, limited, up, conn, toClient, core>>
  BY DEF ReadLine
<1>2. stdin' \in Seq(Lines) /\ Head(stdin) \in Lines
  <2>1. stdin \in Seq(Lines)
    BY ClientTypes DEF ClientTypeOK
  <2> QED BY <1>1, <2>1, Rest
<1>3. CASE UNCHANGED <<waiting, issued, busy, shown, toCore, phase>>
  <2>1. {tui, limited, up, busy}' = {tui, limited, up, busy}
    BY <1>1, <1>3
  <2>2. ClientTypeOK'
    BY <1>1, <1>2, <1>3, <2>1, ClientTypes DEF ClientTypeOK
  <2> QED BY <1>1, <1>3, <2>2, ClientStep
<1>4. ASSUME NEW command \in CommandLines, SendCommand(command), busy' = TRUE,
             IF command.method = "respond"
             THEN command.n > MaxCommands /\ command.ask # 0 ELSE command.n <= issued',
             command.method # "close",
             issued' = issued \/ issued' = issued + 1, issued' \in 0..MaxCommands,
             phase' \in IF up THEN {phase} ELSE {phase, "gone"}, shown' \subseteq Asks
      PROVE  IInv'
  <2>1. /\ waiting' \subseteq Numbers /\ waiting' = waiting \cup {command.n}
        /\ toCore' \in Seq(CommandLines)
        /\ \A j \in DOMAIN toCore : \E i \in DOMAIN toCore' : toCore'[i] = toCore[j]
        /\ \A i \in DOMAIN toCore' :
              toCore'[i] = command \/ \E j \in DOMAIN toCore : toCore'[i] = toCore[j]
    BY <1>4, Sent
  <2>2. {tui, limited, up, busy}' \subseteq BOOLEAN
    BY <1>1, <1>4, ClientTypes DEF ClientTypeOK
  <2>3. phase' \in {"open", "leaving", "gone"}
    BY <1>4, ClientTypes DEF ClientTypeOK
  <2>4. ClientTypeOK'
    BY <1>2, <1>4, <2>1, <2>2, <2>3 DEF ClientTypeOK
  <2> QED BY <1>1, <1>4, <2>1, <2>4, ClientStep
<1>5. CASE /\ shown # {} /\ Respond(CHOOSE id \in shown : TRUE) /\ shown' = {} /\ busy' = TRUE
           /\ phase' \in IF up THEN {phase} ELSE {phase, "gone"}
  <2>1. PICK id \in Asks : Respond(id)
    <3>1. (CHOOSE id \in shown : TRUE) \in shown
      BY <1>5
    <3> QED BY <1>5, <3>1, ClientTypes DEF ClientTypeOK
  <2> DEFINE command == Command("respond", AnswerTo(id), "decision", id)
  <2>2. /\ issued' = issued /\ AnswerTo(id) > MaxCommands /\ id # 0
        /\ command \in CommandLines /\ SendCommand(command)
    BY <2>1, Answered
  <2>3. command.method = "respond" /\ command.n = AnswerTo(id) /\ command.ask = id
    BY DEF Command
  <2>4. issued' \in 0..MaxCommands
    BY <2>2, CoreTypes
  <2> HIDE DEF command
  <2> QED BY <1>4, <1>5, <2>2, <2>3, <2>4
<1>6. CASE /\ Issue("send", Head(stdin)) /\ busy' = TRUE /\ UNCHANGED shown
           /\ phase' \in IF up THEN {phase} ELSE {phase, "gone"}
  <2> DEFINE command == Command("send", issued + 1, Head(stdin), 0)
  <2>1. /\ issued' = issued + 1 /\ issued' \in 0..MaxCommands
        /\ command \in CommandLines /\ SendCommand(command)
    BY <1>2, <1>6, Issued
  <2>2. command.method = "send" /\ command.n = issued'
    BY <2>1 DEF Command
  <2>3. shown' \subseteq Asks
    BY <1>6, ClientTypes DEF ClientTypeOK
  <2>4. command.n <= issued'
    BY <2>1, <2>2
  <2> HIDE DEF command
  <2> QED BY <1>4, <1>6, <2>1, <2>2, <2>3, <2>4
<1> QED BY <1>3, <1>5, <1>6 DEF ReadLine

LEMMA QuitStep == ASSUME IInv, Quit PROVE IInv'
<1>1. phase = "open" /\ UNCHANGED <<tui, limited, up, conn, toClient, busy, shown, stdin, core>>
  BY DEF Quit
<1>2. {tui, limited, up, busy}' = {tui, limited, up, busy}
  BY <1>1
<1>3. CASE up /\ Issue("close", "message") /\ phase' = "leaving"
  <2> DEFINE command == Command("close", issued + 1, "message", 0)
  <2>1. /\ issued' = issued + 1 /\ issued' \in 0..MaxCommands
        /\ command \in CommandLines /\ SendCommand(command)
    <3>1. "message" \in Lines
      BY DEF Lines
    <3> QED BY <1>3, <3>1, Issued
  <2>2. command.method = "close" /\ command.n <= issued' /\ command.n = issued'
    BY <2>1 DEF Command
  <2> HIDE DEF command
  <2>3. /\ waiting' \subseteq Numbers /\ waiting' = waiting \cup {command.n}
        /\ toCore' \in Seq(CommandLines)
        /\ \A j \in DOMAIN toCore : \E i \in DOMAIN toCore' : toCore'[i] = toCore[j]
        /\ \A i \in DOMAIN toCore' :
              toCore'[i] = command \/ \E j \in DOMAIN toCore : toCore'[i] = toCore[j]
    BY <2>1, Sent
  <2>4. ClientTypeOK'
    BY <1>1, <1>2, <1>3, <2>1, <2>3, ClientTypes DEF ClientTypeOK
  <2>5. /\ command.method # "respond" /\ phase' # "open" /\ busy' = busy
        /\ command.method = "close" => phase' # "open" /\ command.n = issued'
    BY <1>1, <1>3, <2>1, <2>2
  <2> QED BY <1>1, <2>1, <2>2, <2>3, <2>4, <2>5, ClientStep
<1>4. CASE ~up /\ phase' = "gone" /\ UNCHANGED <<waiting, issued, toCore>>
  <2>1. ClientTypeOK'
    BY <1>1, <1>2, <1>4, ClientTypes DEF ClientTypeOK
  <2> QED BY <1>1, <1>4, <2>1, ClientStep
<1> QED BY <1>3, <1>4 DEF Quit

\* The next line is handed on: one that frees the TUI ends its wait, and behind any
\* other the message stays outstanding.
LEMMA ReceiveStep == ASSUME IInv, Receive PROVE IInv'
<1> DEFINE line == Head(toClient)
<1>1. /\ toClient # <<>> /\ toClient' = Tail(toClient)
      /\ waiting' = IF line.kind \in Replies THEN waiting \ {line.arg} ELSE waiting
      /\ busy' = Handled(line)
      /\ shown' = IF tui THEN TuiShown(line) ELSE ChatShown(line)
      /\ UNCHANGED <<tui, limited, phase, up, conn, toCore, issued, stdin, core>>
  BY DEF Receive
<1>2. UNCHANGED <<run, caller, ask, asks>>
  BY <1>1 DEF core
<1>3. /\ toClient' \in Seq(ClientLines) /\ line \in ClientLines
      /\ DOMAIN toClient = 1..Len(toClient) /\ Len(toClient) \in Nat \ {0}
      /\ line = toClient[1]
      /\ DOMAIN toClient' = 1..Len(toClient) - 1
      /\ \A i \in 1..Len(toClient) - 1 : toClient'[i] = toClient[i + 1]
  BY <1>1, CoreTypes, Rest
<1>4. line.kind = "requested" => line.arg \in Asks
  BY <1>3 DEF IInv, Numbered
<1> HIDE DEF line
<1>5. shown' \subseteq Asks
  BY <1>1, <1>4, ClientTypes DEF ClientTypeOK, TuiShown, ChatShown
<1>6. {tui, limited, up, busy}' \subseteq BOOLEAN
  <2>1. busy' \in BOOLEAN
    BY <1>1 DEF Handled
  <2> QED BY <1>1, <2>1, ClientTypes DEF ClientTypeOK
<1>7. TypeOK'
  BY <1>1, <1>2, <1>3, <1>5, <1>6 DEF IInv, TypeOK, ClientLines
<1>8. \A i \in DOMAIN toClient' : i + 1 \in DOMAIN toClient /\ toClient'[i] = toClient[i + 1]
  BY <1>3
<1>9. Numbered'
  BY <1>1, <1>2, <1>8 DEF IInv, Numbered
<1>10. ASSUME tui, busy', up, conn = 1
       PROVE  \E n \in waiting' :
                 /\ n \in Messages
                 /\ \A i \in DOMAIN toClient' :
                       Ends(toClient'[i], n) => \E j \in 1..i : Frees(toClient'[j])
                 /\ Pending(n)' \/ \E j \in DOMAIN toClient' : Frees(toClient'[j])
  <2>1. busy /\ ~Frees(line)
    BY <1>1, <1>10 DEF Handled, Frees
  <2>2. PICK n \in waiting :
           /\ n \in Messages
           /\ \A i \in DOMAIN toClient : Ends(toClient[i], n) => \E j \in 1..i : Frees(toClient[j])
           /\ Pending(n) \/ \E j \in DOMAIN toClient : Frees(toClient[j])
    BY <1>10, <2>1 DEF IInv, Outstanding
  <2>3. n \in waiting'
    <3>1. 1 \in DOMAIN toClient /\ \A j \in 1..1 : toClient[j] = line
      BY <1>3
    <3>2. ~Ends(line, n)
      BY <1>3, <2>1, <2>2, <3>1
    <3> QED BY <1>1, <2>2, <3>2 DEF Ends
  <2>4. ASSUME NEW j \in DOMAIN toClient, Frees(toClient[j])
        PROVE  j - 1 \in DOMAIN toClient' /\ Frees(toClient'[j - 1])
    <3>1. j # 1
      BY <1>3, <2>1, <2>4
    <3>2. j - 1 \in 1..Len(toClient) - 1 /\ (j - 1) + 1 = j
      BY <1>3, <3>1
    <3> QED BY <1>3, <2>4, <3>2
  <2>5. ASSUME NEW i \in DOMAIN toClient', Ends(toClient'[i], n)
        PROVE  \E j \in 1..i : Frees(toClient'[j])
    <3>1. PICK j \in 1..i + 1 : Frees(toClient[j])
      BY <1>8, <2>2, <2>5
    <3>2. j \in DOMAIN toClient
      BY <1>3, <3>1
    <3>3. j - 1 \in 1..i
      BY <1>3, <2>4, <3>1, <3>2
    <3> QED BY <2>4, <3>1, <3>2, <3>3
  <2>6. Pending(n) => Pending(n)'
    BY <1>1, <1>2 DEF Pending
  <2> QED BY <2>2, <2>3, <2>4, <2>5, <2>6
<1>11. Outstanding'
  BY <1>1, <1>10 DEF Outstanding, Messages
<1> QED BY <1>7, <1>9, <1>11 DEF IInv

LEMMA DisconnectStep ==
    ASSUME IInv, Disconnect, phase' \in {"open", "leaving", "gone"},
           phase' = "open" => phase = "open",
           UNCHANGED <<tui, limited, conn, issued, busy, shown, stdin, core>>
    PROVE  IInv'
<1>1. /\ up' = FALSE /\ toCore' \in {<<>>, toCore} /\ toClient' = <<>> /\ waiting' = {}
      /\ UNCHANGED <<run, caller, ask, asks>>
  BY DEF Disconnect, core
<1>2. /\ toCore' \in Seq(CommandLines) /\ toClient' \in Seq(ClientLines)
      /\ \A i \in DOMAIN toCore' : i \in DOMAIN toCore /\ toCore'[i] = toCore[i]
      /\ DOMAIN toClient' = {}
  <2>1. /\ <<>> \in Seq(CommandLines) /\ <<>> \in Seq(ClientLines)
        /\ \A i \in DOMAIN <<>> : FALSE
    BY EmptySeq
  <2>2. toCore \in Seq(CommandLines)
    BY CoreTypes
  <2>3. CASE toCore' = <<>>
    BY <1>1, <2>1, <2>3
  <2>4. CASE toCore' = toCore
    BY <1>1, <2>1, <2>2, <2>4
  <2> QED BY <1>1, <2>3, <2>4
<1>3. {tui, limited, up, busy}' \subseteq BOOLEAN
  BY <1>1, ClientTypes DEF ClientTypeOK
<1>4. TypeOK'
  BY <1>1, <1>2, <1>3 DEF IInv, TypeOK, CommandLines, ClientLines
<1>5. Numbered'
  BY <1>1, <1>2 DEF IInv, Numbered
<1>6. Outstanding'
  BY <1>1 DEF Outstanding
<1> QED BY <1>4, <1>5, <1>6 DEF IInv

LEMMA LostStep == ASSUME IInv, Lost PROVE IInv'
<1>1. phase' \in {"open", "leaving", "gone"} /\ (phase' = "open" => phase = "open")
  BY ClientTypes DEF Lost, ClientTypeOK
<1> QED BY <1>1, DisconnectStep DEF Lost

LEMMA LeaveStep == ASSUME IInv, Leave PROVE IInv'
BY DisconnectStep DEF Leave

LEMMA ReconnectStep == ASSUME IInv, Reconnect PROVE IInv'
<1>1. /\ conn < MaxConns /\ up' = TRUE /\ conn' = conn + 1 /\ toCore' = <<>>
      /\ UNCHANGED <<tui, limited, toClient, phase, waiting, issued, busy, shown, stdin,
                     run, caller, ask, asks>>
  BY DEF Reconnect, client, core
<1>2. conn' \in Sessions /\ conn' # 1
  BY <1>1, CoreTypes DEF Sessions
<1>3. toCore' \in Seq(CommandLines) /\ DOMAIN toCore' = {}
  BY <1>1, EmptySeq
<1>4. {tui, limited, up, busy}' \subseteq BOOLEAN
  BY <1>1, ClientTypes DEF ClientTypeOK
<1>5. TypeOK'
  BY <1>1, <1>2, <1>3, <1>4 DEF IInv, TypeOK, CommandLines
<1>6. Numbered'
  BY <1>1, <1>3 DEF IInv, Numbered
<1>7. Outstanding'
  BY <1>2 DEF Outstanding
<1> QED BY <1>5, <1>6, <1>7 DEF IInv
-----------------------------------------------------------------------------
LEMMA InitHolds == ASSUME Init PROVE IInv
<1>1. /\ MaxCommands \in Nat /\ MaxAsks \in Nat /\ MaxConns \in Nat \ {0}
  BY FrontEndAssumption DEF FrontEndAssumption
<1>2. conn \in Sessions /\ 0 \in 0..MaxCommands /\ 0 \in 0..MaxAsks
  BY <1>1 DEF Init, Sessions
<1>3. TypeOK
  <2>1. {tui, limited, up, busy} \subseteq BOOLEAN
    BY DEF Init
  <2>2. toCore \in Seq(CommandLines) /\ toClient \in Seq(ClientLines) /\ stdin \in Seq(Lines)
    BY EmptySeq DEF Init
  <2>3. waiting \subseteq Numbers /\ shown \subseteq Asks
    BY DEF Init
  <2> QED BY <1>2, <2>1, <2>2, <2>3 DEF Init, TypeOK, CommandLines, ClientLines
<1>4. Numbered
  BY <1>1, EmptySeq DEF Init, Numbered
<1>5. Outstanding
  BY DEF Init, Outstanding
<1> QED BY <1>3, <1>4, <1>5 DEF IInv

LEMMA StutterHolds == ASSUME IInv, UNCHANGED vars PROVE IInv'
<1>1. {tui, limited, up, busy}' = {tui, limited, up, busy}
  BY DEF vars
<1>2. TypeOK'
  BY <1>1 DEF IInv, TypeOK, vars
<1>3. Numbered' /\ Outstanding'
  BY DEF IInv, Numbered, Outstanding, Pending, Messages, vars
<1> QED BY <1>2, <1>3 DEF IInv

LEMMA StepHolds == ASSUME IInv, [Next]_vars PROVE IInv'
<1>1. CASE Serve
  BY <1>1, ServeStep
<1>2. ASSUME NEW s \in Sessions,
             Ask(s) \/ TimeOut(s) \/ EndRun(s) \/ Release(s) \/ RunFails(s)
      PROVE  IInv'
  BY <1>2, AskStep, TimeOutStep, EndRunStep, ReplyStep
<1>3. CASE Submit
  BY <1>3, SubmitStep
<1>4. CASE \E id \in Asks : Decide(id)
  BY <1>4, DecideStep
<1>5. CASE Type \/ ReadLine \/ Quit
  BY <1>5, TypeStep, ReadLineStep, QuitStep
<1>6. CASE Receive \/ Lost \/ Leave \/ Reconnect
  BY <1>6, ReceiveStep, LostStep, LeaveStep, ReconnectStep
<1>7. CASE UNCHANGED vars
  BY <1>7, StutterHolds
<1> QED BY <1>1, <1>2, <1>3, <1>4, <1>5, <1>6, <1>7 DEF Next

LEMMA Inductive == Spec => []IInv
<1>1. Init => IInv
  BY InitHolds
<1>2. IInv /\ [Next]_vars => IInv'
  BY StepHolds
<1> QED BY <1>1, <1>2, PTL DEF Spec
-----------------------------------------------------------------------------
\* The variables have their types on every connection, in either front end
\* (AnvilApp, ChatCommand) and in the daemon.
THEOREM TypeCorrect == Spec => []TypeOK
<1>1. IInv => TypeOK
  BY DEF IInv
<1> QED BY <1>1, Inductive, PTL

\* While its connection has stood, the TUI is busy only with a command that is
\* outstanding: whichever of refusal, failure, end of the run and the events of
\* other sessions comes, and in whatever order, handle_event and _send_message leave
\* no _busy behind that nothing will reset.
THEOREM BusyKnowsCommand == Spec => []BusyHasCommand
<1>1. IInv => BusyHasCommand
  BY DEF IInv, Outstanding, BusyHasCommand
<1> QED BY <1>1, Inductive, PTL
=============================================================================
