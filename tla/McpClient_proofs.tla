---------------------------- MODULE McpClient_proofs ----------------------------
(***************************************************************************)
(* Theorems about McpClient for every set of calls, every number of        *)
(* retries and whatever the server says.  Ids are taken before the lock    *)
(* is: the order of the lock's queue carries the order of the ids over to  *)
(* the requests.                                                           *)
(***************************************************************************)
EXTENDS McpClient, SequenceTheorems, FiniteSetTheorems, TLAPS

Waits == {"queued", "writing", "reading"}

Attempts ==
    \A c \in Calls : /\ pc[c] = "idle" => attempt[c] = 0
                     /\ pc[c] = "backoff" => attempt[c] <= MaxRetries

\* The ids of the calls in the queue are fresh and in the queue's order.
Queue ==
    /\ \A c \in Calls : pc[c] \in Waits => \E n \in DOMAIN lock : lock[n] = c
    /\ \A m, n \in DOMAIN lock : m < n => id[lock[m]] < id[lock[n]]
    /\ lastId >= HandshakeIds
    /\ \A c \in Calls : id[c] <= lastId /\ (pc[c] \in Waits => id[c] > HandshakeIds)

\* What has been written belongs to ids that are older than those in the queue.
Written ==
    /\ \A i \in DOMAIN sent : sent[i].id <= lastId /\ sent[i].id <= id[sent[i].by]
    /\ \A i \in DOMAIN sent, c \in Calls : pc[c] = "queued" => sent[i].id < id[c]
    /\ \A c \in Calls : pc[c] \in {"writing", "reading"} =>
          \E i \in DOMAIN sent : sent[i] = [id |-> id[c], by |-> c]

\* The lines in the stream are answers of the server, or bear an id of its own.
Stream ==
    \A n \in DOMAIN lines : /\ lines[n].kind \in {"result", "error"} => lines[n].id \in answered
                            /\ lines[n].kind = "request" => lines[n].id \in OwnIds

Finals == \A c \in Calls : outcome[c].kind # "none" => pc[c] = "done"

By(c) == {n \in DOMAIN sent : sent[n].by = c}

\* Every attempt writes at most one request.
Executed ==
    \A c \in Calls : /\ Cardinality(By(c)) <= attempt[c]
                     /\ pc[c] = "queued" => Cardinality(By(c)) < attempt[c]

\* Requests of the server never bear the id of a call.
OwnIdsApart == OwnIds \subseteq 0..HandshakeIds

QInv == Attempts /\ LockSound /\ Queue
SInv == SentInOrder /\ Written /\ Executed
AInv == Stream /\ Finals /\ (OwnIdsApart => AnswersOwn)
IInv == TypeOK /\ QInv /\ SInv /\ AInv
-----------------------------------------------------------------------------
(* Sequences.                                                              *)

\* A call that leaves the queue keeps the order of the others.
LEMMA LeaveQueue ==
    ASSUME lock \in Seq(Calls), NEW c \in Calls, Leave(c),
           \A m, n \in DOMAIN lock : lock[m] = lock[n] => m = n
    PROVE  \E n \in DOMAIN lock :
              /\ lock[n] = c /\ DOMAIN lock = 1..Len(lock) /\ Len(lock) \in Nat
              /\ lock' \in Seq(Calls)
              /\ DOMAIN lock' = 1..Len(lock) - 1
              /\ \A m \in 1..Len(lock) - 1 :
                    lock'[m] = IF m < n THEN lock[m] ELSE lock[m + 1]
<1>1. DOMAIN lock = 1..Len(lock) /\ Len(lock) \in Nat
  BY LenProperties
<1>2. PICK n \in 1..Len(lock) :
         /\ lock[n] = c
         /\ lock' = SubSeq(lock, 1, n - 1) \o SubSeq(lock, n + 1, Len(lock))
  BY <1>1 DEF Leave
<1>3. \A i \in 1..Len(lock) : lock[i] \in Calls
  BY ElementOfSeq
<1> DEFINE s == SubSeq(lock, 1, n - 1)
           t == SubSeq(lock, n + 1, Len(lock))
<1>4. /\ s \in Seq(Calls) /\ Len(s) = n - 1
      /\ \A i \in 1..n - 1 : s[i] = lock[i]
  <2>1. \A i \in 1..n - 1 : lock[i] \in Calls
    BY <1>1, <1>3
  <2>2. 1 \in Int /\ n - 1 \in Int
    BY <1>1
  <2>3. /\ s \in Seq(Calls) /\ Len(s) = IF 1 <= n - 1 THEN n - 1 - 1 + 1 ELSE 0
        /\ \A i \in 1..n - 1 - 1 + 1 : s[i] = lock[1 + i - 1]
    BY <2>1, <2>2, SubSeqProperties
  <2> HIDE DEF s
  <2> QED BY <2>3, <1>1
<1>5. /\ t \in Seq(Calls) /\ Len(t) = Len(lock) - n
      /\ \A i \in 1..Len(lock) - n : t[i] = lock[n + i]
  <2>1. \A i \in n + 1..Len(lock) : lock[i] \in Calls
    BY <1>1, <1>3
  <2>2. n + 1 \in Int /\ Len(lock) \in Int
    BY <1>1
  <2>3. /\ t \in Seq(Calls)
        /\ Len(t) = IF n + 1 <= Len(lock) THEN Len(lock) - (n + 1) + 1 ELSE 0
        /\ \A i \in 1..Len(lock) - (n + 1) + 1 : t[i] = lock[n + 1 + i - 1]
    BY <2>1, <2>2, SubSeqProperties
  <2> HIDE DEF t
  <2>4. \A i \in 1..Len(lock) - n : i \in 1..Len(lock) - (n + 1) + 1 /\ n + 1 + i - 1 = n + i
    BY <1>1
  <2>5. \A i \in 1..Len(lock) - n : t[i] = lock[n + i]
    BY <2>3, <2>4
  <2>6. n \in Nat /\ n <= Len(lock)
    BY <1>1
  <2>7. Len(t) = Len(lock) - n
    <3>1. Len(t) = IF n + 1 <= Len(lock) THEN Len(lock) - (n + 1) + 1 ELSE 0
      BY <2>3
    <3>2. CASE n + 1 <= Len(lock)
      BY <1>1, <2>6, <3>1, <3>2
    <3>3. CASE n = Len(lock)
      BY <1>1, <2>6, <3>1, <3>3
    <3>4. Len(lock) \in Nat
      BY <1>1
    <3>5. n + 1 <= Len(lock) \/ n = Len(lock)
      BY <2>6, <3>4
    <3> QED BY <3>2, <3>3, <3>5
  <2> QED BY <2>3, <2>5, <2>7
<1> HIDE DEF s, t
<1>6. /\ lock' \in Seq(Calls) /\ Len(lock') = Len(lock) - 1
      /\ \A m \in 1..Len(lock) - 1 :
            lock'[m] = IF m <= n - 1 THEN s[m] ELSE t[m - (n - 1)]
  <2>1. lock' = s \o t
    BY <1>2 DEF s, t
  <2>2. Len(s) + Len(t) = Len(lock) - 1
    BY <1>1, <1>4, <1>5
  <2>3. /\ s \o t \in Seq(Calls) /\ Len(s \o t) = Len(s) + Len(t)
        /\ \A m \in 1..Len(s) + Len(t) :
              (s \o t)[m] = IF m <= Len(s) THEN s[m] ELSE t[m - Len(s)]
    BY <1>4, <1>5, ConcatProperties
  <2> QED BY <1>4, <2>1, <2>2, <2>3
<1>7. \A m \in 1..Len(lock) - 1 :
         lock'[m] = IF m < n THEN lock[m] ELSE lock[m + 1]
  <2>1. SUFFICES ASSUME NEW m \in 1..Len(lock) - 1
                 PROVE  lock'[m] = IF m < n THEN lock[m] ELSE lock[m + 1]
    OBVIOUS
  <2>2. CASE m < n
    <3>1. m \in 1..n - 1 /\ m <= n - 1
      BY <1>1, <2>2
    <3> QED BY <1>4, <1>6, <2>2, <3>1
  <2>3. CASE ~(m < n)
    <3>1. /\ m - (n - 1) \in 1..Len(lock) - n /\ ~(m <= n - 1)
          /\ n + (m - (n - 1)) = m + 1
      BY <1>1, <2>3
    <3> QED BY <1>5, <1>6, <2>3, <3>1
  <2> QED BY <2>2, <2>3
<1>8. DOMAIN lock' = 1..Len(lock) - 1
  BY <1>6, LenProperties
<1> QED BY <1>1, <1>2, <1>6, <1>7, <1>8

\* What a sequence is after one more element.
LEMMA Appended ==
    ASSUME NEW S, NEW s \in Seq(S), NEW e \in S
    PROVE  /\ Append(s, e) \in Seq(S)
           /\ DOMAIN s = 1..Len(s) /\ Len(s) \in Nat
           /\ DOMAIN Append(s, e) = 1..Len(s) + 1
           /\ \A i \in 1..Len(s) : Append(s, e)[i] = s[i]
           /\ Append(s, e)[Len(s) + 1] = e
<1>1. DOMAIN s = 1..Len(s) /\ Len(s) \in Nat
  BY LenProperties
<1>2. Append(s, e) \in Seq(S) /\ Len(Append(s, e)) = Len(s) + 1
  BY AppendProperties
<1>3. DOMAIN Append(s, e) = 1..Len(s) + 1
  BY <1>2, LenProperties
<1> QED BY <1>1, <1>2, <1>3, AppendProperties

\* The queue's holder is its first element.
LEMMA Holder ==
    ASSUME lock \in Seq(Calls), NEW c \in Calls
    PROVE  Holds(c) <=> 1 \in DOMAIN lock /\ lock[1] = c
<1>1. DOMAIN lock = 1..Len(lock) /\ Len(lock) \in Nat /\ (lock = <<>> <=> Len(lock) = 0)
  BY LenProperties, EmptySeq
<1>2. lock # <<>> => Head(lock) = lock[1]
  BY HeadTailProperties, ElementOfSeq, <1>1
<1>3. lock # <<>> <=> 1 \in DOMAIN lock
  BY <1>1
<1> QED BY <1>2, <1>3 DEF Holds

\* The requests written so far, and those of one call.
LEMMA SentFacts ==
    ASSUME TypeOK
    PROVE  /\ sent \in Seq([id : Ids, by : Calls])
           /\ DOMAIN sent = 1..Len(sent) /\ Len(sent) \in Nat
           /\ \A i \in DOMAIN sent : sent[i].id \in Nat /\ sent[i].by \in Calls
           /\ \A c \in Calls : IsFiniteSet(By(c)) /\ Cardinality(By(c)) \in Nat
<1>1. sent \in Seq([id : Ids, by : Calls])
  BY DEF TypeOK
<1>2. DOMAIN sent = 1..Len(sent) /\ Len(sent) \in Nat
  BY <1>1, LenProperties
<1>3. \A i \in DOMAIN sent : sent[i].id \in Nat /\ sent[i].by \in Calls
  <2>1. \A i \in DOMAIN sent : sent[i] \in [id : Ids, by : Calls]
    BY <1>1, <1>2, ElementOfSeq
  <2> QED BY <2>1 DEF Ids
<1>4. IsFiniteSet(DOMAIN sent)
  BY <1>2, FS_Interval
<1>5. \A c \in Calls : IsFiniteSet(By(c))
  BY <1>4, FS_Subset DEF By
<1> QED BY <1>1, <1>2, <1>3, <1>5, FS_CardinalityType
-----------------------------------------------------------------------------
(* What a step may leave alone.                                            *)

LEMMA QKept == ASSUME QInv, UNCHANGED <<pc, attempt, id, lastId, lock>> PROVE QInv'
BY DEF QInv, Attempts, LockSound, Queue, Holds

LEMMA SKept ==
    ASSUME SInv, UNCHANGED <<sent, attempt, id, lastId>>,
           \A d \in Calls : /\ pc'[d] = "queued" => pc[d] = "queued"
                            /\ pc'[d] \in {"writing", "reading"} => pc[d] \in {"writing", "reading"}
    PROVE  SInv'
<1>1. SentInOrder' /\ Written'
  BY DEF SInv, SentInOrder, Written
<1>2. \A d \in Calls : By(d)' = By(d)
  BY DEF By
<1>3. Executed'
  BY <1>2 DEF SInv, Executed
<1> QED BY <1>1, <1>3 DEF SInv

LEMMA AKept ==
    ASSUME AInv, UNCHANGED <<sent, answered, lines, outcome>>,
           \A d \in Calls : pc[d] = "done" => pc'[d] = "done"
    PROVE  AInv'
BY DEF AInv, Stream, Finals, AnswersOwn

\* One line is read.
LEMMA TailOfStream ==
    ASSUME TypeOK, Stream, lines # <<>>, lines' = Tail(lines), answered' = answered
    PROVE  lines' \in Seq([kind : Kinds, id : Nat]) /\ Stream'
<1>1. lines \in Seq([kind : Kinds, id : Nat])
  BY DEF TypeOK
<1>2. /\ lines' \in Seq([kind : Kinds, id : Nat])
      /\ Len(lines') = Len(lines) - 1
      /\ \A i \in 1..Len(lines') : lines'[i] = lines[i + 1]
  BY <1>1, HeadTailProperties
<1>3. /\ DOMAIN lines = 1..Len(lines) /\ DOMAIN lines' = 1..Len(lines')
      /\ Len(lines) \in Nat
  BY <1>1, <1>2, LenProperties
<1>4. \A i \in DOMAIN lines' : i + 1 \in DOMAIN lines /\ lines'[i] = lines[i + 1]
  BY <1>2, <1>3
<1>5. Stream'
  BY <1>4 DEF Stream
<1> QED BY <1>2, <1>5
-----------------------------------------------------------------------------
(* The attempt of a call.                                                  *)

LEMMA CallStep == ASSUME IInv, McpAssumption, NEW c \in Calls, Call(c) PROVE IInv'
<1> USE DEF IInv
<1>1. /\ pc[c] \in {"idle", "backoff"} /\ pc' = [pc EXCEPT ![c] = "queued"]
      /\ attempt' = [attempt EXCEPT ![c] = @ + 1]
      /\ lastId' = lastId + 1 /\ id' = [id EXCEPT ![c] = lastId + 1]
      /\ lock' = Append(lock, c)
      /\ UNCHANGED <<sent, answered, lines, extras, closed, outcome>>
  BY DEF Call
<1>2. /\ lock \in Seq(Calls) /\ lastId \in Nat /\ lastId > 0 /\ MaxRetries \in Nat
      /\ pc \in [Calls -> {"idle", "queued", "writing", "reading", "backoff", "done"}]
      /\ attempt \in [Calls -> 0..MaxRetries + 1] /\ id \in [Calls -> Nat]
  BY DEF TypeOK, Ids, McpAssumption
<1>3. /\ lock' \in Seq(Calls)
      /\ DOMAIN lock = 1..Len(lock) /\ Len(lock) \in Nat /\ DOMAIN lock' = 1..Len(lock) + 1
      /\ \A i \in 1..Len(lock) : lock'[i] = lock[i]
      /\ lock'[Len(lock) + 1] = c
  BY <1>1, <1>2, Appended
<1>4. /\ pc'[c] = "queued" /\ attempt'[c] = attempt[c] + 1 /\ id'[c] = lastId + 1
      /\ \A d \in Calls : d # c => pc'[d] = pc[d] /\ attempt'[d] = attempt[d] /\ id'[d] = id[d]
  BY <1>1, <1>2
<1>5. \A n \in DOMAIN lock : lock[n] \in Calls /\ lock[n] # c
  BY <1>1, <1>2, <1>3, ElementOfSeq DEF QInv, LockSound
<1>6. TypeOK'
  <2>1. attempt[c] <= MaxRetries /\ attempt[c] \in Nat
    BY <1>1, <1>2 DEF QInv, Attempts
  <2>2. attempt[c] + 1 \in 0..MaxRetries + 1 /\ lastId + 1 \in Nat
    BY <1>2, <2>1
  <2>4. attempt' \in [Calls -> 0..MaxRetries + 1] /\ id' \in [Calls -> Nat]
    BY <1>1, <1>2, <2>2
  <2>5. lastId' \in Ids
    BY <1>1, <1>2 DEF Ids
  <2>3. pc' \in [Calls -> {"idle", "queued", "writing", "reading", "backoff", "done"}]
    BY <1>1, <1>2
  <2> QED BY <1>1, <1>3, <2>3, <2>4, <2>5 DEF TypeOK
<1>7. Attempts'
  BY <1>4 DEF QInv, Attempts
<1>8. LockSound'
  <2>1. \A d \in Calls : pc'[d] \in {"writing", "reading"} => Holds(d)'
    <3>1. SUFFICES ASSUME NEW d \in Calls, pc'[d] \in {"writing", "reading"} PROVE Holds(d)'
      OBVIOUS
    <3>2. d # c /\ Holds(d)
      BY <1>4, <3>1 DEF QInv, LockSound
    <3>3. 1 \in DOMAIN lock /\ lock[1] = d
      BY <1>2, <3>2, Holder
    <3>4. 1 \in DOMAIN lock' /\ lock'[1] = d
      BY <1>3, <3>3
    <3>5. Head(lock') = lock'[1] /\ lock' # <<>>
      BY <1>3, <3>4, HeadTailProperties, ElementOfSeq, EmptySeq
    <3> QED BY <3>4, <3>5 DEF Holds
  <2>2. \A n \in DOMAIN lock' : pc'[lock'[n]] \in {"queued", "writing", "reading"}
    BY <1>3, <1>4, <1>5 DEF QInv, LockSound
  <2>3. \A m, n \in DOMAIN lock' : lock'[m] = lock'[n] => m = n
    BY <1>3, <1>5 DEF QInv, LockSound
  <2> QED BY <2>1, <2>2, <2>3 DEF LockSound
<1>9. Queue'
  <2>1. \A d \in Calls : pc'[d] \in Waits => \E n \in DOMAIN lock' : lock'[n] = d
    BY <1>3, <1>4 DEF QInv, Queue
  <2>2. \A m, n \in DOMAIN lock' : m < n => id'[lock'[m]] < id'[lock'[n]]
    <3>1. SUFFICES ASSUME NEW m \in DOMAIN lock', NEW n \in DOMAIN lock', m < n
                   PROVE  id'[lock'[m]] < id'[lock'[n]]
      OBVIOUS
    <3>2. m \in DOMAIN lock /\ lock'[m] = lock[m] /\ lock[m] \in Calls /\ id'[lock[m]] = id[lock[m]]
      BY <1>3, <1>4, <1>5, <3>1
    <3>3. id[lock[m]] \in Nat /\ id[lock[m]] <= lastId
      BY <1>2, <3>2 DEF QInv, Queue
    <3>4. CASE n \in DOMAIN lock
      <4>1. lock'[n] = lock[n] /\ id'[lock[n]] = id[lock[n]]
        BY <1>3, <1>4, <1>5, <3>4
      <4> QED BY <3>1, <3>2, <3>4, <4>1 DEF QInv, Queue
    <3>5. CASE n = Len(lock) + 1
      BY <1>2, <1>3, <1>4, <3>2, <3>3, <3>5
    <3> QED BY <1>3, <3>4, <3>5
  <2>3. /\ lastId' >= HandshakeIds
        /\ \A d \in Calls : id'[d] <= lastId' /\ (pc'[d] \in Waits => id'[d] > HandshakeIds)
    BY <1>1, <1>2, <1>4 DEF QInv, Queue, HandshakeIds
  <2> QED BY <2>1, <2>2, <2>3 DEF Queue
<1>10. SInv'
  <2>1. \A i \in DOMAIN sent : /\ sent[i].id \in Nat /\ sent[i].by \in Calls
                               /\ sent[i].id <= lastId /\ sent[i].id <= id[sent[i].by]
    BY SentFacts DEF SInv, Written
  <2>2. Written'
    BY <1>1, <1>2, <1>4, <2>1 DEF SInv, Written, QInv, Queue
  <2>3. Executed'
    <3>1. \A d \in Calls : By(d)' = By(d)
      BY <1>1 DEF By
    <3>2. \A d \in Calls : Cardinality(By(d)) \in Nat /\ attempt[d] \in Nat
      BY <1>2, SentFacts
    <3>3. ASSUME NEW d \in Calls
          PROVE  /\ Cardinality(By(d)) <= attempt'[d]
                 /\ pc'[d] = "queued" => Cardinality(By(d)) < attempt'[d]
      <4>1. CASE d = c
        BY <1>4, <3>2, <4>1 DEF SInv, Executed
      <4>2. CASE d # c
        BY <1>4, <4>2 DEF SInv, Executed
      <4> QED BY <4>1, <4>2
    <3> QED BY <3>1, <3>3 DEF Executed
  <2> QED BY <1>1, <2>2, <2>3 DEF SInv, SentInOrder
<1>11. AInv'
  BY <1>1, <1>4, AKept
<1> QED BY <1>6, <1>7, <1>8, <1>9, <1>10, <1>11 DEF QInv
-----------------------------------------------------------------------------
(* The holder writes.                                                      *)

LEMMA WriteStep == ASSUME IInv, McpAssumption, NEW c \in Calls, Write(c) PROVE IInv'
<1> USE DEF IInv
<1> DEFINE req == [id |-> id[c], by |-> c]
<1>1. /\ pc[c] = "queued" /\ Holds(c) /\ pc' = [pc EXCEPT ![c] = "writing"]
      /\ sent' = Append(sent, req)
      /\ UNCHANGED <<attempt, id, lastId, lock, answered, lines, extras, closed, outcome>>
  BY DEF Write
<1>2. /\ lock \in Seq(Calls) /\ id \in [Calls -> Nat] /\ attempt \in [Calls -> 0..MaxRetries + 1]
      /\ pc \in [Calls -> {"idle", "queued", "writing", "reading", "backoff", "done"}]
      /\ lastId \in Nat
  BY DEF TypeOK, Ids
<1>3. /\ pc'[c] = "writing" /\ \A d \in Calls : d # c => pc'[d] = pc[d]
      /\ pc' \in [Calls -> {"idle", "queued", "writing", "reading", "backoff", "done"}]
  BY <1>1, <1>2
<1>4. /\ id[c] \in Nat /\ id[c] <= lastId /\ id[c] > HandshakeIds /\ req.id = id[c] /\ req.by = c
  BY <1>1, <1>2 DEF QInv, Queue, Waits
<1>5. req \in [id : Ids, by : Calls]
  BY <1>4 DEF Ids, HandshakeIds
<1> HIDE DEF req
<1>6. /\ sent' \in Seq([id : Ids, by : Calls])
      /\ DOMAIN sent = 1..Len(sent) /\ Len(sent) \in Nat /\ DOMAIN sent' = 1..Len(sent) + 1
      /\ \A i \in 1..Len(sent) : sent'[i] = sent[i]
      /\ sent'[Len(sent) + 1] = req
  BY <1>1, <1>5, SentFacts, Appended
<1>7. \A i \in DOMAIN sent : sent[i].id \in Nat /\ sent[i].by \in Calls
                             /\ sent[i].id <= lastId /\ sent[i].id < id[c]
                             /\ sent[i].id <= id[sent[i].by]
  BY <1>1, SentFacts DEF SInv, Written
<1>8. TypeOK'
  BY <1>1, <1>3, <1>6 DEF TypeOK
<1>9. QInv'
  <2>1. Attempts'
    BY <1>1, <1>3 DEF QInv, Attempts
  <2>2. LockSound'
    BY <1>1, <1>3 DEF QInv, LockSound, Holds
  <2>3. Queue'
    BY <1>1, <1>3 DEF QInv, Queue, Waits
  <2> QED BY <2>1, <2>2, <2>3 DEF QInv
<1>10. \A d \in Calls : pc'[d] = "queued" => id[c] < id[d]
  <2>1. SUFFICES ASSUME NEW d \in Calls, pc'[d] = "queued" PROVE id[c] < id[d]
    OBVIOUS
  <2>2. d # c /\ pc[d] \in Waits
    BY <1>3, <2>1 DEF Waits
  <2>3. PICK n \in DOMAIN lock : lock[n] = d
    BY <2>2 DEF QInv, Queue
  <2>4. 1 \in DOMAIN lock /\ lock[1] = c /\ DOMAIN lock = 1..Len(lock) /\ Len(lock) \in Nat
    BY <1>1, <1>2, Holder, LenProperties
  <2>5. 1 < n
    BY <2>2, <2>3, <2>4
  <2> QED BY <2>3, <2>4, <2>5 DEF QInv, Queue
<1>11. SentInOrder'
  <2>1. SUFFICES ASSUME NEW m \in DOMAIN sent', NEW n \in DOMAIN sent', m < n
                 PROVE  sent'[m].id < sent'[n].id
    BY DEF SentInOrder
  <2>2. m \in DOMAIN sent /\ sent'[m] = sent[m]
    BY <1>6, <2>1
  <2>3. CASE n \in DOMAIN sent
    BY <1>6, <2>1, <2>2, <2>3 DEF SInv, SentInOrder
  <2>4. CASE n = Len(sent) + 1
    BY <1>4, <1>6, <1>7, <2>2, <2>4
  <2> QED BY <1>6, <2>3, <2>4
<1>12. Written'
  <2>1. ASSUME NEW i \in DOMAIN sent'
        PROVE  /\ sent'[i].id <= lastId' /\ sent'[i].id <= id'[sent'[i].by]
               /\ \A d \in Calls : pc'[d] = "queued" => sent'[i].id < id'[d]
    <3>1. CASE i \in DOMAIN sent
      <4>1. sent'[i] = sent[i]
        BY <1>6, <3>1
      <4>2. \A d \in Calls : pc'[d] = "queued" => pc[d] = "queued"
        BY <1>3
      <4> QED BY <1>1, <1>7, <3>1, <4>1, <4>2 DEF SInv, Written
    <3>2. CASE i = Len(sent) + 1
      BY <1>1, <1>2, <1>4, <1>6, <1>10, <3>2
    <3> QED BY <1>6, <2>1, <3>1, <3>2
  <2>2. ASSUME NEW d \in Calls, pc'[d] \in {"writing", "reading"}
        PROVE  \E i \in DOMAIN sent' : sent'[i] = [id |-> id'[d], by |-> d]
    <3>1. CASE d = c
      <4>1. Len(sent) + 1 \in DOMAIN sent' /\ sent'[Len(sent) + 1] = [id |-> id'[d], by |-> d]
        BY <1>1, <1>6, <3>1 DEF req
      <4> QED BY <4>1
    <3>2. CASE d # c
      <4>1. PICK i \in DOMAIN sent : sent[i] = [id |-> id[d], by |-> d]
        BY <1>3, <2>2, <3>2 DEF SInv, Written
      <4>2. i \in DOMAIN sent' /\ sent'[i] = sent[i]
        BY <1>6
      <4> QED BY <1>1, <4>1, <4>2
    <3> QED BY <3>1, <3>2
  <2> QED BY <2>1, <2>2 DEF Written
<1>13. Executed'
  <2>1. By(c)' = By(c) \cup {Len(sent) + 1} /\ Len(sent) + 1 \notin By(c)
    BY <1>4, <1>6 DEF By
  <2>2. Cardinality(By(c)') = Cardinality(By(c)) + 1
    BY <2>1, SentFacts, FS_AddElement
  <2>3. \A d \in Calls : d # c => By(d)' = By(d)
    BY <1>4, <1>6 DEF By
  <2>4. \A d \in Calls : Cardinality(By(d)) \in Nat /\ attempt[d] \in Nat
    BY <1>2, SentFacts
  <2>5. ASSUME NEW d \in Calls
        PROVE  /\ Cardinality(By(d)') <= attempt'[d]
               /\ pc'[d] = "queued" => Cardinality(By(d)') < attempt'[d]
    <3>1. CASE d = c
      BY <1>1, <1>3, <2>2, <2>4, <3>1 DEF SInv, Executed
    <3>2. CASE d # c
      BY <1>1, <1>3, <2>3, <3>2 DEF SInv, Executed
    <3> QED BY <3>1, <3>2
  <2> QED BY <2>5 DEF Executed
<1>14. AInv'
  <2>1. Stream' /\ Finals'
    BY <1>1, <1>3 DEF AInv, Stream, Finals
  <2>2. ASSUME AnswersOwn PROVE AnswersOwn'
    <3>1. SUFFICES ASSUME NEW d \in Calls, outcome[d].kind = "result"
                   PROVE  /\ outcome[d].id \in answered
                          /\ \E n \in DOMAIN sent' : sent'[n] = [id |-> outcome[d].id, by |-> d]
                          /\ \A n \in DOMAIN sent' : sent'[n].by = d => sent'[n].id <= outcome[d].id
      BY <1>1 DEF AnswersOwn
    <3>2. d # c
      BY <1>1, <3>1 DEF AInv, Finals
    <3>3. PICK n \in DOMAIN sent : sent[n] = [id |-> outcome[d].id, by |-> d]
      BY <2>2, <3>1 DEF AnswersOwn
    <3>4. n \in DOMAIN sent' /\ sent'[n] = sent[n]
      BY <1>6
    <3>5. \A i \in DOMAIN sent' : sent'[i].by = d => i \in DOMAIN sent /\ sent'[i] = sent[i]
      BY <1>4, <1>6, <3>2
    <3> QED BY <2>2, <3>1, <3>3, <3>4, <3>5 DEF AnswersOwn
  <2> QED BY <2>1, <2>2 DEF AInv, OwnIdsApart
<1> QED BY <1>8, <1>9, <1>11, <1>12, <1>13, <1>14 DEF SInv

LEMMA DrainedStep == ASSUME IInv, NEW c \in Calls, Drained(c) PROVE IInv'
<1> USE DEF IInv
<1>1. /\ pc[c] = "writing" /\ pc' = [pc EXCEPT ![c] = "reading"]
      /\ UNCHANGED <<attempt, id, lastId, lock, sent, answered, lines, extras, closed, outcome>>
  BY DEF Drained
<1>2. /\ pc'[c] = "reading" /\ \A d \in Calls : d # c => pc'[d] = pc[d]
      /\ pc' \in [Calls -> {"idle", "queued", "writing", "reading", "backoff", "done"}]
  BY <1>1 DEF TypeOK
<1>3. TypeOK'
  BY <1>1, <1>2 DEF TypeOK
<1>4. QInv'
  <2>1. Attempts' /\ Queue'
    BY <1>1, <1>2 DEF QInv, Attempts, Queue, Waits
  <2>2. LockSound'
    BY <1>1, <1>2 DEF QInv, LockSound, Holds
  <2> QED BY <2>1, <2>2 DEF QInv
<1>5. SInv' /\ AInv'
  BY <1>1, <1>2, SKept, AKept
<1> QED BY <1>3, <1>4, <1>5
-----------------------------------------------------------------------------
(* The end of an attempt.                                                  *)

\* What the end of an attempt does to the queue: the others close up.
LEMMA EndQueue ==
    ASSUME TypeOK, QInv, NEW c \in Calls, Leave(c), UNCHANGED <<attempt, id, lastId>>,
           NEW p \in {"backoff", "done"}, pc' = [pc EXCEPT ![c] = p],
           p = "backoff" => attempt[c] <= MaxRetries
    PROVE  QInv' /\ lock' \in Seq(Calls)
<1>1. /\ lock \in Seq(Calls) /\ id \in [Calls -> Nat]
      /\ pc'[c] = p /\ \A d \in Calls : d # c => pc'[d] = pc[d]
  BY DEF TypeOK
<1>2. PICK n \in DOMAIN lock :
         /\ lock[n] = c /\ DOMAIN lock = 1..Len(lock) /\ Len(lock) \in Nat
         /\ lock' \in Seq(Calls)
         /\ DOMAIN lock' = 1..Len(lock) - 1
         /\ \A m \in 1..Len(lock) - 1 : lock'[m] = IF m < n THEN lock[m] ELSE lock[m + 1]
  BY <1>1, LeaveQueue DEF QInv, LockSound
<1> DEFINE at(m) == IF m < n THEN m ELSE m + 1
<1>3. \A m \in DOMAIN lock' : at(m) \in DOMAIN lock /\ at(m) # n /\ lock'[m] = lock[at(m)]
  BY <1>2
<1>4. \A l, m \in DOMAIN lock' : (at(l) = at(m) => l = m) /\ (l < m => at(l) < at(m))
  BY <1>2
<1>5. \A k \in DOMAIN lock : k # n => \E m \in DOMAIN lock' : at(m) = k
  <2>1. SUFFICES ASSUME NEW k \in DOMAIN lock, k # n PROVE \E m \in DOMAIN lock' : at(m) = k
    OBVIOUS
  <2>2. CASE k < n
    BY <1>2, <2>1, <2>2
  <2>3. CASE n < k
    <3>1. k - 1 \in DOMAIN lock' /\ at(k - 1) = k
      BY <1>2, <2>1, <2>3
    <3> QED BY <3>1
  <2> QED BY <1>2, <2>1, <2>2, <2>3
<1>6. \A m \in DOMAIN lock' : lock'[m] \in Calls /\ lock'[m] # c
  <2>1. \A k \in DOMAIN lock : lock[k] \in Calls /\ (lock[k] = c => k = n)
    BY <1>1, <1>2, ElementOfSeq DEF QInv, LockSound
  <2> QED BY <1>3, <2>1
<1>7. Attempts'
  BY <1>1 DEF QInv, Attempts
<1>8. LockSound'
  <2>1. ASSUME NEW d \in Calls, pc'[d] \in {"writing", "reading"} PROVE Holds(d)'
    <3>1. d # c /\ Holds(d)
      BY <1>1, <2>1 DEF QInv, LockSound
    <3>2. 1 \in DOMAIN lock /\ lock[1] = d /\ 1 # n
      BY <1>1, <1>2, <3>1, Holder
    <3>3. 1 \in DOMAIN lock' /\ at(1) = 1
      BY <1>2, <3>2
    <3>4. lock'[1] = d
      BY <1>3, <3>2, <3>3
    <3>5. Head(lock') = lock'[1] /\ lock' # <<>>
      BY <1>2, <3>3, HeadTailProperties, ElementOfSeq, EmptySeq
    <3> QED BY <3>4, <3>5 DEF Holds
  <2>2. \A m \in DOMAIN lock' : pc'[lock'[m]] \in {"queued", "writing", "reading"}
    BY <1>1, <1>3, <1>6 DEF QInv, LockSound
  <2>3. \A l, m \in DOMAIN lock' : lock'[l] = lock'[m] => l = m
    <3> HIDE DEF at
    <3> QED BY <1>3, <1>4 DEF QInv, LockSound
  <2> QED BY <2>1, <2>2, <2>3 DEF LockSound
<1>9. Queue'
  <2>1. ASSUME NEW d \in Calls, pc'[d] \in Waits PROVE \E m \in DOMAIN lock' : lock'[m] = d
    <3>1. d # c /\ pc[d] \in Waits
      BY <1>1, <2>1 DEF Waits
    <3>2. PICK k \in DOMAIN lock : lock[k] = d
      BY <3>1 DEF QInv, Queue
    <3>3. k # n
      BY <1>2, <3>1, <3>2
    <3>4. PICK m \in DOMAIN lock' : at(m) = k
      BY <1>5, <3>3
    <3> HIDE DEF at
    <3> QED BY <1>3, <3>2, <3>4
  <2>2. \A l, m \in DOMAIN lock' : l < m => id'[lock'[l]] < id'[lock'[m]]
    <3> HIDE DEF at
    <3> QED BY <1>3, <1>4 DEF QInv, Queue
  <2>3. /\ lastId' >= HandshakeIds
        /\ \A d \in Calls : id'[d] <= lastId' /\ (pc'[d] \in Waits => id'[d] > HandshakeIds)
    BY <1>1 DEF QInv, Queue, Waits
  <2> QED BY <2>1, <2>2, <2>3 DEF Queue
<1> QED BY <1>2, <1>7, <1>8, <1>9 DEF QInv

\* An attempt that ends leaves the lock, and a result is the answer to its request.
LEMMA EndStep ==
    ASSUME IInv, NEW c \in Calls, pc[c] \in Waits, Leave(c),
           NEW p \in {"backoff", "done"}, pc' = [pc EXCEPT ![c] = p],
           p = "backoff" => attempt[c] <= MaxRetries,
           NEW kind \in {"result", "error", "abandoned"},
           \/ p = "backoff" /\ outcome' = outcome
           \/ p = "done" /\ outcome' = [outcome EXCEPT ![c] = Outcome(kind, id[c])],
           OwnIdsApart /\ kind = "result" => pc[c] = "reading" /\ id[c] \in answered,
           UNCHANGED <<attempt, id, lastId, sent, answered, extras, closed>>,
           lines' \in Seq([kind : Kinds, id : Nat]), Stream'
    PROVE  IInv'
<1> USE DEF IInv
<1>1. /\ pc'[c] = p /\ \A d \in Calls : d # c => pc'[d] = pc[d]
      /\ pc' \in [Calls -> {"idle", "queued", "writing", "reading", "backoff", "done"}]
      /\ id[c] \in Nat
  BY DEF TypeOK
<1>2. QInv' /\ lock' \in Seq(Calls)
  BY EndQueue
<1>3. SInv'
  BY <1>1, SKept
<1>4. /\ Outcome(kind, id[c]) \in [kind : {"none", "result", "error", "abandoned"}, id : Nat]
      /\ Outcome(kind, id[c]).kind = kind
      /\ kind = "result" => Outcome(kind, id[c]).id = id[c]
  BY <1>1 DEF Outcome, NoId
<1>5. /\ outcome' \in [Calls -> [kind : {"none", "result", "error", "abandoned"}, id : Nat]]
      /\ \A d \in Calls : d # c => outcome'[d] = outcome[d]
      /\ \/ p = "backoff" /\ outcome'[c] = outcome[c]
         \/ p = "done" /\ outcome'[c] = Outcome(kind, id[c])
  BY <1>4 DEF TypeOK
<1>6. TypeOK'
  BY <1>1, <1>2, <1>5 DEF TypeOK
<1>7. Finals'
  BY <1>1, <1>5 DEF AInv, Finals, Waits
<1>8. ASSUME OwnIdsApart, AnswersOwn PROVE AnswersOwn'
  <2>1. SUFFICES ASSUME NEW d \in Calls, outcome'[d].kind = "result"
                 PROVE  /\ outcome'[d].id \in answered
                        /\ \E n \in DOMAIN sent : sent[n] = [id |-> outcome'[d].id, by |-> d]
                        /\ \A n \in DOMAIN sent : sent[n].by = d => sent[n].id <= outcome'[d].id
    BY DEF AnswersOwn
  <2>2. CASE outcome'[d] = outcome[d]
    BY <1>8, <2>1, <2>2 DEF AnswersOwn
  <2>3. CASE d = c /\ outcome'[c] = Outcome(kind, id[c])
    <3>1. outcome'[d].id = id[c] /\ kind = "result"
      BY <1>4, <2>1, <2>3
    <3>2. pc[c] = "reading" /\ id[c] \in answered
      BY <1>8, <3>1
    <3>3. \E n \in DOMAIN sent : sent[n] = [id |-> id[c], by |-> c]
      BY <3>2 DEF SInv, Written
    <3>4. \A n \in DOMAIN sent : sent[n].by = c => sent[n].id <= id[c]
      BY DEF SInv, Written
    <3> QED BY <2>3, <3>1, <3>2, <3>3, <3>4
  <2> QED BY <1>5, <2>2, <2>3
<1>9. AInv'
  BY <1>7, <1>8 DEF AInv, OwnIdsApart
<1> QED BY <1>2, <1>3, <1>6, <1>9

\* Return is such an end.
LEMMA ReturnStep ==
    ASSUME IInv, NEW c \in Calls, pc[c] \in Waits,
           NEW kind \in {"result", "error"}, Return(c, kind),
           OwnIdsApart /\ kind = "result" => pc[c] = "reading" /\ id[c] \in answered,
           UNCHANGED <<attempt, id, lastId, sent, answered, extras, closed>>,
           lines' \in Seq([kind : Kinds, id : Nat]), Stream'
    PROVE  IInv'
<1>1. CASE pc' = [pc EXCEPT ![c] = "backoff"] /\ attempt[c] <= MaxRetries /\ outcome' = outcome
  BY <1>1, EndStep DEF Return
<1>2. CASE pc' = [pc EXCEPT ![c] = "done"] /\ outcome' = [outcome EXCEPT ![c] = Outcome(kind, id[c])]
  BY <1>2, EndStep DEF Return
<1> QED BY <1>1, <1>2 DEF Return

LEMMA ReadLineStep == ASSUME IInv, McpAssumption, NEW c \in Calls, ReadLine(c) PROVE IInv'
<1> USE DEF IInv
<1> DEFINE line == Head(lines)
<1>1. /\ pc[c] = "reading" /\ lines # <<>> /\ lines' = Tail(lines)
      /\ UNCHANGED <<attempt, id, lastId, sent, answered, extras, closed>>
  BY DEF ReadLine
<1>2. lines' \in Seq([kind : Kinds, id : Nat]) /\ Stream'
  BY <1>1, TailOfStream DEF AInv
<1>3. /\ line.kind \in {"result", "error"} => line.id \in answered
      /\ line.kind = "request" => line.id \in OwnIds
  <2>1. lines \in Seq([kind : Kinds, id : Nat])
    BY DEF TypeOK
  <2>2. 1 \in DOMAIN lines /\ line = lines[1]
    BY <1>1, <2>1, HeadTailProperties, ElementOfSeq, LenProperties, EmptySeq
  <2> QED BY <2>2 DEF AInv, Stream
<1>4. CASE IsFor(line, c) /\ Return(c, IF line.kind = "error" THEN "error" ELSE "result")
  <2>1. ASSUME OwnIdsApart, line.kind # "error" PROVE id[c] \in answered
    <3>1. line.id = id[c] /\ line.kind \in {"result", "request"}
      BY <1>4, <2>1 DEF IsFor
    <3>2. id[c] > HandshakeIds /\ id[c] \in Nat
      BY <1>1 DEF QInv, Queue, Waits, TypeOK
    <3>3. id[c] \notin OwnIds
      BY <2>1, <3>2 DEF OwnIdsApart, HandshakeIds
    <3> QED BY <1>3, <3>1, <3>3
  <2> HIDE DEF line
  <2>2. CASE line.kind = "error"
    BY <1>1, <1>2, <1>4, <2>2, ReturnStep DEF Waits
  <2>3. CASE line.kind # "error"
    BY <1>1, <1>2, <1>4, <2>1, <2>3, ReturnStep DEF Waits
  <2> QED BY <2>2, <2>3
<1>5. CASE Return(c, "error")
  BY <1>1, <1>2, <1>5, ReturnStep DEF Waits
<1>6. CASE UNCHANGED <<pc, lock, outcome>>
  <2>1. QInv' /\ SInv'
    BY <1>1, <1>6, QKept, SKept
  <2>2. TypeOK'
    BY <1>1, <1>2, <1>6 DEF TypeOK
  <2>3. AInv'
    BY <1>1, <1>2, <1>6 DEF AInv, Finals, AnswersOwn, OwnIdsApart
  <2> QED BY <2>1, <2>2, <2>3
<1> QED BY <1>4, <1>5, <1>6 DEF ReadLine

LEMMA FailStep ==
    ASSUME IInv, NEW c \in Calls, ReadFails(c) \/ WriteFails(c) \/ Abandon(c)
    PROVE  IInv'
<1> USE DEF IInv
<1>1. /\ pc[c] \in Waits
      /\ UNCHANGED <<attempt, id, lastId, sent, answered, lines, extras, closed>>
  BY DEF ReadFails, WriteFails, Abandon, Waits
<1>2. lines' \in Seq([kind : Kinds, id : Nat]) /\ Stream'
  BY <1>1 DEF TypeOK, AInv, Stream
<1>3. CASE ReadFails(c) \/ WriteFails(c)
  BY <1>1, <1>2, <1>3, ReturnStep DEF ReadFails, WriteFails
<1>4. CASE Abandon(c)
  <2>1. Outcome("abandoned", NoId) = Outcome("abandoned", id[c])
    BY DEF Outcome
  <2> QED BY <1>1, <1>2, <1>4, <2>1, EndStep DEF Abandon
<1> QED BY <1>3, <1>4

LEMMA CancelBackoffStep == ASSUME IInv, NEW c \in Calls, CancelBackoff(c) PROVE IInv'
<1> USE DEF IInv
<1>1. /\ pc[c] = "backoff" /\ pc' = [pc EXCEPT ![c] = "done"]
      /\ outcome' = [outcome EXCEPT ![c] = Outcome("abandoned", NoId)]
      /\ UNCHANGED <<attempt, id, lastId, lock, sent, answered, lines, extras, closed>>
  BY DEF CancelBackoff
<1>2. /\ pc'[c] = "done" /\ \A d \in Calls : d # c => pc'[d] = pc[d]
      /\ pc' \in [Calls -> {"idle", "queued", "writing", "reading", "backoff", "done"}]
  BY <1>1 DEF TypeOK
<1>3. /\ Outcome("abandoned", NoId) \in [kind : {"none", "result", "error", "abandoned"}, id : Nat]
      /\ Outcome("abandoned", NoId).kind = "abandoned"
  BY DEF Outcome, NoId
<1>4. /\ outcome' \in [Calls -> [kind : {"none", "result", "error", "abandoned"}, id : Nat]]
      /\ outcome'[c].kind = "abandoned"
      /\ \A d \in Calls : d # c => outcome'[d] = outcome[d]
  BY <1>1, <1>3 DEF TypeOK
<1>5. TypeOK'
  BY <1>1, <1>2, <1>4 DEF TypeOK
<1>6. QInv'
  <2>1. Attempts' /\ Queue'
    BY <1>1, <1>2 DEF QInv, Attempts, Queue, Waits
  <2>2. \A n \in DOMAIN lock : lock[n] # c
    BY <1>1 DEF QInv, LockSound
  <2>3. \A n \in DOMAIN lock : lock[n] \in Calls
    BY LenProperties, ElementOfSeq DEF TypeOK
  <2>4. LockSound'
    BY <1>1, <1>2, <2>2, <2>3 DEF QInv, LockSound, Holds
  <2> QED BY <2>1, <2>4 DEF QInv
<1>7. SInv'
  BY <1>1, <1>2, SKept
<1>8. AInv'
  <2>1. Stream' /\ Finals'
    BY <1>1, <1>2, <1>4 DEF AInv, Stream, Finals
  <2>2. AnswersOwn => AnswersOwn'
    BY <1>1, <1>4 DEF AnswersOwn
  <2> QED BY <2>1, <2>2 DEF AInv, OwnIdsApart
<1> QED BY <1>5, <1>6, <1>7, <1>8
-----------------------------------------------------------------------------
(* The server.                                                             *)

\* A line that is an answer, or bears an id of the server's own, joins the stream.
LEMMA ServerStep ==
    ASSUME IInv, UNCHANGED <<pc, attempt, id, lastId, lock, sent, outcome>>,
           answered \subseteq answered', answered' \subseteq Ids,
           extras' \in 0..MaxExtras, closed' \in BOOLEAN,
           NEW line \in [kind : Kinds, id : Nat],
           lines' = lines \/ lines' = Append(lines, line),
           line.kind \in {"result", "error"} => line.id \in answered',
           line.kind = "request" => line.id \in OwnIds
    PROVE  IInv'
<1> USE DEF IInv
<1>1. QInv' /\ SInv'
  BY QKept, SKept
<1>2. lines \in Seq([kind : Kinds, id : Nat])
  BY DEF TypeOK
<1>3. lines' \in Seq([kind : Kinds, id : Nat]) /\ Stream'
  <2>1. CASE lines' = lines
    BY <1>2, <2>1 DEF AInv, Stream
  <2>2. CASE lines' = Append(lines, line)
    <3>1. /\ lines' \in Seq([kind : Kinds, id : Nat])
          /\ DOMAIN lines = 1..Len(lines) /\ DOMAIN lines' = 1..Len(lines) + 1
          /\ Len(lines) \in Nat
          /\ \A i \in 1..Len(lines) : lines'[i] = lines[i]
          /\ lines'[Len(lines) + 1] = line
      BY <1>2, <2>2, Appended
    <3>2. ASSUME NEW n \in DOMAIN lines'
          PROVE  /\ lines'[n].kind \in {"result", "error"} => lines'[n].id \in answered'
                 /\ lines'[n].kind = "request" => lines'[n].id \in OwnIds
      <4>1. CASE n = Len(lines) + 1
        BY <3>1, <4>1
      <4>2. CASE n \in DOMAIN lines
        BY <3>1, <4>2 DEF AInv, Stream
      <4> QED BY <3>1, <4>1, <4>2
    <3> QED BY <3>1, <3>2 DEF Stream
  <2> QED BY <2>1, <2>2
<1>4. TypeOK'
  BY <1>3 DEF TypeOK
<1>5. AInv'
  <2>1. Finals'
    BY DEF AInv, Finals
  <2>2. AnswersOwn => AnswersOwn'
    BY DEF AnswersOwn
  <2> QED BY <1>3, <2>1, <2>2 DEF AInv, OwnIdsApart
<1> QED BY <1>1, <1>4, <1>5

LEMMA AnswerStep ==
    ASSUME IInv, NEW i \in 1..lastId, NEW kind \in {"result", "error"}, Answer(i, kind)
    PROVE  IInv'
<1>1. lastId \in Nat /\ answered \subseteq Ids /\ extras \in 0..MaxExtras /\ closed \in BOOLEAN
  BY DEF IInv, TypeOK, Ids
<1>2. i \in Nat /\ i \in Ids
  BY <1>1 DEF Ids
<1>3. /\ Line(kind, i) \in [kind : Kinds, id : Nat]
      /\ Line(kind, i).kind = kind /\ Line(kind, i).id = i
  BY <1>2 DEF Line, Kinds
<1>4. /\ answered' = answered \cup {i} /\ lines' = Append(lines, Line(kind, i))
      /\ UNCHANGED <<pc, attempt, id, lastId, lock, sent, extras, closed, outcome>>
  BY DEF Answer, Put
<1> QED BY <1>1, <1>2, <1>3, <1>4, ServerStep

LEMMA ExtraStep ==
    ASSUME IInv, McpAssumption, NEW kind \in {"notice", "bad", "request"}, NEW i \in Nat,
           kind = "request" => i \in OwnIds, Extra(Line(kind, i))
    PROVE  IInv'
<1>1. answered \subseteq Ids /\ extras \in 0..MaxExtras /\ closed \in BOOLEAN /\ MaxExtras \in Nat
  BY DEF IInv, TypeOK, McpAssumption
<1>2. /\ Line(kind, i) \in [kind : Kinds, id : Nat]
      /\ Line(kind, i).kind = kind /\ Line(kind, i).id = i
  BY DEF Line, Kinds
<1>3. /\ extras < MaxExtras /\ extras' = extras + 1 /\ lines' = Append(lines, Line(kind, i))
      /\ UNCHANGED <<pc, attempt, id, lastId, lock, sent, answered, closed, outcome>>
  BY DEF Extra, Put
<1>4. extras' \in 0..MaxExtras
  BY <1>1, <1>3
<1> QED BY <1>1, <1>2, <1>3, <1>4, ServerStep

LEMMA CloseStep == ASSUME IInv, Close PROVE IInv'
<1>1. answered \subseteq Ids /\ extras \in 0..MaxExtras
  BY DEF IInv, TypeOK
<1>2. /\ closed' = TRUE
      /\ UNCHANGED <<pc, attempt, id, lastId, lock, sent, answered, lines, extras, outcome>>
  BY DEF Close
<1>3. Line("notice", 0) \in [kind : Kinds, id : Nat] /\ Line("notice", 0).kind = "notice"
  BY DEF Line, Kinds
<1> QED BY <1>1, <1>2, <1>3, ServerStep
-----------------------------------------------------------------------------
(* The theorems.                                                           *)

LEMMA InitHolds == ASSUME Init PROVE IInv
<1> USE DEF Init
<1>1. \A c \in Calls : Outcome("none", NoId) \in
                          [kind : {"none", "result", "error", "abandoned"}, id : Nat]
  BY DEF Outcome, NoId
<1>2. Outcome("none", NoId).kind = "none"
  BY DEF Outcome
<1>3. /\ \A S : <<>> \in Seq(S)
      /\ DOMAIN sent = {} /\ DOMAIN lock = {} /\ DOMAIN lines = {}
  BY EmptySeq
<1>4. TypeOK
  <2>1. lock \in Seq(Calls) /\ sent \in Seq([id : Ids, by : Calls])
        /\ lines \in Seq([kind : Kinds, id : Nat])
    BY <1>3
  <2>2. 0 \in 0..MaxRetries + 1 /\ extras \in 0..MaxExtras /\ lastId \in Ids /\ NoId \in Nat
    BY McpAssumption DEF McpAssumption, Ids, NoId, HandshakeIds
  <2>3. attempt \in [Calls -> 0..MaxRetries + 1] /\ id \in [Calls -> Nat]
    BY <2>2
  <2>4. outcome \in [Calls -> [kind : {"none", "result", "error", "abandoned"}, id : Nat]]
    BY <1>1
  <2>5. pc \in [Calls -> {"idle", "queued", "writing", "reading", "backoff", "done"}]
        /\ answered \subseteq Ids /\ closed \in BOOLEAN
    OBVIOUS
  <2> QED BY <2>1, <2>2, <2>3, <2>4, <2>5 DEF TypeOK
<1>5. QInv
  BY <1>3, McpAssumption DEF QInv, Attempts, LockSound, Queue, Waits, NoId, HandshakeIds
<1>6. \A c \in Calls : By(c) = {} /\ Cardinality(By(c)) = 0
  BY <1>3, FS_EmptySet DEF By
<1>7. SInv
  BY <1>3, <1>6 DEF SInv, SentInOrder, Written, Executed
<1>8. AInv
  BY <1>2, <1>3 DEF AInv, Stream, Finals, AnswersOwn
<1> QED BY <1>4, <1>5, <1>7, <1>8 DEF IInv

LEMMA StepHolds == ASSUME IInv, [Next]_vars PROVE IInv'
<1>1. CASE \E c \in Calls :
              \/ Call(c) \/ Write(c) \/ Drained(c) \/ ReadLine(c) \/ ReadFails(c)
              \/ WriteFails(c) \/ Abandon(c) \/ CancelBackoff(c)
  BY <1>1, McpAssumption, CallStep, WriteStep, DrainedStep, ReadLineStep, FailStep,
     CancelBackoffStep
<1>2. CASE \E i \in 1..lastId, kind \in {"result", "error"} : Answer(i, kind)
  BY <1>2, AnswerStep
<1>3. CASE \E kind \in {"notice", "bad"} : Extra(Line(kind, NoId))
  <2>1. NoId \in Nat
    BY DEF NoId
  <2> QED BY <1>3, <2>1, McpAssumption, ExtraStep
<1>4. CASE \E i \in OwnIds : Extra(Line("request", i))
  BY <1>4, McpAssumption, ExtraStep DEF McpAssumption
<1>5. CASE Close
  BY <1>5, CloseStep
<1>6. CASE UNCHANGED vars
  <2>1. UNCHANGED <<pc, attempt, id, lastId, lock, sent, answered, lines, extras, closed, outcome>>
    BY <1>6 DEF vars
  <2>2. QInv' /\ SInv' /\ AInv'
    BY <2>1, QKept, SKept, AKept DEF IInv
  <2> QED BY <2>1, <2>2 DEF IInv, TypeOK
<1> QED BY <1>1, <1>2, <1>3, <1>4, <1>5, <1>6 DEF Next

LEMMA Inductive == Spec => []IInv
BY InitHolds, StepHolds, PTL DEF Spec

\* Every state of the client and of the connection is of its type.
THEOREM TypeCorrect == Spec => []TypeOK
<1>1. IInv => TypeOK
  BY DEF IInv
<1> QED BY <1>1, Inductive, PTL

\* The connection is used by one call at a time and the lock never stays with a
\* call that is over, whatever fails or is cancelled (call_tool's async with).
THEOREM LockStaysSound == Spec => []LockSound
<1>1. IInv => LockSound
  BY DEF IInv, QInv
<1> QED BY <1>1, Inductive, PTL

\* The server sees request ids in increasing order, although call_tool takes the
\* id before it holds the lock.
THEOREM RequestsInOrder == Spec => []SentInOrder
<1>1. IInv => SentInOrder
  BY DEF IInv, SInv
<1> QED BY <1>1, Inductive, PTL

\* The retries of invoke_tool never ask the server for one call more than
\* MaxRetries + 1 times.
THEOREM ExecutionsAreBounded == Spec => []ExecutionsBounded
<1>1. IInv => ExecutionsBounded
  <2>1. SUFFICES ASSUME IInv, NEW c \in Calls
                 PROVE  Cardinality({n \in DOMAIN sent : sent[n].by = c}) <= MaxRetries + 1
    BY DEF ExecutionsBounded
  <2>2. Cardinality(By(c)) <= attempt[c] /\ Cardinality(By(c)) \in Nat
    BY <2>1, SentFacts DEF IInv, SInv, Executed
  <2>3. attempt[c] \in 0..MaxRetries + 1 /\ MaxRetries \in Nat
    BY <2>1, McpAssumption DEF IInv, TypeOK, McpAssumption
  <2>4. Cardinality(By(c)) <= MaxRetries + 1
    BY <2>2, <2>3
  <2> QED BY <2>4 DEF By
<1> QED BY <1>1, Inductive, PTL

\* A result is the server's answer to the call's own last request, as long as no
\* request of the server bears an id the client has given to a call.
THEOREM AnswersAreOwn == ASSUME OwnIdsApart PROVE Spec => []AnswersOwn
<1>1. IInv => AnswersOwn
  BY OwnIdsApart DEF IInv, AInv
<1> QED BY <1>1, Inductive, PTL
=============================================================================
