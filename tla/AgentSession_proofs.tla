------------------------- MODULE AgentSession_proofs -------------------------
(***************************************************************************)
(* Theorems about AgentSession for every number of messages, steps, calls  *)
(* and retries, and of failed writes and exceptions: what a run leaves in  *)
(* the thread, what the next one sends, how the two stay a conversation    *)
(* the API accepts, and that the session implements Transcript.            *)
(***************************************************************************)
EXTENDS AgentSession, SequenceTheorems, WellFoundedInduction, TLAPS

Conversation == Seq(Messages)

\* Call u of one of the first i messages has no result among them.
Unanswered(u, ms, i) ==
    \E j \in 1..i : u \in ms[j].uses /\ \A k \in j + 1..i : u \notin ms[k].results

\* A message makes calls or answers some, and the ids have been handed out.
Rows(ms, ids) ==
    \A i \in DOMAIN ms : ms[i].uses \subseteq ids /\ (ms[i].uses = {} \/ ms[i].results = {})

\* Results answer the message before them, and no id is used twice.
Answers(ms) ==
    /\ \A i \in DOMAIN ms : ms[i].results # {} => i > 1 /\ ms[i].results \subseteq ms[i - 1].uses
    /\ \A i, j \in DOMAIN ms : i # j => ms[i].uses \cap ms[j].uses = {}

\* The messages after the prefill begin with no result, and no call of theirs is in
\* the thread.
Slice(ms, p, rows) ==
    /\ p <= Len(ms)
    /\ p < Len(ms) => ms[p + 1].results = {}
    /\ \A i \in p + 1..Len(ms), j \in DOMAIN rows : ms[i].uses \cap rows[j].uses = {}

\* s is the thread with the messages after the prefill.
Continues(s, rows, ms, p) ==
    /\ p <= Len(ms) /\ Len(s) = Len(rows) + (Len(ms) - p)
    /\ \A i \in 1..Len(rows) : s[i] = rows[i]
    /\ \A i \in p + 1..Len(ms) : s[Len(rows) + (i - p)] = ms[i]

\* Where the next result of a batch belongs.
Asked(ms, ids) ==
    /\ ms # <<>>
    /\ IF ms[Len(ms)].results = {}
       THEN ids \subseteq ms[Len(ms)].uses
       ELSE Len(ms) > 1 /\ ids \subseteq ms[Len(ms) - 1].uses
-----------------------------------------------------------------------------
(* The invariant.                                                          *)

Running == {"thinking", "acting", "compacting", "finishing"}
InCalls == {calls[i] : i \in DOMAIN calls}

\* Where the holder of the lock can be.
Control ==
    /\ status = "closed" => pc \in {"idle", "condensing", "stopped"}
    /\ torn => pc \in {"idle", "condensing", "stopped"} /\ "write" \in lost
    /\ pc \in {"thinking", "acting", "compacting"} => step > 0
    /\ pc = "compacting" => step < MaxSteps
    /\ pc = "acting" => /\ calls # <<>>
                        /\ \A i, j \in DOMAIN calls : calls[i] = calls[j] => i = j
    /\ outcome = "raised" => "raise" \in lost

KnownIds == Rows(thread, 1..used) /\ Rows(messages, 1..used)

\* The calls without a result are those that are still to be invoked, and those that
\* nobody acts on.
Balanced ==
    /\ pc \in {"thinking", "compacting"} =>
          messages # <<>> /\ Pending(messages, Len(messages)) \subseteq ignored
    /\ pc = "finishing" /\ outcome \notin {"cancelled", "raised"} =>
          Pending(messages, Len(messages)) \subseteq ignored
    /\ pc = "acting" => /\ Pending(messages, Len(messages)) \subseteq ignored \cup InCalls
                        /\ Asked(messages, InCalls)

\* What the next run starts from.
Stored ==
    /\ "write" \notin lost /\ "raise" \notin lost /\ pc # "stopped" =>
          Pending(thread, Len(thread)) \subseteq ignored
    /\ "write" \notin lost /\ pc = "starting" =>
          thread # <<>> /\ thread[Len(thread)] = User(sent)

\* The thread begins with a message of the user, which the trim never cuts off.
Begun ==
    "write" \notin lost =>
        /\ thread # <<>> => thread[1].uses = {}
        /\ pc \in Running \cup {"starting"} => thread # <<>>

\* What has been said is in the thread or among the messages the run will store.
Complete ==
    lost = {} => IF pc \in Running THEN Continues(said, thread, messages, prefill)
                 ELSE said = thread

\* Until a run compacts its context.
Sound ==
    "compaction" \notin lost =>
        /\ Answers(thread) /\ Answers(messages) /\ Slice(messages, prefill, thread)
        /\ pc = "acting" => prefill < Len(messages)

Seen ==
    /\ "write" \notin lost /\ "raise" \notin lost /\ pc = "thinking" /\ step = 1
    /\ NoneIgnored(thread)
    => messages # <<>> /\ messages[Len(messages)] = User(sent)

IInv ==
    /\ TypeOK /\ Control /\ KnownIds /\ Balanced /\ Stored /\ Begun /\ Complete /\ Sound /\ Seen
-----------------------------------------------------------------------------
(* Conversations.                                                          *)

LEMMA MessageTypes ==
    /\ \A m \in Messages : m.uses \subseteq Ids /\ m.results \subseteq Ids
    /\ \A n \in Nat : User(n) \in Messages
    /\ \A ids \in SUBSET Ids : Reply(ids) \in Messages /\ Results(ids) \in Messages
    /\ Summary \in Messages /\ Ack \in Messages
BY DEF Messages, Message, User, Reply, Results, Summary, Ack

LEMMA Elements ==
    ASSUME NEW ms \in Conversation
    PROVE  /\ DOMAIN ms = 1..Len(ms) /\ Len(ms) \in Nat
           /\ \A i \in 1..Len(ms) : ms[i] \in Messages
BY LenProperties, ElementOfSeq DEF Conversation

LEMMA PendingIsUnanswered ==
    ASSUME NEW ms, NEW i
    PROVE  \A u : u \in Pending(ms, i) <=> Unanswered(u, ms, i)
BY DEF Pending, Unanswered

\* A message more.
LEMMA AppendMessage ==
    ASSUME NEW ms \in Conversation, NEW m \in Messages
    PROVE  /\ Append(ms, m) \in Conversation /\ Len(Append(ms, m)) = Len(ms) + 1
           /\ DOMAIN ms = 1..Len(ms) /\ Len(ms) \in Nat
           /\ DOMAIN Append(ms, m) = 1..Len(ms) + 1
           /\ \A i \in 1..Len(ms) : Append(ms, m)[i] = ms[i]
           /\ Append(ms, m)[Len(ms) + 1] = m
<1>1. Append(ms, m) \in Seq(Messages) /\ Len(Append(ms, m)) = Len(ms) + 1
  BY AppendProperties DEF Conversation
<1>2. DOMAIN Append(ms, m) = 1..Len(ms) + 1
  BY <1>1, LenProperties
<1> QED BY <1>1, <1>2, Elements, AppendProperties DEF Conversation

LEMMA PendingAppend ==
    ASSUME NEW ms \in Conversation, NEW m \in Messages
    PROVE  Pending(Append(ms, m), Len(ms) + 1) =
               (Pending(ms, Len(ms)) \ m.results) \cup m.uses
<1> DEFINE n == Len(ms)
           longer == Append(ms, m)
<1>1. /\ n \in Nat /\ \A i \in 1..n : longer[i] = ms[i]
      /\ longer[n + 1] = m
  BY AppendMessage
<1> HIDE DEF longer, n
<1>2. ASSUME NEW u
      PROVE  Unanswered(u, longer, n + 1) <=>
                 (Unanswered(u, ms, n) /\ u \notin m.results) \/ u \in m.uses
  <2>1. ASSUME Unanswered(u, longer, n + 1)
        PROVE  (Unanswered(u, ms, n) /\ u \notin m.results) \/ u \in m.uses
    <3>1. PICK j \in 1..n + 1 : /\ u \in longer[j].uses
                                /\ \A k \in j + 1..n + 1 : u \notin longer[k].results
      BY <2>1 DEF Unanswered
    <3>2. CASE j = n + 1
      BY <1>1, <3>1, <3>2
    <3>3. CASE j \in 1..n
      <4>1. u \in ms[j].uses
        BY <1>1, <3>1, <3>3
      <4>2. \A k \in j + 1..n : k \in j + 1..n + 1 /\ k \in 1..n
        BY <1>1, <3>3
      <4>3. n + 1 \in j + 1..n + 1
        BY <1>1, <3>3
      <4> QED BY <1>1, <3>1, <3>3, <4>1, <4>2, <4>3 DEF Unanswered
    <3> QED BY <1>1, <3>1, <3>2, <3>3
  <2>2. ASSUME u \in m.uses
        PROVE  Unanswered(u, longer, n + 1)
    <3>1. n + 1 \in 1..n + 1 /\ \A k \in (n + 1) + 1..n + 1 : FALSE
      BY <1>1
    <3> QED BY <1>1, <2>2, <3>1 DEF Unanswered
  <2>3. ASSUME Unanswered(u, ms, n), u \notin m.results
        PROVE  Unanswered(u, longer, n + 1)
    <3>1. PICK j \in 1..n : u \in ms[j].uses /\ \A k \in j + 1..n : u \notin ms[k].results
      BY <2>3 DEF Unanswered
    <3>2. j \in 1..n + 1 /\ u \in longer[j].uses
      BY <1>1, <3>1
    <3>3. ASSUME NEW k \in j + 1..n + 1 PROVE u \notin longer[k].results
      <4>1. CASE k = n + 1
        BY <1>1, <2>3, <4>1
      <4>2. CASE k # n + 1
        <5>1. k \in j + 1..n /\ k \in 1..n
          BY <1>1, <4>2
        <5> QED BY <1>1, <3>1, <5>1
      <4> QED BY <4>1, <4>2
    <3> QED BY <3>2, <3>3 DEF Unanswered
  <2> QED BY <2>1, <2>2, <2>3
<1>3. \A u : u \in Pending(longer, n + 1) <=> u \in (Pending(ms, n) \ m.results) \cup m.uses
  BY <1>2, PendingIsUnanswered
<1>4. Pending(longer, n + 1) = (Pending(ms, n) \ m.results) \cup m.uses
  BY <1>3
<1> QED BY <1>4 DEF longer, n

LEMMA AnswersAppend ==
    ASSUME NEW ms \in Conversation, NEW m \in Messages, Answers(ms),
           m.results # {} => ms # <<>> /\ m.results \subseteq ms[Len(ms)].uses,
           \A i \in DOMAIN ms : ms[i].uses \cap m.uses = {}
    PROVE  Answers(Append(ms, m))
<1> DEFINE n == Len(ms)
           longer == Append(ms, m)
<1>1. /\ n \in Nat /\ DOMAIN ms = 1..n /\ DOMAIN longer = 1..n + 1
      /\ \A i \in 1..n : longer[i] = ms[i]
      /\ longer[n + 1] = m
  BY AppendMessage
<1>2. ms # <<>> => n # 0
  BY EmptySeq DEF Conversation
<1> HIDE DEF longer
<1>3. ASSUME NEW i \in DOMAIN longer, longer[i].results # {}
      PROVE  i > 1 /\ longer[i].results \subseteq longer[i - 1].uses
  <2>1. CASE i = n + 1
    BY <1>1, <1>2, <1>3, <2>1
  <2>2. CASE i \in 1..n
    <3>1. i > 1 /\ ms[i].results \subseteq ms[i - 1].uses
      BY <1>1, <1>3, <2>2 DEF Answers
    <3>2. i - 1 \in 1..n
      BY <1>1, <2>2, <3>1
    <3> QED BY <1>1, <2>2, <3>1, <3>2
  <2> QED BY <1>1, <2>1, <2>2
<1>4. ASSUME NEW i \in DOMAIN longer, NEW j \in DOMAIN longer, i # j
      PROVE  longer[i].uses \cap longer[j].uses = {}
  <2>1. CASE i \in 1..n /\ j \in 1..n
    BY <1>1, <1>4, <2>1 DEF Answers
  <2>2. CASE i = n + 1 /\ j \in 1..n
    BY <1>1, <2>2
  <2>3. CASE i \in 1..n /\ j = n + 1
    BY <1>1, <2>3
  <2> QED BY <1>1, <1>4, <2>1, <2>2, <2>3
<1> QED BY <1>3, <1>4 DEF Answers, longer

LEMMA SliceAppend ==
    ASSUME NEW ms \in Conversation, NEW m \in Messages, NEW rows \in Conversation,
           NEW p \in Nat, Slice(ms, p, rows), p = Len(ms) => m.results = {},
           \A j \in DOMAIN rows : m.uses \cap rows[j].uses = {}
    PROVE  Slice(Append(ms, m), p, rows)
<1> DEFINE n == Len(ms)
           longer == Append(ms, m)
<1>1. /\ n \in Nat /\ Len(longer) = n + 1
      /\ \A i \in 1..n : longer[i] = ms[i]
      /\ longer[n + 1] = m
  BY AppendMessage
<1> HIDE DEF longer
<1>2. p <= n
  BY DEF Slice
<1>3. p < Len(longer) => longer[p + 1].results = {}
  BY <1>1, <1>2 DEF Slice
<1>4. ASSUME NEW i \in p + 1..Len(longer), NEW j \in DOMAIN rows
      PROVE  longer[i].uses \cap rows[j].uses = {}
  <2>1. CASE i = n + 1
    BY <1>1, <2>1
  <2>2. CASE i # n + 1
    <3>1. i \in 1..n /\ i \in p + 1..n
      BY <1>1, <2>2
    <3> QED BY <1>1, <3>1 DEF Slice
  <2> QED BY <2>1, <2>2
<1> QED BY <1>1, <1>2, <1>3, <1>4 DEF Slice, longer

LEMMA ContinuesAppend ==
    ASSUME NEW s \in Conversation, NEW ms \in Conversation, NEW m \in Messages,
           NEW rows \in Conversation, NEW p \in Nat, Continues(s, rows, ms, p)
    PROVE  Continues(Append(s, m), rows, Append(ms, m), p)
<1> DEFINE n == Len(ms)
           longer == Append(ms, m)
           more == Append(s, m)
<1>1. /\ n \in Nat /\ Len(longer) = n + 1 /\ \A i \in 1..n : longer[i] = ms[i]
      /\ longer[n + 1] = m
      /\ Len(s) \in Nat /\ Len(more) = Len(s) + 1 /\ \A i \in 1..Len(s) : more[i] = s[i]
      /\ more[Len(s) + 1] = m
  BY AppendMessage
<1>2. Len(rows) \in Nat
  BY Elements
<1> HIDE DEF longer, more
<1>3. /\ p <= n /\ Len(s) = Len(rows) + (n - p)
      /\ \A i \in 1..Len(rows) : s[i] = rows[i]
      /\ \A i \in p + 1..n : s[Len(rows) + (i - p)] = ms[i]
  BY DEF Continues
<1>4. \A i \in 1..Len(rows) : more[i] = rows[i]
  BY <1>1, <1>2, <1>3
<1>5. ASSUME NEW i \in p + 1..Len(longer)
      PROVE  more[Len(rows) + (i - p)] = longer[i]
  <2>1. CASE i = n + 1
    <3>1. Len(rows) + (i - p) = Len(s) + 1
      BY <1>1, <1>2, <1>3, <2>1
    <3> QED BY <1>1, <2>1, <3>1
  <2>2. CASE i # n + 1
    <3>1. i \in 1..n /\ i \in p + 1..n /\ Len(rows) + (i - p) \in 1..Len(s)
      BY <1>1, <1>2, <1>3, <2>2
    <3> QED BY <1>1, <1>3, <3>1
  <2> QED BY <2>1, <2>2
<1>6. p <= Len(longer) /\ Len(more) = Len(rows) + (Len(longer) - p)
  BY <1>1, <1>2, <1>3
<1>7. Continues(more, rows, longer, p)
  BY <1>4, <1>5, <1>6 DEF Continues
<1> QED BY <1>7 DEF longer, more
-----------------------------------------------------------------------------
(* A result more: a message of its own, or another block of the last one.  *)

Amended(m, id) == [m EXCEPT !.results = @ \cup {id}]

\* The last message holds results already.
Amends(ms) == ms # <<>> /\ ms[Len(ms)].results # {}

LEMMA AmendedFacts ==
    ASSUME NEW m \in Messages, NEW id \in Ids
    PROVE  /\ Amended(m, id) \in Messages /\ Amended(m, id).uses = m.uses
           /\ Amended(m, id).results = m.results \cup {id}
<1>1. PICK ro \in {"user", "assistant"}, k \in Nat, us \in SUBSET Ids, rs \in SUBSET Ids :
         m = [role |-> ro, n |-> k, uses |-> us, results |-> rs]
  BY DEF Messages
<1>2. Amended(m, id) = [role |-> ro, n |-> k, uses |-> us, results |-> rs \cup {id}]
  <2>1. \A x : [m EXCEPT !.results = x] = [role |-> ro, n |-> k, uses |-> us, results |-> x]
    BY <1>1
  <2>2. m.results = rs
    BY <1>1
  <2> QED BY <2>1, <2>2 DEF Amended
<1>3. rs \cup {id} \in SUBSET Ids
  BY <1>1
<1> QED BY <1>1, <1>2, <1>3 DEF Messages

LEMMA AmendLast ==
    ASSUME NEW ms \in Conversation, NEW id \in Ids, Amends(ms)
    PROVE  /\ AddResult(ms, id) \in Conversation /\ Len(AddResult(ms, id)) = Len(ms)
           /\ DOMAIN ms = 1..Len(ms) /\ Len(ms) \in Nat \ {0}
           /\ DOMAIN AddResult(ms, id) = 1..Len(ms)
           /\ \A i \in 1..Len(ms) : i # Len(ms) => AddResult(ms, id)[i] = ms[i]
           /\ AddResult(ms, id)[Len(ms)] = Amended(ms[Len(ms)], id)
           /\ AddResult(ms, id)[Len(ms)].uses = ms[Len(ms)].uses
           /\ AddResult(ms, id)[Len(ms)].results = ms[Len(ms)].results \cup {id}
<1> DEFINE n == Len(ms)
<1>1. DOMAIN ms = 1..n /\ n \in Nat \ {0} /\ ms[n] \in Messages
  BY Elements, EmptySeq DEF Amends, Conversation
<1>2. AddResult(ms, id) = [ms EXCEPT ![n] = Amended(ms[n], id)]
  BY <1>1 DEF AddResult, Amends, Amended
<1>3. /\ Amended(ms[n], id) \in Messages
      /\ Amended(ms[n], id).uses = ms[n].uses
      /\ Amended(ms[n], id).results = ms[n].results \cup {id}
  BY <1>1, AmendedFacts
<1>4. n \in 1..Len(ms)
  BY <1>1
<1>5. /\ AddResult(ms, id) \in Seq(Messages) /\ Len(AddResult(ms, id)) = Len(ms)
      /\ \A j \in 1..Len(ms) : AddResult(ms, id)[j] = IF j = n THEN Amended(ms[n], id) ELSE ms[j]
  BY <1>2, <1>3, <1>4, ExceptSeq DEF Conversation
<1>6. DOMAIN AddResult(ms, id) = 1..Len(ms)
  BY <1>5, LenProperties
<1> QED BY <1>1, <1>3, <1>4, <1>5, <1>6 DEF Conversation

LEMMA ResultsFacts ==
    ASSUME NEW id \in Ids
    PROVE  Results({id}) \in Messages /\ Results({id}).uses = {} /\ Results({id}).results = {id}
<1>1. {id} \in SUBSET Ids
  OBVIOUS
<1> QED BY <1>1, MessageTypes DEF Results, Message

LEMMA AddsMessage ==
    ASSUME NEW ms \in Conversation, NEW id \in Ids, ~Amends(ms)
    PROVE  /\ AddResult(ms, id) = Append(ms, Results({id}))
           /\ AddResult(ms, id) \in Conversation /\ AddResult(ms, id) # <<>>
           /\ Len(AddResult(ms, id)) = Len(ms) + 1
           /\ DOMAIN ms = 1..Len(ms) /\ Len(ms) \in Nat
           /\ DOMAIN AddResult(ms, id) = 1..Len(ms) + 1
           /\ \A i \in 1..Len(ms) : AddResult(ms, id)[i] = ms[i]
           /\ AddResult(ms, id)[Len(ms) + 1] = Results({id})
<1> DEFINE m == Results({id})
<1>1. AddResult(ms, id) = Append(ms, m)
  BY DEF AddResult, Amends
<1>2. m \in Messages
  BY ResultsFacts
<1> HIDE DEF m
<1>3. /\ Append(ms, m) \in Conversation /\ Len(Append(ms, m)) = Len(ms) + 1
      /\ DOMAIN ms = 1..Len(ms) /\ Len(ms) \in Nat
      /\ DOMAIN Append(ms, m) = 1..Len(ms) + 1
      /\ \A i \in 1..Len(ms) : Append(ms, m)[i] = ms[i]
      /\ Append(ms, m)[Len(ms) + 1] = m
  BY <1>2, AppendMessage
<1>4. Append(ms, m) # <<>>
  BY <1>2, AppendProperties DEF Conversation
<1>5. m = Results({id})
  BY DEF m
<1> QED BY <1>1, <1>3, <1>4, <1>5

LEMMA AddResultType ==
    ASSUME NEW ms \in Conversation, NEW id \in Ids
    PROVE  /\ AddResult(ms, id) \in Conversation
           /\ Len(AddResult(ms, id)) = IF Amends(ms) THEN Len(ms) ELSE Len(ms) + 1
           /\ AddResult(ms, id) # <<>>
           /\ AddResult(ms, id)[Len(AddResult(ms, id))].results # {}
<1>1. CASE Amends(ms)
  BY <1>1, AmendLast, EmptySeq DEF Conversation
<1>2. CASE ~Amends(ms)
  <2>1. Results({id}).results # {}
    BY ResultsFacts
  <2> QED BY <1>2, <2>1, AddsMessage
<1> QED BY <1>1, <1>2

LEMMA AddResultRows ==
    ASSUME NEW ms \in Conversation, NEW id \in Ids, NEW ids, Rows(ms, ids)
    PROVE  Rows(AddResult(ms, id), ids)
<1>1. CASE Amends(ms)
  <2>1. ASSUME NEW i \in 1..Len(ms)
        PROVE  /\ AddResult(ms, id)[i].uses \subseteq ids
               /\ AddResult(ms, id)[i].uses = {} \/ AddResult(ms, id)[i].results = {}
    BY <1>1, AmendLast DEF Rows, Amends
  <2> QED BY <1>1, <2>1, AmendLast DEF Rows
<1>2. CASE ~Amends(ms)
  <2>1. ASSUME NEW i \in 1..Len(ms) + 1
        PROVE  /\ AddResult(ms, id)[i].uses \subseteq ids
               /\ AddResult(ms, id)[i].uses = {} \/ AddResult(ms, id)[i].results = {}
    <3>1. CASE i = Len(ms) + 1
      BY <1>2, <3>1, ResultsFacts, AddsMessage
    <3>2. CASE i # Len(ms) + 1
      <4>1. i \in 1..Len(ms)
        BY <2>1, <3>2, Elements
      <4> QED BY <1>2, <4>1, AddsMessage DEF Rows
    <3> QED BY <3>1, <3>2
  <2> QED BY <1>2, <2>1, AddsMessage DEF Rows
<1> QED BY <1>1, <1>2

LEMMA AddResultPending ==
    ASSUME NEW ms \in Conversation, NEW id \in Ids, NEW ids, Rows(ms, ids)
    PROVE  Pending(AddResult(ms, id), Len(AddResult(ms, id))) = Pending(ms, Len(ms)) \ {id}
<1>1. CASE Amends(ms)
  <2> DEFINE n == Len(ms)
             new == AddResult(ms, id)
  <2>1. /\ n \in Nat \ {0} /\ Len(new) = n /\ DOMAIN ms = 1..n
        /\ \A i \in 1..n : i # n => new[i] = ms[i]
        /\ new[n].uses = ms[n].uses /\ new[n].results = ms[n].results \cup {id}
    BY <1>1, AmendLast
  <2>2. ms[n].uses = {}
    BY <1>1, <2>1 DEF Rows, Amends
  <2> HIDE DEF new, n
  <2>3. ASSUME NEW u, Unanswered(u, new, n) PROVE Unanswered(u, ms, n) /\ u # id
    <3>1. PICK j \in 1..n : u \in new[j].uses /\ \A k \in j + 1..n : u \notin new[k].results
      BY <2>3 DEF Unanswered
    <3>2. j # n /\ u \in ms[j].uses
      BY <2>1, <2>2, <3>1
    <3>3. n \in j + 1..n
      BY <2>1, <3>2
    <3>4. \A k \in j + 1..n : u \notin ms[k].results
      BY <2>1, <3>1
    <3> QED BY <2>1, <3>1, <3>2, <3>3, <3>4 DEF Unanswered
  <2>4. ASSUME NEW u, Unanswered(u, ms, n), u # id PROVE Unanswered(u, new, n)
    <3>1. PICK j \in 1..n : u \in ms[j].uses /\ \A k \in j + 1..n : u \notin ms[k].results
      BY <2>4 DEF Unanswered
    <3>2. u \in new[j].uses
      BY <2>1, <3>1
    <3>3. \A k \in j + 1..n : u \notin new[k].results
      BY <2>1, <2>4, <3>1
    <3> QED BY <3>2, <3>3 DEF Unanswered
  <2>5. \A u : u \in Pending(new, n) <=> u \in Pending(ms, n) \ {id}
    BY <2>3, <2>4, PendingIsUnanswered
  <2>6. Pending(new, Len(new)) = Pending(ms, n) \ {id}
    BY <2>1, <2>5
  <2> QED BY <2>6 DEF new, n
<1>2. CASE ~Amends(ms)
  <2> DEFINE m == Results({id})
  <2>1. /\ AddResult(ms, id) = Append(ms, m) /\ Len(AddResult(ms, id)) = Len(ms) + 1
        /\ m \in Messages /\ m.uses = {} /\ m.results = {id}
    BY <1>2, AddsMessage, ResultsFacts
  <2> HIDE DEF m
  <2>2. Pending(Append(ms, m), Len(ms) + 1) = (Pending(ms, Len(ms)) \ m.results) \cup m.uses
    BY <2>1, PendingAppend
  <2> QED BY <2>1, <2>2
<1> QED BY <1>1, <1>2

LEMMA AddResultAsked ==
    ASSUME NEW ms \in Conversation, NEW ids, NEW id \in Ids, Asked(ms, ids)
    PROVE  Asked(AddResult(ms, id), ids)
<1> DEFINE new == AddResult(ms, id)
<1>1. new # <<>> /\ new[Len(new)].results # {}
  BY AddResultType
<1>2. CASE Amends(ms)
  <2>1. /\ Len(new) = Len(ms) /\ Len(ms) \in Nat \ {0}
        /\ \A i \in 1..Len(ms) : i # Len(ms) => new[i] = ms[i]
    BY <1>2, AmendLast
  <2> HIDE DEF new
  <2>2. Len(ms) > 1 /\ ids \subseteq ms[Len(ms) - 1].uses
    BY <1>2 DEF Asked, Amends
  <2>3. Len(ms) - 1 \in 1..Len(ms)
    BY <2>1, <2>2
  <2>4. Asked(new, ids)
    BY <1>1, <2>1, <2>2, <2>3 DEF Asked
  <2> QED BY <2>4 DEF new
<1>3. CASE ~Amends(ms)
  <2>1. /\ Len(new) = Len(ms) + 1 /\ Len(ms) \in Nat \ {0}
        /\ \A i \in 1..Len(ms) : new[i] = ms[i]
    BY <1>3, AddsMessage, EmptySeq DEF Asked, Conversation
  <2> HIDE DEF new
  <2>2. ids \subseteq ms[Len(ms)].uses
    BY <1>3 DEF Asked, Amends
  <2>3. Len(ms) \in 1..Len(ms) /\ Len(new) - 1 = Len(ms) /\ Len(new) > 1
    BY <2>1
  <2>4. Asked(new, ids)
    BY <1>1, <2>1, <2>2, <2>3 DEF Asked
  <2> QED BY <2>4 DEF new
<1> QED BY <1>2, <1>3

LEMMA AddResultAnswers ==
    ASSUME NEW ms \in Conversation, NEW ids, NEW id \in Ids, id \in ids, Asked(ms, ids),
           NEW known, Rows(ms, known), Answers(ms)
    PROVE  Answers(AddResult(ms, id))
<1>1. CASE Amends(ms)
  <2> DEFINE n == Len(ms)
             new == AddResult(ms, id)
  <2>1. /\ n \in Nat \ {0} /\ Len(new) = n /\ DOMAIN ms = 1..n /\ DOMAIN new = 1..n
        /\ \A i \in 1..n : i # n => new[i] = ms[i]
        /\ new[n].uses = ms[n].uses /\ new[n].results = ms[n].results \cup {id}
    BY <1>1, AmendLast
  <2>7. n > 1 /\ id \in ms[n - 1].uses /\ ms[n].results # {}
    BY <1>1 DEF Asked, Amends
  <2> HIDE DEF new, n
  <2>2. n - 1 \in 1..n
    BY <2>1, <2>7
  <2>3. \A i \in 1..n : new[i].uses = ms[i].uses
    BY <2>1
  <2>4. ASSUME NEW i \in 1..n, new[i].results # {}
        PROVE  i > 1 /\ new[i].results \subseteq new[i - 1].uses
    <3>1. CASE i = n
      <4>1. ms[n].results \subseteq ms[n - 1].uses
        <5>1. n \in DOMAIN ms
          BY <2>1
        <5> QED BY <2>7, <5>1 DEF Answers
      <4> QED BY <2>1, <2>2, <2>3, <2>7, <3>1, <4>1
    <3>2. CASE i # n
      <4>1. i > 1 /\ ms[i].results \subseteq ms[i - 1].uses
        BY <2>1, <2>4, <3>2 DEF Answers
      <4>2. i - 1 \in 1..n
        <5>1. n \in Nat /\ i \in 1..n /\ i > 1
          BY <2>1, <2>4, <4>1
        <5> QED BY <5>1
      <4> QED BY <2>1, <2>3, <3>2, <4>1, <4>2
    <3> QED BY <3>1, <3>2
  <2>5. ASSUME NEW i \in 1..n, NEW j \in 1..n, i # j
        PROVE  new[i].uses \cap new[j].uses = {}
    <3>1. i \in DOMAIN ms /\ j \in DOMAIN ms
      BY <2>1
    <3>2. ms[i].uses \cap ms[j].uses = {}
      BY <2>5, <3>1 DEF Answers
    <3> QED BY <2>3, <3>2
  <2>6. Answers(new)
    BY <2>1, <2>4, <2>5 DEF Answers
  <2> QED BY <2>6 DEF new
<1>2. CASE ~Amends(ms)
  <2>1. ms # <<>> /\ {id} \subseteq ms[Len(ms)].uses
    BY <1>2 DEF Asked, Amends
  <2> DEFINE m == Results({id})
  <2>2. /\ AddResult(ms, id) = Append(ms, m)
        /\ m \in Messages /\ m.uses = {} /\ m.results = {id}
    BY <1>2, AddsMessage, ResultsFacts
  <2> HIDE DEF m
  <2>3. Answers(Append(ms, m))
    BY <2>1, <2>2, AnswersAppend
  <2> QED BY <2>2, <2>3
<1> QED BY <1>1, <1>2

LEMMA AddResultSlice ==
    ASSUME NEW ms \in Conversation, NEW id \in Ids, NEW rows \in Conversation,
           NEW p \in Nat, Slice(ms, p, rows), p < Len(ms)
    PROVE  Slice(AddResult(ms, id), p, rows) /\ p < Len(AddResult(ms, id))
<1>1. CASE Amends(ms)
  <2> DEFINE n == Len(ms)
             new == AddResult(ms, id)
  <2>1. /\ n \in Nat \ {0} /\ Len(new) = n
        /\ \A i \in 1..n : i # n => new[i] = ms[i]
        /\ new[n].uses = ms[n].uses /\ ms[n].results # {}
    BY <1>1, AmendLast DEF Amends
  <2> HIDE DEF new
  <2>2. p + 1 # n /\ p + 1 \in 1..n
    BY <2>1 DEF Slice
  <2>3. new[p + 1].results = {}
    BY <2>1, <2>2 DEF Slice
  <2>4. \A i \in p + 1..n : i \in 1..n /\ new[i].uses = ms[i].uses
    BY <2>1
  <2>5. Slice(new, p, rows) /\ p < Len(new)
    BY <2>1, <2>3, <2>4 DEF Slice
  <2> QED BY <2>5 DEF new
<1>2. CASE ~Amends(ms)
  <2>1. Len(ms) \in Nat
    BY Elements
  <2> DEFINE m == Results({id})
  <2>2. /\ AddResult(ms, id) = Append(ms, m) /\ Len(AddResult(ms, id)) = Len(ms) + 1
        /\ m \in Messages /\ m.uses = {}
    BY <1>2, AddsMessage, ResultsFacts
  <2> HIDE DEF m
  <2>3. Slice(Append(ms, m), p, rows)
    BY <2>1, <2>2, SliceAppend
  <2> QED BY <2>1, <2>2, <2>3
<1> QED BY <1>1, <1>2

LEMMA AddResultContinues ==
    ASSUME NEW s \in Conversation, NEW ms \in Conversation, NEW id \in Ids,
           NEW rows \in Conversation, NEW p \in Nat, Continues(s, rows, ms, p), p < Len(ms)
    PROVE  Continues(AddResult(s, id), rows, AddResult(ms, id), p)
<1> DEFINE n == Len(ms)
<1>1. /\ n \in Nat /\ Len(s) \in Nat /\ Len(rows) \in Nat
      /\ Len(s) = Len(rows) + (n - p) /\ Len(s) # 0 /\ n # 0
      /\ \A i \in 1..Len(rows) : s[i] = rows[i]
      /\ \A i \in p + 1..n : s[Len(rows) + (i - p)] = ms[i]
  BY Elements DEF Continues
<1>2. s[Len(s)] = ms[n]
  <2>1. n \in p + 1..n /\ Len(rows) + (n - p) = Len(s)
    BY <1>1
  <2> QED BY <1>1, <2>1
<1>3. s # <<>> /\ ms # <<>>
  BY <1>1, EmptySeq
<1>4. CASE Amends(ms)
  <2> DEFINE new == AddResult(ms, id)
             more == AddResult(s, id)
  <2>1. Amends(s)
    BY <1>2, <1>3, <1>4 DEF Amends
  <2>2. /\ Len(new) = n /\ \A i \in 1..n : i # n => new[i] = ms[i]
        /\ new[n] = Amended(ms[n], id)
    BY <1>4, AmendLast
  <2>3. /\ Len(more) = Len(s) /\ \A i \in 1..Len(s) : i # Len(s) => more[i] = s[i]
        /\ more[Len(s)] = Amended(ms[n], id)
    BY <1>2, <2>1, AmendLast
  <2> HIDE DEF new, more
  <2>4. \A i \in 1..Len(rows) : i \in 1..Len(s) /\ i # Len(s)
    BY <1>1
  <2>5. ASSUME NEW i \in p + 1..n PROVE more[Len(rows) + (i - p)] = new[i]
    <3>1. CASE i = n
      <4>1. Len(rows) + (i - p) = Len(s)
        BY <1>1, <3>1
      <4> QED BY <2>2, <2>3, <3>1, <4>1
    <3>2. CASE i # n
      <4>1. /\ Len(rows) + (i - p) \in 1..Len(s) /\ Len(rows) + (i - p) # Len(s)
            /\ i \in 1..n
        BY <1>1, <3>2
      <4> QED BY <1>1, <2>2, <2>3, <3>2, <4>1
    <3> QED BY <3>1, <3>2
  <2>6. Continues(more, rows, new, p)
    BY <1>1, <2>2, <2>3, <2>4, <2>5 DEF Continues
  <2> QED BY <2>6 DEF new, more
<1>5. CASE ~Amends(ms)
  <2>1. ~Amends(s)
    BY <1>2, <1>3, <1>5 DEF Amends
  <2> DEFINE m == Results({id})
  <2>2. /\ AddResult(ms, id) = Append(ms, m) /\ AddResult(s, id) = Append(s, m)
        /\ m \in Messages
    BY <1>5, <2>1, AddsMessage, ResultsFacts
  <2> HIDE DEF m
  <2>3. Continues(Append(s, m), rows, Append(ms, m), p)
    BY <2>2, ContinuesAppend
  <2> QED BY <2>2, <2>3
<1> QED BY <1>4, <1>5
-----------------------------------------------------------------------------
(* The history of a run: the thread up to its last balanced message.       *)

LEMMA NothingPending == ASSUME NEW ms PROVE Pending(ms, 0) = {}
<1>1. \A u : ~Unanswered(u, ms, 0)
  BY DEF Unanswered
<1> QED BY <1>1, PendingIsUnanswered

LEMMA LastBalancedExists ==
    ASSUME NEW ms \in Conversation
    PROVE  /\ LastBalanced(ms) \in 0..Len(ms) /\ Pending(ms, LastBalanced(ms)) = {}
           /\ \A j \in LastBalanced(ms) + 1..Len(ms) : Pending(ms, j) # {}
<1> DEFINE n == Len(ms)
           Cuts == {d \in 0..n : Pending(ms, n - d) = {}}
<1>1. n \in Nat
  BY Elements
<1>2. n \in Cuts /\ Cuts \subseteq Nat
  BY <1>1, NothingPending
<1>3. PICK d \in Cuts : \A e \in Cuts : ~(e < d)
  <2>1. IsWellFoundedOn(OpToRel(<, Nat), Nat)
    BY NatLessThanWellFounded
  <2> HIDE DEF Cuts
  <2>2. PICK d \in Cuts : \A e \in Cuts : ~(<<e, d>> \in OpToRel(<, Nat))
    BY <1>2, <2>1, WFMin
  <2>3. \A e \in Cuts : <<e, d>> \in OpToRel(<, Nat) <=> e < d
    BY <1>2, <2>2 DEF OpToRel
  <2> QED BY <2>2, <2>3
<1>4. n - d \in 0..n /\ Pending(ms, n - d) = {}
  BY <1>1, <1>3
<1>5. ASSUME NEW j \in (n - d) + 1..n PROVE Pending(ms, j) # {}
  <2>1. n - j \in 0..n /\ n - (n - j) = j /\ n - j < d
    BY <1>1, <1>3, <1>5
  <2> QED BY <1>3, <2>1
<1>6. \E i \in 0..n : Pending(ms, i) = {} /\ \A j \in i + 1..n : Pending(ms, j) # {}
  BY <1>4, <1>5
<1> QED BY <1>6 DEF LastBalanced

\* h is the beginning of ms.
Begins(h, ms) ==
    h \in Conversation /\ Len(h) <= Len(ms) /\ \A i \in 1..Len(h) : h[i] = ms[i]

LEMMA BeginsKeeps ==
    ASSUME NEW ms \in Conversation, NEW h, Begins(h, ms)
    PROVE  /\ \A ids : Rows(ms, ids) => Rows(h, ids)
           /\ Answers(ms) => Answers(h)
           /\ \A u : Unanswered(u, h, Len(h)) <=> Unanswered(u, ms, Len(h))
<1>1. /\ h \in Conversation /\ DOMAIN h = 1..Len(h) /\ DOMAIN ms = 1..Len(ms)
      /\ Len(h) \in Nat /\ Len(ms) \in Nat /\ Len(h) <= Len(ms)
      /\ \A i \in 1..Len(h) : h[i] = ms[i]
  BY Elements DEF Begins
<1>2. \A i \in 1..Len(h) : i \in 1..Len(ms)
  BY <1>1
<1>3. \A ids : Rows(ms, ids) => Rows(h, ids)
  BY <1>1, <1>2 DEF Rows
<1>4. ASSUME Answers(ms) PROVE Answers(h)
  <2>1. ASSUME NEW i \in 1..Len(h), h[i].results # {}
        PROVE  i > 1 /\ h[i].results \subseteq h[i - 1].uses
    <3>1. i \in DOMAIN ms /\ h[i] = ms[i]
      BY <1>1, <1>2, <2>1
    <3>2. i > 1 /\ ms[i].results \subseteq ms[i - 1].uses
      BY <1>4, <2>1, <3>1 DEF Answers
    <3>3. i - 1 \in 1..Len(h)
      BY <1>1, <2>1, <3>2
    <3> QED BY <1>1, <3>1, <3>2, <3>3
  <2>2. ASSUME NEW i \in 1..Len(h), NEW j \in 1..Len(h), i # j
        PROVE  h[i].uses \cap h[j].uses = {}
    <3>1. i \in DOMAIN ms /\ j \in DOMAIN ms /\ h[i] = ms[i] /\ h[j] = ms[j]
      BY <1>1, <1>2, <2>2
    <3> QED BY <1>4, <2>2, <3>1 DEF Answers
  <2> QED BY <1>1, <2>1, <2>2 DEF Answers
<1>5. ASSUME NEW u PROVE Unanswered(u, h, Len(h)) <=> Unanswered(u, ms, Len(h))
  <2>1. \A j \in 1..Len(h) : \A k \in j + 1..Len(h) : k \in 1..Len(h)
    BY <1>1
  <2> QED BY <1>1, <2>1 DEF Unanswered
<1> QED BY <1>3, <1>4, <1>5

LEMMA TrimFacts ==
    ASSUME NEW ms \in Conversation
    PROVE  /\ Begins(TrimOrphans(ms), ms)
           /\ Pending(TrimOrphans(ms), Len(TrimOrphans(ms))) = {}
           /\ Pending(ms, Len(ms)) = {} => TrimOrphans(ms) = ms
           /\ ms # <<>> /\ ms[1].uses = {} => TrimOrphans(ms) # <<>>
<1>1. CASE Pending(ms, Len(ms)) = {}
  <2>1. TrimOrphans(ms) = ms
    BY <1>1 DEF TrimOrphans
  <2> QED BY <1>1, <2>1, Elements DEF Begins
<1>2. CASE Pending(ms, Len(ms)) # {}
  <2> DEFINE n == LastBalanced(ms)
             h == SubSeq(ms, 1, n)
  <2>1. /\ n \in 0..Len(ms) /\ Pending(ms, n) = {} /\ Len(ms) \in Nat
        /\ \A j \in n + 1..Len(ms) : Pending(ms, j) # {}
    BY LastBalancedExists, Elements
  <2> HIDE DEF n
  <2>2. 1 \in Int /\ n \in Int /\ \A i \in 1..n : ms[i] \in Messages
    BY <2>1, Elements
  <2>3. /\ h \in Seq(Messages) /\ Len(h) = IF 1 <= n THEN n - 1 + 1 ELSE 0
        /\ \A i \in 1..n - 1 + 1 : h[i] = ms[1 + i - 1]
    BY <2>2, SubSeqProperties
  <2>4. TrimOrphans(ms) = h
    BY <1>2 DEF TrimOrphans, n
  <2> HIDE DEF h
  <2>5. Len(h) = n /\ \A i \in 1..n : h[i] = ms[i]
    BY <2>1, <2>3
  <2>6. Begins(h, ms)
    BY <2>1, <2>3, <2>5 DEF Begins, Conversation
  <2>7. Pending(h, n) = {}
    <3>1. \A u : ~Unanswered(u, ms, n)
      BY <2>1, PendingIsUnanswered
    <3>2. \A u : ~Unanswered(u, h, n)
      BY <2>5, <2>6, <3>1, BeginsKeeps
    <3> QED BY <3>2, PendingIsUnanswered
  <2>8. ASSUME ms # <<>>, ms[1].uses = {} PROVE h # <<>>
    <3>1. Len(ms) # 0
      BY <2>8, EmptySeq DEF Conversation
    <3>2. \A u : ~Unanswered(u, ms, 1)
      BY <2>8 DEF Unanswered
    <3>3. Pending(ms, 1) = {}
      BY <3>2, PendingIsUnanswered
    <3>4. n # 0
      BY <2>1, <3>1, <3>3
    <3> QED BY <2>3, <2>5, <3>4, EmptySeq
  <2> QED BY <1>2, <2>4, <2>5, <2>6, <2>7, <2>8
<1> QED BY <1>1, <1>2
-----------------------------------------------------------------------------
(* What a run stores: messages after its prefill, all of them or the first *)
(* of them.                                                                *)

Part(r, ms, p) ==
    /\ r \in Conversation
    /\ r # <<>> => p + Len(r) <= Len(ms)
    /\ \A i \in 1..Len(r) : r[i] = ms[p + i]

\* It is all of them.
Whole(r, ms, p) ==
    /\ r # <<>> => p + Len(r) = Len(ms)
    /\ p <= Len(ms) => Len(r) = Len(ms) - p

LEMMA JoinFacts ==
    ASSUME NEW t \in Conversation, NEW ms \in Conversation, NEW p \in Nat, NEW r, Part(r, ms, p)
    PROVE  /\ t \o r \in Conversation /\ Len(t \o r) = Len(t) + Len(r)
           /\ Len(t) \in Nat /\ Len(r) \in Nat /\ Len(ms) \in Nat
           /\ DOMAIN t = 1..Len(t) /\ DOMAIN ms = 1..Len(ms)
           /\ DOMAIN (t \o r) = 1..Len(t) + Len(r)
           /\ \A i \in 1..Len(t) : (t \o r)[i] = t[i]
           /\ \A i \in 1..Len(r) : p + i \in 1..Len(ms) /\ (t \o r)[Len(t) + i] = ms[p + i]
           /\ \A i \in 1..Len(t) + Len(r) :
                 i \in 1..Len(t) \/ \E j \in 1..Len(r) : i = Len(t) + j
<1>1. r \in Conversation /\ \A i \in 1..Len(r) : r[i] = ms[p + i]
  BY DEF Part
<1>2. /\ Len(t) \in Nat /\ Len(r) \in Nat /\ Len(ms) \in Nat
      /\ DOMAIN t = 1..Len(t) /\ DOMAIN ms = 1..Len(ms)
  BY <1>1, Elements
<1>3. /\ t \o r \in Conversation /\ Len(t \o r) = Len(t) + Len(r)
      /\ \A i \in 1..Len(t) + Len(r) : (t \o r)[i] = IF i <= Len(t) THEN t[i] ELSE r[i - Len(t)]
  BY <1>1, ConcatProperties DEF Conversation
<1>4. DOMAIN (t \o r) = 1..Len(t) + Len(r)
  BY <1>3, Elements
<1>5. \A i \in 1..Len(t) : (t \o r)[i] = t[i]
  BY <1>2, <1>3
<1>6. ASSUME NEW i \in 1..Len(r)
      PROVE  p + i \in 1..Len(ms) /\ (t \o r)[Len(t) + i] = ms[p + i]
  <2>1. r # <<>>
    BY <1>2, <1>6, EmptySeq
  <2>2. p + Len(r) <= Len(ms)
    BY <2>1 DEF Part
  <2>3. p + i \in 1..Len(ms)
    BY <1>2, <1>6, <2>2
  <2>4. /\ Len(t) + i \in 1..Len(t) + Len(r) /\ ~(Len(t) + i <= Len(t))
        /\ (Len(t) + i) - Len(t) = i
    BY <1>2, <1>6
  <2> QED BY <1>1, <1>3, <1>6, <2>3, <2>4
<1>7. ASSUME NEW i \in 1..Len(t) + Len(r), i \notin 1..Len(t)
      PROVE  \E j \in 1..Len(r) : i = Len(t) + j
  <2>1. i - Len(t) \in 1..Len(r) /\ i = Len(t) + (i - Len(t))
    BY <1>2, <1>7
  <2> QED BY <2>1
<1> QED BY <1>2, <1>3, <1>4, <1>5, <1>6, <1>7

LEMMA JoinRows ==
    ASSUME NEW t \in Conversation, NEW ms \in Conversation, NEW p \in Nat, NEW r, Part(r, ms, p),
           NEW ids, Rows(t, ids), Rows(ms, ids)
    PROVE  Rows(t \o r, ids)
<1> DEFINE s == t \o r
<1>1. /\ DOMAIN t = 1..Len(t) /\ DOMAIN ms = 1..Len(ms) /\ DOMAIN s = 1..Len(t) + Len(r)
      /\ \A i \in 1..Len(t) : s[i] = t[i]
      /\ \A i \in 1..Len(r) : p + i \in 1..Len(ms) /\ s[Len(t) + i] = ms[p + i]
      /\ \A i \in 1..Len(t) + Len(r) :
            i \in 1..Len(t) \/ \E j \in 1..Len(r) : i = Len(t) + j
  BY JoinFacts
<1> HIDE DEF s
<1>2. ASSUME NEW i \in DOMAIN s
      PROVE  \E m : /\ s[i] = m /\ m.uses \subseteq ids
                    /\ (m.uses = {} \/ m.results = {})
  <2>1. CASE i \in 1..Len(t)
    BY <1>1, <2>1 DEF Rows
  <2>2. ASSUME NEW j \in 1..Len(r), i = Len(t) + j
        PROVE  \E m : /\ s[i] = m /\ m.uses \subseteq ids
                      /\ (m.uses = {} \/ m.results = {})
    <3>1. p + j \in DOMAIN ms /\ s[i] = ms[p + j]
      BY <1>1, <2>2
    <3> QED BY <3>1 DEF Rows
  <2> QED BY <1>1, <1>2, <2>1, <2>2
<1>3. Rows(s, ids)
  BY <1>2 DEF Rows
<1> QED BY <1>3 DEF s

LEMMA JoinAnswers ==
    ASSUME NEW t \in Conversation, NEW ms \in Conversation, NEW p \in Nat, NEW r, Part(r, ms, p),
           Answers(t), Answers(ms), Slice(ms, p, t)
    PROVE  Answers(t \o r)
<1> DEFINE s == t \o r
           n == Len(t)
<1>1. /\ n \in Nat /\ Len(r) \in Nat /\ Len(ms) \in Nat
      /\ DOMAIN t = 1..n /\ DOMAIN ms = 1..Len(ms) /\ DOMAIN s = 1..n + Len(r)
      /\ \A i \in 1..n : s[i] = t[i]
      /\ \A i \in 1..Len(r) : p + i \in 1..Len(ms) /\ s[n + i] = ms[p + i]
      /\ \A i \in 1..n + Len(r) : i \in 1..n \/ \E j \in 1..Len(r) : i = n + j
  BY JoinFacts
<1> HIDE DEF s, n
<1>2. ASSUME NEW i \in 1..n + Len(r), s[i].results # {}
      PROVE  i > 1 /\ s[i].results \subseteq s[i - 1].uses
  <2>1. CASE i \in 1..n
    <3>1. i \in DOMAIN t /\ t[i].results # {}
      BY <1>1, <1>2, <2>1
    <3>2. i > 1 /\ t[i].results \subseteq t[i - 1].uses
      BY <3>1 DEF Answers
    <3>3. i - 1 \in 1..n
      BY <1>1, <2>1, <3>2
    <3> QED BY <1>1, <2>1, <3>2, <3>3
  <2>2. ASSUME NEW j \in 1..Len(r), i = n + j
        PROVE  i > 1 /\ s[i].results \subseteq s[i - 1].uses
    <3>1. p + j \in 1..Len(ms) /\ s[i] = ms[p + j]
      BY <1>1, <2>2
    <3>2. j # 1
      <4>1. ASSUME j = 1 PROVE FALSE
        <5>1. p < Len(ms) /\ ms[p + 1].results # {}
          BY <1>1, <1>2, <3>1, <4>1
        <5> QED BY <5>1 DEF Slice
      <4> QED BY <4>1
    <3>3. ms[p + j].results \subseteq ms[(p + j) - 1].uses
      BY <1>1, <1>2, <3>1 DEF Answers
    <3>4. j - 1 \in 1..Len(r) /\ n + (j - 1) = i - 1 /\ p + (j - 1) = (p + j) - 1 /\ i > 1
      <4>1. n \in Nat /\ Len(r) \in Nat /\ j \in 1..Len(r) /\ i = n + j
        BY <1>1, <2>2
      <4> QED BY <3>2, <4>1
    <3>5. s[i - 1] = ms[(p + j) - 1]
      BY <1>1, <3>4
    <3> QED BY <3>1, <3>3, <3>4, <3>5
  <2> QED BY <1>1, <1>2, <2>1, <2>2
<1>3. ASSUME NEW i \in 1..n + Len(r), NEW j \in 1..n + Len(r), i # j
      PROVE  s[i].uses \cap s[j].uses = {}
  <2>1. CASE i \in 1..n /\ j \in 1..n
    <3>1. i \in DOMAIN t /\ j \in DOMAIN t /\ s[i] = t[i] /\ s[j] = t[j]
      BY <1>1, <2>1
    <3> QED BY <1>3, <3>1 DEF Answers
  <2>2. ASSUME NEW a \in 1..n, NEW b \in 1..Len(r)
        PROVE  s[a].uses \cap s[n + b].uses = {}
    <3>1. a \in DOMAIN t /\ s[a] = t[a] /\ p + b \in p + 1..Len(ms) /\ s[n + b] = ms[p + b]
      BY <1>1, <2>2
    <3> QED BY <3>1 DEF Slice
  <2>3. ASSUME NEW a \in 1..Len(r), NEW b \in 1..Len(r), i = n + a, j = n + b
        PROVE  s[i].uses \cap s[j].uses = {}
    <3>1. /\ p + a \in DOMAIN ms /\ p + b \in DOMAIN ms /\ p + a # p + b
          /\ s[i] = ms[p + a] /\ s[j] = ms[p + b]
      BY <1>1, <1>3, <2>3
    <3> QED BY <3>1 DEF Answers
  <2> QED BY <1>1, <1>3, <2>1, <2>2, <2>3
<1>4. Answers(s)
  BY <1>1, <1>2, <1>3 DEF Answers
<1> QED BY <1>4 DEF s

LEMMA JoinPending ==
    ASSUME NEW t \in Conversation, NEW ms \in Conversation, NEW p \in Nat, NEW r, Part(r, ms, p),
           Whole(r, ms, p)
    PROVE  Pending(t \o r, Len(t \o r)) \subseteq Pending(t, Len(t)) \cup Pending(ms, Len(ms))
<1> DEFINE s == t \o r
           n == Len(t)
<1>1. /\ n \in Nat /\ Len(r) \in Nat /\ Len(ms) \in Nat /\ Len(s) = n + Len(r)
      /\ \A i \in 1..n : s[i] = t[i]
      /\ \A i \in 1..Len(r) : p + i \in 1..Len(ms) /\ s[n + i] = ms[p + i]
      /\ \A i \in 1..n + Len(r) : i \in 1..n \/ \E j \in 1..Len(r) : i = n + j
  BY JoinFacts
<1> HIDE DEF s, n
<1>3. ASSUME NEW u, Unanswered(u, s, n + Len(r))
      PROVE  Unanswered(u, t, n) \/ Unanswered(u, ms, Len(ms))
  <2>1. PICK j \in 1..n + Len(r) :
           u \in s[j].uses /\ \A k \in j + 1..n + Len(r) : u \notin s[k].results
    BY <1>3 DEF Unanswered
  <2>2. CASE j \in 1..n
    <3>1. u \in t[j].uses
      BY <1>1, <2>1, <2>2
    <3>2. ASSUME NEW k \in j + 1..n PROVE u \notin t[k].results
      <4>1. k \in j + 1..n + Len(r) /\ k \in 1..n
        BY <1>1, <2>2, <3>2
      <4> QED BY <1>1, <2>1, <4>1
    <3> QED BY <2>2, <3>1, <3>2 DEF Unanswered
  <2>3. ASSUME NEW i \in 1..Len(r), j = n + i PROVE Unanswered(u, ms, Len(ms))
    <3>1. p + i \in 1..Len(ms) /\ u \in ms[p + i].uses
      BY <1>1, <2>1, <2>3
    <3>2. p + Len(r) = Len(ms)
      <4>1. r # <<>>
        BY <1>1, <2>3, EmptySeq
      <4> QED BY <4>1 DEF Whole
    <3>3. ASSUME NEW k \in (p + i) + 1..Len(ms) PROVE u \notin ms[k].results
      <4>1. /\ k - p \in 1..Len(r) /\ p + (k - p) = k
            /\ n + (k - p) \in j + 1..n + Len(r)
        BY <1>1, <2>3, <3>2, <3>3
      <4> QED BY <1>1, <2>1, <4>1
    <3> QED BY <3>1, <3>3 DEF Unanswered
  <2> QED BY <1>1, <2>1, <2>2, <2>3
<1>4. Pending(s, Len(s)) \subseteq Pending(t, n) \cup Pending(ms, Len(ms))
  BY <1>1, <1>3, PendingIsUnanswered
<1> QED BY <1>4 DEF s, n

LEMMA JoinContinues ==
    ASSUME NEW s \in Conversation, NEW t \in Conversation, NEW ms \in Conversation,
           NEW p \in Nat, NEW r, Part(r, ms, p), Continues(s, t, ms, p), Whole(r, ms, p)
    PROVE  s = t \o r
<1>1. /\ t \o r \in Conversation /\ Len(t \o r) = Len(t) + Len(r)
      /\ Len(t) \in Nat /\ Len(r) \in Nat /\ Len(ms) \in Nat
      /\ \A i \in 1..Len(t) : (t \o r)[i] = t[i]
      /\ \A i \in 1..Len(r) : p + i \in 1..Len(ms) /\ (t \o r)[Len(t) + i] = ms[p + i]
      /\ \A i \in 1..Len(t) + Len(r) :
            i \in 1..Len(t) \/ \E j \in 1..Len(r) : i = Len(t) + j
  BY JoinFacts
<1>2. /\ Len(s) = Len(t) + Len(r)
      /\ \A i \in 1..Len(t) : s[i] = t[i]
      /\ \A i \in p + 1..Len(ms) : s[Len(t) + (i - p)] = ms[i]
  BY DEF Continues, Whole
<1>3. ASSUME NEW j \in 1..Len(r) PROVE s[Len(t) + j] = ms[p + j]
  <2>1. p + j \in p + 1..Len(ms) /\ (p + j) - p = j
    BY <1>1, <1>3
  <2> QED BY <1>2, <2>1
<1>4. ASSUME NEW i \in 1..Len(s) PROVE s[i] = (t \o r)[i]
  <2>1. i \in 1..Len(t) + Len(r)
    BY <1>2, <1>4
  <2>2. CASE i \in 1..Len(t)
    BY <1>1, <1>2, <2>2
  <2>3. ASSUME NEW j \in 1..Len(r), i = Len(t) + j PROVE s[i] = (t \o r)[i]
    BY <1>1, <1>3, <2>3
  <2> QED BY <1>1, <2>1, <2>2, <2>3
<1> QED BY <1>1, <1>2, <1>4, SeqEqual DEF Conversation
-----------------------------------------------------------------------------
(* Small conversations.                                                    *)

LEMMA RowsMore ==
    ASSUME NEW ms, NEW ids, Rows(ms, ids), NEW more, ids \subseteq more
    PROVE  Rows(ms, more)
BY DEF Rows

LEMMA RowsAppend ==
    ASSUME NEW ms \in Conversation, NEW m \in Messages, NEW ids, Rows(ms, ids),
           m.uses \subseteq ids, m.uses = {} \/ m.results = {}
    PROVE  Rows(Append(ms, m), ids)
<1> DEFINE longer == Append(ms, m)
<1>1. /\ Len(ms) \in Nat /\ DOMAIN ms = 1..Len(ms) /\ DOMAIN longer = 1..Len(ms) + 1
      /\ \A i \in 1..Len(ms) : longer[i] = ms[i]
      /\ longer[Len(ms) + 1] = m
  BY AppendMessage
<1> HIDE DEF longer
<1>2. ASSUME NEW i \in DOMAIN longer
      PROVE  longer[i].uses \subseteq ids /\ (longer[i].uses = {} \/ longer[i].results = {})
  <2>1. CASE i = Len(ms) + 1
    BY <1>1, <2>1
  <2>2. CASE i # Len(ms) + 1
    <3>1. i \in DOMAIN ms /\ longer[i] = ms[i]
      BY <1>1, <1>2, <2>2
    <3> QED BY <3>1 DEF Rows
  <2> QED BY <2>1, <2>2
<1>3. Rows(longer, ids)
  BY <1>2 DEF Rows
<1> QED BY <1>3 DEF longer

\* No calls and no results.
Plain(ms) == ms \in Conversation /\ \A i \in DOMAIN ms : ms[i].uses = {} /\ ms[i].results = {}

LEMMA PlainFacts ==
    ASSUME NEW ms, Plain(ms)
    PROVE  /\ ms \in Conversation /\ Answers(ms) /\ Pending(ms, Len(ms)) = {}
           /\ \A ids : Rows(ms, ids)
           /\ \A rows, p : p <= Len(ms) /\ p \in Nat => Slice(ms, p, rows)
           /\ \A old, p, rows : Slice(old, p, rows) => Slice(old, p, ms)
<1>1. ms \in Conversation /\ DOMAIN ms = 1..Len(ms) /\ Len(ms) \in Nat
  BY Elements DEF Plain
<1>2. Answers(ms) /\ \A ids : Rows(ms, ids)
  BY DEF Plain, Answers, Rows
<1>3. Pending(ms, Len(ms)) = {}
  <2>1. \A u : ~Unanswered(u, ms, Len(ms))
    BY <1>1 DEF Plain, Unanswered
  <2> QED BY <2>1, PendingIsUnanswered
<1>4. ASSUME NEW rows, NEW p \in Nat, p <= Len(ms) PROVE Slice(ms, p, rows)
  <2>1. \A i \in p + 1..Len(ms) : i \in DOMAIN ms
    BY <1>1, <1>4
  <2>2. p < Len(ms) => p + 1 \in DOMAIN ms
    BY <1>1, <1>4
  <2> QED BY <1>4, <2>1, <2>2 DEF Plain, Slice
<1>5. ASSUME NEW old, NEW p, NEW rows, Slice(old, p, rows) PROVE Slice(old, p, ms)
  BY <1>5 DEF Plain, Slice
<1> QED BY <1>1, <1>2, <1>3, <1>4, <1>5

LEMMA PlainBegins == ASSUME NEW ms, Plain(ms), ms # <<>> PROVE ms[1].uses = {}
<1>1. DOMAIN ms = 1..Len(ms) /\ Len(ms) \in Nat /\ Len(ms) # 0
  BY Elements, EmptySeq DEF Plain, Conversation
<1>2. 1 \in DOMAIN ms
  BY <1>1
<1> QED BY <1>2 DEF Plain

LEMMA PlainOnes ==
    /\ Plain(<<>>) /\ Len(<<>>) = 0
    /\ Plain(<<Summary>>) /\ Plain(<<Summary, Ack>>) /\ <<Summary, Ack>> # <<>>
    /\ \A n \in Nat : /\ Plain(<<User(n)>>) /\ Len(<<User(n)>>) = 1 /\ <<User(n)>> # <<>>
                      /\ <<User(n)>>[1] = User(n)
<1>1. /\ Summary \in Messages /\ Summary.uses = {} /\ Summary.results = {}
      /\ Ack \in Messages /\ Ack.uses = {} /\ Ack.results = {}
  BY MessageTypes DEF Summary, Ack, Message
<1>2. \A n \in Nat : User(n) \in Messages /\ User(n).uses = {} /\ User(n).results = {}
  BY MessageTypes DEF User, Message
<1>8. \A m \in Messages : /\ <<m>> \in Conversation /\ DOMAIN <<m>> = {1} /\ <<m>>[1] = m
                          /\ Len(<<m>>) = 1 /\ <<m>> # <<>>
  BY DEF Conversation
<1>3. \A m, k \in Messages : /\ <<m, k>> \in Conversation /\ DOMAIN <<m, k>> = {1, 2}
                             /\ <<m, k>>[1] = m /\ <<m, k>>[2] = k /\ <<m, k>> # <<>>
  BY DEF Conversation
<1>4. <<>> \in Conversation /\ Len(<<>>) = 0 /\ DOMAIN <<>> = {}
  BY EmptySeq DEF Conversation
<1>5. Plain(<<>>)
  BY <1>4 DEF Plain
<1>6. Plain(<<Summary>>) /\ Plain(<<Summary, Ack>>)
  BY <1>1, <1>3, <1>8 DEF Plain
<1>7. ASSUME NEW n \in Nat PROVE Plain(<<User(n)>>)
  <2> DEFINE m == User(n)
  <2>1. m \in Messages /\ m.uses = {} /\ m.results = {}
    BY <1>2
  <2> HIDE DEF m
  <2>2. Plain(<<m>>)
    BY <1>8, <2>1 DEF Plain
  <2> QED BY <2>2 DEF m
<1> QED BY <1>1, <1>2, <1>3, <1>4, <1>5, <1>6, <1>7, <1>8
-----------------------------------------------------------------------------
(* The types of the state.                                                 *)

States == {"idle", "starting", "thinking", "acting", "compacting", "finishing", "condensing",
           "stopped"}
Outcomes == {"none", "running", "success", "llm_error", "exceeded_max_steps", "cancelled",
             "raised"}
Losses == {"write", "compaction", "cancel", "raise"}

Typed ==
    /\ mode \in {"chat", "one_shot"} /\ status \in {"active", "waiting_for_input", "closed"}
    /\ pc \in States /\ outcome \in Outcomes /\ lost \subseteq Losses
    /\ thread \in Conversation /\ messages \in Conversation /\ said \in Conversation
    /\ torn \in BOOLEAN /\ sent \in 0..MaxMessages /\ commands \in 0..MaxCommands
    /\ faults \in 0..MaxFaults /\ prefill \in Nat /\ step \in 0..MaxSteps
    /\ calls \in Seq(Ids) /\ attempt \in 0..MaxRetries + 1 /\ used \in Nat
    /\ ignored \subseteq Ids

LEMMA Types == ASSUME TypeOK PROVE Typed
BY DEF Typed, TypeOK, States, Outcomes, Losses, Conversation

LEMMA TypesNext == ASSUME Typed' PROVE TypeOK'
BY DEF Typed, TypeOK, States, Outcomes, Losses, Conversation

LEMMA Constants ==
    /\ MaxMessages \in Nat /\ MaxSteps \in Nat \ {0} /\ MaxBatch \in Nat
    /\ MaxCommands \in Nat /\ MaxRetries \in Nat /\ MaxFaults \in Nat
BY SessionAssumption DEF SessionAssumption
-----------------------------------------------------------------------------
(* The commands.                                                           *)

\* A row of the user.
LEMMA StoreMessage ==
    ASSUME thread \in Conversation, NEW m \in Messages, Plain(<<m>>), AppendAll(<<m>>)
    PROVE  /\ thread' = IF torn THEN thread ELSE Append(thread, m)
           /\ torn' = FALSE /\ faults' = faults
<1>1. <<m>> # <<>> /\ Tail(<<m>>) = <<>>
  OBVIOUS
<1>2. thread' = thread \o (IF torn THEN Tail(<<m>>) ELSE <<m>>)
  BY <1>1 DEF AppendAll, Readable
<1>3. Append(thread, m) = thread \o <<m>> /\ thread \o <<>> = thread
  BY AppendIsConcat, ConcatEmptySeq DEF Conversation
<1>4. torn' = FALSE /\ faults' = faults
  BY <1>1 DEF AppendAll
<1> QED BY <1>1, <1>2, <1>3, <1>4

\* A write that stores no message at all.
LEMMA StoreNothing ==
    ASSUME thread \in Conversation, NEW m, faults \in 0..MaxFaults, torn \in BOOLEAN,
           AppendFails(<<m>>)
    PROVE  /\ thread' = thread /\ torn' \in BOOLEAN /\ lost' = lost \cup {"write"}
           /\ faults' \in 0..MaxFaults
<1>1. faults' \in 0..MaxFaults /\ lost' = lost \cup {"write"}
  BY Constants DEF AppendFails, Fault
<1>2. PICK k \in 0..Len(<<m>>) - 1, tear \in BOOLEAN :
         /\ thread' = IF k = 0 THEN thread
                      ELSE thread \o Readable(SubSeq(<<m>>, 1, k))
         /\ torn' = (tear \/ (torn /\ k = 0))
  BY DEF AppendFails
<1>3. k = 0
  OBVIOUS
<1> QED BY <1>1, <1>2, <1>3

\* The thread grows by a message of the user.
LEMMA UserRow ==
    ASSUME IInv, NEW n \in Nat
    PROVE  /\ Append(thread, User(n)) \in Conversation /\ Append(thread, User(n)) # <<>>
           /\ Append(thread, User(n))[Len(Append(thread, User(n)))] = User(n)
           /\ Rows(Append(thread, User(n)), 1..used)
           /\ Pending(Append(thread, User(n)), Len(Append(thread, User(n))))
                = Pending(thread, Len(thread))
           /\ "compaction" \notin lost => /\ Answers(Append(thread, User(n)))
                                          /\ Slice(messages, prefill, Append(thread, User(n)))
           /\ "write" \notin lost => Append(thread, User(n))[1].uses = {}
<1> DEFINE m == User(n)
           longer == Append(thread, m)
<1>1. m \in Messages /\ m.uses = {} /\ m.results = {}
  BY MessageTypes DEF User, Message
<1>2. thread \in Conversation /\ messages \in Conversation /\ prefill \in Nat
  BY Types DEF IInv, Typed
<1> HIDE DEF m
<1>3. /\ longer \in Conversation /\ Len(longer) = Len(thread) + 1
      /\ Len(thread) \in Nat /\ DOMAIN thread = 1..Len(thread)
      /\ DOMAIN longer = 1..Len(thread) + 1
      /\ \A i \in 1..Len(thread) : longer[i] = thread[i]
      /\ longer[Len(thread) + 1] = m
  BY <1>1, <1>2, AppendMessage
<1>4. longer # <<>>
  BY <1>1, <1>2, AppendProperties DEF Conversation
<1>5. Rows(longer, 1..used)
  <2>1. Rows(thread, 1..used)
    BY DEF IInv, KnownIds
  <2> QED BY <1>1, <1>2, <2>1, RowsAppend
<1>6. Pending(longer, Len(thread) + 1) = Pending(thread, Len(thread))
  <2>1. Pending(longer, Len(thread) + 1) = (Pending(thread, Len(thread)) \ m.results) \cup m.uses
    BY <1>1, <1>2, PendingAppend
  <2> QED BY <1>1, <2>1
<1>7. ASSUME "compaction" \notin lost PROVE Answers(longer) /\ Slice(messages, prefill, longer)
  <2>1. Answers(thread) /\ Slice(messages, prefill, thread)
    BY <1>7 DEF IInv, Sound
  <2>2. Answers(longer)
    BY <1>1, <1>2, <2>1, AnswersAppend
  <2> HIDE DEF longer
  <2>3. ASSUME NEW i \in prefill + 1..Len(messages), NEW j \in DOMAIN longer
        PROVE  messages[i].uses \cap longer[j].uses = {}
    <3>1. CASE j = Len(thread) + 1
      BY <1>1, <1>3, <3>1
    <3>2. CASE j # Len(thread) + 1
      <4>1. j \in DOMAIN thread /\ longer[j] = thread[j]
        BY <1>3, <2>3, <3>2
      <4> QED BY <2>1, <4>1 DEF Slice
    <3> QED BY <3>1, <3>2
  <2>4. Slice(messages, prefill, longer)
    BY <2>1, <2>3 DEF Slice
  <2> QED BY <2>2, <2>4
<1>8. ASSUME "write" \notin lost PROVE longer[1].uses = {}
  <2>1. CASE thread = <<>>
    <3>1. Len(thread) = 0
      BY <2>1, EmptySeq
    <3> QED BY <1>1, <1>3, <3>1
  <2>2. CASE thread # <<>>
    <3>1. Len(thread) # 0 /\ thread[1].uses = {}
      BY <1>2, <1>8, <2>2, EmptySeq DEF IInv, Begun, Conversation
    <3>2. longer[1] = thread[1]
      BY <1>3, <3>1
    <3> QED BY <3>1, <3>2
  <2> QED BY <2>1, <2>2
<1> QED BY <1>3, <1>4, <1>5, <1>6, <1>7, <1>8 DEF m

LEMMA SendMessageStep == ASSUME IInv, SendMessage PROVE IInv'
<1>1. /\ pc = "idle" /\ status # "closed" /\ sent' = sent + 1 /\ sent < MaxMessages
      /\ said' = Append(said, User(sent'))
      /\ UNCHANGED <<mode, status, commands, messages, prefill, step, outcome, calls,
                     attempt, used, ignored>>
  BY DEF SendMessage, run
<1>2. TypeOK
  BY DEF IInv
<1>3. /\ thread \in Conversation /\ said \in Conversation /\ sent' \in 0..MaxMessages
      /\ sent' \in Nat /\ torn \in BOOLEAN /\ faults \in 0..MaxFaults /\ lost \subseteq Losses
  BY <1>1, <1>2, Types, Constants DEF Typed
<1>4. User(sent') \in Messages /\ Plain(<<User(sent')>>)
  BY <1>3, MessageTypes, PlainOnes
<1>5. said' \in Conversation
  BY <1>1, <1>3, <1>4, AppendMessage
<1>6. CASE /\ AppendAll(<<User(sent')>>) /\ pc' = "starting"
           /\ lost' = IF torn THEN lost \cup {"write"} ELSE lost
  <2>1. /\ thread' = IF torn THEN thread ELSE Append(thread, User(sent'))
        /\ torn' = FALSE /\ faults' = faults
    BY <1>3, <1>4, <1>6, StoreMessage
  <2>2. PICK n \in Nat : n = sent'
    BY <1>3
  <2>3. /\ Append(thread, User(n)) \in Conversation /\ Append(thread, User(n)) # <<>>
        /\ Append(thread, User(n))[Len(Append(thread, User(n)))] = User(n)
        /\ Rows(Append(thread, User(n)), 1..used)
        /\ Pending(Append(thread, User(n)), Len(Append(thread, User(n))))
             = Pending(thread, Len(thread))
        /\ "compaction" \notin lost => /\ Answers(Append(thread, User(n)))
                                       /\ Slice(messages, prefill, Append(thread, User(n)))
        /\ "write" \notin lost => Append(thread, User(n))[1].uses = {}
    BY UserRow
  <2> DEFINE longer == Append(thread, User(n))
  <2>4. thread' = (IF torn THEN thread ELSE longer) /\ said' = Append(said, User(n))
        /\ User(sent') = User(n)
    BY <1>1, <2>1, <2>2
  <2> HIDE DEF longer
  <2>5. /\ lost' \subseteq Losses /\ lost \subseteq lost'
        /\ "compaction" \in lost' => "compaction" \in lost
        /\ "raise" \in lost' => "raise" \in lost
        /\ "write" \notin lost' => ~torn /\ lost' = lost
    BY <1>3, <1>6 DEF Losses
  <2>6. TypeOK'
    <3>1. thread' \in Conversation
      BY <1>3, <2>3, <2>4 DEF longer
    <3> QED BY <1>1, <1>2, <1>3, <1>5, <1>6, <2>1, <2>5, <3>1, Types, TypesNext DEF States, Typed
  <2>7. Control'
    BY <1>1, <1>6, <2>1, <2>5 DEF IInv, Control
  <2>8. KnownIds'
    BY <1>1, <2>3, <2>4 DEF IInv, KnownIds, longer
  <2>9. Balanced'
    BY <1>6 DEF Balanced
  <2>10. Stored' /\ Begun'
    BY <1>1, <1>6, <2>3, <2>4, <2>5 DEF IInv, Stored, Begun, longer
  <2>11. Complete'
    <3>1. ASSUME lost' = {} PROVE said' = thread'
      <4>1. lost = {} /\ ~torn
        BY <2>5, <3>1
      <4>2. said = thread
        BY <1>1, <4>1 DEF IInv, Complete, Running
      <4> QED BY <2>4, <4>1, <4>2 DEF longer
    <3> QED BY <1>6, <3>1 DEF Complete, Running
  <2>12. Sound'
    BY <1>1, <1>6, <2>3, <2>4, <2>5 DEF IInv, Sound, longer
  <2>13. Seen'
    BY <1>6 DEF Seen
  <2> QED BY <2>6, <2>7, <2>8, <2>9, <2>10, <2>11, <2>12, <2>13 DEF IInv
<1>7. CASE AppendFails(<<User(sent')>>) /\ UNCHANGED pc
  <2>1. /\ thread' = thread /\ torn' \in BOOLEAN /\ lost' = lost \cup {"write"}
        /\ faults' \in 0..MaxFaults
    BY <1>3, <1>7, StoreNothing
  <2>2. TypeOK'
    BY <1>1, <1>2, <1>3, <1>5, <1>7, <2>1, Types, TypesNext DEF Losses, Typed
  <2>3. Control'
    BY <1>1, <1>7, <2>1 DEF IInv, Control
  <2>4. KnownIds' /\ Balanced' /\ Stored' /\ Begun' /\ Complete' /\ Seen'
    BY <1>1, <1>7, <2>1 DEF IInv, KnownIds, Balanced, Stored, Begun, Complete, Seen
  <2>5. Sound'
    BY <1>1, <1>7, <2>1 DEF IInv, Sound
  <2> QED BY <2>2, <2>3, <2>4, <2>5 DEF IInv
<1> QED BY <1>6, <1>7 DEF SendMessage

LEMMA StartFailsStep == ASSUME IInv, StartFails PROVE IInv'
<1>1. /\ pc = "starting" /\ pc' = "idle"
      /\ UNCHANGED <<mode, status, thread, torn, sent, commands, faults, messages,
                     prefill, step, outcome, calls, attempt, used, ignored, said, lost>>
  BY DEF StartFails, run
<1>2. TypeOK'
  BY <1>1, Types, TypesNext DEF IInv, States, Typed
<1>3. Control' /\ Balanced' /\ Seen'
  BY <1>1 DEF IInv, Control, Balanced, Seen
<1>4. KnownIds' /\ Sound'
  BY <1>1 DEF IInv, KnownIds, Sound
<1>5. Stored' /\ Begun' /\ Complete'
  BY <1>1 DEF IInv, Stored, Begun, Complete, Running
<1> QED BY <1>2, <1>3, <1>4, <1>5 DEF IInv

LEMMA CloseStep == ASSUME IInv, Close PROVE IInv'
<1>1. /\ pc = "idle" /\ status' = "closed"
      /\ UNCHANGED <<mode, pc, thread, torn, sent, commands, faults, messages, prefill,
                     step, outcome, calls, attempt, used, ignored, said, lost>>
  BY DEF Close, run
<1>2. TypeOK'
  BY <1>1, Types, TypesNext DEF IInv, Typed
<1>3. Control' /\ Balanced' /\ Seen'
  BY <1>1 DEF IInv, Control, Balanced, Seen
<1>4. KnownIds' /\ Sound'
  BY <1>1 DEF IInv, KnownIds, Sound
<1>5. Stored' /\ Begun' /\ Complete'
  BY <1>1 DEF IInv, Stored, Begun, Complete, Running
<1> QED BY <1>2, <1>3, <1>4, <1>5 DEF IInv

LEMMA CompactStep == ASSUME IInv, Compact PROVE IInv'
<1>1. /\ pc = "idle" /\ pc' = "condensing" /\ commands < MaxCommands /\ commands' = commands + 1
      /\ UNCHANGED <<mode, status, thread, torn, sent, faults, messages, prefill, step,
                     outcome, calls, attempt, used, ignored, said, lost>>
  BY DEF Compact, run
<1>2. TypeOK'
  BY <1>1, Types, TypesNext, Constants DEF IInv, States, Typed
<1>3. Control' /\ Balanced' /\ Seen'
  BY <1>1 DEF IInv, Control, Balanced, Seen
<1>4. KnownIds' /\ Sound'
  BY <1>1 DEF IInv, KnownIds, Sound
<1>5. Stored' /\ Begun' /\ Complete'
  BY <1>1 DEF IInv, Stored, Begun, Complete, Running
<1> QED BY <1>2, <1>3, <1>4, <1>5 DEF IInv

LEMMA CondenseStep == ASSUME IInv, Condense PROVE IInv'
<1>1. /\ pc = "condensing" /\ pc' = "idle"
      /\ UNCHANGED <<mode, status, sent, commands, messages, prefill, step, outcome,
                     calls, attempt, used, ignored>>
  BY DEF Condense, run
<1>2. CASE UNCHANGED <<thread, torn, faults, said, lost>>
  <2>1. TypeOK'
    BY <1>1, <1>2, Types, TypesNext DEF IInv, States, Typed
  <2>2. Control' /\ Balanced' /\ Seen'
    BY <1>1, <1>2 DEF IInv, Control, Balanced, Seen
  <2>3. KnownIds' /\ Sound'
    BY <1>1, <1>2 DEF IInv, KnownIds, Sound
  <2>4. Stored' /\ Begun' /\ Complete'
    BY <1>1, <1>2 DEF IInv, Stored, Begun, Complete, Running
  <2> QED BY <2>1, <2>2, <2>3, <2>4 DEF IInv
<1>3. ASSUME NEW rows, Plain(rows), thread' = rows, said' = <<Summary, Ack>>, torn' \in BOOLEAN,
             faults' \in 0..MaxFaults, lost' \subseteq Losses, lost \subseteq lost',
             rows # <<>> => rows[1].uses = {},
             \/ rows = <<Summary, Ack>> /\ torn' = FALSE /\ lost' = lost
             \/ lost' = lost \cup {"write"}
      PROVE  IInv'
  <2>1. /\ rows \in Conversation /\ Answers(rows) /\ Pending(rows, Len(rows)) = {}
        /\ Rows(rows, 1..used)
        /\ \A old, p, r : Slice(old, p, r) => Slice(old, p, rows)
    BY <1>3, PlainFacts
  <2>2. said' \in Conversation
    BY <1>3, PlainOnes DEF Plain
  <2>3. TypeOK'
    BY <1>1, <1>3, <2>1, <2>2, Types, TypesNext DEF IInv, States, Typed
  <2>4. Control' /\ Balanced' /\ Seen'
    BY <1>1, <1>3 DEF IInv, Control, Balanced, Seen
  <2>5. KnownIds' /\ Stored' /\ Begun'
    BY <1>1, <1>3, <2>1 DEF IInv, KnownIds, Stored, Begun, Running
  <2>6. Complete'
    BY <1>1, <1>3 DEF Complete, Running
  <2>7. Sound'
    <3>1. ASSUME "compaction" \notin lost'
          PROVE  Answers(messages) /\ Slice(messages, prefill, thread)
      BY <1>3, <3>1 DEF IInv, Sound
    <3> QED BY <1>1, <1>3, <2>1, <3>1 DEF Sound
  <2> QED BY <2>3, <2>4, <2>5, <2>6, <2>7 DEF IInv
<1>4. CASE /\ thread' = <<Summary, Ack>> /\ torn' = FALSE /\ said' = <<Summary, Ack>>
           /\ UNCHANGED <<faults, lost>>
  <2>1. faults' \in 0..MaxFaults /\ lost' \subseteq Losses
    BY <1>4, Types DEF IInv, Typed
  <2>2. PICK rows : Plain(rows) /\ rows = <<Summary, Ack>>
    BY PlainOnes
  <2>3. rows # <<>> => rows[1].uses = {}
    BY <2>2, PlainBegins
  <2> QED BY <1>3, <1>4, <2>1, <2>2, <2>3
<1>5. CASE /\ Fault /\ thread' \in {<<>>, <<Summary>>} /\ torn' \in BOOLEAN
           /\ said' = <<Summary, Ack>> /\ lost' = lost \cup {"write"}
  <2>1. faults' \in 0..MaxFaults /\ lost' \subseteq Losses /\ lost \subseteq lost'
    BY <1>5, Types, Constants DEF IInv, Fault, Losses, Typed
  <2>2. PICK rows \in {<<>>, <<Summary>>} : thread' = rows
    BY <1>5
  <2>3. Plain(rows)
    BY <2>2, PlainOnes
  <2>4. rows # <<>> => rows[1].uses = {}
    BY <2>3, PlainBegins
  <2> QED BY <1>3, <1>5, <2>1, <2>2, <2>3, <2>4
<1> QED BY <1>2, <1>4, <1>5 DEF Condense
-----------------------------------------------------------------------------
(* The start of a run.                                                     *)

\* If nobody ignored a call, no call is without its result.
LEMMA AllAnswered ==
    ASSUME NEW ms \in Conversation, NoneIgnored(ms), Pending(ms, Len(ms)) \subseteq ignored
    PROVE  Pending(ms, Len(ms)) = {}
<1>1. DOMAIN ms = 1..Len(ms)
  BY Elements
<1>2. ASSUME NEW u, Unanswered(u, ms, Len(ms)) PROVE FALSE
  <2>1. u \in ignored
    BY <1>2, PendingIsUnanswered
  <2>2. PICK i \in 1..Len(ms) : u \in ms[i].uses
    BY <1>2 DEF Unanswered
  <2> QED BY <1>1, <2>1, <2>2 DEF NoneIgnored
<1> QED BY <1>2, PendingIsUnanswered

LEMMA StartRunStep == ASSUME IInv, StartRun PROVE IInv'
<1> DEFINE history == TrimOrphans(thread)
<1>1. /\ pc = "starting" /\ pc' = "thinking" /\ step' = 1 /\ outcome' = "running"
      /\ messages' = IF history = <<>> THEN <<User(sent)>> ELSE history
      /\ prefill' = Len(history)
      /\ UNCHANGED <<mode, status, thread, torn, sent, commands, faults, calls, attempt,
                     used, ignored, said, lost>>
  BY DEF StartRun
<1>2. Typed
  BY Types DEF IInv
<1>3. /\ Begins(history, thread) /\ Pending(history, Len(history)) = {}
      /\ Pending(thread, Len(thread)) = {} => history = thread
      /\ thread # <<>> /\ thread[1].uses = {} => history # <<>>
  BY <1>2, TrimFacts DEF Typed
<1> HIDE DEF history
<1>4. history \in Conversation /\ Len(history) \in Nat /\ Len(thread) \in Nat
  BY <1>2, <1>3, Elements DEF Begins, Typed
<1>5. Rows(history, 1..used) /\ (Answers(thread) => Answers(history))
  BY <1>2, <1>3, BeginsKeeps DEF IInv, KnownIds, Typed
<1>6. /\ Plain(<<User(sent)>>) /\ <<User(sent)>> # <<>> /\ Len(<<User(sent)>>) = 1
  BY <1>2, Constants, PlainOnes DEF Typed
<1>7. /\ <<User(sent)>> \in Conversation /\ Answers(<<User(sent)>>)
      /\ Pending(<<User(sent)>>, Len(<<User(sent)>>)) = {} /\ Rows(<<User(sent)>>, 1..used)
      /\ Slice(<<User(sent)>>, 0, thread)
  <2> DEFINE first == <<User(sent)>>
  <2>1. Plain(first) /\ Len(first) = 1 /\ 0 \in Nat /\ 0 <= Len(first)
    BY <1>6
  <2> HIDE DEF first
  <2>2. /\ first \in Conversation /\ Answers(first) /\ Pending(first, Len(first)) = {}
        /\ Rows(first, 1..used) /\ Slice(first, 0, thread)
    BY <2>1, PlainFacts
  <2> QED BY <2>2 DEF first
<1>8. /\ messages' \in Conversation /\ messages' # <<>>
      /\ Pending(messages', Len(messages')) = {} /\ Rows(messages', 1..used)
      /\ Answers(thread) => Answers(messages')
      /\ Slice(messages', prefill', thread)
  <2>1. CASE history = <<>>
    <3>1. Len(history) = 0
      BY <2>1, EmptySeq
    <3> QED BY <1>1, <1>7, <2>1, <3>1
  <2>2. CASE history # <<>>
    <3>1. Slice(history, Len(history), thread)
      BY <1>4 DEF Slice
    <3> QED BY <1>1, <1>3, <1>4, <1>5, <2>2, <3>1
  <2> QED BY <2>1, <2>2
<1>9. ASSUME "write" \notin lost, "raise" \notin lost, NoneIgnored(thread)
      PROVE  /\ history = thread /\ messages' = thread /\ thread # <<>>
             /\ thread[Len(thread)] = User(sent)
  <2>1. /\ Pending(thread, Len(thread)) \subseteq ignored /\ thread # <<>>
        /\ thread[Len(thread)] = User(sent)
    BY <1>1, <1>9 DEF IInv, Stored
  <2>2. Pending(thread, Len(thread)) = {}
    BY <1>2, <1>9, <2>1, AllAnswered DEF Typed
  <2> QED BY <1>1, <1>3, <2>1, <2>2
<1>10. TypeOK'
  BY <1>1, <1>2, <1>4, <1>8, Constants, TypesNext DEF Typed, States, Outcomes
<1>11. Control'
  BY <1>1 DEF IInv, Control
<1>12. KnownIds' /\ Balanced'
  BY <1>1, <1>8 DEF IInv, KnownIds, Balanced
<1>13. Stored' /\ Begun'
  BY <1>1 DEF IInv, Stored, Begun, Running
<1>14. Complete'
  <2>1. ASSUME lost = {} PROVE Continues(said, thread, messages', prefill')
    <3>1. history # <<>>
      BY <1>1, <1>3, <2>1 DEF IInv, Begun
    <3>2. messages' = history /\ prefill' = Len(history)
      BY <1>1, <3>1
    <3>3. said = thread
      BY <1>1, <2>1 DEF IInv, Complete, Running
    <3> QED BY <1>4, <3>2, <3>3 DEF Continues
  <2> QED BY <1>1, <2>1 DEF Complete, Running
<1>15. Sound'
  BY <1>1, <1>8 DEF IInv, Sound
<1>16. Seen'
  BY <1>1, <1>9 DEF Seen, NoneIgnored
<1> QED BY <1>10, <1>11, <1>12, <1>13, <1>14, <1>15, <1>16 DEF IInv
-----------------------------------------------------------------------------
(* The responses of the model.                                             *)

LEMMA EndStepFacts ==
    ASSUME step \in 0..MaxSteps, step > 0, outcome \in Outcomes, EndStep
    PROVE  /\ step' \in 0..MaxSteps /\ outcome' \in Outcomes
           /\ \/ pc' = "thinking" /\ step' > 1 /\ outcome' = outcome
              \/ pc' = "finishing" /\ outcome' = "exceeded_max_steps"
<1>1. CASE step >= MaxSteps
  BY <1>1, Constants DEF EndStep, EndRun, Outcomes
<1>2. CASE ~(step >= MaxSteps)
  BY <1>2, Constants DEF EndStep, NextStep
<1> QED BY <1>1, <1>2

\* The response as it comes after the messages so far.
LEMMA GrowReply ==
    ASSUME IInv, pc = "thinking", NEW n \in Nat, NEW m, m = Reply(used + 1..used + n)
    PROVE  /\ m \in Messages /\ m.uses = used + 1..used + n /\ m.results = {}
           /\ Append(messages, m) \in Conversation
           /\ Len(Append(messages, m)) = Len(messages) + 1 /\ Len(messages) \in Nat
           /\ Append(messages, m)[Len(messages) + 1] = m /\ Append(messages, m) # <<>>
           /\ Rows(Append(messages, m), 1..used + n) /\ Rows(thread, 1..used + n)
           /\ Pending(Append(messages, m), Len(messages) + 1)
                \subseteq ignored \cup (used + 1..used + n)
           /\ "compaction" \notin lost => /\ Answers(Append(messages, m))
                                          /\ Slice(Append(messages, m), prefill, thread)
                                          /\ prefill < Len(Append(messages, m))
           /\ lost = {} => Continues(Append(said, m), thread, Append(messages, m), prefill)
<1>1. /\ messages \in Conversation /\ thread \in Conversation /\ said \in Conversation
      /\ used \in Nat /\ prefill \in Nat
  BY Types DEF IInv, Typed
<1> DEFINE ids == used + 1..used + n
<1>2. m \in Messages /\ m.uses = ids /\ m.results = {}
  <2>1. ids \in SUBSET Ids
    BY <1>1 DEF Ids
  <2> QED BY <2>1, MessageTypes DEF Reply, Message
<1>3. 1..used \subseteq 1..used + n /\ ids \subseteq 1..used + n /\ 1..used \cap ids = {}
  BY <1>1
<1> HIDE DEF ids
<1>4. Rows(messages, 1..used) /\ Rows(thread, 1..used)
  BY DEF IInv, KnownIds
<1>5. Rows(messages, 1..used + n) /\ Rows(thread, 1..used + n)
  BY <1>3, <1>4, RowsMore
<1>6. Rows(Append(messages, m), 1..used + n)
  BY <1>1, <1>2, <1>3, <1>5, RowsAppend
<1>7. Pending(Append(messages, m), Len(messages) + 1) \subseteq ignored \cup ids
  <2>1. Pending(messages, Len(messages)) \subseteq ignored
    BY DEF IInv, Balanced
  <2>2. Pending(Append(messages, m), Len(messages) + 1)
          = (Pending(messages, Len(messages)) \ m.results) \cup m.uses
    BY <1>1, <1>2, PendingAppend
  <2> QED BY <1>2, <2>1, <2>2
<1>8. /\ Append(messages, m) \in Conversation /\ Len(Append(messages, m)) = Len(messages) + 1
      /\ Len(messages) \in Nat /\ Append(messages, m)[Len(messages) + 1] = m
  BY <1>1, <1>2, AppendMessage
<1>9. Append(messages, m) # <<>>
  BY <1>1, <1>2, AppendProperties DEF Conversation
<1>10. ASSUME "compaction" \notin lost
       PROVE  /\ Answers(Append(messages, m)) /\ Slice(Append(messages, m), prefill, thread)
              /\ prefill < Len(Append(messages, m))
  <2>1. Answers(messages) /\ Slice(messages, prefill, thread)
    BY <1>10 DEF IInv, Sound
  <2>2. \A i \in DOMAIN messages : messages[i].uses \cap m.uses = {}
    BY <1>2, <1>3, <1>4 DEF Rows
  <2>3. \A i \in DOMAIN thread : m.uses \cap thread[i].uses = {}
    BY <1>2, <1>3, <1>4 DEF Rows
  <2>4. prefill < Len(Append(messages, m))
    BY <1>1, <1>8, <2>1 DEF Slice
  <2> QED BY <1>1, <1>2, <2>1, <2>2, <2>3, <2>4, AnswersAppend, SliceAppend
<1>11. ASSUME lost = {}
       PROVE  Continues(Append(said, m), thread, Append(messages, m), prefill)
  <2>1. Continues(said, thread, messages, prefill)
    BY <1>11 DEF IInv, Complete, Running
  <2> QED BY <1>1, <1>2, <2>1, ContinuesAppend
<1> QED BY <1>2, <1>5, <1>6, <1>7, <1>8, <1>9, <1>10, <1>11 DEF ids

\* With the errors that answer the calls of a response that was cut off.
LEMMA GrowResults ==
    ASSUME IInv, pc = "thinking", NEW n \in Nat, n > 0,
           NEW m, m = Reply(used + 1..used + n), NEW e, e = Results(used + 1..used + n),
           NEW longer, longer = Append(Append(messages, m), e)
    PROVE  /\ messages \o <<m, e>> = longer /\ longer \in Conversation /\ longer # <<>>
           /\ said \o <<m, e>> = Append(Append(said, m), e)
           /\ Append(Append(said, m), e) \in Conversation
           /\ Rows(longer, 1..used + n) /\ Rows(thread, 1..used + n)
           /\ Pending(longer, Len(longer)) \subseteq ignored
           /\ "compaction" \notin lost => Answers(longer) /\ Slice(longer, prefill, thread)
           /\ lost = {} => Continues(Append(Append(said, m), e), thread, longer, prefill)
<1> DEFINE ids == used + 1..used + n
           ms == Append(messages, m)
           sd == Append(said, m)
<1>1. /\ messages \in Conversation /\ thread \in Conversation /\ said \in Conversation
      /\ used \in Nat /\ prefill \in Nat
  BY Types DEF IInv, Typed
<1>2. /\ m \in Messages /\ m.uses = ids /\ m.results = {}
      /\ ms \in Conversation /\ Len(ms) = Len(messages) + 1 /\ Len(messages) \in Nat
      /\ ms[Len(messages) + 1] = m /\ ms # <<>>
      /\ Rows(ms, 1..used + n) /\ Rows(thread, 1..used + n)
      /\ Pending(ms, Len(messages) + 1) \subseteq ignored \cup ids
      /\ "compaction" \notin lost => /\ Answers(ms) /\ Slice(ms, prefill, thread)
                                     /\ prefill < Len(ms)
      /\ lost = {} => Continues(sd, thread, ms, prefill)
  BY GrowReply
<1>3. e \in Messages /\ e.uses = {} /\ e.results = ids
  <2>1. ids \in SUBSET Ids
    BY <1>1 DEF Ids
  <2> QED BY <2>1, MessageTypes DEF Results, Message
<1>4. sd \in Conversation /\ Append(sd, e) \in Conversation
  BY <1>1, <1>2, <1>3, AppendMessage
<1>5. /\ messages \o <<m, e>> = Append(ms, e)
      /\ said \o <<m, e>> = Append(sd, e)
  <2>1. \A s \in Seq(Messages) : s \o <<m, e>> = Append(Append(s, m), e)
    <3>1. <<m>> \in Seq(Messages) /\ <<e>> \in Seq(Messages) /\ <<m>> \o <<e>> = <<m, e>>
      <4>1. ASSUME NEW a \in Messages, NEW b \in Messages
            PROVE  <<a>> \in Seq(Messages) /\ <<a>> \o <<b>> = <<a, b>>
        <5>1. <<a>> \in Seq(Messages)
          OBVIOUS
        <5>2. Append(<<a>>, b) = <<a>> \o <<b>>
          BY <5>1, AppendIsConcat
        <5>3. /\ <<a, b>> \in Seq(Messages) /\ Len(<<a, b>>) = 2
              /\ <<a, b>>[1] = a /\ <<a, b>>[2] = b /\ Len(<<a>>) = 1 /\ <<a>>[1] = a
          OBVIOUS
        <5>4. Append(<<a>>, b) = <<a, b>>
          <6> DEFINE s == Append(<<a>>, b)
                     t == <<a, b>>
          <6>1. /\ s \in Seq(Messages) /\ Len(s) = 2
                /\ s[1] = a /\ s[2] = b
            BY <5>1, <5>3, AppendProperties
          <6>2. t \in Seq(Messages) /\ Len(t) = 2 /\ t[1] = a /\ t[2] = b
            BY <5>3
          <6> HIDE DEF s, t
          <6>3. s = t
            BY <6>1, <6>2, SeqEqual
          <6> QED BY <6>3 DEF s, t
        <5> QED BY <5>1, <5>2, <5>4
      <4> HIDE DEF ids, ms, sd
      <4> QED BY <1>2, <1>3, <4>1
    <3>2. TAKE s \in Seq(Messages)
    <3>3. Append(s, m) = s \o <<m>> /\ Append(s, m) \in Seq(Messages)
      BY <1>2, AppendIsConcat, AppendProperties
    <3>4. Append(Append(s, m), e) = (s \o <<m>>) \o <<e>>
      BY <1>3, <3>3, AppendIsConcat
    <3> QED BY <3>1, <3>4, ConcatAssociative
  <2> QED BY <1>1, <2>1 DEF Conversation
<1> HIDE DEF ids, ms, sd
<1>6. longer \in Conversation /\ Len(longer) = Len(ms) + 1 /\ longer # <<>> /\ longer = Append(ms, e)
  <2>1. longer = Append(ms, e)
    BY DEF ms
  <2>2. Append(ms, e) # <<>>
    BY <1>2, <1>3, AppendProperties DEF Conversation
  <2>3. Append(ms, e) \in Conversation /\ Len(Append(ms, e)) = Len(ms) + 1
    BY <1>2, <1>3, AppendMessage
  <2> QED BY <2>1, <2>2, <2>3
<1>7. Rows(longer, 1..used + n)
  BY <1>2, <1>3, <1>6, RowsAppend
<1>8. Pending(longer, Len(longer)) \subseteq ignored
  <2>1. Pending(Append(ms, e), Len(ms) + 1) = (Pending(ms, Len(ms)) \ e.results) \cup e.uses
    BY <1>2, <1>3, PendingAppend
  <2> QED BY <1>2, <1>3, <1>6, <2>1
<1>9. ASSUME "compaction" \notin lost PROVE Answers(longer) /\ Slice(longer, prefill, thread)
  <2>1. Answers(Append(ms, e))
    <3>1. e.results \subseteq ms[Len(ms)].uses
      BY <1>2, <1>3
    <3> QED BY <1>2, <1>3, <1>9, <3>1, AnswersAppend
  <2>2. Slice(Append(ms, e), prefill, thread)
    <3>1. prefill # Len(ms)
      BY <1>1, <1>2, <1>9
    <3> QED BY <1>1, <1>2, <1>3, <1>9, <3>1, SliceAppend
  <2> QED BY <1>6, <2>1, <2>2
<1>10. ASSUME lost = {} PROVE Continues(Append(sd, e), thread, longer, prefill)
  <2>1. Continues(sd, thread, ms, prefill)
    BY <1>2, <1>10
  <2>2. Continues(Append(sd, e), thread, Append(ms, e), prefill)
    BY <1>1, <1>2, <1>3, <1>4, <2>1, ContinuesAppend
  <2> QED BY <1>6, <2>2
<1> QED BY <1>2, <1>4, <1>5, <1>6, <1>7, <1>8, <1>9, <1>10 DEF sd

LEMMA RespondStep ==
    ASSUME IInv, NEW stop \in StopReasons, NEW n \in 0..MaxBatch, Respond(stop, n)
    PROVE  IInv'
<1> DEFINE m == Reply(used + 1..used + n)
           e == Results(used + 1..used + n)
           new == IF stop = "max_tokens" /\ n > 0 THEN <<m, e>> ELSE <<m>>
<1>1. /\ pc = "thinking" /\ (stop = "tool_use" => n > 0)
      /\ messages' = messages \o new /\ said' = said \o new
      /\ calls' = IF stop = "tool_use" THEN [i \in 1..n |-> used + i] ELSE <<>>
      /\ used' = used + n
      /\ ignored' = IF stop \in {"end_turn", "other"}
                    THEN ignored \cup used + 1..used + n ELSE ignored
      /\ CASE stop = "tool_use" -> pc' = "acting" /\ UNCHANGED <<step, outcome>>
           [] stop = "end_turn" -> EndRun("success")
           [] OTHER             -> EndStep
      /\ UNCHANGED <<mode, status, thread, torn, sent, commands, faults, prefill, attempt, lost>>
  BY DEF Respond
<1>2. Typed
  BY Types DEF IInv
<1>3. /\ n \in Nat /\ used \in Nat /\ used + n \in Nat /\ step \in 0..MaxSteps /\ step > 0
      /\ outcome \in Outcomes /\ status # "closed" /\ ~torn
      /\ outcome = "raised" => "raise" \in lost
  <2>1. n \in Nat /\ used \in Nat /\ step \in 0..MaxSteps /\ outcome \in Outcomes
    BY <1>2, Constants DEF Typed
  <2>2. step > 0 /\ status # "closed" /\ ~torn /\ (outcome = "raised" => "raise" \in lost)
    BY <1>1 DEF IInv, Control
  <2> QED BY <2>1, <2>2
<1>4. \/ stop = "tool_use" /\ n > 0 /\ pc' = "acting" /\ UNCHANGED <<step, outcome>>
      \/ /\ stop # "tool_use" /\ pc' \in {"thinking", "finishing"}
         /\ step' \in 0..MaxSteps /\ outcome' \in Outcomes
         /\ pc' = "thinking" => step' > 1
         /\ outcome' = "raised" => outcome = "raised"
  <2>1. CASE stop = "tool_use"
    BY <1>1, <2>1
  <2>2. CASE stop = "end_turn"
    BY <1>1, <1>3, <2>2 DEF EndRun, Outcomes
  <2>3. CASE stop \notin {"tool_use", "end_turn"}
    <3>1. EndStep
      BY <1>1, <2>3
    <3> QED BY <1>3, <2>3, <3>1, EndStepFacts
  <2> QED BY <2>1, <2>2, <2>3
<1>5. /\ messages' \in Conversation /\ said' \in Conversation /\ messages' # <<>>
      /\ Rows(messages', 1..used + n) /\ Rows(thread, 1..used + n)
      /\ "compaction" \notin lost => /\ Answers(messages') /\ Slice(messages', prefill, thread)
      /\ lost = {} => Continues(said', thread, messages', prefill)
      /\ stop # "tool_use" => Pending(messages', Len(messages')) \subseteq ignored'
      /\ stop = "tool_use" =>
            /\ Pending(messages', Len(messages')) \subseteq ignored' \cup used + 1..used + n
            /\ messages'[Len(messages')].results = {}
            /\ messages'[Len(messages')].uses = used + 1..used + n
            /\ "compaction" \notin lost => prefill < Len(messages')
  <2>1. CASE stop = "max_tokens" /\ n > 0
    <3> DEFINE longer == Append(Append(messages, m), e)
    <3>1. /\ messages \o <<m, e>> = longer /\ longer \in Conversation /\ longer # <<>>
          /\ said \o <<m, e>> = Append(Append(said, m), e)
          /\ Append(Append(said, m), e) \in Conversation
          /\ Rows(longer, 1..used + n) /\ Rows(thread, 1..used + n)
          /\ Pending(longer, Len(longer)) \subseteq ignored
          /\ "compaction" \notin lost => Answers(longer) /\ Slice(longer, prefill, thread)
          /\ lost = {} => Continues(Append(Append(said, m), e), thread, longer, prefill)
      BY <1>1, <1>3, <2>1, GrowResults
    <3>2. /\ messages' = messages \o <<m, e>> /\ said' = said \o <<m, e>>
          /\ ignored' = ignored
      BY <1>1, <2>1
    <3> HIDE DEF longer, m, e, new
    <3> QED BY <2>1, <3>1, <3>2
  <2>2. CASE ~(stop = "max_tokens" /\ n > 0)
    <3> DEFINE longer == Append(messages, m)
    <3>1. /\ m \in Messages /\ m.uses = used + 1..used + n /\ m.results = {}
          /\ longer \in Conversation
          /\ Len(longer) = Len(messages) + 1 /\ Len(messages) \in Nat
          /\ longer[Len(messages) + 1] = m /\ longer # <<>>
          /\ Rows(longer, 1..used + n) /\ Rows(thread, 1..used + n)
          /\ Pending(longer, Len(messages) + 1) \subseteq ignored \cup (used + 1..used + n)
          /\ "compaction" \notin lost => /\ Answers(longer)
                                         /\ Slice(longer, prefill, thread)
                                         /\ prefill < Len(longer)
          /\ lost = {} => Continues(Append(said, m), thread, longer, prefill)
      BY <1>1, <1>3, GrowReply
    <3>2. messages' = messages \o <<m>> /\ said' = said \o <<m>>
      BY <1>1, <2>2
    <3>3. messages' = longer /\ said' = Append(said, m) /\ Append(said, m) \in Conversation
      BY <1>2, <3>1, <3>2, AppendIsConcat, AppendProperties DEF Typed, Conversation
    <3>4. /\ ignored \subseteq ignored'
          /\ stop # "tool_use" => used + 1..used + n \subseteq ignored'
      <4>1. CASE stop \in {"end_turn", "other"}
        BY <1>1, <4>1
      <4>2. CASE stop = "max_tokens"
        <5>1. used + 1..used + n = {}
          BY <1>3, <2>2, <4>2
        <5> QED BY <1>1, <4>2, <5>1
      <4>3. CASE stop = "tool_use"
        BY <1>1, <4>3
      <4> QED BY <4>1, <4>2, <4>3 DEF StopReasons
    <3> HIDE DEF longer, m, new
    <3> QED BY <3>1, <3>3, <3>4
  <2> QED BY <2>1, <2>2
<1> HIDE DEF m, e, new
<1>6. /\ calls' \in Seq(Ids)
      /\ stop = "tool_use" =>
            /\ calls' # <<>> /\ {calls'[i] : i \in DOMAIN calls'} = used + 1..used + n
            /\ \A i, j \in DOMAIN calls' : calls'[i] = calls'[j] => i = j
  <2>1. CASE stop = "tool_use"
    <3>1. calls' = [i \in 1..n |-> used + i]
      BY <1>1, <2>1
    <3>2. calls' \in Seq(Ids)
      <4>1. calls' \in [1..n -> Ids]
        BY <1>3, <3>1 DEF Ids
      <4> QED BY <1>3, <4>1, SeqDef
    <3>3. {calls'[i] : i \in DOMAIN calls'} = used + 1..used + n
      <4>1. \A i \in 1..n : calls'[i] \in used + 1..used + n
        BY <1>3, <3>1
      <4>2. \A u \in used + 1..used + n : u - used \in 1..n /\ calls'[u - used] = u
        BY <1>3, <3>1
      <4>3. DOMAIN calls' = 1..n
        BY <3>1
      <4> QED BY <4>1, <4>2, <4>3
    <3>4. \A i, j \in DOMAIN calls' : calls'[i] = calls'[j] => i = j
      BY <1>3, <3>1
    <3>5. calls' # <<>>
      <4>1. 1 \in DOMAIN calls'
        BY <1>3, <1>4, <2>1, <3>1
      <4> QED BY <4>1
    <3> QED BY <3>2, <3>3, <3>4, <3>5
  <2>2. CASE stop # "tool_use"
    BY <1>1, <2>2, EmptySeq
  <2> QED BY <2>1, <2>2
<1>7. TypeOK'
  <2>1. pc' \in States /\ step' \in 0..MaxSteps /\ outcome' \in Outcomes
    BY <1>3, <1>4 DEF States
  <2>2. ignored' \subseteq Ids
    <3>1. ignored \subseteq Ids /\ used + 1..used + n \subseteq Ids
      BY <1>2, <1>3 DEF Typed, Ids
    <3> QED BY <1>1, <3>1
  <2> QED BY <1>1, <1>2, <1>3, <1>5, <1>6, <2>1, <2>2, TypesNext DEF Typed
<1>8. Control'
  <2>1. pc' \in {"thinking", "acting"} => step' > 0
    BY <1>3, <1>4, Constants
  <2> QED BY <1>1, <1>3, <1>4, <1>6, <2>1 DEF Control
<1>9. KnownIds'
  BY <1>1, <1>5 DEF KnownIds
<1>10. Balanced'
  <2>1. CASE stop = "tool_use"
    <3>1. pc' = "acting"
      BY <1>4, <2>1
    <3>2. InCalls' = used + 1..used + n
      BY <1>6, <2>1 DEF InCalls
    <3>3. Asked(messages', InCalls')
      BY <1>5, <2>1, <3>2 DEF Asked
    <3> QED BY <1>5, <2>1, <3>1, <3>2, <3>3 DEF Balanced
  <2>2. CASE stop # "tool_use"
    BY <1>4, <1>5, <2>2 DEF Balanced
  <2> QED BY <2>1, <2>2
<1>11. Stored' /\ Begun'
  <2>1. ignored \subseteq ignored'
    BY <1>1
  <2> QED BY <1>1, <1>4, <2>1 DEF IInv, Stored, Begun, Running
<1>12. Complete'
  BY <1>1, <1>4, <1>5 DEF Complete, Running
<1>13. Sound'
  BY <1>1, <1>4, <1>5 DEF IInv, Sound
<1>14. Seen'
  <2>1. pc' = "thinking" => step' # 1
    BY <1>4
  <2> QED BY <2>1 DEF Seen
<1> QED BY <1>7, <1>8, <1>9, <1>10, <1>11, <1>12, <1>13, <1>14 DEF IInv

LEMMA ChatFailsStep == ASSUME IInv, ChatFails PROVE IInv'
<1>1. /\ pc = "thinking" /\ pc' = "finishing" /\ outcome' = "llm_error"
      /\ UNCHANGED <<mode, status, thread, torn, sent, commands, faults, messages,
                     prefill, step, calls, attempt, used, ignored, said, lost>>
  BY DEF ChatFails, EndRun
<1>2. TypeOK'
  BY <1>1, Types, TypesNext DEF IInv, States, Outcomes, Typed
<1>3. Control' /\ Balanced' /\ Seen'
  BY <1>1 DEF IInv, Control, Balanced, Seen
<1>4. KnownIds' /\ Sound'
  BY <1>1 DEF IInv, KnownIds, Sound
<1>5. Stored' /\ Begun' /\ Complete'
  BY <1>1 DEF IInv, Stored, Begun, Complete, Running
<1> QED BY <1>2, <1>3, <1>4, <1>5 DEF IInv

LEMMA CompactContextStep == ASSUME IInv, CompactContext PROVE IInv'
<1>1. /\ pc = "compacting" /\ pc' = "thinking" /\ step' = step + 1
      /\ UNCHANGED <<mode, status, thread, torn, sent, commands, faults, prefill, outcome,
                     calls, attempt, used, ignored, said>>
  BY DEF CompactContext, NextStep
<1>2. Typed
  BY Types DEF IInv
<1>3. step' \in 0..MaxSteps /\ step' > 1
  <2>1. step > 0 /\ step < MaxSteps
    BY <1>1 DEF IInv, Control
  <2> QED BY <1>1, <1>2, <2>1, Constants DEF Typed
<1>4. ASSUME messages' \in Conversation, messages' # <<>>, Rows(messages', 1..used),
             Pending(messages', Len(messages')) \subseteq ignored, lost' \subseteq Losses,
             \/ lost' = lost \cup {"compaction"}
             \/ UNCHANGED <<messages, lost>>
      PROVE  IInv'
  <2>1. TypeOK'
    BY <1>1, <1>2, <1>3, <1>4, TypesNext DEF States, Typed
  <2>2. Control' /\ Seen'
    BY <1>1, <1>3, <1>4 DEF IInv, Control, Seen
  <2>3. KnownIds' /\ Balanced'
    BY <1>1, <1>4 DEF IInv, KnownIds, Balanced
  <2>4. Stored' /\ Begun' /\ Complete'
    BY <1>1, <1>4 DEF IInv, Stored, Begun, Complete, Running
  <2>5. Sound'
    BY <1>1, <1>4 DEF IInv, Sound
  <2> QED BY <2>1, <2>2, <2>3, <2>4, <2>5 DEF IInv
<1>5. CASE messages' = <<Summary, Ack>> /\ lost' = lost \cup {"compaction"}
  <2>1. \E new : Plain(new) /\ new # <<>> /\ messages' = new
    BY <1>5, PlainOnes
  <2>2. PICK new : Plain(new) /\ new # <<>> /\ messages' = new
    BY <2>1
  <2>3. new \in Conversation /\ Rows(new, 1..used) /\ Pending(new, Len(new)) = {}
    BY <2>2, PlainFacts
  <2>4. lost' \subseteq Losses
    BY <1>2, <1>5 DEF Losses, Typed
  <2> QED BY <1>4, <1>5, <2>2, <2>3, <2>4
<1>6. CASE UNCHANGED <<messages, lost>>
  <2>1. /\ messages # <<>> /\ Pending(messages, Len(messages)) \subseteq ignored
        /\ Rows(messages, 1..used)
    BY <1>1 DEF IInv, Balanced, KnownIds
  <2> QED BY <1>2, <1>4, <1>6, <2>1 DEF Typed
<1> QED BY <1>5, <1>6 DEF CompactContext
-----------------------------------------------------------------------------
(* The tool calls.                                                         *)

LEMMA PermitStep == ASSUME IInv, Permit PROVE IInv'
<1>1. /\ pc = "acting" /\ attempt' = 1
      /\ UNCHANGED <<mode, status, pc, thread, torn, sent, commands, faults, messages,
                     prefill, step, outcome, calls, used, ignored, said, lost>>
  BY DEF Permit
<1>2. TypeOK'
  BY <1>1, Types, TypesNext, Constants DEF IInv, Typed
<1>3. Control' /\ Seen' /\ Stored' /\ Begun'
  BY <1>1 DEF IInv, Control, Seen, Stored, Begun, Running
<1>4. KnownIds' /\ Sound' /\ Complete'
  BY <1>1 DEF IInv, KnownIds, Sound, Complete
<1>5. Balanced'
  BY <1>1 DEF IInv, Balanced, InCalls
<1> QED BY <1>2, <1>3, <1>4, <1>5 DEF IInv

LEMMA RetryStep == ASSUME IInv, Retry PROVE IInv'
<1>1. /\ pc = "acting" /\ attempt <= MaxRetries /\ attempt' = attempt + 1
      /\ UNCHANGED <<mode, status, pc, thread, torn, sent, commands, faults, messages,
                     prefill, step, outcome, calls, used, ignored, said, lost>>
  BY DEF Retry
<1>2. TypeOK'
  BY <1>1, Types, TypesNext, Constants DEF IInv, Typed
<1>3. Control' /\ Seen' /\ Stored' /\ Begun'
  BY <1>1 DEF IInv, Control, Seen, Stored, Begun, Running
<1>4. KnownIds' /\ Sound' /\ Complete'
  BY <1>1 DEF IInv, KnownIds, Sound, Complete
<1>5. Balanced'
  BY <1>1 DEF IInv, Balanced, InCalls
<1> QED BY <1>2, <1>3, <1>4, <1>5 DEF IInv

LEMMA InvokeRaisesStep == ASSUME IInv, InvokeRaises PROVE IInv'
<1>1. /\ pc = "acting" /\ pc' = "finishing" /\ outcome' = "raised"
      /\ calls' = <<>> /\ attempt' = 0 /\ lost' = lost \cup {"raise"} /\ Fault
      /\ UNCHANGED <<mode, status, thread, torn, sent, commands, messages, prefill, step,
                     used, ignored, said>>
  BY DEF InvokeRaises, EndRun
<1>2. Typed
  BY Types DEF IInv
<1>3. /\ faults' \in 0..MaxFaults /\ lost' \subseteq Losses /\ calls' \in Seq(Ids)
      /\ attempt' \in 0..MaxRetries + 1
  BY <1>1, <1>2, Constants, EmptySeq DEF Fault, Losses, Typed
<1>4. TypeOK'
  BY <1>1, <1>2, <1>3, TypesNext DEF States, Outcomes, Typed
<1>5. Control' /\ Seen' /\ Stored' /\ Begun'
  BY <1>1 DEF IInv, Control, Seen, Stored, Begun, Running
<1>6. KnownIds' /\ Sound' /\ Complete'
  BY <1>1 DEF IInv, KnownIds, Sound, Complete
<1>7. Balanced'
  BY <1>1 DEF Balanced
<1> QED BY <1>4, <1>5, <1>6, <1>7 DEF IInv

\* The first call is over: the others are still to come.
LEMMA NextCall ==
    ASSUME NEW c \in Seq(Ids), c # <<>>, \A i, j \in DOMAIN c : c[i] = c[j] => i = j
    PROVE  /\ Head(c) \in Ids /\ Head(c) \in {c[i] : i \in DOMAIN c}
           /\ Tail(c) \in Seq(Ids)
           /\ \A i, j \in DOMAIN Tail(c) : Tail(c)[i] = Tail(c)[j] => i = j
           /\ {Tail(c)[i] : i \in DOMAIN Tail(c)} = {c[i] : i \in DOMAIN c} \ {Head(c)}
<1> DEFINE n == Len(c)
           t == Tail(c)
<1>1. n \in Nat \ {0} /\ DOMAIN c = 1..n /\ \A i \in 1..n : c[i] \in Ids
  BY EmptySeq, LenProperties, ElementOfSeq
<1>2. Head(c) = c[1]
  BY <1>1
<1>3. t \in Seq(Ids) /\ Len(t) = n - 1 /\ \A i \in 1..Len(t) : t[i] = c[i + 1]
  BY HeadTailProperties
<1>4. DOMAIN t = 1..n - 1
  BY <1>3, LenProperties
<1> HIDE DEF n, t
<1>5. 1 \in DOMAIN c
  BY <1>1
<1>6. \A i, j \in DOMAIN t : t[i] = t[j] => i = j
  <2>1. ASSUME NEW i \in 1..n - 1, NEW j \in 1..n - 1, t[i] = t[j]
        PROVE  i = j
    <3>1. i + 1 \in 1..n /\ j + 1 \in 1..n /\ c[i + 1] = c[j + 1]
      BY <1>1, <1>3, <1>4, <2>1
    <3>2. i + 1 = j + 1
      BY <1>1, <3>1
    <3> QED BY <1>1, <3>2
  <2> QED BY <1>4, <2>1
<1>7. ASSUME NEW u
      PROVE  (\E i \in DOMAIN t : u = t[i]) <=> (\E i \in DOMAIN c : u = c[i]) /\ u # c[1]
  <2>1. ASSUME NEW i \in DOMAIN t, u = t[i]
        PROVE  (\E j \in DOMAIN c : u = c[j]) /\ u # c[1]
    <3>1. i + 1 \in DOMAIN c /\ i + 1 # 1 /\ u = c[i + 1]
      BY <1>1, <1>3, <1>4, <2>1
    <3> QED BY <1>5, <3>1
  <2>2. ASSUME NEW i \in DOMAIN c, u = c[i], u # c[1]
        PROVE  \E j \in DOMAIN t : u = t[j]
    <3>1. i - 1 \in DOMAIN t /\ (i - 1) + 1 = i
      BY <1>1, <1>4, <2>2
    <3> QED BY <1>3, <1>4, <2>2, <3>1
  <2> QED BY <2>1, <2>2
<1>8. {t[i] : i \in DOMAIN t} = {c[i] : i \in DOMAIN c} \ {c[1]}
  BY <1>7
<1> QED BY <1>1, <1>2, <1>3, <1>5, <1>6, <1>8 DEF t

LEMMA AnswerStep ==
    ASSUME IInv, pc = "acting", Answer,
           UNCHANGED <<mode, status, thread, torn, sent, commands, faults, prefill, used,
                       ignored, lost>>
    PROVE  IInv'
<1> DEFINE id == Head(calls)
<1>1. /\ messages' = AddResult(messages, id) /\ said' = AddResult(said, id)
      /\ calls' = Tail(calls) /\ attempt' = 0
      /\ IF Tail(calls) = <<>> THEN EndToolStep ELSE UNCHANGED <<pc, step, outcome>>
      /\ UNCHANGED <<mode, status, thread, torn, sent, commands, faults, prefill, used,
                     ignored, lost>>
  BY DEF Answer
<1>2. Typed
  BY Types DEF IInv
<1>3. /\ calls # <<>> /\ \A i, j \in DOMAIN calls : calls[i] = calls[j] => i = j
      /\ step > 0 /\ status # "closed" /\ ~torn /\ (outcome = "raised" => "raise" \in lost)
  BY DEF IInv, Control
<1>4. /\ id \in Ids /\ id \in InCalls /\ calls' \in Seq(Ids) /\ InCalls' = InCalls \ {id}
      /\ \A i, j \in DOMAIN calls' : calls'[i] = calls'[j] => i = j
      /\ calls' = <<>> => InCalls' = {}
  <2>1. calls \in Seq(Ids)
    BY <1>2 DEF Typed
  <2>2. /\ id \in Ids /\ id \in InCalls /\ Tail(calls) \in Seq(Ids)
        /\ \A i, j \in DOMAIN Tail(calls) : Tail(calls)[i] = Tail(calls)[j] => i = j
        /\ {Tail(calls)[i] : i \in DOMAIN Tail(calls)} = InCalls \ {id}
    BY <1>3, <2>1, NextCall DEF InCalls
  <2>3. InCalls' = {calls'[i] : i \in DOMAIN calls'}
    BY DEF InCalls
  <2>4. calls' = <<>> => DOMAIN calls' = {}
    OBVIOUS
  <2> HIDE DEF id
  <2> QED BY <1>1, <2>2, <2>3, <2>4
<1>5. \/ calls' # <<>> /\ UNCHANGED <<pc, step, outcome>>
      \/ /\ calls' = <<>> /\ step' \in 0..MaxSteps /\ step' > 0 /\ outcome' \in Outcomes
         /\ outcome' = "raised" => outcome = "raised"
         /\ \/ pc' = "thinking" /\ step' > 1
            \/ pc' = "finishing"
            \/ pc' = "compacting" /\ step' < MaxSteps
  <2>1. CASE Tail(calls) = <<>>
    <3>1. /\ step \in 0..MaxSteps /\ outcome \in Outcomes /\ calls' = <<>> /\ EndToolStep
      BY <1>1, <1>2, <2>1 DEF Typed
    <3>2. CASE EndStep
      BY <1>3, <3>1, <3>2, Constants, EndStepFacts DEF EndStep, EndRun, NextStep
    <3>3. CASE pc' = "compacting" /\ step < MaxSteps /\ UNCHANGED <<step, outcome>>
      BY <1>3, <3>1, <3>3
    <3> QED BY <3>1, <3>2, <3>3 DEF EndToolStep
  <2>2. CASE Tail(calls) # <<>>
    BY <1>1, <2>2
  <2> QED BY <2>1, <2>2
<1> HIDE DEF id
<1>6. /\ Rows(messages, 1..used) /\ Rows(thread, 1..used)
      /\ Pending(messages, Len(messages)) \subseteq ignored \cup InCalls
      /\ Asked(messages, InCalls)
  BY DEF IInv, KnownIds, Balanced
<1>7. /\ messages' \in Conversation /\ said' \in Conversation /\ messages' # <<>>
      /\ Rows(messages', 1..used)
  BY <1>1, <1>2, <1>4, <1>6, AddResultType, AddResultRows DEF Typed
<1>8. Pending(messages', Len(messages')) \subseteq ignored \cup InCalls'
  <2>1. Pending(AddResult(messages, id), Len(AddResult(messages, id)))
          = Pending(messages, Len(messages)) \ {id}
    BY <1>2, <1>4, <1>6, AddResultPending DEF Typed
  <2> QED BY <1>1, <1>4, <1>6, <2>1
<1>9. Asked(messages', InCalls')
  <2>1. Asked(AddResult(messages, id), InCalls)
    BY <1>2, <1>4, <1>6, AddResultAsked DEF Typed
  <2> QED BY <1>1, <1>4, <2>1 DEF Asked
<1>10. ASSUME "compaction" \notin lost
       PROVE  /\ Answers(thread) /\ Answers(messages') /\ Slice(messages', prefill, thread)
              /\ prefill < Len(messages')
  <2>1. /\ Answers(thread) /\ Answers(messages) /\ Slice(messages, prefill, thread)
        /\ prefill < Len(messages)
    BY <1>10 DEF IInv, Sound
  <2>2. Answers(AddResult(messages, id))
    BY <1>2, <1>4, <1>6, <2>1, AddResultAnswers DEF Typed
  <2>3. Slice(AddResult(messages, id), prefill, thread) /\ prefill < Len(AddResult(messages, id))
    BY <1>2, <1>4, <2>1, AddResultSlice DEF Typed
  <2> QED BY <1>1, <2>1, <2>2, <2>3
<1>11. TypeOK'
  <2>1. pc' \in States /\ step' \in 0..MaxSteps /\ outcome' \in Outcomes
    BY <1>2, <1>5 DEF States, Typed
  <2>2. attempt' \in 0..MaxRetries + 1
    BY <1>1, Constants
  <2> QED BY <1>1, <1>2, <1>4, <1>7, <2>1, <2>2, TypesNext DEF Typed
<1>12. Control'
  BY <1>1, <1>3, <1>4, <1>5 DEF Control
<1>13. KnownIds'
  BY <1>1, <1>6, <1>7 DEF KnownIds
<1>14. Balanced'
  BY <1>1, <1>4, <1>5, <1>7, <1>8, <1>9 DEF Balanced
<1>15. Stored' /\ Begun'
  BY <1>1, <1>5 DEF IInv, Stored, Begun, Running
<1>16. Complete'
  <2>1. ASSUME lost = {} PROVE Continues(said', thread, messages', prefill)
    <3>1. Continues(said, thread, messages, prefill) /\ prefill < Len(messages)
      BY <2>1 DEF IInv, Complete, Running, Sound
    <3>2. Continues(AddResult(said, id), thread, AddResult(messages, id), prefill)
      BY <1>2, <1>4, <3>1, AddResultContinues DEF Typed
    <3> QED BY <1>1, <3>2
  <2>2. pc' \in Running
    BY <1>5 DEF Running
  <2> QED BY <1>1, <2>1, <2>2 DEF Complete
<1>17. Sound'
  BY <1>1, <1>10 DEF Sound
<1>18. Seen'
  <2>1. pc' = "thinking" => step' # 1
    BY <1>5
  <2> QED BY <2>1 DEF Seen
<1> QED BY <1>11, <1>12, <1>13, <1>14, <1>15, <1>16, <1>17, <1>18 DEF IInv
-----------------------------------------------------------------------------
(* The end of a run.                                                       *)

LEMMA NewFacts ==
    ASSUME NEW ms \in Conversation, NEW p \in Nat
    PROVE  /\ Part(SubSeq(ms, p + 1, Len(ms)), ms, p)
           /\ Whole(SubSeq(ms, p + 1, Len(ms)), ms, p)
<1> DEFINE n == Len(ms)
           a == p + 1
           r == SubSeq(ms, a, n)
<1>1. n \in Nat /\ \A i \in a..n : ms[i] \in Messages
  BY Elements
<1>2. a \in Int /\ n \in Int /\ a = p + 1
  BY <1>1
<1> HIDE DEF a, n
<1>3. /\ r \in Seq(Messages) /\ Len(r) = IF a <= n THEN n - a + 1 ELSE 0
      /\ \A i \in 1..n - a + 1 : r[i] = ms[a + i - 1]
  BY <1>1, <1>2, SubSeqProperties
<1> HIDE DEF r
<1>4. Len(r) = IF p < n THEN n - p ELSE 0
  BY <1>1, <1>2, <1>3
<1>5. r # <<>> => Len(r) # 0
  BY <1>3, EmptySeq
<1>6. \A i \in 1..Len(r) : r[i] = ms[p + i]
  <2>1. \A i \in 1..Len(r) : i \in 1..n - a + 1 /\ a + i - 1 = p + i
    BY <1>1, <1>2, <1>4
  <2> QED BY <1>3, <2>1
<1>7. Part(r, ms, p) /\ Whole(r, ms, p)
  <2>1. n = Len(ms)
    BY DEF n
  <2>2. r # <<>> => p + Len(r) = Len(ms)
    BY <1>1, <1>4, <1>5, <2>1
  <2>3. p <= Len(ms) => Len(r) = Len(ms) - p
    BY <1>1, <1>4, <2>1
  <2>4. r # <<>> => p + Len(r) <= Len(ms)
    BY <1>1, <2>1, <2>2
  <2> QED BY <1>3, <1>6, <2>2, <2>3, <2>4 DEF Part, Whole, Conversation
<1> QED BY <1>7 DEF r, a, n

LEMMA PartPrefix ==
    ASSUME NEW ms \in Conversation, NEW p \in Nat, NEW r, Part(r, ms, p), NEW k \in 0..Len(r)
    PROVE  Part(SubSeq(r, 1, k), ms, p)
<1> DEFINE q == SubSeq(r, 1, k)
<1>1. /\ r \in Conversation /\ Len(r) \in Nat /\ \A i \in 1..Len(r) : r[i] = ms[p + i]
      /\ r # <<>> => p + Len(r) <= Len(ms)
      /\ Len(ms) \in Nat
  BY Elements DEF Part
<1>2. 1 \in Int /\ k \in Int /\ \A i \in 1..k : r[i] \in Messages
  BY <1>1, Elements
<1>3. /\ q \in Seq(Messages) /\ Len(q) = IF 1 <= k THEN k - 1 + 1 ELSE 0
      /\ \A i \in 1..k - 1 + 1 : q[i] = r[1 + i - 1]
  BY <1>2, SubSeqProperties
<1> HIDE DEF q
<1>4. Len(q) = k /\ \A i \in 1..k : q[i] = ms[p + i]
  BY <1>1, <1>2, <1>3
<1>5. q # <<>> => p + Len(q) <= Len(ms)
  <2>1. q # <<>> => r # <<>>
    BY <1>1, <1>3, <1>4, EmptySeq
  <2> QED BY <1>1, <1>4, <2>1
<1>6. Part(q, ms, p)
  BY <1>3, <1>4, <1>5 DEF Part, Conversation
<1> QED BY <1>6 DEF q

LEMMA NoRunNext ==
    ASSUME DropRun
    PROVE  /\ Plain(messages') /\ messages' = <<>> /\ prefill' = 0
           /\ step' = 0 /\ outcome' = "none" /\ attempt' = 0 /\ calls' \in Seq(Ids)
           /\ \A rows : Slice(messages', prefill', rows)
           /\ Answers(messages') /\ \A ids : Rows(messages', ids)
<1>1. /\ messages' = <<>> /\ prefill' = 0 /\ step' = 0 /\ outcome' = "none" /\ attempt' = 0
      /\ calls' = <<>>
  BY DEF DropRun
<1> DEFINE none == <<>>
<1>2. Plain(none) /\ 0 <= Len(none) /\ 0 \in Nat /\ messages' = none
  BY <1>1, PlainOnes
<1> HIDE DEF none
<1>3. Answers(none) /\ (\A rows : Slice(none, 0, rows)) /\ \A ids : Rows(none, ids)
  BY <1>2, PlainFacts
<1>4. calls' \in Seq(Ids)
  BY <1>1, EmptySeq
<1> QED BY <1>1, <1>2, <1>3, <1>4

\* A run whose messages r reached the thread.
LEMMA StoredRun ==
    ASSUME IInv, pc = "finishing", NEW r, Part(r, messages, prefill), thread' = thread \o r,
           torn' \in BOOLEAN, faults' \in 0..MaxFaults,
           status' \in {"active", "waiting_for_input", "closed"}, DropRun,
           pc' = IF outcome = "cancelled" THEN "stopped" ELSE "idle",
           \/ Whole(r, messages, prefill) /\ torn' = FALSE /\ lost' = lost
           \/ lost' = lost \cup {"write"},
           UNCHANGED <<mode, sent, commands, used, ignored, said>>
    PROVE  IInv'
<1>1. Typed
  BY Types DEF IInv
<1>2. /\ thread \in Conversation /\ messages \in Conversation /\ said \in Conversation
      /\ prefill \in Nat
  BY <1>1 DEF Typed
<1>3. /\ messages' = <<>> /\ Plain(messages') /\ prefill' = 0 /\ step' = 0
      /\ outcome' = "none" /\ attempt' = 0 /\ calls' \in Seq(Ids)
      /\ \A rows : Slice(messages', prefill', rows)
      /\ Answers(messages') /\ \A ids : Rows(messages', ids)
  BY NoRunNext
<1>4. pc' \in {"idle", "stopped"} /\ (pc' # "stopped" => outcome # "cancelled")
  OBVIOUS
<1>5. TypeOK'
  <2>1. thread' \in Conversation
    BY <1>2, JoinFacts
  <2>2. messages' \in Conversation
    BY <1>3 DEF Plain
  <2>3. /\ lost' \subseteq Losses /\ prefill' \in Nat /\ step' \in 0..MaxSteps
        /\ attempt' \in 0..MaxRetries + 1 /\ pc' \in States /\ outcome' \in Outcomes
    <3>1. lost' \subseteq Losses
      BY <1>1 DEF Typed, Losses
    <3>2. prefill' \in Nat /\ step' \in 0..MaxSteps /\ attempt' \in 0..MaxRetries + 1
      BY <1>3, Constants
    <3> QED BY <1>3, <1>4, <3>1, <3>2 DEF States, Outcomes
  <2> QED BY <1>1, <1>3, <2>1, <2>2, <2>3, TypesNext DEF Typed
<1>6. Control'
  BY <1>3, <1>4 DEF Control
<1>7. KnownIds'
  <2>1. Rows(thread \o r, 1..used)
    BY <1>2, JoinRows DEF IInv, KnownIds
  <2> QED BY <1>3, <2>1 DEF KnownIds
<1>8. Balanced'
  BY <1>4 DEF Balanced
<1>9. Stored'
  <2>1. ASSUME "write" \notin lost', "raise" \notin lost', pc' # "stopped"
        PROVE  Pending(thread \o r, Len(thread \o r)) \subseteq ignored
    <3>1. Whole(r, messages, prefill) /\ lost' = lost
      BY <2>1
    <3>2. Pending(thread, Len(thread)) \subseteq ignored
      BY <2>1, <3>1 DEF IInv, Stored
    <3>3. Pending(messages, Len(messages)) \subseteq ignored
      <4>1. outcome # "raised"
        BY <2>1, <3>1 DEF IInv, Control
      <4> QED BY <1>4, <2>1, <4>1 DEF IInv, Balanced
    <3>4. Pending(thread \o r, Len(thread \o r))
            \subseteq Pending(thread, Len(thread)) \cup Pending(messages, Len(messages))
      BY <1>2, <3>1, JoinPending
    <3> QED BY <3>2, <3>3, <3>4
  <2>2. pc' # "starting"
    BY <1>4
  <2> QED BY <2>1, <2>2 DEF Stored
<1>10. Complete'
  <2>1. ASSUME lost' = {} PROVE said = thread \o r
    <3>1. Whole(r, messages, prefill) /\ lost = {}
      BY <2>1
    <3>2. Continues(said, thread, messages, prefill)
      BY <3>1 DEF IInv, Complete, Running
    <3> QED BY <1>2, <3>1, <3>2, JoinContinues
  <2> QED BY <1>4, <2>1 DEF Complete, Running
<1>11. Sound'
  <2>1. ASSUME "compaction" \notin lost' PROVE Answers(thread \o r)
    <3>1. Answers(thread) /\ Answers(messages) /\ Slice(messages, prefill, thread)
      BY <2>1 DEF IInv, Sound
    <3> QED BY <1>2, <3>1, JoinAnswers
  <2> QED BY <1>3, <1>4, <2>1 DEF Sound
<1>12. Seen'
  BY <1>4 DEF Seen
<1>13. Begun'
  <2>1. ASSUME "write" \notin lost' PROVE thread # <<>> /\ thread[1].uses = {}
    BY <2>1 DEF IInv, Begun, Running
  <2>2. ASSUME "write" \notin lost' PROVE (thread \o r)[1] = thread[1]
    <3>1. Len(thread) # 0
      BY <1>2, <2>1, <2>2, EmptySeq DEF Conversation
    <3>2. Len(thread) \in Nat /\ \A i \in 1..Len(thread) : (thread \o r)[i] = thread[i]
      BY <1>2, JoinFacts
    <3> QED BY <3>1, <3>2
  <2> QED BY <1>4, <2>1, <2>2 DEF Begun, Running
<1> QED BY <1>5, <1>6, <1>7, <1>8, <1>9, <1>10, <1>11, <1>12, <1>13 DEF IInv

LEMMA FinishRunStep == ASSUME IInv, FinishRun PROVE IInv'
<1> DEFINE new == SubSeq(messages, prefill + 1, Len(messages))
<1>1. /\ pc = "finishing" /\ DropRun
      /\ pc' = IF outcome = "cancelled" THEN "stopped" ELSE "idle"
      /\ UNCHANGED <<mode, sent, commands, used, ignored, said>>
  BY DEF FinishRun
<1>2. /\ thread \in Conversation /\ messages \in Conversation /\ prefill \in Nat
      /\ status \in {"active", "waiting_for_input", "closed"} /\ faults \in 0..MaxFaults
      /\ torn \in BOOLEAN
  BY Types DEF IInv, Typed
<1>3. ~torn
  BY <1>1 DEF IInv, Control
<1>4. Part(new, messages, prefill) /\ Whole(new, messages, prefill)
  BY <1>2, NewFacts
<1>5. CASE /\ AppendAll(new)
           /\ lost' = IF torn /\ new # <<>> THEN lost \cup {"write"} ELSE lost
           /\ status' = IF outcome = "cancelled" THEN status
                        ELSE IF mode = "one_shot" THEN "closed" ELSE "waiting_for_input"
  <2> HIDE DEF new
  <2>1. thread' = thread \o new /\ torn' = FALSE /\ faults' = faults /\ lost' = lost
    BY <1>3, <1>5 DEF AppendAll, Readable
  <2>2. status' \in {"active", "waiting_for_input", "closed"}
    BY <1>2, <1>5
  <2> QED BY <1>1, <1>2, <1>4, <2>1, <2>2, StoredRun
<1>6. CASE AppendFails(new) /\ UNCHANGED status
  <2> HIDE DEF new
  <2>1. lost' = lost \cup {"write"} /\ faults' \in 0..MaxFaults
    BY <1>2, <1>6, Constants DEF AppendFails, Fault
  <2>2. PICK k \in 0..Len(new) - 1, tear \in BOOLEAN :
           /\ thread' = IF k = 0 THEN thread ELSE thread \o Readable(SubSeq(new, 1, k))
           /\ torn' = (tear \/ (torn /\ k = 0))
    BY <1>6 DEF AppendFails
  <2>3. torn' \in BOOLEAN
    BY <2>2
  <2>4. \E r : Part(r, messages, prefill) /\ thread' = thread \o r
    <3>1. CASE k = 0
      <4>1. thread \o <<>> = thread
        BY <1>2, ConcatEmptySeq DEF Conversation
      <4>2. Part(<<>>, messages, prefill)
        BY EmptySeq DEF Part, Conversation
      <4> QED BY <2>2, <3>1, <4>1, <4>2
    <3>2. CASE k # 0
      <4>1. thread' = thread \o SubSeq(new, 1, k)
        BY <1>3, <2>2, <3>2 DEF Readable
      <4>2. k \in 0..Len(new)
        <5>1. new \in Conversation
          BY <1>4 DEF Part
        <5>2. Len(new) \in Nat
          BY <5>1, Elements
        <5> QED BY <2>2, <5>2
      <4>3. Part(SubSeq(new, 1, k), messages, prefill)
        BY <1>2, <1>4, <4>2, PartPrefix
      <4> QED BY <4>1, <4>3
    <3> QED BY <3>1, <3>2
  <2>5. PICK r : Part(r, messages, prefill) /\ thread' = thread \o r
    BY <2>4
  <2>6. status' \in {"active", "waiting_for_input", "closed"}
    BY <1>2, <1>6
  <2> QED BY <1>1, <2>1, <2>3, <2>5, <2>6, StoredRun
<1> QED BY <1>5, <1>6 DEF FinishRun

LEMMA ShutdownStep == ASSUME IInv, Shutdown PROVE IInv'
<1>1. UNCHANGED <<mode, status, thread, torn, sent, commands, faults, used, ignored,
                  said>>
  BY DEF Shutdown
<1>2. Typed
  BY Types DEF IInv
<1>3. CASE /\ pc \in {"thinking", "acting", "compacting"} /\ EndRun("cancelled")
           /\ calls' = <<>> /\ attempt' = 0 /\ UNCHANGED <<messages, prefill, lost>>
  <2>1. pc' = "finishing" /\ outcome' = "cancelled" /\ step' = step
    BY <1>3 DEF EndRun
  <2>2. calls' \in Seq(Ids) /\ attempt' \in 0..MaxRetries + 1
    BY <1>3, Constants, EmptySeq
  <2>3. TypeOK'
    BY <1>1, <1>2, <1>3, <2>1, <2>2, TypesNext DEF States, Outcomes, Typed
  <2>4. Control' /\ Balanced' /\ Seen'
    BY <1>1, <1>3, <2>1 DEF IInv, Control, Balanced, Seen
  <2>5. KnownIds' /\ Sound'
    BY <1>1, <1>3, <2>1 DEF IInv, KnownIds, Sound
  <2>6. Stored' /\ Begun' /\ Complete'
    BY <1>1, <1>3, <2>1 DEF IInv, Stored, Begun, Complete, Running
  <2> QED BY <2>3, <2>4, <2>5, <2>6 DEF IInv
<1>4. CASE /\ pc = "finishing" /\ pc' = "stopped" /\ lost' = lost \cup {"cancel"} /\ DropRun
  <2>1. /\ messages' = <<>> /\ Plain(messages') /\ prefill' = 0 /\ step' = 0
        /\ outcome' = "none" /\ attempt' = 0 /\ calls' \in Seq(Ids)
        /\ \A rows : Slice(messages', prefill', rows)
        /\ Answers(messages') /\ \A ids : Rows(messages', ids)
    BY <1>4, NoRunNext
  <2>2. TypeOK'
    <3>1. /\ lost' \subseteq Losses /\ prefill' \in Nat /\ step' \in 0..MaxSteps
          /\ attempt' \in 0..MaxRetries + 1 /\ pc' \in States /\ outcome' \in Outcomes
          /\ messages' \in Conversation
      BY <1>2, <1>4, <2>1, Constants DEF Typed, Losses, States, Outcomes, Plain
    <3> QED BY <1>1, <1>2, <2>1, <3>1, TypesNext DEF Typed
  <2>3. Control' /\ Balanced' /\ Seen'
    BY <1>1, <1>4, <2>1 DEF IInv, Control, Balanced, Seen
  <2>4. KnownIds' /\ Sound'
    BY <1>1, <1>4, <2>1 DEF IInv, KnownIds, Sound
  <2>5. Stored' /\ Begun' /\ Complete'
    BY <1>1, <1>4 DEF IInv, Stored, Begun, Running, Complete
  <2> QED BY <2>2, <2>3, <2>4, <2>5 DEF IInv
<1>5. CASE /\ pc \in {"idle", "starting", "condensing"} /\ pc' = "stopped"
           /\ UNCHANGED <<messages, prefill, step, outcome, calls, attempt, lost>>
  <2>1. TypeOK'
    BY <1>1, <1>2, <1>5, TypesNext DEF States, Typed
  <2>2. Control' /\ Balanced' /\ Seen'
    BY <1>1, <1>5 DEF IInv, Control, Balanced, Seen
  <2>3. KnownIds' /\ Sound'
    BY <1>1, <1>5 DEF IInv, KnownIds, Sound
  <2>4. Stored' /\ Begun' /\ Complete'
    BY <1>1, <1>5 DEF IInv, Stored, Begun, Complete, Running
  <2> QED BY <2>1, <2>2, <2>3, <2>4 DEF IInv
<1> QED BY <1>3, <1>4, <1>5 DEF Shutdown, run
-----------------------------------------------------------------------------
(* The invariant is inductive.                                             *)

LEMMA InitHolds == ASSUME Init PROVE IInv
<1> DEFINE none == <<>>
<1>1. /\ mode \in {"chat", "one_shot"} /\ status = "active" /\ pc = "idle" /\ thread = none
      /\ torn = FALSE /\ sent = 0 /\ commands = 0 /\ faults = 0 /\ used = 0 /\ messages = none
      /\ prefill = 0 /\ step = 0 /\ outcome = "none" /\ calls = <<>> /\ attempt = 0
      /\ said = none /\ lost = {} /\ ignored = {}
  BY DEF Init, NoRun
<1>2. Plain(none) /\ 0 <= Len(none) /\ 0 \in Nat
  BY PlainOnes
<1>3. calls \in Seq(Ids)
  BY <1>1, EmptySeq
<1> HIDE DEF none
<1>4. /\ none \in Conversation /\ Answers(none) /\ Pending(none, Len(none)) = {}
      /\ Slice(none, 0, none) /\ \A ids : Rows(none, ids)
  BY <1>2, PlainFacts
<1>5. TypeOK
  <2>1. Typed
    <3>1. /\ sent \in 0..MaxMessages /\ commands \in 0..MaxCommands /\ faults \in 0..MaxFaults
          /\ prefill \in Nat /\ step \in 0..MaxSteps /\ attempt \in 0..MaxRetries + 1
          /\ used \in Nat /\ ignored \subseteq Ids
      BY <1>1, Constants
    <3>2. thread \in Conversation /\ messages \in Conversation /\ said \in Conversation
      BY <1>1, <1>4
    <3>3. /\ mode \in {"chat", "one_shot"} /\ status \in {"active", "waiting_for_input", "closed"}
          /\ pc \in States /\ outcome \in Outcomes /\ lost \subseteq Losses /\ torn \in BOOLEAN
      BY <1>1 DEF States, Outcomes
    <3> QED BY <1>3, <3>1, <3>2, <3>3 DEF Typed
  <2> QED BY <2>1 DEF TypeOK, Typed, States, Outcomes, Losses, Conversation
<1>6. Control /\ Balanced /\ Seen
  BY <1>1 DEF Control, Balanced, Seen
<1>7. KnownIds /\ Stored /\ Complete /\ Sound
  BY <1>1, <1>4 DEF KnownIds, Stored, Complete, Running, Sound
<1>8. Begun
  BY <1>1 DEF Begun, Running, none
<1> QED BY <1>5, <1>6, <1>7, <1>8 DEF IInv

LEMMA StutterHolds == ASSUME IInv, UNCHANGED vars PROVE IInv'
<1>1. UNCHANGED <<mode, status, pc, thread, torn, sent, commands, faults, messages,
                  prefill, step, outcome, calls, attempt, used, ignored, said, lost>>
  BY DEF vars, run
<1>2. TypeOK'
  BY <1>1, Types, TypesNext DEF IInv, Typed
<1>3. Control' /\ Seen' /\ Stored' /\ Begun'
  BY <1>1 DEF IInv, Control, Seen, NoneIgnored, Stored, Begun, Running
<1>4. KnownIds' /\ Sound' /\ Complete'
  BY <1>1 DEF IInv, KnownIds, Sound, Complete
<1>5. Balanced'
  BY <1>1 DEF IInv, Balanced, InCalls
<1> QED BY <1>2, <1>3, <1>4, <1>5 DEF IInv

LEMMA HolderStep == ASSUME IInv, Holder PROVE IInv'
<1>1. CASE StartRun BY <1>1, StartRunStep
<1>2. CASE StartFails BY <1>2, StartFailsStep
<1>3. CASE Condense BY <1>3, CondenseStep
<1>4. ASSUME NEW stop \in StopReasons, NEW n \in 0..MaxBatch, Respond(stop, n) PROVE IInv'
  BY <1>4, RespondStep
<1>5. CASE ChatFails BY <1>5, ChatFailsStep
<1>6. CASE CompactContext BY <1>6, CompactContextStep
<1>7. CASE Reject
  BY <1>7, AnswerStep DEF Reject
<1>8. CASE Permit BY <1>8, PermitStep
<1>9. CASE Return
  BY <1>9, AnswerStep DEF Return
<1>10. CASE Retry BY <1>10, RetryStep
<1>11. CASE InvokeRaises BY <1>11, InvokeRaisesStep
<1>12. CASE FinishRun BY <1>12, FinishRunStep
<1> QED BY <1>1, <1>2, <1>3, <1>4, <1>5, <1>6, <1>7, <1>8, <1>9, <1>10, <1>11, <1>12 DEF Holder

LEMMA StepHolds == ASSUME IInv, [Next]_vars PROVE IInv'
<1>1. CASE SendMessage BY <1>1, SendMessageStep
<1>2. CASE Close BY <1>2, CloseStep
<1>3. CASE Compact BY <1>3, CompactStep
<1>4. CASE Shutdown BY <1>4, ShutdownStep
<1>5. CASE Holder BY <1>5, HolderStep
<1>6. CASE UNCHANGED vars BY <1>6, StutterHolds
<1> QED BY <1>1, <1>2, <1>3, <1>4, <1>5, <1>6 DEF Next

LEMMA Inductive == Spec => []IInv
<1>1. Init => IInv
  BY InitHolds
<1>2. IInv /\ [Next]_vars => IInv'
  BY StepHolds
<1> QED BY <1>1, <1>2, PTL DEF Spec
-----------------------------------------------------------------------------
(* What it says of a session.                                              *)

\* The session keeps its types: the thread, the context and the conversation are
\* sequences of messages, and no run takes more than agent.max_steps steps.
THEOREM TypeCorrect == Spec => []TypeOK
<1>1. IInv => TypeOK
  BY DEF IInv
<1> QED BY <1>1, Inductive, PTL

\* Between runs the thread is the conversation as it took place, row for row,
\* unless a write failed, a run compacted its context, or the shutdown met the
\* publication of run.finished.
THEOREM ThreadIsComplete == Spec => []ThreadComplete
<1>1. IInv => ThreadComplete
  BY DEF IInv, Complete, Running, ThreadComplete
<1> QED BY <1>1, Inductive, PTL

LEMMA AnsweredNext ==
    ASSUME NEW ms \in Conversation, ms # <<>>, Answers(ms), Pending(ms, Len(ms)) = {}
    PROVE  Legal(ms)
<1>1. DOMAIN ms = 1..Len(ms) /\ Len(ms) \in Nat
  BY Elements
<1>2. \A u : ~Unanswered(u, ms, Len(ms))
  BY PendingIsUnanswered
<1>3. ASSUME NEW i \in DOMAIN ms, NEW u \in ms[i].uses
      PROVE  i < Len(ms) /\ u \in ms[i + 1].results
  <2>1. PICK k \in i + 1..Len(ms) : u \in ms[k].results
    BY <1>1, <1>2, <1>3 DEF Unanswered
  <2>2. k \in DOMAIN ms /\ k - 1 \in DOMAIN ms /\ i < Len(ms)
    BY <1>1, <1>3, <2>1
  <2>3. u \in ms[k - 1].uses
    BY <2>1, <2>2 DEF Answers
  <2>4. k - 1 = i
    BY <1>3, <2>2, <2>3 DEF Answers
  <2>5. k = i + 1
    BY <1>1, <2>1, <2>2, <2>4
  <2> QED BY <2>1, <2>2, <2>5
<1> QED BY <1>3 DEF Answers, Legal

\* Every request the loop sends answers each tool call in the message after it, and
\* answers nothing else, while no run has compacted its context and the request holds
\* no call that came with a stop reason nobody acts on: whatever was refused, retried,
\* cut off or cancelled before, in this run and in earlier ones.
THEOREM RequestsAreLegal == Spec => []LegalUnlessCompacted
<1>1. ASSUME IInv, "compaction" \notin lost, pc = "thinking", NoneIgnored(messages)
      PROVE  Legal(messages)
  <2>1. messages \in Conversation
    BY <1>1, Types DEF IInv, Typed
  <2>2. /\ messages # <<>> /\ Pending(messages, Len(messages)) \subseteq ignored
        /\ Answers(messages)
    BY <1>1 DEF IInv, Balanced, Sound
  <2>3. Pending(messages, Len(messages)) = {}
    BY <1>1, <2>1, <2>2, AllAnswered
  <2> QED BY <2>1, <2>2, <2>3, AnsweredNext
<1>2. IInv => LegalUnlessCompacted
  BY <1>1 DEF LegalUnlessCompacted, RequestLegal
<1> QED BY <1>2, Inductive, PTL

\* The first request of a run ends with the message that started it, unless a
\* failed write or an exception out of a tool call came before, or the thread holds
\* a call that came with a stop reason nobody acts on.
THEOREM NewestIsSeen == Spec => []SeenUnlessFailed
<1>1. IInv => SeenUnlessFailed
  BY DEF IInv, Seen, SeenUnlessFailed, NewestMessageSeen
<1> QED BY <1>1, Inductive, PTL

\* A run that neither an exception nor a cancellation ended leaves no tool call
\* without its result, but those that came with a stop reason nobody acts on.
THEOREM RunsEndBalanced == Spec => []RunEndsBalanced
<1>1. IInv => RunEndsBalanced
  BY DEF IInv, Balanced, RunEndsBalanced
<1> QED BY <1>1, Inductive, PTL

\* A closed session stays closed: no run is under way that could reopen it.
THEOREM ClosedStaysClosed == Spec => ClosedIsFinal
<1>1. ASSUME IInv, [Next]_vars, status = "closed" PROVE status' = "closed"
  <2>1. pc \in {"idle", "condensing", "stopped"}
    BY <1>1 DEF IInv, Control
  <2>2. CASE SendMessage \/ Close \/ Compact \/ Shutdown
    BY <1>1, <2>2 DEF SendMessage, Close, Compact, Shutdown
  <2>3. CASE Holder
    <3>1. Holder => status' = status
      BY <2>1 DEF Holder, StartRun, StartFails, Condense, Respond, ChatFails, CompactContext,
                  Reject, Permit, Return, Retry, InvokeRaises, FinishRun
    <3> QED BY <1>1, <2>3, <3>1
  <2>4. CASE UNCHANGED vars
    BY <1>1, <2>4 DEF vars
  <2> QED BY <1>1, <2>2, <2>3, <2>4 DEF Next
<1>2. IInv /\ [Next]_vars => [status = "closed" => status' = "closed"]_vars
  BY <1>1
<1> QED BY <1>2, Inductive, PTL DEF Spec, ClosedIsFinal
-----------------------------------------------------------------------------
(* The session implements Transcript.                                      *)

LEMMA GrowsJoin ==
    ASSUME NEW s \in Conversation, NEW t \in Conversation
    PROVE  Record!Grows(s, s \o t)
<1>1. Len(s) \in Nat /\ Len(t) \in Nat
  BY Elements
<1>2. /\ Len(s \o t) = Len(s) + Len(t)
      /\ \A i \in 1..Len(s) + Len(t) :
            (s \o t)[i] = IF i <= Len(s) THEN s[i] ELSE t[i - Len(s)]
  BY ConcatProperties DEF Conversation
<1> QED BY <1>1, <1>2 DEF Record!Grows

LEMMA GrowsItself == ASSUME NEW s \in Conversation PROVE Record!Grows(s, s)
BY Elements DEF Record!Grows

LEMMA GrowsButLast ==
    ASSUME NEW s \in Conversation, NEW t, Record!Grows(s, t)
    PROVE  Record!GrowsLast(s, t)
BY Elements DEF Record!Grows, Record!GrowsLast

LEMMA ContinuesGrows ==
    ASSUME NEW s \in Conversation, NEW rows \in Conversation, NEW ms \in Conversation,
           NEW p \in Nat, Continues(s, rows, ms, p)
    PROVE  Record!Grows(rows, s)
BY Elements DEF Continues, Record!Grows

\* A result changes no message that another one follows.
LEMMA AddResultGrows ==
    ASSUME NEW s \in Conversation, NEW id \in Ids
    PROVE  Record!GrowsLast(s, AddResult(s, id))
<1>1. CASE Amends(s)
  <2>1. /\ Len(AddResult(s, id)) = Len(s) /\ Len(s) \in Nat
        /\ \A i \in 1..Len(s) : i # Len(s) => AddResult(s, id)[i] = s[i]
    BY <1>1, AmendLast
  <2> QED BY <2>1 DEF Record!GrowsLast
<1>2. CASE ~Amends(s)
  <2>1. AddResult(s, id) = Append(s, Results({id})) /\ Results({id}) \in Messages
    BY <1>2, ResultsFacts DEF AddResult, Amends
  <2>2. /\ Len(AddResult(s, id)) = Len(s) + 1 /\ Len(s) \in Nat
        /\ \A i \in 1..Len(s) : AddResult(s, id)[i] = s[i]
    BY <2>1, AppendMessage
  <2> QED BY <2>2 DEF Record!GrowsLast
<1> QED BY <1>1, <1>2

\* What is written to the file adds to its rows.
LEMMA ReadableRows ==
    ASSUME NEW rows \in Conversation, rows # <<>>
    PROVE  Readable(rows) \in Conversation
BY HeadTailProperties DEF Readable, Conversation

LEMMA WritesGrow ==
    ASSUME thread \in Conversation, NEW rows \in Conversation,
           AppendAll(rows) \/ AppendFails(rows)
    PROVE  Record!Grows(thread, thread')
<1>1. CASE AppendAll(rows)
  <2>1. PICK more \in Conversation : thread' = thread \o more
    BY <1>1, ReadableRows DEF AppendAll
  <2> QED BY <2>1, GrowsJoin
<1>2. CASE AppendFails(rows)
  <2>1. PICK k \in 0..Len(rows) - 1 :
            thread' = IF k = 0 THEN thread ELSE thread \o Readable(SubSeq(rows, 1, k))
    BY <1>2 DEF AppendFails
  <2>2. CASE k = 0
    BY <2>1, <2>2, GrowsItself
  <2>3. CASE k # 0
    <3>1. 1 \in Int /\ k \in Int /\ 1 <= k /\ \A i \in 1..k : rows[i] \in Messages
      BY <2>1, <2>3, Elements
    <3>2. SubSeq(rows, 1, k) \in Seq(Messages) /\ Len(SubSeq(rows, 1, k)) = k - 1 + 1
      BY <3>1, SubSeqProperties
    <3>3. SubSeq(rows, 1, k) # <<>>
      BY <3>1, <3>2, EmptySeq
    <3>4. Readable(SubSeq(rows, 1, k)) \in Conversation
      BY <3>2, <3>3, ReadableRows DEF Conversation
    <3> QED BY <2>1, <2>3, <3>4, GrowsJoin
  <2> QED BY <2>2, <2>3
<1> QED BY <1>1, <1>2

\* Unless something was lost, what is kept is part of what is said, and all of it
\* when no run is under way.
LEMMA KeptOfSaid ==
    ASSUME IInv', lost' = {}
    PROVE  /\ Record!Grows(thread', said')
           /\ pc' \notin Running => thread' = said'
<1>1. /\ thread' \in Conversation /\ said' \in Conversation /\ messages' \in Conversation
      /\ prefill' \in Nat /\ Complete'
  BY DEF IInv, TypeOK, Conversation
<1>2. CASE pc' \in Running
  <2>1. Continues(said', thread', messages', prefill')
    BY <1>1, <1>2 DEF Complete, Running
  <2> QED BY <1>1, <1>2, <2>1, ContinuesGrows
<1>3. CASE pc' \notin Running
  <2>1. said' = thread'
    BY <1>1, <1>3 DEF Complete, Running
  <2> QED BY <1>1, <2>1, GrowsItself
<1> QED BY <1>2, <1>3

\* The steps of a run, and the ends of a command.
LEMMA GoMaps ==
    ASSUME IInv', pc \notin {"idle", "stopped"}, pc' \notin {"idle", "stopped"},
           thread' = thread, status' = status, lost \subseteq lost',
           Record!GrowsLast(said, said')
    PROVE  Record!Next
<1>1. lost' # {} \/ Record!Grows(thread, said')
  BY KeptOfSaid
<1>2. Record!Go
  BY <1>1 DEF Record!Go
<1> QED BY <1>2 DEF Record!Next

LEMMA EndMaps ==
    ASSUME IInv', pc \notin {"idle", "stopped"}, pc' \in {"idle", "stopped"},
           Record!Grows(thread, thread'), said' = said, lost \subseteq lost',
           status = "closed" => status' = "closed"
    PROVE  Record!Next
<1>1. lost' # {} \/ thread' = said
  BY KeptOfSaid DEF Running
<1>2. Record!End
  BY <1>1 DEF Record!End
<1> QED BY <1>2 DEF Record!Next

LEMMA SendMessageMaps == ASSUME IInv, IInv', SendMessage PROVE Record!Next
<1>1. thread \in Conversation /\ said \in Conversation /\ User(sent') \in Messages
  BY MessageTypes DEF IInv, TypeOK, Conversation, SendMessage
<1>2. /\ pc = "idle" /\ status # "closed" /\ status' = status
      /\ said' = Append(said, User(sent')) /\ lost \subseteq lost'
      /\ AppendAll(<<User(sent')>>) \/ AppendFails(<<User(sent')>>)
      /\ pc' = "starting" \/ (pc' = "idle" /\ lost' # {})
  BY DEF SendMessage, AppendFails
<1>3. <<User(sent')>> \in Conversation
  BY <1>1 DEF Conversation
<1>4. Record!Grows(thread, thread')
  BY <1>1, <1>2, <1>3, WritesGrow
<1>5. Record!Grows(said, said') /\ Len(said') = Len(said) + 1
  BY <1>1, <1>2, AppendMessage DEF Record!Grows
<1>6. lost' # {} \/ thread' = said'
  BY <1>2, KeptOfSaid DEF Running
<1>7. Record!Say
  BY <1>2, <1>4, <1>5, <1>6 DEF Record!Say
<1> QED BY <1>2, <1>7 DEF Record!Next

LEMMA CondenseMaps == ASSUME IInv, IInv', Condense PROVE Record!Next
<1>1. /\ pc = "condensing" /\ pc' = "idle" /\ status' = status /\ lost \subseteq lost'
      /\ thread \in Conversation
  BY DEF Condense, IInv, TypeOK, Conversation
<1>2. CASE UNCHANGED <<thread, torn, faults, said, lost>>
  BY <1>1, <1>2, EndMaps, GrowsItself
<1>3. CASE said' = <<Summary, Ack>> /\ thread' \in {<<>>, <<Summary>>, <<Summary, Ack>>}
  <2>1. Record!Grows(thread', <<Summary, Ack>>)
    <3>1. Record!Grows(<<>>, <<Summary, Ack>>)
      BY DEF Record!Grows
    <3>2. Record!Grows(<<Summary>>, <<Summary, Ack>>)
      BY DEF Record!Grows
    <3>3. Record!Grows(<<Summary, Ack>>, <<Summary, Ack>>)
      BY DEF Record!Grows
    <3> QED BY <1>3, <3>1, <3>2, <3>3
  <2>2. lost' # {} \/ thread' = <<Summary, Ack>>
    BY <1>1, <1>3, KeptOfSaid DEF Running
  <2>3. Record!Condense
    BY <1>1, <1>3, <2>1, <2>2 DEF Record!Condense
  <2> QED BY <1>1, <2>3 DEF Record!Next
<1> QED BY <1>2, <1>3 DEF Condense

LEMMA AnswerMaps ==
    ASSUME IInv, IInv', pc = "acting", Answer, UNCHANGED <<status, thread, lost>>
    PROVE  Record!Next
<1>1. said \in Conversation /\ calls # <<>> /\ calls \in Seq(Ids)
  BY DEF IInv, TypeOK, Control, Conversation
<1>2. Head(calls) \in Ids
  BY <1>1, HeadTailProperties
<1>3. Record!GrowsLast(said, said')
  BY <1>1, <1>2, AddResultGrows DEF Answer
<1>4. pc' \in {"acting", "thinking", "finishing", "compacting"}
  BY DEF Answer, EndToolStep, EndStep, NextStep, EndRun
<1> QED BY <1>3, <1>4, GoMaps

LEMMA RespondMaps ==
    ASSUME IInv, IInv', NEW stop, NEW n \in Nat, Respond(stop, n)
    PROVE  Record!Next
<1> DEFINE ids == used + 1..used + n
           new == IF stop = "max_tokens" /\ n > 0
                  THEN <<Reply(ids), Results(ids)>> ELSE <<Reply(ids)>>
<1>1. /\ pc = "thinking" /\ said' = said \o new
      /\ UNCHANGED <<status, thread, lost>>
  BY DEF Respond
<1>2. pc' \in {"acting", "finishing", "thinking"}
  BY DEF Respond, EndStep, NextStep, EndRun
<1>3. said \in Conversation /\ ids \in SUBSET Ids
  BY DEF IInv, TypeOK, Conversation, Ids
<1> HIDE DEF ids
<1>4. new \in Conversation
  BY <1>3, MessageTypes DEF Conversation
<1>5. Record!GrowsLast(said, said')
  BY <1>1, <1>3, <1>4, GrowsJoin, GrowsButLast
<1> QED BY <1>1, <1>2, <1>5, GoMaps

LEMMA FinishRunMaps == ASSUME IInv, IInv', FinishRun PROVE Record!Next
<1> DEFINE new == SubSeq(messages, prefill + 1, Len(messages))
<1>1. /\ pc = "finishing" /\ pc' \in {"idle", "stopped"} /\ said' = said
      /\ lost \subseteq lost' /\ (AppendAll(new) \/ AppendFails(new))
  BY DEF FinishRun, AppendFails
<1>2. status # "closed"
  BY <1>1 DEF IInv, Control
<1>3. thread \in Conversation /\ messages \in Conversation /\ prefill \in Nat
  BY DEF IInv, TypeOK, Conversation
<1>4. new \in Conversation
  BY <1>3, NewFacts DEF Part
<1> HIDE DEF new
<1>5. Record!Grows(thread, thread')
  BY <1>1, <1>3, <1>4, WritesGrow
<1> QED BY <1>1, <1>2, <1>5, EndMaps

LEMMA ShutdownMaps == ASSUME IInv, IInv', Shutdown PROVE Record!Next
<1>1. UNCHANGED <<status, thread, said>> /\ thread \in Conversation /\ said \in Conversation
  BY DEF Shutdown, IInv, TypeOK, Conversation
<1>2. CASE pc \in {"thinking", "acting", "compacting"} /\ pc' = "finishing" /\ lost' = lost
  BY <1>1, <1>2, GoMaps, GrowsItself, GrowsButLast
<1>3. CASE /\ pc \in {"finishing", "starting", "condensing"} /\ pc' = "stopped"
           /\ lost \subseteq lost'
  BY <1>1, <1>3, EndMaps, GrowsItself
<1>4. CASE pc = "idle" /\ pc' = "stopped" /\ lost' = lost
  <2>1. Record!Stop
    BY <1>1, <1>4 DEF Record!Stop
  <2> QED BY <1>4, <2>1 DEF Record!Next
<1> QED BY <1>2, <1>3, <1>4 DEF Shutdown, EndRun, run

LEMMA HolderMaps == ASSUME IInv, IInv', Holder PROVE Record!Next
<1>1. thread \in Conversation /\ said \in Conversation
  BY DEF IInv, TypeOK, Conversation
<1>2. Record!GrowsLast(said, said) /\ Record!Grows(thread, thread)
  BY <1>1, GrowsItself, GrowsButLast
<1>3. CASE StartRun
  BY <1>2, <1>3, GoMaps DEF StartRun
<1>4. CASE StartFails
  BY <1>2, <1>4, EndMaps DEF StartFails
<1>5. CASE Condense
  BY <1>5, CondenseMaps
<1>6. ASSUME NEW stop \in StopReasons, NEW n \in 0..MaxBatch, Respond(stop, n)
      PROVE  Record!Next
  <2>1. n \in Nat
    BY Constants
  <2> QED BY <1>6, <2>1, RespondMaps
<1>7. CASE ChatFails
  BY <1>2, <1>7, GoMaps DEF ChatFails, EndRun
<1>8. CASE CompactContext
  BY <1>2, <1>8, GoMaps DEF CompactContext, NextStep
<1>9. CASE Reject \/ Return
  BY <1>9, AnswerMaps DEF Reject, Return
<1>10. CASE Permit \/ Retry
  BY <1>2, <1>10, GoMaps DEF Permit, Retry
<1>11. CASE InvokeRaises
  BY <1>2, <1>11, GoMaps DEF InvokeRaises, EndRun
<1>12. CASE FinishRun
  BY <1>12, FinishRunMaps
<1> QED BY <1>3, <1>4, <1>5, <1>6, <1>7, <1>8, <1>9, <1>10, <1>11, <1>12 DEF Holder

LEMMA StepMaps == ASSUME IInv, IInv', [Next]_vars PROVE [Record!Next]_(Record!vars)
<1>1. CASE SendMessage
  BY <1>1, SendMessageMaps
<1>2. CASE Close
  <2>1. Record!Close
    BY <1>2 DEF Close, Record!Close
  <2>2. lost' = lost
    BY <1>2 DEF Close
  <2> QED BY <2>1, <2>2 DEF Record!Next
<1>3. CASE Compact
  <2>1. Record!Reserve
    BY <1>3 DEF Compact, Record!Reserve
  <2>2. lost' = lost
    BY <1>3 DEF Compact
  <2> QED BY <2>1, <2>2 DEF Record!Next
<1>4. CASE Shutdown
  BY <1>4, ShutdownMaps
<1>5. CASE Holder
  BY <1>5, HolderMaps
<1>6. CASE UNCHANGED vars
  BY <1>6 DEF vars, Record!vars
<1> QED BY <1>1, <1>2, <1>3, <1>4, <1>5, <1>6 DEF Next

\* The session implements Transcript: whatever tools, retries, compactions, failed
\* writes and cancellations do, only session.compact takes rows of the thread away,
\* a run in progress stores nothing, and a command ends with all that was said in
\* the file, unless one of the things in lost has happened.
THEOREM SessionKeepsTranscript == Spec => KeepsTranscript
<1>1. Init => Record!Init
  BY DEF Init, NoRun, Record!Init
<1>2. IInv /\ IInv' /\ [Next]_vars => [Record!Next]_(Record!vars)
  BY StepMaps
<1> QED BY <1>1, <1>2, Inductive, PTL DEF Spec, KeepsTranscript, Record!Spec
=============================================================================
