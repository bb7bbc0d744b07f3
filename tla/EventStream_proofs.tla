-------------------------- MODULE EventStream_proofs --------------------------
(***************************************************************************)
(* Theorems about EventStream, for any number of runs, events and clients, *)
(* whatever they subscribe to and whichever of them break off or stop      *)
(* reading.                                                                *)
(*                                                                         *)
(* Kept is defined by recursion over a sequence, so its lemmas need        *)
(* induction.  The theorems of the library that give it have a formula for *)
(* a parameter, which the provers cannot instantiate; its theorem that < is *)
(* well founded on the naturals has none, and gives induction for a set.   *)
(***************************************************************************)
EXTENDS EventStream, SequenceTheorems, WellFoundedInduction, TLAPS

LEMMA NatSetInduction ==
    ASSUME NEW G, 0 \in G, \A n \in Nat : n \in G => n + 1 \in G
    PROVE  Nat \subseteq G
<1> DEFINE R == {p \in Nat \X Nat : p[1] < p[2]}
           B == Nat \ G
<1>1. SUFFICES ASSUME B # {} PROVE FALSE
  OBVIOUS
<1>2. IsWellFoundedOn(R, Nat)
  BY NatLessThanWellFounded DEF OpToRel
<1>3. PICK x \in B : \A y \in B : ~(<<y, x>> \in R)
  <2> HIDE DEF R
  <2>1. B \subseteq Nat
    OBVIOUS
  <2> HIDE DEF B
  <2>2. QED
    BY <1>1, <1>2, <2>1, WFMin
<1>4. x \in Nat /\ x # 0 /\ x - 1 \in Nat /\ x - 1 < x
  OBVIOUS
<1>5. x - 1 \in G
  BY <1>3, <1>4
<1>6. QED
  BY <1>4, <1>5
-----------------------------------------------------------------------------
(* Kept.                                                                   *)

\* The function in the definition of Kept, for the first N members of s.
KeptUpTo(g, s, S, N) ==
    g = [n \in 0..N |-> IF n = 0 THEN <<>>
                        ELSE IF s[n] \in S THEN Append(g[n - 1], s[n]) ELSE g[n - 1]]

LEMMA KeptExists ==
    ASSUME NEW s, NEW S
    PROVE  \A N \in Nat : \E g : KeptUpTo(g, s, S, N)
<1> DEFINE G == {N \in Nat : \E g : KeptUpTo(g, s, S, N)}
<1>1. 0 \in G
  <2>1. KeptUpTo([n \in 0..0 |-> <<>>], s, S, 0)
    BY DEF KeptUpTo
  <2>2. QED
    BY <2>1
<1>2. ASSUME NEW N \in Nat, N \in G PROVE N + 1 \in G
  <2>1. PICK g : KeptUpTo(g, s, S, N)
    BY <1>2
  <2> DEFINE last == IF s[N + 1] \in S THEN Append(g[N], s[N + 1]) ELSE g[N]
             h == [n \in 0..N + 1 |-> IF n = N + 1 THEN last ELSE g[n]]
  <2> HIDE DEF last
  <2>2. (\A n \in 0..N : h[n] = g[n]) /\ h[N + 1] = last
    OBVIOUS
  <2>3. h = [n \in 0..N + 1 |-> h[n]]
    OBVIOUS
  <2> HIDE DEF h
  <2>4. ASSUME NEW n \in 0..N + 1
        PROVE  h[n] = IF n = 0 THEN <<>>
                      ELSE IF s[n] \in S THEN Append(h[n - 1], s[n]) ELSE h[n - 1]
    <3>1. CASE n = N + 1
      BY <2>2, <3>1 DEF last
    <3>2. CASE n \in 0..N
      <4>1. g[n] = IF n = 0 THEN <<>>
                   ELSE IF s[n] \in S THEN Append(g[n - 1], s[n]) ELSE g[n - 1]
        BY <2>1, <3>2 DEF KeptUpTo
      <4>2. n = 0 \/ n - 1 \in 0..N
        BY <3>2
      <4>3. QED
        BY <2>2, <3>2, <4>1, <4>2
    <3>3. QED
      BY <3>1, <3>2
  <2>5. KeptUpTo(h, s, S, N + 1)
    BY <2>3, <2>4 DEF KeptUpTo
  <2>6. QED
    BY <2>5
<1>3. Nat \subseteq G
  <2> HIDE DEF G
  <2> QED
    BY <1>1, <1>2, NatSetInduction
<1>4. QED
  BY <1>3

\* g is the function of the definition of Kept(s, S).
Unfolds(g, s, S) ==
    /\ Kept(s, S) = g[Len(s)]
    /\ g[0] = <<>>
    /\ \A n \in 1..Len(s) :
          g[n] = IF s[n] \in S THEN Append(g[n - 1], s[n]) ELSE g[n - 1]

LEMMA KeptIs ==
    ASSUME NEW s, NEW S, Len(s) \in Nat
    PROVE  \E g : Unfolds(g, s, S)
<1> DEFINE g == CHOOSE f : KeptUpTo(f, s, S, Len(s))
<1>1. KeptUpTo(g, s, S, Len(s))
  BY KeptExists
<1>2. Kept(s, S) = g[Len(s)]
  BY DEF Kept, KeptUpTo
<1> HIDE DEF g
<1>3. \A n \in 0..Len(s) :
          g[n] = IF n = 0 THEN <<>>
                 ELSE IF s[n] \in S THEN Append(g[n - 1], s[n]) ELSE g[n - 1]
  BY <1>1 DEF KeptUpTo
<1>4. 0 \in 0..Len(s) /\ \A n \in 1..Len(s) : n \in 0..Len(s) /\ n # 0
  OBVIOUS
<1>5. Unfolds(g, s, S)
  BY <1>2, <1>3, <1>4 DEF Unfolds
<1>6. QED
  BY <1>5

LEMMA KeptEmpty == ASSUME NEW S PROVE Kept(<<>>, S) = <<>>
BY KeptIs, EmptySeq DEF Unfolds

Distinct(s) == \A i, j \in DOMAIN s : s[i] = s[j] => i = j

\* Sequence k is what S keeps of the first n members of s.
Keeps(k, s, S, n) ==
    /\ \A i \in DOMAIN k : k[i] \in S /\ \E j \in 1..n : s[j] = k[i]
    /\ \A j \in 1..n : s[j] \in S => \E i \in DOMAIN k : k[i] = s[j]
    /\ Distinct(s) => Distinct(k)

LEMMA KeepsAppend ==
    ASSUME NEW T, NEW s \in Seq(T), NEW S, NEW n \in Nat, n + 1 \in DOMAIN s,
           NEW k \in Seq(T), Keeps(k, s, S, n)
    PROVE  LET l == IF s[n + 1] \in S THEN Append(k, s[n + 1]) ELSE k
           IN  l \in Seq(T) /\ Keeps(l, s, S, n + 1)
<1>1. /\ DOMAIN s = 1..Len(s) /\ s[n + 1] \in T
      /\ \A j \in 1..n : j \in DOMAIN s /\ j # n + 1 /\ j \in 1..n + 1
      /\ \A j \in 1..n + 1 : j \in 1..n \/ j = n + 1
      /\ n + 1 \in 1..n + 1
  BY LenProperties, ElementOfSeq
<1>2. CASE s[n + 1] \notin S
  BY <1>1, <1>2 DEF Keeps
<1>3. CASE s[n + 1] \in S
  <2> DEFINE x == s[n + 1]
             l == Append(k, x)
             m == Len(k) + 1
  <2>1. l \in Seq(T)
    BY <1>1, AppendProperties
  <2>2. /\ DOMAIN k = 1..Len(k) /\ Len(k) \in Nat
        /\ DOMAIN l = 1..m
        /\ \A i \in DOMAIN k : l[i] = k[i]
        /\ l[m] = x
    BY <1>1, AppendProperties, LenProperties
  <2>3. /\ \A i \in DOMAIN l : i \in DOMAIN k \/ i = m
        /\ \A i \in DOMAIN k : i \in DOMAIN l
        /\ m \in DOMAIN l
    BY <2>2
  <2> HIDE DEF l, m
  <2>4. \A i \in DOMAIN l : l[i] \in S /\ \E j \in 1..n + 1 : s[j] = l[i]
    BY <1>1, <1>3, <2>2, <2>3 DEF Keeps
  <2>5. \A j \in 1..n + 1 : s[j] \in S => \E i \in DOMAIN l : l[i] = s[j]
    BY <1>1, <2>2, <2>3 DEF Keeps
  <2>6. ASSUME Distinct(s) PROVE Distinct(l)
    <3>1. \A i \in DOMAIN k : k[i] # x
      BY <1>1, <2>6 DEF Keeps, Distinct
    <3>2. QED
      BY <2>2, <2>3, <2>6, <3>1 DEF Keeps, Distinct
  <2>7. QED
    BY <1>3, <2>1, <2>4, <2>5, <2>6 DEF Keeps, l
<1>4. QED
  BY <1>2, <1>3

\* What is kept are the members of s that are in S, none of them twice if s has
\* none twice.
LEMMA KeptMembers ==
    ASSUME NEW T, NEW s \in Seq(T), NEW S
    PROVE  /\ Kept(s, S) \in Seq(T)
           /\ Keeps(Kept(s, S), s, S, Len(s))
<1>1. Len(s) \in Nat /\ DOMAIN s = 1..Len(s)
  BY LenProperties
<1>2a. PICK g : Unfolds(g, s, S)
  BY <1>1, KeptIs
<1>2. /\ Kept(s, S) = g[Len(s)]
      /\ g[0] = <<>>
      /\ \A n \in 1..Len(s) :
            g[n] = IF s[n] \in S THEN Append(g[n - 1], s[n]) ELSE g[n - 1]
  BY <1>2a DEF Unfolds
<1> DEFINE G == {n \in Nat : n <= Len(s) =>
                                g[n] \in Seq(T) /\ Keeps(g[n], s, S, n)}
<1>3. 0 \in G
  <2>1. DOMAIN g[0] = {} /\ 1..0 = {} /\ g[0] \in Seq(T)
    BY <1>2, EmptySeq
  <2>2. Keeps(g[0], s, S, 0)
    BY <2>1 DEF Keeps, Distinct
  <2>3. QED
    BY <2>1, <2>2
<1>4. ASSUME NEW n \in Nat, n \in G PROVE n + 1 \in G
  <2>1. SUFFICES ASSUME n + 1 <= Len(s)
                 PROVE  g[n + 1] \in Seq(T) /\ Keeps(g[n + 1], s, S, n + 1)
    OBVIOUS
  <2>2. /\ n + 1 \in 1..Len(s) /\ n + 1 \in DOMAIN s /\ (n + 1) - 1 = n
        /\ g[n] \in Seq(T) /\ Keeps(g[n], s, S, n)
    BY <1>1, <1>4, <2>1
  <2>3. g[n + 1] = IF s[n + 1] \in S THEN Append(g[n], s[n + 1]) ELSE g[n]
    BY <1>2, <2>2
  <2>4. QED
    BY <2>2, <2>3, KeepsAppend
<1>5. Nat \subseteq G
  <2> HIDE DEF G
  <2> QED
    BY <1>3, <1>4, NatSetInduction
<1>6. QED
  BY <1>1, <1>2, <1>5

\* One member more is kept or it is not.
LEMMA KeptAppend ==
    ASSUME NEW T, NEW s \in Seq(T), NEW x \in T, NEW S
    PROVE  Kept(Append(s, x), S) =
              IF x \in S THEN Append(Kept(s, S), x) ELSE Kept(s, S)
<1> DEFINE N == Len(s)
           t == Append(s, x)
<1>1. /\ N \in Nat /\ Len(t) = N + 1 /\ t[N + 1] = x
      /\ \A n \in 1..N : t[n] = s[n]
  BY AppendProperties, LenProperties
<1> HIDE DEF N, t
<1>2a. Len(s) \in Nat /\ Len(t) \in Nat
  BY <1>1 DEF N
<1>2b. PICK g : Unfolds(g, s, S)
  BY <1>2a, KeptIs
<1>2. /\ Kept(s, S) = g[N]
      /\ g[0] = <<>>
      /\ \A n \in 1..N :
            g[n] = IF s[n] \in S THEN Append(g[n - 1], s[n]) ELSE g[n - 1]
  BY <1>2b DEF Unfolds, N
<1>3a. PICK h : Unfolds(h, t, S)
  BY <1>2a, KeptIs
<1>3. /\ Kept(t, S) = h[N + 1]
      /\ h[0] = <<>>
      /\ \A n \in 1..N + 1 :
            h[n] = IF t[n] \in S THEN Append(h[n - 1], t[n]) ELSE h[n - 1]
  BY <1>1, <1>3a DEF Unfolds
<1> DEFINE G == {n \in Nat : n <= N => h[n] = g[n]}
<1>4. 0 \in G
  BY <1>2, <1>3
<1>5. ASSUME NEW n \in Nat, n \in G PROVE n + 1 \in G
  <2>1. SUFFICES ASSUME n + 1 <= N PROVE h[n + 1] = g[n + 1]
    OBVIOUS
  <2>2. /\ n + 1 \in 1..N /\ n + 1 \in 1..N + 1 /\ (n + 1) - 1 = n
        /\ h[n] = g[n] /\ t[n + 1] = s[n + 1]
    BY <1>1, <1>5, <2>1
  <2>3. QED
    BY <1>2, <1>3, <2>2
<1>6. Nat \subseteq G
  <2> HIDE DEF G
  <2> QED
    BY <1>4, <1>5, NatSetInduction
<1>7. h[N] = g[N] /\ N + 1 \in 1..N + 1 /\ (N + 1) - 1 = N
  BY <1>1, <1>6
<1>8. QED
  BY <1>1, <1>2, <1>3, <1>7 DEF t

\* Only which members of s are in the set matters.
LEMMA KeptSame ==
    ASSUME NEW T, NEW s \in Seq(T), NEW S, NEW R,
           \A i \in DOMAIN s : s[i] \in S <=> s[i] \in R
    PROVE  Kept(s, S) = Kept(s, R)
<1>1. Len(s) \in Nat /\ DOMAIN s = 1..Len(s)
  BY LenProperties
<1>2a. PICK g : Unfolds(g, s, S)
  BY <1>1, KeptIs
<1>2. /\ Kept(s, S) = g[Len(s)]
      /\ g[0] = <<>>
      /\ \A n \in 1..Len(s) :
            g[n] = IF s[n] \in S THEN Append(g[n - 1], s[n]) ELSE g[n - 1]
  BY <1>2a DEF Unfolds
<1>3a. PICK h : Unfolds(h, s, R)
  BY <1>1, KeptIs
<1>3. /\ Kept(s, R) = h[Len(s)]
      /\ h[0] = <<>>
      /\ \A n \in 1..Len(s) :
            h[n] = IF s[n] \in R THEN Append(h[n - 1], s[n]) ELSE h[n - 1]
  BY <1>3a DEF Unfolds
<1> DEFINE G == {n \in Nat : n <= Len(s) => h[n] = g[n]}
<1>4. 0 \in G
  BY <1>2, <1>3
<1>5. ASSUME NEW n \in Nat, n \in G PROVE n + 1 \in G
  <2>1. SUFFICES ASSUME n + 1 <= Len(s) PROVE h[n + 1] = g[n + 1]
    OBVIOUS
  <2>2. n + 1 \in 1..Len(s) /\ (n + 1) - 1 = n /\ h[n] = g[n]
    BY <1>1, <1>5, <2>1
  <2>3. s[n + 1] \in S <=> s[n + 1] \in R
    BY <1>1, <2>2
  <2>4. QED
    BY <1>2, <1>3, <2>2, <2>3
<1>6. Nat \subseteq G
  <2> HIDE DEF G
  <2> QED
    BY <1>4, <1>5, NatSetInduction
<1>7. QED
  BY <1>1, <1>2, <1>3, <1>6
-----------------------------------------------------------------------------
(* The invariant.                                                          *)

\* Events of the same run come in its order.
Ordered(es) ==
    \A i, j \in DOMAIN es :
        i < j /\ es[i].run = es[j].run => es[i].k < es[j].k

\* The broadcaster knows the live clients, each once.
LiveOnce ==
    /\ Distinct(subscribed)
    /\ \A c \in Clients :
          conn[c] = "live" <=> \E i \in DOMAIN subscribed : subscribed[i] = c

\* A broadcast goes to clients that were live when it began.
UnderWay ==
    \A r \in Runs :
        /\ Distinct(todo[r])
        /\ todo[r] # <<>> => count[r] > 0
        /\ \A i \in DOMAIN todo[r] :
              conn[todo[r][i]] \in {"live", "gone"} /\ Wants(todo[r][i], r)

\* Until it is live, a client has received its replay and nothing else.
ReplayedOnly ==
    \A c \in Clients :
        /\ conn[c] = "new" => received[c] = <<>>
        /\ conn[c] \in {"new", "replaying"} => Len(received[c]) <= seam[c]

\* The ledger of a run is open while an event of the run is on its way.
LedgerOpen == \A r \in Runs : todo[r] # <<>> => r \in open

\* What is known to be missing from a ledger is through.
UnrecordedBehind == \A e \in unrecorded : e.k <= Through(e.run)

\* A ledger holds the events of all runs in order, and none that is not through.
LedgersBehind ==
    \A q \in Runs :
        /\ Ordered(ledger[q])
        /\ \A r \in Runs : \A i \in DOMAIN ledger[q] :
              ledger[q][i].run = r => ledger[q][i].k <= Through(r)

\* The last event of a run that can have been written to a client: the others
\* in the queue of its broadcast wait for the first.
Waits(c, clients) == \E j \in DOMAIN clients : j > 1 /\ clients[j] = c

Due(c, r) == IF Waits(c, todo[r]) THEN count[r] - 1 ELSE count[r]

ReceivedBehind ==
    \A c \in Clients, r \in Runs : \A i \in DOMAIN received[c] :
        received[c][i].run = r => received[c][i].k <= Due(c, r)

\* What is not replayed comes from runs the client asked for.
LiveWanted ==
    \A c \in Clients : \A i \in DOMAIN received[c] :
        i > seam[c] => Wants(c, received[c][i].run)

\* A live client that has an event of a run from its live stream has all later
\* ones that are due, or they were cut off.
CaughtUp ==
    \A c \in Clients, r \in Runs : conn[c] = "live" =>
        \A i \in DOMAIN received[c] :
            i > seam[c] /\ received[c][i].run = r =>
                \A k \in received[c][i].k + 1..Due(c, r) :
                    \/ \E m \in DOMAIN received[c] :
                          m > i /\ received[c][m].run = r /\ received[c][m].k = k
                    \/ Event(r, k) \in missed[c]

IInv ==
    /\ TypeOK /\ LiveOnce /\ UnderWay /\ ReplayedOnly /\ LedgerOpen
    /\ UnrecordedBehind /\ LedgerComplete /\ LedgersBehind /\ ReceivedBehind
    /\ StreamInOrder /\ LiveWanted /\ CaughtUp /\ LiveGapless

LEMMA EventIs ==
    /\ \A r \in Runs : \A k \in 1..MaxEvents : Event(r, k) \in Events
    /\ \A r, k : Event(r, k).run = r /\ Event(r, k).k = k
BY DEF Events, Event

LEMMA EventFields ==
    ASSUME NEW es \in Seq(Events), NEW i \in DOMAIN es
    PROVE  /\ es[i] \in Events /\ es[i].run \in Runs
           /\ es[i].k \in 1..MaxEvents /\ es[i].k \in Nat
           /\ i \in 1..Len(es) /\ i \in Nat
<1>1. i \in 1..Len(es) /\ Len(es) \in Nat
  BY LenProperties
<1>2. es[i] \in Events
  BY <1>1, ElementOfSeq
<1>3. QED
  BY <1>1, <1>2 DEF Events, Event

LEMMA AppendFacts ==
    ASSUME NEW T, NEW s \in Seq(T), NEW x \in T
    PROVE  /\ Append(s, x) \in Seq(T)
           /\ Len(s) \in Nat /\ DOMAIN s = 1..Len(s)
           /\ Len(Append(s, x)) = Len(s) + 1
           /\ DOMAIN Append(s, x) = 1..Len(s) + 1
           /\ \A i \in DOMAIN s : i \in DOMAIN Append(s, x) /\ i < Len(s) + 1
           /\ \A i \in DOMAIN Append(s, x) : i \in DOMAIN s \/ i = Len(s) + 1
           /\ Len(s) + 1 \in DOMAIN Append(s, x)
           /\ \A i \in DOMAIN s : Append(s, x)[i] = s[i]
           /\ Append(s, x)[Len(s) + 1] = x
<1>1. /\ Append(s, x) \in Seq(T)
      /\ Len(s) \in Nat /\ DOMAIN s = 1..Len(s)
      /\ Len(Append(s, x)) = Len(s) + 1
      /\ DOMAIN Append(s, x) = 1..Len(s) + 1
      /\ \A i \in DOMAIN s : Append(s, x)[i] = s[i]
      /\ Append(s, x)[Len(s) + 1] = x
  BY AppendProperties, LenProperties
<1>2. QED
  BY <1>1

\* A later event of its run keeps a stream in order.
LEMMA OrderedAppend ==
    ASSUME NEW es \in Seq(Events), NEW e \in Events, Ordered(es),
           \A i \in DOMAIN es : es[i].run = e.run => es[i].k < e.k
    PROVE  Ordered(Append(es, e))
<1> DEFINE fs == Append(es, e)
           n == Len(es) + 1
<1>1. /\ \A i \in DOMAIN es : i \in DOMAIN fs /\ i < n /\ i \in Nat
      /\ \A i \in DOMAIN fs : i \in DOMAIN es \/ i = n
      /\ \A i \in DOMAIN es : fs[i] = es[i]
      /\ fs[n] = e /\ n \in Nat
  BY AppendFacts, EventFields
<1> HIDE DEF fs, n
<1>2. QED
  BY <1>1 DEF Ordered, fs

\* What Publish and DrainReturns hand to Proceed: event k of r is next, whoever is
\* left to get it has all events before it, and whoever else wants it has it.
Going(r, k, clients, opened) ==
    /\ k \in 1..MaxEvents /\ Through(r) = k - 1
    /\ clients \in Seq(Clients) /\ Distinct(clients)
    /\ \A i \in DOMAIN clients :
          /\ conn[clients[i]] \in {"live", "gone"} /\ Wants(clients[i], r)
          /\ Due(clients[i], r) = k - 1
    /\ \A c \in Clients :
          /\ Due(c, r) <= k
          /\ conn[c] = "live" /\ Wants(c, r)
             /\ (\A i \in DOMAIN clients : clients[i] # c) => Due(c, r) = k
    /\ opened \subseteq Runs /\ r \in opened /\ open \subseteq opened
    /\ count' = [count EXCEPT ![r] = k]
    /\ Proceed(r, k, clients, opened)
    /\ UNCHANGED <<subscribed, conn, stalled, seam>>

LEMMA GoingEffects ==
    ASSUME StreamAssumption, TypeOK, NEW r \in Runs, NEW k, NEW clients, NEW opened,
           Going(r, k, clients, opened)
    PROVE  /\ \A q \in Runs : count'[q] = IF q = r THEN k ELSE count[q]
           /\ \A q \in Runs : todo'[q] = IF q = r THEN clients ELSE todo[q]
           /\ \A q \in Runs :
                 Through(q)' = IF q = r THEN IF clients = <<>> THEN k ELSE k - 1
                                        ELSE Through(q)
           /\ \A c \in Clients, q \in Runs :
                 Due(c, q)' = IF q = r THEN IF Waits(c, clients) THEN k - 1 ELSE k
                                       ELSE Due(c, q)
<1>1. /\ \A q \in Runs : count'[q] = IF q = r THEN k ELSE count[q]
      /\ \A q \in Runs : todo'[q] = IF q = r THEN clients ELSE todo[q]
  BY DEF Going, Proceed, TypeOK
<1>2. \A q \in Runs :
          Through(q)' = IF q = r THEN IF clients = <<>> THEN k ELSE k - 1
                                 ELSE Through(q)
  BY <1>1 DEF Through
<1>3. \A c \in Clients, q \in Runs :
          Due(c, q)' = IF q = r THEN IF Waits(c, clients) THEN k - 1 ELSE k
                                ELSE Due(c, q)
  BY <1>1 DEF Due, Waits
<1>4. QED
  BY <1>1, <1>2, <1>3

\* Only the first client gets the event, unless it is gone.
LEMMA GoingWrites ==
    ASSUME StreamAssumption, TypeOK, NEW r \in Runs, NEW k, NEW clients, NEW opened,
           Going(r, k, clients, opened)
    PROVE  \A c \in Clients :
              \/ received'[c] = received[c]
                 /\ (conn[c] = "live" =>
                        (\A i \in DOMAIN clients : clients[i] = c => i > 1))
              \/ /\ received'[c] = Append(received[c], Event(r, k))
                 /\ conn[c] = "live" /\ ~Waits(c, clients)
                 /\ Wants(c, r) /\ Due(c, r) = k - 1
<1>1. CASE clients = <<>>
  <2>1. received' = received /\ DOMAIN clients = {}
    BY <1>1, EmptySeq DEF Going, Proceed
  <2>2. QED
    BY <2>1
<1>2. CASE clients # <<>>
  <2> DEFINE h == Head(clients)
             e == Event(r, k)
  <2>1. /\ 1 \in DOMAIN clients /\ clients[1] = h /\ h \in Clients
        /\ \A i \in DOMAIN clients : i \in Nat /\ i >= 1
    BY <1>2, HeadTailProperties, LenProperties, EmptySeq, ElementOfSeq DEF Going
  <2>2. /\ conn[h] \in {"live", "gone"} /\ Wants(h, r) /\ Due(h, r) = k - 1
        /\ \A i \in DOMAIN clients : clients[i] = h => i = 1
    BY <2>1 DEF Going, Distinct
  <2>3. Write(h, <<e>>)
    BY <1>2 DEF Going, Proceed
  <2>4. received[h] \in Seq(Events) /\ e \in Events
    BY <2>1 DEF TypeOK, Going, Events, Event
  <2>5. received[h] \o <<e>> = Append(received[h], e)
    BY <2>4, AppendIsConcat
  <2>6. \A c \in Clients :
            received'[c] = IF c = h /\ conn[h] # "gone"
                           THEN Append(received[h], e) ELSE received[c]
    BY <2>1, <2>3, <2>5 DEF Write, TypeOK
  <2>7. ~Waits(h, clients)
    BY <2>2 DEF Waits
  <2> HIDE DEF h, e
  <2>8. ASSUME NEW c \in Clients, c # h
        PROVE  \A i \in DOMAIN clients : clients[i] = c => i > 1
    BY <2>1, <2>8
  <2>9. QED
    BY <2>2, <2>6, <2>7, <2>8 DEF e
<1>3. QED
  BY <1>1, <1>2

\* When no client is left, every open ledger gets the event whose write does not
\* fail.
LEMMA GoingRecords ==
    ASSUME StreamAssumption, TypeOK, NEW r \in Runs, NEW k, NEW clients, NEW opened,
           Going(r, k, clients, opened)
    PROVE  LET e == Event(r, k)
           IN  /\ e \in Events /\ faults' \in 0..MaxFaults /\ missed' = missed
               /\ open' = IF clients = <<>> /\ k = Length[r] THEN opened \ {r}
                                                            ELSE opened
               /\ ledger' \in [Runs -> Seq(Events)]
               /\ \A q \in Runs :
                     \/ ledger'[q] = ledger[q]
                     \/ ledger'[q] = Append(ledger[q], e) /\ clients = <<>>
               /\ \/ ledger'[r] = ledger[r] /\ unrecorded' = unrecorded
                     /\ clients # <<>>
                  \/ ledger'[r] = Append(ledger[r], e) /\ unrecorded' = unrecorded
                     /\ clients = <<>>
                  \/ ledger'[r] = ledger[r] /\ unrecorded' = unrecorded \cup {e}
                     /\ clients = <<>>
<1> DEFINE e == Event(r, k)
<1>1. e \in Events /\ missed' = missed /\ r \in opened
  BY DEF Going, Proceed, Events, Event
<1>2. CASE clients # <<>>
  BY <1>1, <1>2 DEF Going, Proceed, TypeOK
<1>3. CASE clients = <<>>
  <2>1. PICK failing \in SUBSET opened : WriteLedgers(r, k, opened, failing)
    BY <1>3 DEF Going, Proceed
  <2>2. /\ ledger' = [q \in Runs |-> IF q \in opened \ failing
                                     THEN Append(ledger[q], e) ELSE ledger[q]]
        /\ open' = IF k = Length[r] THEN opened \ {r} ELSE opened
        /\ unrecorded' = unrecorded \cup {x \in {e} : r \in failing}
    BY <2>1 DEF WriteLedgers
  <2>3. faults' \in 0..MaxFaults
    BY <2>1 DEF WriteLedgers, TypeOK, StreamAssumption
  <2> HIDE DEF e
  <2>4. \A q \in Runs : ledger[q] \in Seq(Events) /\ Append(ledger[q], e) \in Seq(Events)
    BY <1>1, AppendFacts DEF TypeOK
  <2>5. ledger' \in [Runs -> Seq(Events)]
    BY <2>2, <2>4
  <2>6. \A q \in Runs : ledger'[q] = IF q \in opened \ failing
                                     THEN Append(ledger[q], e) ELSE ledger[q]
    BY <2>2
  <2>7. CASE r \in failing
    <3>1. ledger'[r] = ledger[r] /\ unrecorded' = unrecorded \cup {e}
      BY <2>2, <2>6, <2>7
    <3>2. QED
      BY <1>1, <1>3, <2>2, <2>3, <2>5, <2>6, <3>1 DEF e
  <2>8. CASE r \notin failing
    <3>1. ledger'[r] = Append(ledger[r], e) /\ unrecorded' = unrecorded
      BY <1>1, <2>2, <2>6, <2>8
    <3>2. QED
      BY <1>1, <1>3, <2>2, <2>3, <2>5, <2>6, <3>1 DEF e
  <2>9. QED
    BY <2>7, <2>8
<1>4. QED
  BY <1>2, <1>3
-----------------------------------------------------------------------------
(* What Proceed does to each part of the invariant.                        *)

LEMMA GoingTypeOK ==
    ASSUME StreamAssumption, TypeOK, NEW r \in Runs, NEW k, NEW clients, NEW opened,
           Going(r, k, clients, opened)
    PROVE  TypeOK'
<1> DEFINE e == Event(r, k)
<1>1. count' \in [Runs -> 0..MaxEvents] /\ todo' \in [Runs -> Seq(Clients)]
  BY DEF Going, Proceed, TypeOK, StreamAssumption
<1>2. /\ e \in Events /\ faults' \in 0..MaxFaults /\ missed' = missed
      /\ ledger' \in [Runs -> Seq(Events)]
      /\ open' \in {opened, opened \ {r}}
      /\ unrecorded' \in {unrecorded, unrecorded \cup {e}}
  BY GoingRecords
<1>3. \A c \in Clients : received'[c] \in {received[c], Append(received[c], e)}
  BY GoingWrites
<1> HIDE DEF e
<1>4. received' \in [Clients -> Seq(Events)]
  <2>1. \A c \in Clients : received[c] \in Seq(Events)
    BY DEF TypeOK
  <2>2. ASSUME NEW c \in Clients PROVE received'[c] \in Seq(Events)
    <3>1. Append(received[c], e) \in Seq(Events)
      BY <1>2, <2>1, AppendFacts
    <3>2. QED
      BY <1>3, <2>1, <3>1
  <2>3. received' = [c \in Clients |-> received'[c]]
    BY DEF Going, Proceed, Write, TypeOK
  <2>4. QED
    BY <2>2, <2>3
<1>5. missed' \in [Clients -> SUBSET Events] /\ unrecorded' \subseteq Events
  BY <1>2 DEF TypeOK
<1>6. open' \subseteq Runs
  BY <1>2 DEF Going
<1>7. QED
  BY <1>1, <1>2, <1>4, <1>5, <1>6 DEF Going, TypeOK

LEMMA GoingControl ==
    ASSUME StreamAssumption, IInv, NEW r \in Runs, NEW k, NEW clients, NEW opened,
           Going(r, k, clients, opened)
    PROVE  LiveOnce' /\ UnderWay' /\ ReplayedOnly' /\ LedgerOpen'
<1> USE DEF IInv
<1>1. LiveOnce'
  BY DEF Going, LiveOnce
<1>2. UnderWay'
  <2>1. \A q \in Runs : /\ count'[q] = IF q = r THEN k ELSE count[q]
                        /\ todo'[q] = IF q = r THEN clients ELSE todo[q]
    BY GoingEffects
  <2>2. conn' = conn /\ k > 0
    BY DEF Going
  <2>3. Distinct(clients) /\ \A i \in DOMAIN clients :
            conn[clients[i]] \in {"live", "gone"} /\ Wants(clients[i], r)
    BY DEF Going
  <2>4. QED
    BY <2>1, <2>2, <2>3 DEF UnderWay
<1>3. ReplayedOnly'
  <2>1. \A c \in Clients : conn[c] # "live" => received'[c] = received[c]
    BY GoingWrites
  <2>2. QED
    BY <2>1 DEF Going, ReplayedOnly
<1>4. LedgerOpen'
  <2>1. \A q \in Runs : /\ count'[q] = IF q = r THEN k ELSE count[q]
                        /\ todo'[q] = IF q = r THEN clients ELSE todo[q]
    BY GoingEffects
  <2>2. open' = IF clients = <<>> /\ k = Length[r] THEN opened \ {r} ELSE opened
    BY GoingRecords
  <2>3. r \in opened /\ open \subseteq opened /\ k \in 1..MaxEvents
    BY DEF Going
  <2>4. MaxEvents \in Nat
    BY DEF StreamAssumption
  <2>5. QED
    BY <2>1, <2>2, <2>3, <2>4 DEF LedgerOpen
<1>5. QED
  BY <1>1, <1>2, <1>3, <1>4

\* The run's own ledger grows by the run's next event, or the event joins those
\* that are missing; what the other ledgers get is not theirs.
LEMMA CompleteKept ==
    ASSUME StreamAssumption, TypeOK, LedgerComplete, UnrecordedBehind,
           NEW r \in Runs, NEW k \in 1..MaxEvents, Through(r) = k - 1,
           NEW e, e = Event(r, k),
           \A q \in Runs : q # r =>
               /\ Through(q)' = Through(q)
               /\ ledger'[q] \in {ledger[q], Append(ledger[q], e)},
           \/ /\ Through(r)' = k - 1 /\ ledger'[r] = ledger[r]
              /\ unrecorded' = unrecorded
           \/ /\ Through(r)' = k /\ ledger'[r] = Append(ledger[r], e)
              /\ unrecorded' = unrecorded
           \/ /\ Through(r)' = k /\ ledger'[r] = ledger[r]
              /\ unrecorded' = unrecorded \cup {e}
    PROVE  LedgerComplete' /\ UnrecordedBehind'
<1> DEFINE Mine(q) == [run : {q}, k : Nat]
           Upto(q, n) == [j \in 1..n |-> Event(q, j)]
           W == Events \ unrecorded
           V == Events \ unrecorded'
<1>1. /\ MaxEvents \in Nat /\ k \in Nat /\ e \in Events /\ e.run = r /\ e.k = k
      /\ \A q \in Runs : ledger[q] \in Seq(Events)
      /\ \A q \in Runs : Through(q) \in Int /\ Through(q) <= MaxEvents
  <2>1. MaxEvents \in Nat /\ k \in Nat
    BY DEF StreamAssumption
  <2>2. e \in Events /\ e.run = r /\ e.k = k
    BY EventIs
  <2>3. \A q \in Runs : ledger[q] \in Seq(Events)
    BY DEF TypeOK
  <2>4. ASSUME NEW q \in Runs PROVE Through(q) \in Int /\ Through(q) <= MaxEvents
    <3>1. count[q] \in 0..MaxEvents
      BY DEF TypeOK
    <3>2. QED
      BY <2>1, <3>1 DEF Through
  <2>5. QED
    BY <2>1, <2>2, <2>3, <2>4
<1>2. \A q \in Runs : Kept(ledger[q], Mine(q)) = Kept(Upto(q, Through(q)), W)
  BY DEF LedgerComplete, Of
<1>3. e \notin unrecorded
  BY <1>1 DEF UnrecordedBehind
<1>4. \A x : x # e => (x \in W <=> x \in V)
  OBVIOUS
<1>5. ASSUME NEW q \in Runs, NEW n \in Int, n <= MaxEvents, q = r => n < k
      PROVE  Upto(q, n) \in Seq(Events) /\ Kept(Upto(q, n), W) = Kept(Upto(q, n), V)
  <2> DEFINE u == Upto(q, n)
  <2>1. CASE n < 0
    <3>1. u = <<>>
      BY <2>1
    <3>2. QED
      BY <3>1, KeptEmpty
  <2>2. CASE n \in Nat
    <3>1. u \in [1..n -> Events]
      BY <1>1, <1>5 DEF Events, Event
    <3>2. u \in Seq(Events) /\ DOMAIN u = 1..n
      BY <2>2, <3>1, IsASeq
    <3>3. ASSUME NEW j \in DOMAIN u PROVE u[j] # e
      <4>1. j \in 1..n
        BY <3>2, <3>3
      <4>2. u[j] = Event(q, j) /\ ~(q = r /\ j = k)
        BY <1>1, <1>5, <4>1
      <4> HIDE DEF u
      <4>3. u[j].run = q /\ u[j].k = j
        BY <4>2, EventIs
      <4>4. QED
        BY <1>1, <4>2, <4>3
    <3>4. \A j \in DOMAIN u : u[j] \in W <=> u[j] \in V
      BY <1>4, <3>3
    <3> HIDE DEF u, W, V
    <3>5. Kept(u, W) = Kept(u, V)
      BY <3>2, <3>4, KeptSame
    <3>6. QED
      BY <3>2, <3>5 DEF u
  <2>3. QED
    BY <1>5, <2>1, <2>2
<1>6. ASSUME NEW q \in Runs
      PROVE  Kept(ledger'[q], Mine(q)) = Kept(Upto(q, Through(q)'), V)
  <2> DEFINE M == Mine(q)
  <2>1. CASE q # r
    <3>1. e \notin M
      BY <1>1, <2>1
    <3>2. Kept(ledger'[q], M) = Kept(ledger[q], M)
      <4> HIDE DEF M
      <4>1. Kept(Append(ledger[q], e), M) = Kept(ledger[q], M)
        BY <1>1, <3>1, KeptAppend
      <4>2. ledger'[q] \in {ledger[q], Append(ledger[q], e)}
        BY <2>1
      <4>3. QED
        BY <4>1, <4>2
    <3>3. Kept(Upto(q, Through(q)), W) = Kept(Upto(q, Through(q)), V)
      BY <1>1, <1>5, <2>1
    <3>4. Through(q)' = Through(q)
      BY <2>1
    <3> HIDE DEF Upto, W, V
    <3>5. QED
      BY <1>2, <3>2, <3>3, <3>4
  <2>2. CASE q = r
    <3> DEFINE u == Upto(r, k - 1)
               a == Append(u, e)
    <3>1. /\ u \in Seq(Events) /\ Kept(u, W) = Kept(u, V)
          /\ Kept(ledger[r], M) = Kept(u, W)
      <4>1. k - 1 \in Int /\ k - 1 <= MaxEvents /\ k - 1 < k
        BY <1>1
      <4> HIDE DEF Upto, Mine, W, V
      <4>2. u \in Seq(Events) /\ Kept(u, W) = Kept(u, V)
        BY <1>5, <4>1
      <4>3. Kept(ledger[r], M) = Kept(u, W)
        BY <1>2, <2>2
      <4>4. QED
        BY <4>2, <4>3
    <3>2. e \in M
      BY <1>1, <2>2 DEF Event
    <3>3. a = Upto(r, k)
      <4>1. Len(u) = k - 1
        <5>1. DOMAIN u = 1..k - 1 /\ k - 1 \in Nat
          BY <1>1
        <5> HIDE DEF u
        <5>2. QED
          BY <3>1, <5>1, LenProperties
      <4>2. \A j \in 1..k - 1 : u[j] = Event(r, j)
        OBVIOUS
      <4> HIDE DEF u
      <4>3. /\ a \in Seq(Events) /\ DOMAIN a = 1..k
            /\ (\A j \in 1..k - 1 : a[j] = u[j]) /\ a[k] = e
        BY <1>1, <3>1, <4>1, AppendFacts
      <4>4. a = [j \in 1..k |-> a[j]]
        BY <4>3, LenProperties
      <4>5. \A j \in 1..k : a[j] = Event(r, j)
        <5>1. \A j \in 1..k : j = k \/ j \in 1..k - 1
          BY <1>1
        <5> HIDE DEF a
        <5>2. QED
          BY <4>2, <4>3, <5>1
      <4> HIDE DEF a
      <4>6. QED
        BY <4>4, <4>5
    <3>4. Kept(a, V) = IF e \in V THEN Append(Kept(u, V), e) ELSE Kept(u, V)
      <4>1. u \in Seq(Events) /\ e \in Events
        BY <1>1, <3>1
      <4> HIDE DEF u, V
      <4>2. QED
        BY ONLY <4>1, KeptAppend
    <3>5. Kept(Append(ledger[r], e), M) = Append(Kept(ledger[r], M), e)
      <4>1. ledger[r] \in Seq(Events) /\ e \in Events
        BY <1>1
      <4> HIDE DEF M
      <4>2. QED
        BY ONLY <3>2, <4>1, KeptAppend
    <3>6. \/ /\ Through(r)' = k - 1 /\ ledger'[r] = ledger[r]
          \/ /\ Through(r)' = k /\ ledger'[r] = Append(ledger[r], e) /\ e \in V
          \/ /\ Through(r)' = k /\ ledger'[r] = ledger[r] /\ e \notin V
      BY <1>1, <1>3
    <3>7. Upto(r, Through(r)') = IF Through(r)' = k THEN a ELSE u
      BY <1>1, <3>3, <3>6
    <3> HIDE DEF u, a, V, W, M, Upto
    <3>8. Kept(ledger'[r], M) = Kept(Upto(r, Through(r)'), V)
      <4>1. CASE Through(r)' = k - 1 /\ ledger'[r] = ledger[r]
        <5>1. Through(r)' # k
          BY <1>1, <4>1
        <5>2. QED
          BY <3>1, <3>7, <4>1, <5>1
      <4>2. CASE Through(r)' = k /\ ledger'[r] = Append(ledger[r], e) /\ e \in V
        BY <3>1, <3>4, <3>5, <3>7, <4>2
      <4>3. CASE Through(r)' = k /\ ledger'[r] = ledger[r] /\ e \notin V
        BY <3>1, <3>4, <3>7, <4>3
      <4>4. QED
        BY <3>6, <4>1, <4>2, <4>3
    <3>9. QED
      BY <2>2, <3>8 DEF M
  <2>3. QED
    BY <2>1, <2>2
<1>7. LedgerComplete'
  BY <1>6 DEF LedgerComplete, Of
<1>8. UnrecordedBehind'
  <2>1. \A x \in unrecorded : x.run \in Runs /\ x.k \in Nat
    BY <1>1 DEF TypeOK, Events, Event
  <2>2. \A q \in Runs : Through(q) <= Through(q)' /\ Through(q)' \in Int
    BY <1>1
  <2>3. ASSUME NEW x \in unrecorded' PROVE x.k <= Through(x.run)'
    <3>1. CASE x \in unrecorded
      <4>1. x.k <= Through(x.run)
        BY <3>1 DEF UnrecordedBehind
      <4>2. QED
        BY <1>1, <2>1, <2>2, <3>1, <4>1
    <3>2. CASE x \notin unrecorded
      <4>1. x = e /\ Through(r)' = k
        BY <2>3, <3>2
      <4>2. QED
        BY <1>1, <4>1
    <3>3. QED
      BY <3>1, <3>2
  <2>4. QED
    BY <2>3 DEF UnrecordedBehind
<1>9. QED
  BY <1>7, <1>8

LEMMA GoingLedgerComplete ==
    ASSUME StreamAssumption, IInv, NEW r \in Runs, NEW k, NEW clients, NEW opened,
           Going(r, k, clients, opened)
    PROVE  LedgerComplete' /\ UnrecordedBehind'
<1> DEFINE e == Event(r, k)
<1>1. /\ TypeOK /\ LedgerComplete /\ UnrecordedBehind
      /\ k \in 1..MaxEvents /\ Through(r) = k - 1
  BY DEF IInv, Going
<1>2. /\ \A q \in Runs : ledger'[q] \in {ledger[q], Append(ledger[q], e)}
      /\ \/ ledger'[r] = ledger[r] /\ unrecorded' = unrecorded /\ clients # <<>>
         \/ ledger'[r] = Append(ledger[r], e) /\ unrecorded' = unrecorded
            /\ clients = <<>>
         \/ ledger'[r] = ledger[r] /\ unrecorded' = unrecorded \cup {e}
            /\ clients = <<>>
  BY <1>1, GoingRecords
<1>3. \A q \in Runs : Through(q)' = IF q = r THEN IF clients = <<>> THEN k ELSE k - 1
                                             ELSE Through(q)
  BY <1>1, GoingEffects
<1>4. e = Event(r, k)
  OBVIOUS
<1> HIDE DEF e
<1>5. /\ \A q \in Runs : q # r =>
            /\ Through(q)' = Through(q)
            /\ ledger'[q] \in {ledger[q], Append(ledger[q], e)}
      /\ \/ /\ Through(r)' = k - 1 /\ ledger'[r] = ledger[r]
            /\ unrecorded' = unrecorded
         \/ /\ Through(r)' = k /\ ledger'[r] = Append(ledger[r], e)
            /\ unrecorded' = unrecorded
         \/ /\ Through(r)' = k /\ ledger'[r] = ledger[r]
            /\ unrecorded' = unrecorded \cup {e}
  BY <1>2, <1>3
<1>6. QED
  BY <1>1, <1>4, <1>5, CompleteKept

LEMMA GoingLedgersBehind ==
    ASSUME StreamAssumption, IInv, NEW r \in Runs, NEW k, NEW clients, NEW opened,
           Going(r, k, clients, opened)
    PROVE  LedgersBehind'
<1> DEFINE e == Event(r, k)
<1>1. /\ TypeOK /\ LedgersBehind /\ k \in Nat /\ e \in Events
      /\ e.run = r /\ e.k = k /\ Through(r) = k - 1
  BY DEF IInv, Going, Events, Event
<1>2. \A p \in Runs :
          Through(p)' = IF p = r THEN IF clients = <<>> THEN k ELSE k - 1
                                 ELSE Through(p)
  BY <1>1, GoingEffects
<1>3. \A p \in Runs : ledger[p] \in Seq(Events) /\ Through(p) \in Int
  BY <1>1 DEF TypeOK, Through
<1>4. ASSUME NEW q \in Runs
      PROVE  /\ Ordered(ledger'[q])
             /\ \A p \in Runs : \A i \in DOMAIN ledger'[q] :
                   ledger'[q][i].run = p => ledger'[q][i].k <= Through(p)'
  <2>1. /\ Ordered(ledger[q])
        /\ \A i \in DOMAIN ledger[q] :
              /\ ledger[q][i].run \in Runs /\ ledger[q][i].k \in Nat
              /\ \A p \in Runs :
                    ledger[q][i].run = p => ledger[q][i].k <= Through(p)
    BY <1>1, <1>3, EventFields DEF LedgersBehind
  <2>2. CASE ledger'[q] = ledger[q]
    <3>1. ASSUME NEW p \in Runs, NEW i \in DOMAIN ledger[q], ledger[q][i].run = p
          PROVE  ledger[q][i].k <= Through(p)'
      <4>1. Through(p) <= Through(p)' /\ Through(p) \in Int /\ Through(p)' \in Int
        BY <1>1, <1>2, <1>3
      <4>2. ledger[q][i].k <= Through(p) /\ ledger[q][i].k \in Nat
        BY <2>1, <3>1
      <4>3. QED
        BY <4>1, <4>2
    <3>2. QED
      BY <2>1, <2>2, <3>1
  <2>3. CASE ledger'[q] = Append(ledger[q], e) /\ clients = <<>>
    <3>1. \A i \in DOMAIN ledger[q] : ledger[q][i].run = e.run => ledger[q][i].k < e.k
      BY <1>1, <2>1
    <3> HIDE DEF e
    <3>2. Ordered(ledger'[q])
      <4>1. ledger[q] \in Seq(Events) /\ Ordered(ledger[q]) /\ e \in Events
        BY <1>1, <1>3, <2>1
      <4>2. Ordered(Append(ledger[q], e))
        BY <3>1, <4>1, OrderedAppend
      <4>3. QED
        BY <2>3, <4>2
    <3>3. ASSUME NEW p \in Runs, NEW i \in DOMAIN ledger'[q], ledger'[q][i].run = p
          PROVE  ledger'[q][i].k <= Through(p)'
      <4>1. \/ i \in DOMAIN ledger[q] /\ ledger'[q][i] = ledger[q][i]
            \/ ledger'[q][i] = e
        BY <1>1, <1>3, <2>3, <3>3, AppendFacts
      <4>2. CASE i \in DOMAIN ledger[q] /\ ledger'[q][i] = ledger[q][i]
        <5>1. Through(p) <= Through(p)' /\ Through(p)' \in Int
          BY <1>1, <1>2, <1>3, <2>3
        <5>2. ledger[q][i].k <= Through(p) /\ ledger[q][i].k \in Nat
          BY <2>1, <3>3, <4>2
        <5>3. QED
          BY <1>3, <4>2, <5>1, <5>2
      <4>3. CASE ledger'[q][i] = e
        BY <1>1, <1>2, <2>3, <3>3, <4>3
      <4>4. QED
        BY <4>1, <4>2, <4>3
    <3>4. QED
      BY <3>2, <3>3
  <2>4. QED
    <3>1. \/ ledger'[q] = ledger[q]
          \/ ledger'[q] = Append(ledger[q], e) /\ clients = <<>>
      BY <1>1, GoingRecords
    <3>2. QED
      BY <2>2, <2>3, <3>1
<1>5. QED
  BY <1>4 DEF LedgersBehind

\* The event comes after all the client has of the run.
LEMMA GoingInOrder ==
    ASSUME StreamAssumption, IInv, NEW r \in Runs, NEW k, NEW clients, NEW opened,
           Going(r, k, clients, opened)
    PROVE  ReceivedBehind' /\ StreamInOrder' /\ LiveWanted'
<1> DEFINE e == Event(r, k)
<1>1. /\ TypeOK /\ ReceivedBehind /\ StreamInOrder /\ LiveWanted
      /\ k \in Nat /\ e \in Events /\ e.run = r /\ e.k = k /\ seam' = seam
  BY DEF IInv, Going, Events, Event
<1>2. \A c \in Clients, p \in Runs :
          Due(c, p)' = IF p = r THEN IF Waits(c, clients) THEN k - 1 ELSE k
                                ELSE Due(c, p)
  BY <1>1, GoingEffects
<1>3. \A c \in Clients, p \in Runs : Due(c, p) \in Int
  BY <1>1 DEF TypeOK, Due
<1>4. ASSUME NEW c \in Clients
      PROVE  /\ Ordered(received'[c])
             /\ \A p \in Runs : \A i \in DOMAIN received'[c] :
                   received'[c][i].run = p => received'[c][i].k <= Due(c, p)'
             /\ \A i \in DOMAIN received'[c] :
                   i > seam[c] => Wants(c, received'[c][i].run)
  <2>1. /\ received[c] \in Seq(Events)
        /\ Ordered(received[c])
        /\ \A i \in DOMAIN received[c] :
              /\ received[c][i].run \in Runs /\ received[c][i].k \in Nat
              /\ i > seam[c] => Wants(c, received[c][i].run)
              /\ \A p \in Runs : received[c][i].run = p => received[c][i].k <= Due(c, p)
    <3>1. received[c] \in Seq(Events) /\ Ordered(received[c])
      BY <1>1 DEF TypeOK, StreamInOrder, Ordered
    <3>2. QED
      BY <1>1, <3>1, EventFields DEF ReceivedBehind, LiveWanted
  <2>2. \A p \in Runs : Due(c, p)' \in Int
    BY <1>1, <1>2, <1>3
  <2>3. CASE Waits(c, clients) => Due(c, r) = k - 1
    <3>1. Due(c, r) <= k
      BY DEF Going
    <3>2. \A p \in Runs : Due(c, p) <= Due(c, p)'
      BY <1>1, <1>2, <1>3, <2>3, <3>1
    <3>3. CASE received'[c] = received[c]
      <4>1. ASSUME NEW p \in Runs, NEW i \in DOMAIN received[c], received[c][i].run = p
            PROVE  received[c][i].k <= Due(c, p)'
        <5>1. Due(c, p) <= Due(c, p)' /\ Due(c, p) \in Int /\ Due(c, p)' \in Int
          BY <1>3, <2>2, <3>2
        <5>2. received[c][i].k <= Due(c, p) /\ received[c][i].k \in Nat
          BY <2>1, <4>1
        <5>3. QED
          BY <5>1, <5>2
      <4>2. QED
        BY <2>1, <3>3, <4>1
    <3>4. CASE /\ received'[c] = Append(received[c], e)
               /\ ~Waits(c, clients) /\ Wants(c, r) /\ Due(c, r) = k - 1
      <4>1. ASSUME NEW i \in DOMAIN received[c], received[c][i].run = e.run
            PROVE  received[c][i].k < e.k
        <5>1. received[c][i].run = r /\ received[c][i].k \in Nat
          BY <1>1, <2>1, <4>1
        <5>2. received[c][i].k <= Due(c, r)
          BY <2>1, <5>1
        <5>3. Due(c, r) = k - 1 /\ e.k = k /\ k \in Nat
          BY <1>1, <3>4
        <5> HIDE DEF e
        <5>4. QED
          BY ONLY <5>1, <5>2, <5>3
      <4>2. Due(c, r)' = k
        BY <1>2, <3>4
      <4> HIDE DEF e
      <4>3. Ordered(received'[c])
        <5>1. received[c] \in Seq(Events) /\ Ordered(received[c]) /\ e \in Events
          BY <1>1, <2>1
        <5>2. Ordered(Append(received[c], e))
          BY <4>1, <5>1, OrderedAppend
        <5>3. QED
          BY <3>4, <5>2
      <4>4. ASSUME NEW i \in DOMAIN received'[c]
            PROVE  /\ i > seam[c] => Wants(c, received'[c][i].run)
                   /\ \A p \in Runs :
                         received'[c][i].run = p => received'[c][i].k <= Due(c, p)'
        <5>1. \/ i \in DOMAIN received[c] /\ received'[c][i] = received[c][i]
              \/ received'[c][i] = e
          BY <1>1, <2>1, <3>4, <4>4, AppendFacts
        <5>2. CASE i \in DOMAIN received[c] /\ received'[c][i] = received[c][i]
          BY <1>3, <2>1, <2>2, <3>2, <5>2
        <5>3. CASE received'[c][i] = e
          BY <1>1, <3>4, <4>2, <5>3
        <5>4. QED
          BY <5>1, <5>2, <5>3
      <4>5. QED
        BY <4>3, <4>4
    <3>5. QED
      BY <1>1, <3>3, <3>4, GoingWrites
  <2>4. Waits(c, clients) => Due(c, r) = k - 1
    BY DEF Going, Waits
  <2>5. QED
    BY <2>3, <2>4
<1>5. QED
  BY <1>1, <1>4 DEF ReceivedBehind, StreamInOrder, LiveWanted, Ordered

\* Whoever gets the event had the one before it, if it had any; whoever waits for
\* it has the one before it.
LEMMA GoingGapless ==
    ASSUME StreamAssumption, IInv, NEW r \in Runs, NEW k, NEW clients, NEW opened,
           Going(r, k, clients, opened)
    PROVE  CaughtUp' /\ LiveGapless'
<1> DEFINE e == Event(r, k)
<1>1. /\ TypeOK /\ CaughtUp /\ LiveGapless /\ LiveWanted
      /\ k \in Nat /\ e \in Events /\ e.run = r /\ e.k = k
      /\ seam' = seam /\ conn' = conn /\ missed' = missed
  BY DEF IInv, Going, Proceed, Events, Event
<1>2. \A c \in Clients, p \in Runs :
          Due(c, p)' = IF p = r THEN IF Waits(c, clients) THEN k - 1 ELSE k
                                ELSE Due(c, p)
  BY <1>1, GoingEffects
<1>3. \A c \in Clients, p \in Runs : Due(c, p) \in Int
  BY <1>1 DEF TypeOK, Due
<1>4. \A c \in Clients : /\ received[c] \in Seq(Events) /\ seam[c] \in Nat
                         /\ \A i \in DOMAIN received[c] :
                               /\ received[c][i].run \in Runs
                               /\ received[c][i].k \in Nat /\ i \in Nat
  BY <1>1, EventFields DEF TypeOK
<1>5. ASSUME NEW c \in Clients, received'[c] = received[c],
             conn[c] = "live" =>
                 (\A i \in DOMAIN clients : clients[i] = c => i > 1),
             conn[c] = "live", NEW p \in Runs,
             NEW i \in DOMAIN received[c], i > seam[c], received[c][i].run = p
      PROVE  Due(c, p)' = Due(c, p)
  <2>1. CASE p # r
    BY <1>2, <2>1
  <2>2. CASE p = r
    <3>1. Wants(c, r)
      BY <1>1, <1>5, <2>2 DEF LiveWanted
    <3>2. CASE Waits(c, clients)
      BY <1>2, <2>2, <3>2 DEF Going, Waits
    <3>3. CASE ~Waits(c, clients)
      <4>1. \A j \in DOMAIN clients : clients[j] # c
        BY <1>5, <3>3 DEF Waits
      <4>2. Due(c, r) = k
        BY <1>5, <3>1, <4>1 DEF Going
      <4>3. QED
        BY <1>2, <2>2, <3>3, <4>2
    <3>4. QED
      BY <3>2, <3>3
  <2>3. QED
    BY <2>1, <2>2
<1>6. ASSUME NEW c \in Clients, received'[c] = Append(received[c], e),
             conn[c] = "live", ~Waits(c, clients), Due(c, r) = k - 1
      PROVE  LET n == Len(received[c]) + 1
             IN  /\ n \in Nat /\ n \in DOMAIN received'[c] /\ received'[c][n] = e
                 /\ Len(received'[c]) = n
                 /\ \A i \in DOMAIN received[c] :
                       /\ i < n /\ i \in DOMAIN received'[c]
                       /\ received'[c][i] = received[c][i]
                 /\ \A i \in DOMAIN received'[c] : i \in DOMAIN received[c] \/ i = n
                 /\ DOMAIN received[c] = 1..n - 1
  <2> HIDE DEF e
  <2>1. QED
    BY <1>1, <1>4, <1>6, AppendFacts
<1>7. ASSUME NEW c \in Clients, NEW p \in Runs, conn[c] = "live",
             NEW i \in DOMAIN received'[c], i > seam[c], received'[c][i].run = p,
             NEW x \in received'[c][i].k + 1..Due(c, p)'
      PROVE  \/ \E m \in DOMAIN received'[c] :
                    m > i /\ received'[c][m].run = p /\ received'[c][m].k = x
             \/ Event(p, x) \in missed[c]
  <2>1. CASE received'[c] = received[c]
             /\ (\A j \in DOMAIN clients : clients[j] = c => j > 1)
    <3>1. Due(c, p)' = Due(c, p)
      BY <1>5, <1>7, <2>1
    <3>2. x \in received[c][i].k + 1..Due(c, p)
      BY <1>7, <2>1, <3>1
    <3>3. QED
      BY <1>1, <1>7, <2>1, <3>2 DEF CaughtUp
  <2>2. CASE received'[c] = Append(received[c], e)
             /\ ~Waits(c, clients) /\ Due(c, r) = k - 1
    <3> DEFINE n == Len(received[c]) + 1
    <3>1. /\ n \in Nat /\ n \in DOMAIN received'[c] /\ received'[c][n] = e
          /\ \A j \in DOMAIN received[c] :
                /\ j < n /\ j \in DOMAIN received'[c]
                /\ received'[c][j] = received[c][j]
          /\ \A j \in DOMAIN received'[c] : j \in DOMAIN received[c] \/ j = n
      BY <1>6, <1>7, <2>2
    <3> HIDE DEF n, e
    <3>2. CASE i = n
      <4>1. p = r /\ received'[c][i].k = k
        BY <1>1, <1>7, <3>1, <3>2
      <4>2. Due(c, p)' = k
        BY <1>2, <2>2, <4>1
      <4>3. QED
        BY <1>1, <1>7, <4>1, <4>2
    <3>3. CASE i \in DOMAIN received[c] /\ x \in received[c][i].k + 1..Due(c, p)
      <4>1. received[c][i].run = p
        BY <1>7, <3>1, <3>3
      <4>2. \/ \E m \in DOMAIN received[c] :
                  m > i /\ received[c][m].run = p /\ received[c][m].k = x
            \/ Event(p, x) \in missed[c]
        BY <1>1, <1>7, <3>3, <4>1 DEF CaughtUp
      <4>3. QED
        BY <3>1, <4>2
    <3>4. CASE /\ i \in DOMAIN received[c]
               /\ x \notin received[c][i].k + 1..Due(c, p)
      <4>1. received'[c][i].k = received[c][i].k /\ received[c][i].k \in Nat
        BY <1>4, <3>1, <3>4
      <4>2. p = r /\ x = k
        <5>1. p = r
          BY <1>2, <1>7, <3>4, <4>1
        <5>2. Due(c, p)' = k /\ Due(c, p) = k - 1
          BY <1>2, <2>2, <5>1
        <5>3. QED
          BY <1>1, <1>7, <3>4, <4>1, <5>1, <5>2
      <4>3. QED
        BY <1>1, <3>1, <3>4, <4>2
    <3>5. QED
      BY <3>1, <3>2, <3>3, <3>4
  <2>3. QED
    <3>1. \/ received'[c] = received[c]
             /\ (\A j \in DOMAIN clients : clients[j] = c => j > 1)
          \/ /\ received'[c] = Append(received[c], e)
             /\ ~Waits(c, clients) /\ Due(c, r) = k - 1
      BY <1>1, <1>7, GoingWrites
    <3>2. QED
      BY <2>1, <2>2, <3>1
<1>8. ASSUME NEW c \in Clients, NEW i \in seam[c] + 1..Len(received'[c]),
             NEW j \in i + 1..Len(received'[c]),
             received'[c][i].run = received'[c][j].run,
             NEW x \in received'[c][i].k + 1..received'[c][j].k - 1
      PROVE  \/ \E m \in i + 1..j - 1 :
                   /\ received'[c][m].run = received'[c][i].run
                   /\ received'[c][m].k = x
             \/ Event(received'[c][i].run, x) \in missed[c]
  <2>1. CASE received'[c] = received[c]
    <3>1. /\ i \in seam[c] + 1..Len(received[c]) /\ j \in i + 1..Len(received[c])
          /\ received[c][i].run = received[c][j].run
          /\ x \in received[c][i].k + 1..received[c][j].k - 1
      BY <1>8, <2>1
    <3>2. \/ \E m \in i + 1..j - 1 :
                received[c][m].run = received[c][i].run /\ received[c][m].k = x
          \/ Event(received[c][i].run, x) \in missed[c]
      BY <1>1, <3>1 DEF LiveGapless
    <3>3. QED
      BY <2>1, <3>2
  <2>2. CASE received'[c] = Append(received[c], e) /\ conn[c] = "live"
             /\ ~Waits(c, clients) /\ Due(c, r) = k - 1
    <3> DEFINE n == Len(received[c]) + 1
    <3>1. /\ n \in Nat /\ received'[c][n] = e /\ Len(received'[c]) = n
          /\ \A m \in DOMAIN received[c] : received'[c][m] = received[c][m]
          /\ DOMAIN received[c] = 1..n - 1 /\ Len(received[c]) = n - 1
      BY <1>4, <1>6, <2>2
    <3> HIDE DEF n, e
    <3>2. i \in DOMAIN received[c] /\ i > seam[c] /\ i \in Nat /\ j \in Nat
      <4>1. seam[c] \in Nat
        BY <1>4
      <4>2. i \in seam[c] + 1..n /\ j \in i + 1..n
        BY <1>8, <3>1
      <4>3. n \in Nat
        BY <3>1
      <4>4. i \in Nat /\ i > seam[c] /\ j \in Nat /\ i \in 1..n - 1
        BY ONLY <4>1, <4>2, <4>3
      <4>5. QED
        BY <3>1, <4>4
    <3>3. CASE j # n
      <4>1. i \in seam[c] + 1..Len(received[c]) /\ j \in i + 1..Len(received[c])
        BY <1>4, <1>8, <3>1, <3>2, <3>3
      <4>2. j \in DOMAIN received[c] /\ received'[c][j] = received[c][j]
            /\ received'[c][i] = received[c][i]
        <5>1. j \in 1..n - 1
          BY <3>1, <3>2, <4>1
        <5>2. QED
          BY <3>1, <3>2, <5>1
      <4>3. received[c][i].run = received[c][j].run
            /\ x \in received[c][i].k + 1..received[c][j].k - 1
        BY <1>8, <4>2
      <4>4. \/ \E m \in i + 1..j - 1 :
                  received[c][m].run = received[c][i].run /\ received[c][m].k = x
            \/ Event(received[c][i].run, x) \in missed[c]
        BY <1>1, <4>3, <4>1 DEF LiveGapless
      <4>5. \A m \in i + 1..j - 1 : m \in DOMAIN received[c]
        BY <3>1, <3>2, <4>1
      <4>6. QED
        BY <3>1, <4>2, <4>4, <4>5
    <3>4. CASE j = n
      <4>1. /\ received[c][i].run = r /\ received'[c][i] = received[c][i]
            /\ x \in received[c][i].k + 1..Due(c, r)
        BY <1>1, <1>4, <1>8, <2>2, <3>1, <3>2, <3>4
      <4>2. \/ \E m \in DOMAIN received[c] :
                  m > i /\ received[c][m].run = r /\ received[c][m].k = x
            \/ Event(r, x) \in missed[c]
        BY <1>1, <2>2, <3>2, <4>1 DEF CaughtUp
      <4>3. \A m \in DOMAIN received[c] : m > i => m \in i + 1..j - 1
        BY <3>1, <3>2, <3>4
      <4>4. QED
        BY <3>1, <4>1, <4>2, <4>3
    <3>5. QED
      BY <3>3, <3>4
  <2>3. QED
    BY <1>1, <2>1, <2>2, GoingWrites
<1>9. CaughtUp'
  BY <1>1, <1>7 DEF CaughtUp
<1>10. LiveGapless'
  BY <1>1, <1>8 DEF LiveGapless
<1>11. QED
  BY <1>9, <1>10
-----------------------------------------------------------------------------
(* Publish and DrainReturns.                                               *)

LEMMA PublishGoes ==
    ASSUME StreamAssumption, IInv, NEW r \in Runs, Publish(r)
    PROVE  Going(r, count[r] + 1, Matching(r),
                 IF count[r] = 0 THEN open \cup {r} ELSE open)
<1> DEFINE S == {c \in Clients : Wants(c, r)}
           k == count[r] + 1
           clients == Matching(r)
           opened == IF count[r] = 0 THEN open \cup {r} ELSE open
<1>1. /\ TypeOK /\ LiveOnce
      /\ todo[r] = <<>> /\ count[r] < Length[r] /\ (count[r] = 0 \/ r \in open)
      /\ count' = [count EXCEPT ![r] = @ + 1]
      /\ Proceed(r, k, clients, opened)
      /\ UNCHANGED <<subscribed, conn, stalled, seam>>
  BY DEF IInv, Publish
<1>2. k \in 1..MaxEvents /\ Through(r) = k - 1 /\ count' = [count EXCEPT ![r] = k]
  BY <1>1 DEF TypeOK, Through, StreamAssumption
<1>3. /\ clients \in Seq(Clients)
      /\ Keeps(clients, subscribed, S, Len(subscribed))
      /\ DOMAIN subscribed = 1..Len(subscribed)
  BY <1>1, KeptMembers, LenProperties DEF TypeOK, Matching
<1> HIDE DEF clients
<1>4. Distinct(clients)
  BY <1>1, <1>3 DEF Keeps, LiveOnce
<1>5. \A c \in Clients : Due(c, r) = k - 1
  <2>1. count[r] \in Int /\ DOMAIN todo[r] = {}
    BY <1>1, EmptySeq DEF TypeOK
  <2>2. QED
    BY <2>1 DEF Due, Waits
<1>6. ASSUME NEW i \in DOMAIN clients
      PROVE  /\ conn[clients[i]] = "live" /\ Wants(clients[i], r)
             /\ Due(clients[i], r) = k - 1
  <2>1. clients[i] \in S /\ \E j \in DOMAIN subscribed : subscribed[j] = clients[i]
    BY <1>3, <1>6 DEF Keeps
  <2>2. QED
    BY <1>1, <1>5, <2>1 DEF LiveOnce
<1>7. ASSUME NEW c \in Clients, conn[c] = "live", Wants(c, r)
      PROVE  \E i \in DOMAIN clients : clients[i] = c
  <2>1. PICK j \in DOMAIN subscribed : subscribed[j] = c
    BY <1>1, <1>7 DEF LiveOnce
  <2>2. QED
    BY <1>3, <1>7, <2>1 DEF Keeps
<1>8. opened \subseteq Runs /\ r \in opened /\ open \subseteq opened
  BY <1>1 DEF TypeOK
<1>9. k \in Int
  BY <1>2
<1> HIDE DEF k, opened
<1>10. QED
  BY <1>1, <1>2, <1>3, <1>4, <1>5, <1>6, <1>7, <1>8, <1>9 DEF Going, k, clients, opened

LEMMA DrainGoes ==
    ASSUME StreamAssumption, IInv, NEW r \in Runs, DrainReturns(r)
    PROVE  Going(r, count[r], Tail(todo[r]), open)
<1> DEFINE s == todo[r]
           clients == Tail(s)
           k == count[r]
<1>1. /\ TypeOK /\ UnderWay /\ LedgerOpen /\ s # <<>> /\ k > 0
      /\ count' = count
      /\ Proceed(r, k, clients, open)
      /\ UNCHANGED <<subscribed, conn, stalled, seam>>
  BY DEF IInv, DrainReturns, UnderWay
<1>2. /\ k \in 1..MaxEvents /\ Through(r) = k - 1
      /\ count' = [count EXCEPT ![r] = k]
  BY <1>1 DEF TypeOK, Through, StreamAssumption
<1>3. /\ s \in Seq(Clients) /\ Distinct(s)
      /\ \A i \in DOMAIN s : conn[s[i]] \in {"live", "gone"} /\ Wants(s[i], r)
      /\ open \subseteq Runs
  BY <1>1 DEF TypeOK, UnderWay
<1>4. r \in open
  BY <1>1 DEF LedgerOpen
<1>5. /\ clients \in Seq(Clients)
      /\ \A i \in DOMAIN clients :
            /\ i \in Nat /\ i + 1 \in DOMAIN s /\ i + 1 > 1
            /\ clients[i] = s[i + 1] /\ s[i + 1] \in Clients
      /\ \A j \in DOMAIN s : j > 1 => j - 1 \in DOMAIN clients
                                      /\ clients[j - 1] = s[j]
  <2>1. /\ clients \in Seq(Clients) /\ Len(clients) = Len(s) - 1 /\ Len(s) \in Nat
        /\ \A i \in 1..Len(clients) : clients[i] = s[i + 1]
        /\ DOMAIN s = 1..Len(s) /\ DOMAIN clients = 1..Len(clients)
    BY <1>1, <1>3, HeadTailProperties, LenProperties
  <2> HIDE DEF s, clients
  <2>2. \A i \in DOMAIN clients : i \in Nat /\ i + 1 \in DOMAIN s /\ i + 1 > 1
    BY <2>1
  <2>3. \A j \in DOMAIN s : j > 1 => j - 1 \in DOMAIN clients /\ (j - 1) + 1 = j
    BY <2>1
  <2>4. \A i \in DOMAIN s : s[i] \in Clients
    BY <1>3, <2>1, ElementOfSeq
  <2>5. QED
    BY <2>1, <2>2, <2>3, <2>4
<1> HIDE DEF s, clients
<1>6. Distinct(clients)
  BY <1>3, <1>5 DEF Distinct
<1>7. ASSUME NEW i \in DOMAIN clients
      PROVE  /\ conn[clients[i]] \in {"live", "gone"} /\ Wants(clients[i], r)
             /\ Due(clients[i], r) = k - 1
  <2>1. Waits(clients[i], s)
    BY <1>5, <1>7 DEF Waits
  <2>2. QED
    BY <1>3, <1>5, <1>7, <2>1 DEF Due, s
<1>8. ASSUME NEW c \in Clients
      PROVE  /\ Due(c, r) <= k
             /\ (\A i \in DOMAIN clients : clients[i] # c) => Due(c, r) = k
  <2>1. (\A i \in DOMAIN clients : clients[i] # c) => ~Waits(c, s)
    BY <1>5 DEF Waits
  <2>2. Due(c, r) = IF Waits(c, s) THEN k - 1 ELSE k
    BY DEF Due, s
  <2>3. QED
    BY <1>2, <2>1, <2>2
<1> HIDE DEF k
<1>9. QED
  BY <1>1, <1>2, <1>3, <1>4, <1>5, <1>6, <1>7, <1>8 DEF Going, k, clients, s

\* A step of a run keeps the invariant.
LEMMA RunStep ==
    ASSUME StreamAssumption, IInv, NEW r \in Runs, Publish(r) \/ DrainReturns(r)
    PROVE  IInv'
<1>1. TypeOK
  BY DEF IInv
<1>2. PICK k, clients, opened : Going(r, k, clients, opened)
  BY PublishGoes, DrainGoes
<1>3. TypeOK' /\ LiveOnce' /\ UnderWay' /\ ReplayedOnly' /\ LedgerOpen'
  BY <1>1, <1>2, GoingTypeOK, GoingControl
<1>4. LedgerComplete' /\ UnrecordedBehind' /\ LedgersBehind'
  BY <1>2, GoingLedgerComplete, GoingLedgersBehind
<1>5. ReceivedBehind' /\ StreamInOrder' /\ LiveWanted' /\ CaughtUp' /\ LiveGapless'
  BY <1>2, GoingInOrder, GoingGapless
<1>6. QED
  BY <1>3, <1>4, <1>5 DEF IInv

\* What a cut leaves out of the streams and of the ledger is noted as missing.
LEMMA DrainCutStep ==
    ASSUME StreamAssumption, IInv, NEW r \in Runs, DrainCut(r)
    PROVE  IInv'
<1> DEFINE k == count[r]
           e == Event(r, k)
<1>1. /\ TypeOK /\ LiveOnce /\ UnderWay /\ ReplayedOnly /\ LedgerOpen
      /\ LedgerComplete /\ UnrecordedBehind /\ LedgersBehind /\ ReceivedBehind
      /\ StreamInOrder /\ LiveWanted /\ CaughtUp /\ LiveGapless
  BY DEF IInv
<1>2. /\ todo[r] # <<>> /\ faults < MaxFaults /\ faults' = faults + 1
      /\ todo' = [todo EXCEPT ![r] = <<>>]
      /\ open' \in {open, open \ {r}}
      /\ unrecorded' = unrecorded \cup {e}
      /\ missed' = [c \in Clients |->
                       IF \E i \in 2..Len(todo[r]) : todo[r][i] = c
                       THEN missed[c] \cup {e} ELSE missed[c]]
      /\ UNCHANGED <<count, ledger, subscribed, conn, stalled, received, seam>>
  BY DEF DrainCut
<1>3. /\ k \in 1..MaxEvents /\ k \in Nat /\ e \in Events /\ Through(r) = k - 1
      /\ \A c \in Clients, q \in Runs : Due(c, q) \in Int
  <2>1. \A q \in Runs : count[q] \in 0..MaxEvents /\ MaxEvents \in Nat
    BY <1>1 DEF TypeOK, StreamAssumption
  <2>2. ASSUME NEW c \in Clients, NEW q \in Runs
        PROVE  Due(c, q) \in Int
    <3>1. Due(c, q) = count[q] - 1 \/ Due(c, q) = count[q]
      BY Zenon DEF Due
    <3> HIDE DEF k, e
    <3>2. QED
      BY <2>1, <3>1
  <2>3. k \in 1..MaxEvents /\ k \in Nat /\ Through(r) = k - 1
    <3>1. count[r] > 0
      BY <1>1, <1>2 DEF UnderWay
    <3>2. Through(r) = count[r] - 1
      BY <1>2 DEF Through
    <3> HIDE DEF e
    <3>3. count[r] \in 1..MaxEvents /\ count[r] \in Nat
      BY <2>1, <3>1
    <3>4. QED
      BY <3>2, <3>3
  <2>4. e \in Events
    BY <2>3, EventIs
  <2> HIDE DEF k, e
  <2>5. QED
    BY <2>2, <2>3, <2>4
<1>4. /\ \A q \in Runs : todo'[q] = IF q = r THEN <<>> ELSE todo[q]
      /\ \A q \in Runs : Through(q)' = IF q = r THEN k ELSE Through(q)
  BY <1>1, <1>2, <1>3 DEF TypeOK, Through
<1>5. /\ todo[r] \in Seq(Clients) /\ Len(todo[r]) \in Nat
      /\ DOMAIN todo[r] = 1..Len(todo[r])
  BY <1>1, LenProperties DEF TypeOK
<1>6. \A c \in Clients : missed'[c] = IF Waits(c, todo[r]) THEN missed[c] \cup {e}
                                                          ELSE missed[c]
  <2>1. \A c \in Clients : Waits(c, todo[r])
                              <=> \E i \in 2..Len(todo[r]) : todo[r][i] = c
    BY <1>5 DEF Waits
  <2> HIDE DEF e
  <2>2. QED
    BY <1>2, <2>1
<1>7. \A c \in Clients, q \in Runs : Due(c, q)' = IF q = r THEN k ELSE Due(c, q)
  <2>1. \A c \in Clients : ~Waits(c, <<>>)
    BY EmptySeq DEF Waits
  <2>2. ASSUME NEW c \in Clients, NEW q \in Runs
        PROVE  Due(c, q)' = IF q = r THEN k ELSE Due(c, q)
    <3>1. Waits(c, todo[q])' = (IF q = r THEN FALSE ELSE Waits(c, todo[q]))
      BY <1>4, <2>1 DEF Waits
    <3>2. QED
      BY <1>2, <3>1 DEF Due
  <2>3. QED
    BY <2>2
<1>8. TypeOK'
  <2>1. todo' \in [Runs -> Seq(Clients)]
    BY <1>1, <1>2, EmptySeq DEF TypeOK
  <2>2. faults' \in 0..MaxFaults
    BY <1>1, <1>2 DEF TypeOK, StreamAssumption
  <2>3. missed' \in [Clients -> SUBSET Events] /\ unrecorded' \subseteq Events
    <3>1. \A c \in Clients : missed[c] \in SUBSET Events
      BY <1>1 DEF TypeOK
    <3> HIDE DEF e
    <3>2. QED
      BY <1>1, <1>2, <1>3, <3>1 DEF TypeOK
  <2>4. open' \subseteq Runs
    BY <1>1, <1>2 DEF TypeOK
  <2>5. QED
    BY <1>1, <1>2, <2>1, <2>2, <2>3, <2>4 DEF TypeOK
<1>9. LiveOnce' /\ ReplayedOnly' /\ StreamInOrder' /\ LiveWanted'
  BY <1>1, <1>2 DEF LiveOnce, ReplayedOnly, StreamInOrder, LiveWanted
<1>10. UnderWay' /\ LedgerOpen'
  <2>1. DOMAIN <<>> = {} /\ Distinct(<<>>)
    BY EmptySeq DEF Distinct
  <2>2. UnderWay'
    BY <1>1, <1>2, <1>4, <2>1 DEF UnderWay
  <2>3. LedgerOpen'
    BY <1>1, <1>2, <1>4 DEF LedgerOpen
  <2>4. QED
    BY <2>2, <2>3
<1>11. LedgerComplete' /\ UnrecordedBehind'
  <2>1. ASSUME NEW q \in Runs, q # r
        PROVE  /\ Through(q)' = Through(q)
               /\ ledger'[q] \in {ledger[q], Append(ledger[q], e)}
    <3>1. Through(q)' = Through(q) /\ ledger'[q] = ledger[q]
      BY <1>2, <1>4, <2>1
    <3>2. QED
      BY <3>1
  <2>2. Through(r)' = k
    BY <1>4
  <2>3. ledger'[r] = ledger[r] /\ unrecorded' = unrecorded \cup {e}
    BY <1>2
  <2>4. e = Event(r, k)
    OBVIOUS
  <2> HIDE DEF e, k
  <2>5. QED
    BY <1>1, <1>3, <2>1, <2>2, <2>3, <2>4, CompleteKept
<1>12. LedgersBehind'
  <2>1. ASSUME NEW q \in Runs, NEW p \in Runs, NEW i \in DOMAIN ledger[q],
               ledger[q][i].run = p
        PROVE  ledger[q][i].k <= Through(p)'
    <3>1. ledger[q][i].k <= Through(p) /\ ledger[q][i].k \in Nat
      BY <1>1, <2>1, EventFields DEF LedgersBehind, TypeOK
    <3>2. Through(p) <= Through(p)' /\ Through(p) \in Int /\ Through(p)' \in Int
      <4>1. Through(p) \in Int
        BY <1>1 DEF Through, TypeOK
      <4>2. QED
        BY <1>3, <1>4, <4>1
    <3>3. QED
      BY <3>1, <3>2
  <2>2. QED
    BY <1>1, <1>2, <2>1 DEF LedgersBehind
<1>13. ReceivedBehind'
  <2>1. ASSUME NEW c \in Clients, NEW p \in Runs, NEW i \in DOMAIN received[c],
               received[c][i].run = p
        PROVE  received[c][i].k <= Due(c, p)'
    <3>1. received[c][i].k <= Due(c, p) /\ received[c][i].k \in Nat
      BY <1>1, <2>1, EventFields DEF ReceivedBehind, TypeOK
    <3>2. Due(c, p) <= Due(c, p)' /\ Due(c, p) \in Int /\ Due(c, p)' \in Int
      BY <1>3, <1>7 DEF Due
    <3>3. QED
      BY <3>1, <3>2
  <2>2. QED
    BY <1>2, <2>1 DEF ReceivedBehind
<1>14. CaughtUp'
  <2>1. ASSUME NEW c \in Clients, NEW p \in Runs, conn[c] = "live",
               NEW i \in DOMAIN received[c], i > seam[c], received[c][i].run = p,
               NEW x \in received[c][i].k + 1..Due(c, p)'
        PROVE  \/ \E m \in DOMAIN received[c] :
                      m > i /\ received[c][m].run = p /\ received[c][m].k = x
               \/ Event(p, x) \in missed'[c]
    <3>1. received[c][i].k \in Nat
      BY <1>1, <2>1, EventFields DEF TypeOK
    <3>2. missed[c] \subseteq missed'[c]
      BY <1>6
    <3>3. CASE x \in received[c][i].k + 1..Due(c, p)
      <4>1. \/ \E m \in DOMAIN received[c] :
                  m > i /\ received[c][m].run = p /\ received[c][m].k = x
            \/ Event(p, x) \in missed[c]
        BY <1>1, <2>1, <3>3 DEF CaughtUp
      <4>2. QED
        BY <3>2, <4>1
    <3>4. CASE x \notin received[c][i].k + 1..Due(c, p)
      <4>1. p = r
        BY <1>7, <2>1, <3>4
      <4>2. Due(c, r)' = k
        BY <1>7
      <4>3. Waits(c, todo[r]) /\ x = k
        BY <1>3, <2>1, <3>1, <3>4, <4>1, <4>2 DEF Due
      <4>4. QED
        BY <1>6, <4>1, <4>3
    <3>5. QED
      BY <3>3, <3>4
  <2> HIDE DEF e, k
  <2>2. QED
    BY <1>2, <2>1 DEF CaughtUp
<1>15. LiveGapless'
  <2>1. \A c \in Clients : missed[c] \subseteq missed'[c]
    BY <1>6
  <2> HIDE DEF e, k
  <2>2. received' = received /\ seam' = seam
    BY <1>2
  <2>3. ASSUME NEW c \in Clients, NEW i \in seam'[c] + 1..Len(received'[c]),
               NEW j \in i + 1..Len(received'[c]),
               received'[c][i].run = received'[c][j].run,
               NEW x \in received'[c][i].k + 1..received'[c][j].k - 1
        PROVE  \/ \E m \in i + 1..j - 1 :
                     /\ received'[c][m].run = received'[c][i].run
                     /\ received'[c][m].k = x
               \/ Event(received'[c][i].run, x) \in missed'[c]
    <3>1. /\ i \in seam[c] + 1..Len(received[c]) /\ j \in i + 1..Len(received[c])
          /\ received[c][i].run = received[c][j].run
          /\ x \in received[c][i].k + 1..received[c][j].k - 1
      BY <2>2, <2>3
    <3>2. \/ \E m \in i + 1..j - 1 :
                received[c][m].run = received[c][i].run /\ received[c][m].k = x
          \/ Event(received[c][i].run, x) \in missed[c]
      BY <1>1, <3>1 DEF LiveGapless
    <3>3. QED
      BY <2>1, <2>2, <3>2
  <2>4. QED
    BY <2>3 DEF LiveGapless
<1> HIDE DEF e, k
<1>16. QED
  BY <1>8, <1>9, <1>10, <1>11, <1>12, <1>13, <1>14, <1>15 DEF IInv
-----------------------------------------------------------------------------
(* The clients' actions.                                                   *)

\* What a client does leaves the runs and their ledgers as they are.
LEMMA RunsUntouched ==
    ASSUME IInv, UNCHANGED <<count, todo, ledger, open, losses>>
    PROVE  /\ LedgerOpen' /\ LedgerComplete' /\ UnrecordedBehind' /\ LedgersBehind'
           /\ \A c \in Clients, r \in Runs : Due(c, r)' = Due(c, r)
<1>1. \A r \in Runs : Through(r)' = Through(r)
  BY DEF Through
<1>2. \A c \in Clients, r \in Runs : Due(c, r)' = Due(c, r)
  BY DEF Due, Waits
<1>3. LedgerOpen' /\ LedgersBehind'
  BY <1>1 DEF IInv, LedgerOpen, LedgersBehind
<1>4. LedgerComplete' /\ UnrecordedBehind'
  <2>1. unrecorded' = unrecorded
    BY DEF losses
  <2>2. \A e \in unrecorded : e.run \in Runs
    BY DEF IInv, TypeOK, Events
  <2>3. UnrecordedBehind'
    BY <1>1, <2>1, <2>2 DEF IInv, UnrecordedBehind
  <2>4. LedgerComplete'
    BY <1>1, <2>1 DEF IInv, LedgerComplete, Of
  <2>5. QED
    BY <2>3, <2>4
<1>5. QED
  BY <1>2, <1>3, <1>4

\* A client that was not live is in nobody's list.
LEMMA NotListed ==
    ASSUME IInv, NEW c \in Clients, conn[c] \in {"new", "replaying"}
    PROVE  /\ \A r \in Runs : \A i \in DOMAIN todo[r] : todo[r][i] # c
           /\ \A i \in DOMAIN subscribed : subscribed[i] # c
           /\ \A r \in Runs : Due(c, r) = count[r]
<1>1. \A r \in Runs : \A i \in DOMAIN todo[r] : todo[r][i] # c
  BY DEF IInv, UnderWay
<1>2. \A i \in DOMAIN subscribed : subscribed[i] # c
  BY DEF IInv, LiveOnce
<1>3. QED
  BY <1>1, <1>2 DEF Due, Waits

LEMMA Joins ==
    ASSUME IInv, NEW c \in Clients, conn[c] \in {"new", "replaying"},
           conn' = [conn EXCEPT ![c] = "live"], subscribed' = Append(subscribed, c)
    PROVE  subscribed' \in Seq(Clients) /\ LiveOnce'
<1> DEFINE n == Len(subscribed) + 1
<1>1. /\ TypeOK /\ LiveOnce
      /\ \A i \in DOMAIN subscribed : subscribed[i] # c
  BY NotListed DEF IInv
<1>2. \A x \in Clients : conn'[x] = IF x = c THEN "live" ELSE conn[x]
  BY <1>1 DEF TypeOK
<1>3. /\ subscribed' \in Seq(Clients)
      /\ \A i \in DOMAIN subscribed : i \in DOMAIN subscribed'
                                      /\ subscribed'[i] = subscribed[i]
      /\ \A i \in DOMAIN subscribed' : i \in DOMAIN subscribed \/ i = n
      /\ n \in DOMAIN subscribed' /\ subscribed'[n] = c
  BY <1>1, AppendFacts DEF TypeOK
<1> HIDE DEF n
<1>4. Distinct(subscribed')
  BY <1>1, <1>3 DEF LiveOnce, Distinct
<1>5. ASSUME NEW x \in Clients
      PROVE  conn'[x] = "live" <=> \E i \in DOMAIN subscribed' : subscribed'[i] = x
  BY <1>1, <1>2, <1>3 DEF LiveOnce
<1>6. QED
  BY <1>3, <1>4, <1>5 DEF LiveOnce

\* The new client has a copy of a ledger, which is in order and behind its run.
LEMMA SubscribeStep ==
    ASSUME StreamAssumption, IInv, NEW c \in Clients, Subscribe(c)
    PROVE  IInv'
<1> DEFINE replay == IF ReplayRun[c] = "none" THEN <<>> ELSE ledger[ReplayRun[c]]
<1>1. /\ TypeOK /\ conn[c] = "new" /\ received[c] = <<>>
      /\ LiveOnce /\ UnderWay /\ ReplayedOnly /\ LedgersBehind /\ ReceivedBehind
      /\ StreamInOrder /\ LiveWanted /\ CaughtUp /\ LiveGapless
  BY DEF IInv, Subscribe, ReplayedOnly
<1>2. /\ Write(c, replay) /\ seam' = [seam EXCEPT ![c] = Len(replay)]
      /\ \/ conn' = [conn EXCEPT ![c] = "replaying"] /\ subscribed' = subscribed
         \/ /\ conn' = [conn EXCEPT ![c] = "live"]
            /\ subscribed' = Append(subscribed, c)
      /\ UNCHANGED <<count, todo, ledger, open, stalled, losses>>
  BY DEF Subscribe
<1>3. /\ replay \in Seq(Events) /\ Ordered(replay)
      /\ \A r \in Runs : \A i \in DOMAIN replay :
            replay[i].run = r => replay[i].k <= count[r]
  <2>1. CASE ReplayRun[c] = "none"
    <3>1. replay = <<>> /\ replay \in Seq(Events) /\ DOMAIN replay = {}
      BY <2>1, EmptySeq
    <3>2. QED
      BY <3>1 DEF Ordered
  <2>2. CASE ReplayRun[c] # "none"
    <3>1. ReplayRun[c] \in Runs /\ replay = ledger[ReplayRun[c]]
      BY <2>2 DEF StreamAssumption
    <3> HIDE DEF replay
    <3>2. replay \in Seq(Events) /\ Ordered(replay)
      BY <1>1, <3>1 DEF TypeOK, LedgersBehind
    <3>3. ASSUME NEW r \in Runs, NEW i \in DOMAIN replay, replay[i].run = r
          PROVE  replay[i].k <= count[r]
      <4>1. replay[i].k <= Through(r)
        BY <1>1, <3>1, <3>3 DEF LedgersBehind
      <4>2. replay[i].k \in Nat
        BY <3>2, EventFields
      <4>3. QED
        BY <1>1, <4>1, <4>2 DEF Through, TypeOK
    <3>4. QED
      BY <3>2, <3>3
  <2>3. QED
    BY <2>1, <2>2
<1> HIDE DEF replay
<1>4. /\ \A r \in Runs : \A i \in DOMAIN todo[r] : todo[r][i] # c
      /\ \A r \in Runs : Due(c, r) = count[r]
  BY <1>1, NotListed
<1>5. /\ LedgerOpen' /\ LedgerComplete' /\ UnrecordedBehind' /\ LedgersBehind'
      /\ \A x \in Clients, r \in Runs : Due(x, r)' = Due(x, r)
  BY <1>2, RunsUntouched
<1>6. Len(replay) \in Nat /\ DOMAIN replay = 1..Len(replay)
  BY <1>3, LenProperties
<1>7. \A x \in Clients : received'[x] = IF x = c THEN replay ELSE received[x]
  BY <1>1, <1>2, <1>3, ConcatEmptySeq DEF Write, TypeOK
<1>8. \A x \in Clients : seam'[x] = IF x = c THEN Len(replay) ELSE seam[x]
  BY <1>1, <1>2 DEF TypeOK
<1>9. \A x \in Clients : x # c => conn'[x] = conn[x]
  BY <1>1, <1>2 DEF TypeOK
<1>10. subscribed' \in Seq(Clients) /\ LiveOnce'
  <2>1. CASE conn' = [conn EXCEPT ![c] = "replaying"] /\ subscribed' = subscribed
    <3>1. \A x \in Clients : conn'[x] = "live" <=> conn[x] = "live"
      BY <1>1, <2>1 DEF TypeOK
    <3>2. QED
      BY <1>1, <2>1, <3>1 DEF LiveOnce, TypeOK
  <2>2. CASE conn' = [conn EXCEPT ![c] = "live"] /\ subscribed' = Append(subscribed, c)
    BY <1>1, <2>2, Joins
  <2>3. QED
    BY <1>2, <2>1, <2>2
<1>11. TypeOK'
  <2>1. received' \in [Clients -> Seq(Events)]
    BY <1>1, <1>2, <1>3, <1>7 DEF TypeOK, Write
  <2>2. seam' \in [Clients -> Nat]
    BY <1>1, <1>2, <1>6 DEF TypeOK
  <2>3. conn' \in [Clients -> {"new", "replaying", "live", "gone"}]
    BY <1>1, <1>2 DEF TypeOK
  <2>4. QED
    BY <1>1, <1>2, <1>10, <2>1, <2>2, <2>3 DEF TypeOK, losses
<1>12. UnderWay'
  <2>1. ASSUME NEW r \in Runs, NEW i \in DOMAIN todo[r]
        PROVE  conn'[todo[r][i]] = conn[todo[r][i]]
    <3>1. todo[r][i] \in Clients
      BY <1>1, LenProperties, ElementOfSeq DEF TypeOK
    <3>2. QED
      BY <1>4, <1>9, <3>1
  <2>2. QED
    BY <1>1, <1>2, <2>1 DEF UnderWay
<1>13. ReplayedOnly'
  <2>1. conn'[c] # "new" /\ Len(received'[c]) <= seam'[c]
    BY <1>1, <1>2, <1>6, <1>7, <1>8 DEF TypeOK
  <2>2. QED
    BY <1>1, <1>7, <1>8, <1>9, <2>1 DEF ReplayedOnly
<1>14. ReceivedBehind'
  <2>1. ASSUME NEW x \in Clients, NEW r \in Runs, NEW i \in DOMAIN received'[x],
               received'[x][i].run = r
        PROVE  received'[x][i].k <= Due(x, r)'
    <3>1. Due(x, r)' = Due(x, r)
      BY <1>5
    <3>2. CASE x = c
      <4>1. received'[x] = replay /\ Due(x, r) = count[r]
        BY <1>4, <1>7, <3>2
      <4>2. QED
        BY <1>3, <2>1, <3>1, <4>1
    <3>3. CASE x # c
      <4>1. received'[x] = received[x]
        BY <1>7, <3>3
      <4>2. QED
        BY <1>1, <2>1, <3>1, <4>1 DEF ReceivedBehind
    <3>4. QED
      BY <3>2, <3>3
  <2>2. QED
    BY <2>1 DEF ReceivedBehind
<1>15. StreamInOrder'
  <2>1. \A x \in Clients : Ordered(received[x])
    BY <1>1 DEF StreamInOrder, Ordered
  <2>2. \A x \in Clients : Ordered(received'[x])
    BY <1>3, <1>7, <2>1
  <2>3. QED
    BY <2>2 DEF StreamInOrder, Ordered
<1>16. LiveWanted'
  <2>1. ASSUME NEW x \in Clients, NEW i \in DOMAIN received'[x], i > seam'[x]
        PROVE  Wants(x, received'[x][i].run)
    <3>1. CASE x = c
      <4>1. received'[x] = replay /\ seam'[x] = Len(replay)
        BY <1>7, <1>8, <3>1
      <4>2. QED
        BY <1>6, <2>1, <4>1
    <3>2. CASE x # c
      <4>1. received'[x] = received[x] /\ seam'[x] = seam[x]
        BY <1>7, <1>8, <3>2
      <4>2. QED
        BY <1>1, <2>1, <4>1 DEF LiveWanted
    <3>3. QED
      BY <3>1, <3>2
  <2>2. QED
    BY <2>1 DEF LiveWanted
<1>17. CaughtUp'
  <2>1. ASSUME NEW x \in Clients, NEW r \in Runs, conn'[x] = "live",
               NEW i \in DOMAIN received'[x], i > seam'[x], received'[x][i].run = r,
               NEW k \in received'[x][i].k + 1..Due(x, r)'
        PROVE  \/ \E m \in DOMAIN received'[x] :
                     m > i /\ received'[x][m].run = r /\ received'[x][m].k = k
               \/ Event(r, k) \in missed'[x]
    <3>1. x # c
      BY <1>6, <1>7, <1>8, <2>1
    <3>2. /\ received'[x] = received[x] /\ seam'[x] = seam[x] /\ conn'[x] = conn[x]
          /\ missed'[x] = missed[x] /\ Due(x, r)' = Due(x, r)
      BY <1>2, <1>5, <1>7, <1>8, <1>9, <3>1 DEF losses
    <3>3. /\ conn[x] = "live" /\ i \in DOMAIN received[x] /\ i > seam[x]
          /\ received[x][i].run = r /\ k \in received[x][i].k + 1..Due(x, r)
      BY <2>1, <3>2
    <3>4. \/ \E m \in DOMAIN received[x] :
                m > i /\ received[x][m].run = r /\ received[x][m].k = k
          \/ Event(r, k) \in missed[x]
      BY <1>1, <3>3 DEF CaughtUp
    <3>5. QED
      BY <3>2, <3>4
  <2>2. QED
    BY <2>1 DEF CaughtUp
<1>18. LiveGapless'
  <2>1. ASSUME NEW x \in Clients, x # c
        PROVE  received'[x] = received[x] /\ seam'[x] = seam[x]
    BY <1>7, <1>8, <2>1
  <2>2. \A i \in seam'[c] + 1..Len(received'[c]) : FALSE
    BY <1>6, <1>7, <1>8
  <2>3. ASSUME NEW x \in Clients, NEW i \in seam'[x] + 1..Len(received'[x]),
               NEW j \in i + 1..Len(received'[x]),
               received'[x][i].run = received'[x][j].run,
               NEW k \in received'[x][i].k + 1..received'[x][j].k - 1
        PROVE  \/ \E m \in i + 1..j - 1 :
                     /\ received'[x][m].run = received'[x][i].run
                     /\ received'[x][m].k = k
               \/ Event(received'[x][i].run, k) \in missed'[x]
    <3>1. x # c
      BY <2>2, <2>3
    <3>2. received'[x] = received[x] /\ seam'[x] = seam[x]
      BY <2>1, <3>1
    <3>3. /\ i \in seam[x] + 1..Len(received[x]) /\ j \in i + 1..Len(received[x])
          /\ received[x][i].run = received[x][j].run
          /\ k \in received[x][i].k + 1..received[x][j].k - 1
      BY <2>3, <3>2
    <3>4. \/ \E m \in i + 1..j - 1 :
                received[x][m].run = received[x][i].run /\ received[x][m].k = k
          \/ Event(received[x][i].run, k) \in missed[x]
      BY <1>1, <3>3 DEF LiveGapless
    <3>5. missed' = missed
      BY <1>2 DEF losses
    <3>6. QED
      BY <3>2, <3>4, <3>5
  <2>4. QED
    BY <2>3 DEF LiveGapless
<1>19. QED
  BY <1>5, <1>10, <1>11, <1>12, <1>13, <1>14, <1>15, <1>16, <1>17, <1>18 DEF IInv

\* What a client has received stays as it is when it only joins, leaves, or stops
\* reading.
LEMMA ReceivedUntouched ==
    ASSUME IInv, UNCHANGED <<count, todo, ledger, open, received, seam, losses>>,
           \A c \in Clients : conn'[c] = "live" =>
               conn[c] = "live" \/ Len(received[c]) <= seam[c]
    PROVE  ReceivedBehind' /\ StreamInOrder' /\ LiveWanted' /\ CaughtUp' /\ LiveGapless'
<1>1. \A c \in Clients, r \in Runs : Due(c, r)' = Due(c, r)
  BY RunsUntouched
<1>2. ReceivedBehind' /\ StreamInOrder' /\ LiveWanted' /\ LiveGapless'
  <2>1. received' = received /\ seam' = seam /\ missed' = missed
    BY DEF losses
  <2>2. ReceivedBehind' /\ StreamInOrder' /\ LiveWanted'
    BY <1>1, <2>1 DEF IInv, ReceivedBehind, StreamInOrder, LiveWanted
  <2>3. LiveGapless'
    <3>1. ASSUME NEW c \in Clients, NEW i \in seam[c] + 1..Len(received[c]),
                 NEW j \in i + 1..Len(received[c]),
                 received[c][i].run = received[c][j].run,
                 NEW x \in received[c][i].k + 1..received[c][j].k - 1
          PROVE  \/ \E m \in i + 1..j - 1 :
                       received[c][m].run = received[c][i].run /\ received[c][m].k = x
                 \/ Event(received[c][i].run, x) \in missed[c]
      BY <3>1 DEF IInv, LiveGapless
    <3>2. QED
      BY <2>1, <3>1 DEF LiveGapless
  <2>4. QED
    BY <2>2, <2>3
<1>3. ASSUME NEW c \in Clients, conn'[c] = "live",
             NEW i \in DOMAIN received[c], i > seam[c]
      PROVE  conn[c] = "live"
  <2>1. /\ Len(received[c]) \in Nat /\ DOMAIN received[c] = 1..Len(received[c])
        /\ seam[c] \in Nat
    BY LenProperties DEF IInv, TypeOK
  <2>2. QED
    BY <1>3, <2>1
<1>4. CaughtUp'
  BY <1>1, <1>3 DEF IInv, CaughtUp, losses
<1>5. QED
  BY <1>2, <1>4

LEMMA JoinLiveStep ==
    ASSUME StreamAssumption, IInv, NEW c \in Clients, JoinLive(c)
    PROVE  IInv'
<1>1. /\ TypeOK /\ UnderWay /\ ReplayedOnly /\ conn[c] = "replaying"
      /\ conn' = [conn EXCEPT ![c] = "live"] /\ subscribed' = Append(subscribed, c)
      /\ UNCHANGED <<count, todo, ledger, open, stalled, received, seam, losses>>
  BY DEF IInv, JoinLive
<1>2. \A x \in Clients : conn'[x] = IF x = c THEN "live" ELSE conn[x]
  BY <1>1 DEF TypeOK
<1>3. subscribed' \in Seq(Clients) /\ LiveOnce'
  BY <1>1, Joins
<1>4. TypeOK'
  BY <1>1, <1>3 DEF TypeOK, losses
<1>5. UnderWay'
  <2>1. ASSUME NEW r \in Runs, NEW i \in DOMAIN todo[r]
        PROVE  conn'[todo[r][i]] = conn[todo[r][i]]
    <3>1. todo[r][i] \in Clients
      BY <1>1, LenProperties, ElementOfSeq DEF TypeOK
    <3>2. todo[r][i] # c
      BY <1>1, NotListed
    <3>3. QED
      BY <1>2, <3>1, <3>2
  <2>2. QED
    BY <1>1, <2>1 DEF UnderWay
<1>6. ReplayedOnly'
  BY <1>1, <1>2 DEF ReplayedOnly
<1>7. \A x \in Clients : conn'[x] = "live" =>
          conn[x] = "live" \/ Len(received[x]) <= seam[x]
  BY <1>1, <1>2 DEF ReplayedOnly
<1>8. QED
  BY <1>1, <1>3, <1>4, <1>5, <1>6, <1>7, RunsUntouched, ReceivedUntouched DEF IInv

LEMMA DisconnectStep ==
    ASSUME StreamAssumption, IInv, NEW c \in Clients, Disconnect(c)
    PROVE  IInv'
<1>1. /\ TypeOK /\ LiveOnce /\ UnderWay /\ ReplayedOnly
      /\ conn' = [conn EXCEPT ![c] = "gone"]
      /\ subscribed' = Kept(subscribed, Clients \ {c})
      /\ stalled' = stalled \ {c}
      /\ UNCHANGED <<count, todo, ledger, open, received, seam, losses>>
  BY DEF IInv, Disconnect
<1>2. \A x \in Clients : conn'[x] = IF x = c THEN "gone" ELSE conn[x]
  BY <1>1 DEF TypeOK
<1>3. /\ subscribed' \in Seq(Clients)
      /\ Keeps(subscribed', subscribed, Clients \ {c}, Len(subscribed))
      /\ DOMAIN subscribed = 1..Len(subscribed)
  BY <1>1, KeptMembers, LenProperties DEF TypeOK
<1>4. LiveOnce'
  <2>1. Distinct(subscribed')
    BY <1>1, <1>3 DEF Keeps, LiveOnce
  <2>2. ASSUME NEW x \in Clients
        PROVE  conn'[x] = "live" <=> \E i \in DOMAIN subscribed' : subscribed'[i] = x
    <3>1. (\E i \in DOMAIN subscribed' : subscribed'[i] = x) <=>
              x # c /\ \E j \in DOMAIN subscribed : subscribed[j] = x
      BY <1>3, <2>2 DEF Keeps
    <3>2. conn[x] = "live" <=> \E j \in DOMAIN subscribed : subscribed[j] = x
      BY <1>1 DEF LiveOnce
    <3>3. QED
      BY <1>2, <3>1, <3>2
  <2>3. QED
    BY <2>1, <2>2 DEF LiveOnce
<1>5. TypeOK'
  BY <1>1, <1>3 DEF TypeOK, losses
<1>6. UnderWay'
  <2>1. ASSUME NEW r \in Runs, NEW i \in DOMAIN todo[r]
        PROVE  conn'[todo[r][i]] \in {"live", "gone"}
    <3>1. todo[r][i] \in Clients
      BY <1>1, LenProperties, ElementOfSeq DEF TypeOK
    <3>2. QED
      BY <1>1, <1>2, <3>1 DEF UnderWay
  <2>2. QED
    BY <1>1, <2>1 DEF UnderWay
<1>7. ReplayedOnly'
  BY <1>1, <1>2 DEF ReplayedOnly
<1>8. \A x \in Clients : conn'[x] = "live" => conn[x] = "live"
  BY <1>2
<1>9. QED
  BY <1>1, <1>4, <1>5, <1>6, <1>7, <1>8, RunsUntouched, ReceivedUntouched DEF IInv

LEMMA ReadingStep ==
    ASSUME StreamAssumption, IInv, stalled' \subseteq Stallers,
           UNCHANGED <<count, todo, ledger, open, subscribed, conn, received, seam, losses>>
    PROVE  IInv'
<1>1. TypeOK'
  BY DEF IInv, TypeOK, losses
<1>2. LiveOnce' /\ UnderWay' /\ ReplayedOnly'
  BY DEF IInv, LiveOnce, UnderWay, ReplayedOnly
<1>3. \A x \in Clients : conn'[x] = "live" => conn[x] = "live"
  OBVIOUS
<1>4. QED
  BY <1>1, <1>2, <1>3, RunsUntouched, ReceivedUntouched DEF IInv
-----------------------------------------------------------------------------
(* The theorems.                                                           *)

LEMMA IInvInit == ASSUME StreamAssumption, Init PROVE IInv
<1>1. \A r \in Runs : /\ count[r] = 0 /\ todo[r] = <<>> /\ ledger[r] = <<>>
                      /\ DOMAIN todo[r] = {} /\ DOMAIN ledger[r] = {}
                      /\ Through(r) = 0
  <2>1. \A r \in Runs : count[r] = 0 /\ todo[r] = <<>> /\ ledger[r] = <<>>
    BY DEF Init
  <2>2. \A r \in Runs : Through(r) = 0
    BY <2>1 DEF Through
  <2>3. DOMAIN <<>> = {}
    OBVIOUS
  <2>4. \A r \in Runs : DOMAIN todo[r] = {} /\ DOMAIN ledger[r] = {}
    <3>1. TAKE r \in Runs
    <3>2. todo[r] = <<>> /\ ledger[r] = <<>>
      BY <2>1
    <3>3. QED
      BY <2>3, <3>2, Zenon
  <2>5. QED
    BY <2>1, <2>2, <2>3, <2>4
<1>2. \A c \in Clients : /\ conn[c] = "new" /\ received[c] = <<>> /\ seam[c] = 0
                         /\ DOMAIN received[c] = {} /\ Len(received[c]) = 0
  BY EmptySeq DEF Init
<1>3. subscribed = <<>> /\ DOMAIN subscribed = {}
  BY EmptySeq DEF Init
<1>4. TypeOK
  BY EmptySeq DEF Init, TypeOK, StreamAssumption
<1>5. LiveOnce /\ UnderWay /\ ReplayedOnly /\ LedgerOpen /\ UnrecordedBehind
  <2>1. LiveOnce /\ UnderWay /\ ReplayedOnly /\ LedgerOpen
    BY <1>1, <1>2, <1>3 DEF LiveOnce, UnderWay, ReplayedOnly, LedgerOpen, Distinct
  <2>2. UnrecordedBehind
    BY DEF Init, UnrecordedBehind
  <2>3. QED
    BY <2>1, <2>2
<1>6. LedgerComplete
  <2>1. ASSUME NEW r \in Runs
        PROVE  Of(r, ledger[r]) =
                   Kept([k \in 1..Through(r) |-> Event(r, k)],
                        Events \ unrecorded)
    <3>1. Of(r, ledger[r]) = <<>>
      BY <1>1, KeptEmpty DEF Of
    <3>2. [k \in 1..Through(r) |-> Event(r, k)] = <<>>
      BY <1>1
    <3>3. QED
      BY <3>1, <3>2, KeptEmpty
  <2>2. QED
    BY <2>1 DEF LedgerComplete
<1>7. LedgersBehind
  BY <1>1 DEF LedgersBehind, Ordered
<1>8. ReceivedBehind /\ StreamInOrder /\ LiveWanted /\ CaughtUp /\ LiveGapless
  BY <1>2 DEF ReceivedBehind, StreamInOrder, LiveWanted, CaughtUp, LiveGapless
<1>9. QED
  BY <1>4, <1>5, <1>6, <1>7, <1>8 DEF IInv

LEMMA IInvStep == ASSUME StreamAssumption, IInv, [Next]_vars PROVE IInv'
<1>1. stalled \subseteq Stallers
  BY DEF IInv, TypeOK
<1>2. CASE \E r \in Runs : Publish(r) \/ DrainReturns(r)
  BY <1>2, RunStep
<1>3. CASE \E c \in Clients : Subscribe(c)
  BY <1>3, SubscribeStep
<1>4. CASE \E c \in Clients : JoinLive(c)
  BY <1>4, JoinLiveStep
<1>5. CASE \E c \in Clients : Disconnect(c)
  BY <1>5, DisconnectStep
<1>6. CASE \E c \in Clients : Stall(c) \/ ReadAgain(c)
  <2>1. /\ stalled' \subseteq Stallers
        /\ UNCHANGED <<count, todo, ledger, open, subscribed, conn, received, seam, losses>>
    BY <1>1, <1>6 DEF Stall, ReadAgain
  <2>2. QED
    BY <2>1, ReadingStep
<1>7. CASE UNCHANGED vars
  <2>1. /\ stalled' \subseteq Stallers
        /\ UNCHANGED <<count, todo, ledger, open, subscribed, conn, received, seam, losses>>
    BY <1>1, <1>7 DEF vars
  <2>2. QED
    BY <2>1, ReadingStep
<1>8. CASE \E r \in Runs : DrainCut(r)
  BY <1>8, DrainCutStep
<1>9. QED
  BY <1>2, <1>3, <1>4, <1>5, <1>6, <1>7, <1>8 DEF Next

LEMMA Inductive == Spec => []IInv
<1>1. Init => IInv
  BY IInvInit, StreamAssumption
<1>2. IInv /\ [Next]_vars => IInv'
  BY IInvStep, StreamAssumption
<1>3. QED
  BY <1>1, <1>2, PTL DEF Spec

\* Every variable keeps its type: no event past run.finished, no client in a
\* broadcast that never connected.
THEOREM TypeCorrect == Spec => []TypeOK
<1>1. IInv => TypeOK
  BY DEF IInv
<1>2. QED
  BY <1>1, Inductive, PTL

\* A run's events.jsonl has each event of the run that is through, once and in
\* order, although publish stops at every client on the way to the ledger and any
\* client may break off there; it lacks exactly the events whose publication was
\* cancelled there or whose write failed, and nothing that comes after them.
THEOREM LedgersAreComplete == Spec => []LedgerComplete
<1>1. IInv => LedgerComplete
  BY DEF IInv
<1>2. QED
  BY <1>1, Inductive, PTL

\* No client gets an event of a run twice or late, across the seam of its replay
\* too: what it has never reaches beyond what the broadcast it is in has written.
THEOREM StreamsStayInOrder == Spec => []StreamInOrder
<1>1. IInv => StreamInOrder
  BY DEF IInv
<1>2. QED
  BY <1>1, Inductive, PTL

\* A client that has begun to follow a run live misses no event of it, whichever
\* other clients join or leave the list that broadcasts under way were copied from,
\* but an event cut off by a cancellation while the client waited for its turn.
THEOREM LiveStreamsAreGapless == Spec => []LiveGapless
<1>1. IInv => LiveGapless
  BY DEF IInv
<1>2. QED
  BY <1>1, Inductive, PTL
=============================================================================
