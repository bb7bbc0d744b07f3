------------------------------ MODULE MCEvents ------------------------------
(* Instances of EventStream for TLC. *)
EXTENDS EventStream, TLC

\* Kept selects what SelectSeq selects.
ASSUME KeptSelects ==
    \A n \in 0..4 : \A s \in [1..n -> 1..4] : \A S \in SUBSET (1..4) :
        Kept(s, S) = SelectSeq(s, LAMBDA x : x \in S)

\* One client replays a run and follows everything; the other follows that run only.
MixedScope == ("c1" :> "global") @@ ("c2" :> "r1")
MixedReplay == ("c1" :> "r1") @@ ("c2" :> "none")

\* The run of both clients has an event between its first and its last.
MixedLength == ("r1" :> 3) @@ ("r2" :> 2)

\* A client that follows one run after its replay.
FirstRun == [c \in Clients |-> "r1"]
FullLength == [r \in Runs |-> MaxEvents]
=============================================================================
