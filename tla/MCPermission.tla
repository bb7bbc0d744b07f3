---------------------------- MODULE MCPermission ----------------------------
(* Instances of PermissionManager for TLC. *)
EXTENDS PermissionManager, TLC

Ask(s, t, k) == [session |-> s, tool |-> t, kind |-> k]

\* Two sessions contend for one tool.
OneTool == <<"bash">>
Contention == {Ask("s1", "bash", "plain"), Ask("s2", "bash", "plain")}

OneRequest == {Ask("s1", "bash", "plain")}

\* A command of every class, and a second tool in the policy file.
TwoTools == <<"bash", "write_file">>
EveryKind ==
    {Ask("s1", "bash", k) : k \in Kinds} \cup {Ask("s1", "write_file", "plain")}

AskByDefault == [t \in Tools |-> "ask"]

SymCalls == Permutations(Calls)
=============================================================================
