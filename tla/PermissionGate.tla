--------------------------- MODULE PermissionGate ---------------------------
(***************************************************************************)
(* What the permission manager promises to the rest of the daemon: which   *)
(* tool calls may be allowed, given what the user has ever decided.  No    *)
(* caches, futures, timers, files or restarts: PermissionManager has those *)
(* and implements this specification.                                      *)
(***************************************************************************)
CONSTANTS Calls, Tools, Requests, Default

VARIABLES
    verdict,  \* what became of a call
    asked,    \* the request behind a call that was put to the user or judged
    said      \* <<tool, standing>> for every always-decision ever given

vars == <<verdict, asked, said>>

Verdicts == {"none", "asked", "allowed", "refused"}
NoRequest == [session |-> "none", tool |-> "none", kind |-> "none"]

\* A call may be allowed without asking only inside the working directory, and
\* only by the policy or by a standing permission the user gave for the tool.
MayAllow(q) ==
    /\ q.kind \notin {"deny_pattern", "outside_cwd"}
    /\ \/ q.kind = "allow_pattern"
       \/ Default[q.tool] = "allow"
       \/ <<q.tool, "allow">> \in said

\* A call may be refused without asking only by a deny pattern, the policy or
\* a standing refusal.  A call that leaves the directory is always put to the
\* user.
MayRefuse(q) ==
    \/ q.kind = "deny_pattern"
    \/ /\ q.kind # "outside_cwd"
       /\ \/ Default[q.tool] = "deny"
          \/ <<q.tool, "deny">> \in said

Init ==
    /\ verdict = [c \in Calls |-> "none"]
    /\ asked = [c \in Calls |-> NoRequest]
    /\ said \subseteq Tools \X {"allow", "deny"}

Judge(c, q) ==
    /\ verdict[c] = "none"
    /\ asked' = [asked EXCEPT ![c] = q]
    /\ \/ MayAllow(q) /\ verdict' = [verdict EXCEPT ![c] = "allowed"]
       \/ MayRefuse(q) /\ verdict' = [verdict EXCEPT ![c] = "refused"]
       \/ /\ q.kind # "deny_pattern"
          /\ verdict' = [verdict EXCEPT ![c] = "asked"]
    /\ UNCHANGED said

\* The user's answer is the only way from "asked" to "allowed".
Answer(c, d) ==
    /\ verdict[c] = "asked"
    /\ verdict' = [verdict EXCEPT ![c] =
          IF d \in {"allow_once", "always_allow"} THEN "allowed" ELSE "refused"]
    /\ said' = said \cup
          (CASE d = "always_allow" -> {<<asked[c].tool, "allow">>}
             [] d = "always_deny"  -> {<<asked[c].tool, "deny">>}
             [] OTHER              -> {})
    /\ UNCHANGED asked

\* Timeouts, cancellation and the death of the daemon only ever refuse.
GiveUp(S) ==
    /\ \A c \in S : verdict[c] = "asked"
    /\ verdict' = [c \in Calls |-> IF c \in S THEN "refused" ELSE verdict[c]]
    /\ UNCHANGED <<asked, said>>

Next ==
    \/ \E c \in Calls, q \in Requests : Judge(c, q)
    \/ \E c \in Calls,
          d \in {"allow_once", "always_allow", "deny_once", "always_deny"} :
          Answer(c, d)
    \/ \E S \in SUBSET Calls : GiveUp(S)

Spec == Init /\ [][Next]_vars
=============================================================================
