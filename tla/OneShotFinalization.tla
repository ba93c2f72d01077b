-------------------------- MODULE OneShotFinalization --------------------------
(***************************************************************************)
(* What post-call finalization promises about one call, without workers,   *)
(* attempts or locks: an opened job ends once, either done or given up,    *)
(* and the call's evidence appears at most once, in the very step that     *)
(* reports success.  FinalizeJobs implements it when one worker process    *)
(* runs, which is what docker-compose.yml deploys.                         *)
(***************************************************************************)
CONSTANT Calls

VARIABLES verdict,    \* "none", "open", "succeeded" or "failed"
          evidence    \* calls whose evidence is published

vars == <<verdict, evidence>>

Init ==
    /\ verdict = [c \in Calls |-> "none"]
    /\ evidence = {}

\* The call ends and its finalization is owed.
Open(c) ==
    /\ verdict[c] = "none"
    /\ verdict' = [verdict EXCEPT ![c] = "open"]
    /\ UNCHANGED evidence

\* The evidence is published and success reported, together.
Publish(c) ==
    /\ verdict[c] = "open" /\ c \notin evidence
    /\ verdict' = [verdict EXCEPT ![c] = "succeeded"]
    /\ evidence' = evidence \cup {c}

\* Success is reported because other rows already stand for the evidence.
Waive(c) ==
    /\ verdict[c] = "open" /\ c \notin evidence
    /\ verdict' = [verdict EXCEPT ![c] = "succeeded"]
    /\ UNCHANGED evidence

\* Every attempt is used up.
GiveUp(c) ==
    /\ verdict[c] = "open" /\ c \notin evidence
    /\ verdict' = [verdict EXCEPT ![c] = "failed"]
    /\ UNCHANGED evidence

Next == \E c \in Calls : Open(c) \/ Publish(c) \/ Waive(c) \/ GiveUp(c)

Spec == Init /\ [][Next]_vars
=============================================================================
