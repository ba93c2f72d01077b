------------------------------- MODULE CallLine -------------------------------
(***************************************************************************)
(* The life of one voice line as the rest of the system may rely on it,    *)
(* without agents, queues, presence or conversation status: a line rings   *)
(* or is up, it stops once and for ever, and the step that hangs up a call *)
(* that was up is the step that owes its finalization.  FinalizeJobs names *)
(* a job by its call because CallDesk implements this.                     *)
(***************************************************************************)
EXTENDS Naturals

CONSTANT Calls

VARIABLES line,   \* "none", "ringing", "up", "ended" or "refused"
          owed    \* finalizations created for the call

vars == <<line, owed>>

Init ==
    /\ line = [c \in Calls |-> "none"]
    /\ owed = [c \in Calls |-> 0]

\* An inbound call rings, or an outbound call is up as soon as it is dialled.
Begin(c) ==
    /\ line[c] = "none"
    /\ \E l \in {"ringing", "up"} : line' = [line EXCEPT ![c] = l]
    /\ UNCHANGED owed

\* Somebody answers, or refuses, a ringing line.
Answer(c) ==
    /\ line[c] = "ringing"
    /\ \E l \in {"up", "refused"} : line' = [line EXCEPT ![c] = l]
    /\ UNCHANGED owed

\* The line is hung up and its finalization owed, in one step.
HangUp(c) ==
    /\ line[c] = "up"
    /\ line' = [line EXCEPT ![c] = "ended"]
    /\ owed' = [owed EXCEPT ![c] = @ + 1]

Next == \E c \in Calls : Begin(c) \/ Answer(c) \/ HangUp(c)

Spec == Init /\ [][Next]_vars
=============================================================================
