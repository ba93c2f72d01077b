------------------------------- MODULE CallDesk -------------------------------
(***************************************************************************)
(* The conversations, voice sessions and agent presence of                 *)
(* services/platform-api/app/main.py: how a voice call or a web chat       *)
(* enters the queue, is assigned, claimed or rejected, held, hung up and   *)
(* wrapped up.                                                             *)
(*                                                                         *)
(* Each handler is one action.  The async handlers do all their database   *)
(* work before their first await, in the one API process that is deployed, *)
(* so no two of them interleave.  update_presence runs in a thread beside  *)
(* them, and the worker in another process; each writes its columns in one *)
(* commit and reads nothing it then relies on.                             *)
(***************************************************************************)
EXTENDS Naturals

CONSTANTS Calls,     \* conversations of one tenant
          Agents,    \* its users of role AGENT
          Members,   \* those that are members of its queue
          NoAgent,   \* assigned_user_id is null
          NoCall     \* current_conversation_id is null

ASSUME DeskAssumption ==
    /\ Members \subseteq Agents
    /\ NoAgent \notin Agents
    /\ NoCall \notin Calls

VARIABLES
    kind,        \* Conversation.channel, "none" before the row exists
    rostered,    \* conversations with a queue_id
    status,      \* Conversation.status
    assignee,    \* Conversation.assigned_user_id
    disposition, \* Conversation.disposition
    summary,     \* who wrote Conversation.summary last
    session,     \* VoiceSession.state, "none" when there is no row
    jobs,        \* voice.finalize jobs created for the conversation
    presence,    \* AgentPresence.status
    current      \* AgentPresence.current_conversation_id

conversationVars == <<kind, rostered, status, assignee, disposition, summary>>
lineVars == <<session, jobs>>
presenceVars == <<presence, current>>
vars == <<conversationVars, lineVars, presenceVars>>

AgentStatus == {"offline", "available", "busy", "wrap_up", "break"}
Live == {"active", "held"}

TypeOK ==
    /\ kind \in [Calls -> {"none", "voice", "chat"}]
    /\ rostered \subseteq Calls
    /\ status \in [Calls -> {"none", "queued", "active", "wrap_up", "closed", "failed"}]
    /\ assignee \in [Calls -> Agents \cup {NoAgent}]
    /\ disposition \in [Calls -> {"none", "rejected", "resolved"}]
    /\ summary \in [Calls -> {"none", "agent", "worker"}]
    /\ session \in [Calls -> {"none", "ringing", "active", "held", "ended", "rejected"}]
    /\ jobs \in [Calls -> Nat]
    /\ presence \in [Agents -> AgentStatus]
    /\ current \in [Agents -> Calls \cup {NoCall}]

Init ==
    /\ kind = [c \in Calls |-> "none"]
    /\ rostered = {}
    /\ status = [c \in Calls |-> "none"]
    /\ assignee = [c \in Calls |-> NoAgent]
    /\ disposition = [c \in Calls |-> "none"]
    /\ summary = [c \in Calls |-> "none"]
    /\ session = [c \in Calls |-> "none"]
    /\ jobs = [c \in Calls |-> 0]
    /\ presence = [a \in Agents |-> "offline"]
    /\ current = [a \in Agents |-> NoCall]

-----------------------------------------------------------------------------
(* Conversations are created. *)

\* A new row on channel k, unassigned and queued, in the queue or in none.
Enqueue(c, k, inQueue) ==
    /\ kind[c] = "none"
    /\ kind' = [kind EXCEPT ![c] = k]
    /\ rostered' = IF inQueue THEN rostered \cup {c} ELSE rostered
    /\ status' = [status EXCEPT ![c] = "queued"]
    /\ UNCHANGED <<assignee, disposition, summary, jobs, presenceVars>>

\* An agent that holds an ACTIVE conversation may not dial or register a call.
HasActive(a) == \E c \in Calls : assignee[c] = a /\ status[c] = "active"

\* create_conversation takes any channel, with or without a queue, and creates
\* no voice session; start_public_chat always names the queue.
CreateConversation(c, k, inQueue) ==
    /\ Enqueue(c, k, inQueue)
    /\ UNCHANGED session

\* simulate_inbound_voice, and register_live_inbound_voice by an agent that
\* has no active conversation.
RingInbound(c) ==
    /\ Enqueue(c, "voice", TRUE)
    /\ session' = [session EXCEPT ![c] = "ringing"]

RegisterLiveInbound(c, a) ==
    /\ ~HasActive(a)
    /\ RingInbound(c)

\* a's presence row follows the conversation it was just given.
Occupy(a, c) ==
    /\ presence' = [presence EXCEPT ![a] = "busy"]
    /\ current' = [current EXCEPT ![a] = c]

\* dial_voice: the conversation is born active and assigned, the session up.
Dial(c, a) ==
    /\ kind[c] = "none"
    /\ ~HasActive(a)
    /\ kind' = [kind EXCEPT ![c] = "voice"]
    /\ rostered' = rostered \cup {c}
    /\ status' = [status EXCEPT ![c] = "active"]
    /\ assignee' = [assignee EXCEPT ![c] = a]
    /\ session' = [session EXCEPT ![c] = "active"]
    /\ Occupy(a, c)
    /\ UNCHANGED <<disposition, summary, jobs>>

-----------------------------------------------------------------------------
(* They find an agent, or are refused. *)

\* Mutant: assigning a voice call also answers it.
AssignAnswers(c, a) ==
    /\ kind[c] # "none"
    /\ assignee' = [assignee EXCEPT ![c] = a]
    /\ status' = [status EXCEPT ![c] = "active"]
    /\ session' = [session EXCEPT ![c] = IF @ = "none" THEN @ ELSE "active"]
    /\ Occupy(a, c)
    /\ UNCHANGED <<kind, rostered, disposition, summary, jobs>>

\* assign_conversation: a supervisor, whatever the conversation's status.  The
\* voice session and the presence of an earlier assignee are left alone.
Assign(c, a) ==
    /\ kind[c] # "none"
    /\ assignee' = [assignee EXCEPT ![c] = a]
    /\ status' = [status EXCEPT ![c] = "active"]
    /\ Occupy(a, c)
    /\ UNCHANGED <<kind, rostered, disposition, summary, lineVars>>

\* Queue membership is asked of a conversation that has a queue.
MayTake(a, c) == c \in rostered => a \in Members

\* Mutant: the status is not set.
ClaimStaysQueued(c, a) ==
    /\ status[c] = "queued" /\ assignee[c] = NoAgent
    /\ MayTake(a, c)
    /\ assignee' = [assignee EXCEPT ![c] = a]
    /\ session' = [session EXCEPT ![c] = IF @ = "none" THEN @ ELSE "active"]
    /\ Occupy(a, c)
    /\ UNCHANGED <<kind, rostered, status, disposition, summary, jobs>>

\* claim_conversation.
Claim(c, a) ==
    /\ status[c] = "queued" /\ assignee[c] = NoAgent
    /\ MayTake(a, c)
    /\ assignee' = [assignee EXCEPT ![c] = a]
    /\ status' = [status EXCEPT ![c] = "active"]
    /\ session' = [session EXCEPT ![c] = IF @ = "none" THEN @ ELSE "active"]
    /\ Occupy(a, c)
    /\ UNCHANGED <<kind, rostered, disposition, summary, jobs>>

\* Mutant: any queued conversation may be rejected.
RejectAny(c, a) ==
    /\ status[c] = "queued"
    /\ MayTake(a, c)
    /\ status' = [status EXCEPT ![c] = "failed"]
    /\ disposition' = [disposition EXCEPT ![c] = "rejected"]
    /\ session' = [session EXCEPT ![c] = "rejected"]
    /\ UNCHANGED <<kind, rostered, assignee, summary, jobs, presenceVars>>

\* reject_inbound_voice.
Reject(c, a) ==
    /\ status[c] = "queued" /\ session[c] # "none"
    /\ MayTake(a, c)
    /\ status' = [status EXCEPT ![c] = "failed"]
    /\ disposition' = [disposition EXCEPT ![c] = "rejected"]
    /\ session' = [session EXCEPT ![c] = "rejected"]
    /\ UNCHANGED <<kind, rostered, assignee, summary, jobs, presenceVars>>

-----------------------------------------------------------------------------
(* The assigned agent works the call. *)

\* Mutant: a call that ended may still be controlled.
MayControlEnded(c, a) == assignee[c] = a /\ session[c] # "none"

\* The tests control_voice makes for every one of its commands.
MayControl(c, a) == assignee[c] = a /\ session[c] \in Live

\* control_voice: hold and resume (mute and transfer set only a flag).
SetHeld(c, a, state) ==
    /\ MayControl(c, a)
    /\ session' = [session EXCEPT ![c] = state]
    /\ UNCHANGED <<conversationVars, jobs, presenceVars>>

\* control_voice: hangup, which commits the ended session, the conversation's
\* status and the finalization job together.
HangUp(c, a) ==
    /\ MayControl(c, a)
    /\ session' = [session EXCEPT ![c] = "ended"]
    /\ status' = [status EXCEPT ![c] = "wrap_up"]
    /\ presence' = [presence EXCEPT ![a] = "wrap_up"]
    /\ current' = [current EXCEPT ![a] = c]
    /\ jobs' = [jobs EXCEPT ![c] = @ + 1]
    /\ UNCHANGED <<kind, rostered, assignee, disposition, summary>>

\* Mutant: the closed conversation is released.
WrapUpReleases(c) ==
    /\ status[c] \in {"active", "wrap_up"}
    /\ status' = [status EXCEPT ![c] = "closed"]
    /\ disposition' = [disposition EXCEPT ![c] = "resolved"]
    /\ summary' = [summary EXCEPT ![c] = "agent"]
    /\ assignee' = [assignee EXCEPT ![c] = NoAgent]
    /\ UNCHANGED <<kind, rostered, lineVars, presenceVars>>

\* wrap_up_conversation, by the assigned agent or anyone who supervises.
WrapUp(c) ==
    /\ status[c] \in {"active", "wrap_up"}
    /\ status' = [status EXCEPT ![c] = "closed"]
    /\ disposition' = [disposition EXCEPT ![c] = "resolved"]
    /\ summary' = [summary EXCEPT ![c] = "agent"]
    /\ IF assignee[c] = NoAgent THEN UNCHANGED presenceVars
       ELSE /\ presence' = [presence EXCEPT ![assignee[c]] = "wrap_up"]
            /\ current' = [current EXCEPT ![assignee[c]] = NoCall]
    /\ UNCHANGED <<kind, rostered, assignee, lineVars>>

\* update_presence: any status, at any time, the current conversation untouched.
UpdatePresence(a, s) ==
    /\ presence' = [presence EXCEPT ![a] = s]
    /\ UNCHANGED <<conversationVars, lineVars, current>>

\* The worker's finalizer writes its own summary over whatever is there
\* (FinalizeJobs says how often).
WriteSummary(c) ==
    /\ jobs[c] > 0
    /\ summary' = [summary EXCEPT ![c] = "worker"]
    /\ UNCHANGED <<kind, rostered, status, assignee, disposition, lineVars, presenceVars>>

Next ==
    \E c \in Calls :
        \/ \E k \in {"voice", "chat"}, q \in BOOLEAN : CreateConversation(c, k, q)
        \/ RingInbound(c) \/ WrapUp(c) \/ WriteSummary(c)
        \/ \E a \in Agents :
              \/ RegisterLiveInbound(c, a) \/ Dial(c, a)
              \/ Assign(c, a) \/ Claim(c, a) \/ Reject(c, a)
              \/ \E s \in Live : SetHeld(c, a, s)
              \/ HangUp(c, a)
              \/ \E s \in AgentStatus : UpdatePresence(a, s)

Spec == Init /\ [][Next]_vars

-----------------------------------------------------------------------------
(* What a voice line promises: CallLine. *)

Line == [c \in Calls |->
    IF session[c] \in Live THEN "up"
    ELSE IF session[c] = "rejected" THEN "refused" ELSE session[c]]

OneLine == INSTANCE CallLine WITH line <- Line, owed <- jobs

\* A session that ended or was rejected stays so, through every later assign,
\* claim and wrap-up of its conversation, and a finalization job is created in
\* the step that hangs up and in no other.
CallLineSpec == OneLine!Spec

-----------------------------------------------------------------------------
(* Safety. *)

\* A conversation has an agent exactly while, or after, one worked on it; only
\* unassigned work is offered in the queue, and only unassigned work is refused,
\* so no claim, dial or reject ever takes a conversation from the agent that
\* has it.
AssignedIffWorked ==
    \A c \in Calls : assignee[c] = NoAgent <=> status[c] \in {"none", "queued", "failed"}

\* Exactly the hung-up calls have a finalization job, and each has one.
OneJobPerCall ==
    \A c \in Calls : jobs[c] = IF session[c] = "ended" THEN 1 ELSE 0

\* A conversation that left the desk says how: a rejected call was refused while
\* it rang, and a closed one has a disposition and somebody's summary.
DepartedIsDisposed ==
    \A c \in Calls :
        /\ status[c] = "failed" => session[c] = "rejected" /\ disposition[c] = "rejected"
        /\ status[c] = "closed" => disposition[c] = "resolved" /\ summary[c] # "none"

\* A call whose line is up or on hold has an agent who can hang it up, and one
\* that still rings in the queue has none.
LiveCallHasOwner ==
    \A c \in Calls :
        /\ session[c] \in Live => assignee[c] # NoAgent
        /\ session[c] # "none" /\ status[c] = "queued" => session[c] = "ringing"

\* A conversation never changes hands behind the back of the agent who gets it:
\* in that very step its presence shows it busy with that conversation.
NewOwnerIsOccupied ==
    [][\A c \in Calls : assignee'[c] # assignee[c] =>
          /\ presence'[assignee'[c]] = "busy"
          /\ current'[assignee'[c]] = c]_vars

\* A row that does not exist has no status, and only a voice row has a session.
SessionIsVoice ==
    \A c \in Calls :
        /\ kind[c] = "none" <=> status[c] = "none"
        /\ session[c] # "none" => kind[c] = "voice"

IInv ==
    /\ TypeOK /\ SessionIsVoice
    /\ AssignedIffWorked /\ OneJobPerCall /\ DepartedIsDisposed /\ LiveCallHasOwner

-----------------------------------------------------------------------------
(* What a message of the code says, refuted by what the code does. *)

\* main.py:488, "Voice call has already ended": an agent refused a command on a
\* call assigned to it has a call that ended.
RefusedControlHasEnded ==
    \A c \in Calls :
        assignee[c] # NoAgent /\ session[c] \notin Live \cup {"none"}
            => session[c] \in {"ended", "rejected"}
=============================================================================
