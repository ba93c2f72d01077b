------------------------------ MODULE ChatThread ------------------------------
(***************************************************************************)
(* The messages of a web chat, its survey and the customer's widget:       *)
(* services/platform-api/app/main.py and CustomerWidget of                 *)
(* apps/console/src/App.tsx.  The desk is CallDesk's.                      *)
(*                                                                         *)
(* The handlers that write chats are async and run to their commit without *)
(* an await, so the one event loop of the API serves one at a time.  The   *)
(* two that send a message are two steps here, what they check and read    *)
(* and what they commit, for this is what the threads depend on: no key of *)
(* the table guards the numbers.  The survey is a plain function and runs  *)
(* in a thread beside them.                                                *)
(***************************************************************************)
EXTENDS Naturals, Sequences, FiniteSets, FiniteSetsExt, SequencesExt, Functions

CONSTANTS Calls, Agents, Members, NoAgent, NoCall, \* as in CallDesk, all calls chats
          Supervisors, \* users that may speak in every chat
          Customer,    \* the sender of a customer's messages
          MaxMessages, \* messages in all threads (a bound)
          MaxPolls     \* polls a widget has under way when it starts another (a bound)

ASSUME ThreadAssumption ==
    /\ Members \subseteq Agents /\ NoAgent \notin Agents /\ NoCall \notin Calls
    /\ Agents \cap Supervisors = {}
    /\ Customer \notin Agents \cup Supervisors

VARIABLES
    kind, rostered, status, assignee, disposition, summary, session, jobs,
    presence, current, \* CallDesk's
    thread,    \* messages of a conversation, in the order of their commits
    handling,  \* message handlers between their checks and their commit
    admitted,  \* chats with a ChatSession that is still valid
    surveying, \* chats whose survey handler is between its check and its commit
    rated,     \* chats with a rating
    widget,    \* what the customer's widget shows: messages, and the status
    polls      \* answers on their way to it

deskVars == <<kind, rostered, status, assignee, disposition, summary, session, jobs,
              presence, current>>
threadVars == <<thread, handling, admitted>>
customerVars == <<surveying, rated, widget, polls>>
vars == <<deskVars, threadVars, customerVars>>

Desk == INSTANCE CallDesk

Speakers == Agents \cup Supervisors \cup {Customer}
Messages == [from : Speakers, number : Nat]
Handlers == [chat : Calls, from : Speakers, number : Nat]
Views == [count : Nat, status : {"none", "queued", "active", "wrap_up", "closed", "failed"}]

TypeOK ==
    /\ Desk!TypeOK
    /\ thread \in [Calls -> Seq(Messages)]
    /\ handling \subseteq Handlers
    /\ admitted \subseteq Calls /\ surveying \subseteq Calls /\ rated \subseteq Calls
    /\ widget \in [Calls -> Views]
    /\ polls \in [Calls -> Seq(Views)]

Init ==
    /\ Desk!Init
    /\ thread = [c \in Calls |-> <<>>]
    /\ handling = {} /\ admitted = {} /\ surveying = {} /\ rated = {}
    /\ widget = [c \in Calls |-> [count |-> 0, status |-> "none"]]
    /\ polls = [c \in Calls |-> <<>>]

\* The event loop of the API is between two handlers.
LoopIsFree == handling = {}

-----------------------------------------------------------------------------
(* The desk's handlers, for chats. *)

\* start_public_chat, by a widget, with the customer's first message.
StartChat(c) ==
    /\ LoopIsFree
    /\ Desk!CreateConversation(c, "chat", TRUE)
    /\ thread' = [thread EXCEPT ![c] = <<[from |-> Customer, number |-> 1]>>]
    /\ admitted' = admitted \cup {c}
    /\ UNCHANGED <<handling, customerVars>>

\* Mutant: the handler is a plain function and runs beside the event loop.
WrapUpInThread(c) == Desk!WrapUp(c)

WrapUp(c) == LoopIsFree /\ Desk!WrapUp(c)

\* create_conversation (in a thread: a chat without a customer), assign, claim,
\* wrap up.
DeskStep(c) ==
    /\ \/ \E q \in BOOLEAN : Desk!CreateConversation(c, "chat", q)
       \/ LoopIsFree /\ \E a \in Agents : Desk!Assign(c, a) \/ Desk!Claim(c, a)
       \/ WrapUp(c)
    /\ UNCHANGED <<threadVars, customerVars>>

-----------------------------------------------------------------------------
(* Messages. *)

\* send_customer_message asks for a valid session and an open chat,
\* send_agent_message for an active chat that the sender may work on.
MaySpeak(u, c) ==
    IF u = Customer THEN c \in admitted /\ status[c] \in {"queued", "active"}
    ELSE status[c] = "active" /\ (u \in Agents => assignee[c] = u)

\* max(sequence) + 1.
NextNumber(c) ==
    IF thread[c] = <<>> THEN 1 ELSE Max({thread[c][i].number : i \in DOMAIN thread[c]}) + 1

HasRoom == SumFunction([c \in Calls |-> Len(thread[c])]) + Cardinality(handling) < MaxMessages

\* Mutant: the handler is a plain function, each request in its thread.
SendInThread(c, u) ==
    /\ MaySpeak(u, c) /\ HasRoom
    /\ handling' = handling \cup {[chat |-> c, from |-> u, number |-> NextNumber(c)]}
    /\ UNCHANGED <<deskVars, thread, admitted, customerVars>>

SendBegins(c, u) ==
    /\ LoopIsFree
    /\ MaySpeak(u, c) /\ HasRoom
    /\ handling' = handling \cup {[chat |-> c, from |-> u, number |-> NextNumber(c)]}
    /\ UNCHANGED <<deskVars, thread, admitted, customerVars>>

SendEnds(h) ==
    /\ handling' = handling \ {h}
    /\ thread' = [thread EXCEPT ![h.chat] = Append(@, [from |-> h.from, number |-> h.number])]
    /\ UNCHANGED <<deskVars, admitted, customerVars>>

-----------------------------------------------------------------------------
(* The customer. *)

\* Twenty-four hours pass, or the browser closes.
Expire(c) ==
    /\ c \in admitted
    /\ admitted' = admitted \ {c}
    /\ UNCHANGED <<deskVars, thread, handling, customerVars>>

\* What list_customer_messages and public_chat_status answer.
View(c) == [count |-> Len(thread[c]), status |-> status[c]]

\* Mutant: a chat that is closed is polled no more.
PollWhileOpen(c) == c \in admitted /\ widget[c].status # "closed" /\ Len(polls[c]) < MaxPolls

\* Every two seconds, whether or not the last one was answered.
MayPoll(c) == c \in admitted /\ Len(polls[c]) < MaxPolls

Poll(c) ==
    /\ MayPoll(c)
    /\ polls' = [polls EXCEPT ![c] = Append(@, View(c))]
    /\ UNCHANGED <<deskVars, threadVars, surveying, rated, widget>>

\* Answers overtake one another.
PollArrives(c, i) ==
    /\ i \in DOMAIN polls[c]
    /\ widget' = [widget EXCEPT ![c] = polls[c][i]]
    /\ polls' = [polls EXCEPT ![c] = RemoveAt(@, i)]
    /\ UNCHANGED <<deskVars, threadVars, surveying, rated>>

\* Mutant: any chat may be rated.
RateAny(c) ==
    /\ c \in admitted
    /\ surveying' = surveying \cup {c}
    /\ UNCHANGED <<deskVars, threadVars, rated, widget, polls>>

\* submit_chat_survey, once the widget shows the chat as closed: it checks, ...
SurveyBegins(c) ==
    /\ widget[c].status = "closed"
    /\ c \in admitted /\ status[c] = "closed"
    /\ surveying' = surveying \cup {c}
    /\ UNCHANGED <<deskVars, threadVars, rated, widget, polls>>

\* ... and commits, into the one row of the chat.
SurveyEnds(c) ==
    /\ c \in surveying
    /\ surveying' = surveying \ {c}
    /\ rated' = rated \cup {c}
    /\ UNCHANGED <<deskVars, threadVars, widget, polls>>

-----------------------------------------------------------------------------

Next ==
    \/ \E c \in Calls :
          \/ StartChat(c) \/ DeskStep(c)
          \/ \E u \in Speakers : SendBegins(c, u)
          \/ Expire(c) \/ Poll(c) \/ (\E i \in DOMAIN polls[c] : PollArrives(c, i))
          \/ SurveyBegins(c) \/ SurveyEnds(c)
    \/ \E h \in handling : SendEnds(h)

Spec == Init /\ [][Next]_vars

\* The event loop goes on, the widget polls, and its polls are answered.
Fairness ==
    /\ WF_vars(\E h \in handling : SendEnds(h))
    /\ \A c \in Calls : WF_vars(Poll(c)) /\ WF_vars(PollArrives(c, 1))

FairSpec == Spec /\ Fairness

-----------------------------------------------------------------------------
(* Properties. *)

\* The messages of a conversation are numbered 1, 2, 3 ... in the order of their
\* commits, whoever writes them at once.
ThreadIsNumbered ==
    \A c \in Calls : \A i \in DOMAIN thread[c] : thread[c][i].number = i

\* A message joins a thread only while its sender may speak there, although that
\* was asked before the commit: none joins a closed chat, and an agent's none but
\* the agent's own.
SpeakersMaySpeak ==
    [][\A c \in Calls : thread'[c] # thread[c] /\ thread[c] # <<>> =>
          LET u == thread'[c][Len(thread'[c])].from
          IN IF u = Customer THEN status[c] \in {"queued", "active"}
             ELSE status[c] = "active" /\ (u \in Agents => assignee[c] = u)]_vars

\* Only a chat that was resolved is rated, also if it is reopened while the survey
\* is being sent.
RatedIsResolved == \A c \in rated : disposition[c] = "resolved"

\* Whatever was written, before or after the close, stands in the widget in the
\* end, and no late answer to an older poll takes it away again.
CustomerReadsAll ==
    \A c \in Calls : <>[](widget[c].count = Len(thread[c]) \/ c \notin admitted)

\* What the proofs carry from step to step: the loop has one message in hand at
\* most, numbered next and by a speaker who may, and a survey under way was asked
\* of a resolved chat.
HandlerIsSole ==
    \A h, g \in handling : h = g

HandlerIsRight ==
    \A h \in handling :
        /\ h.number = Len(thread[h.chat]) + 1
        /\ IF h.from = Customer THEN status[h.chat] \in {"queued", "active"}
           ELSE status[h.chat] = "active" /\ (h.from \in Agents => assignee[h.chat] = h.from)

ClosedIsResolved ==
    /\ \A c \in Calls : status[c] = "closed" => disposition[c] = "resolved"
    /\ \A c \in surveying : disposition[c] = "resolved"
    /\ \A c \in Calls : kind[c] = "none" => thread[c] = <<>> /\ status[c] = "none"

IInv ==
    /\ TypeOK
    /\ ThreadIsNumbered /\ RatedIsResolved
    /\ HandlerIsSole /\ HandlerIsRight /\ ClosedIsResolved

-----------------------------------------------------------------------------
(* What does not hold. *)

\* App.tsx:385 shows the rating buttons: a rating that is offered is accepted.
OfferedRatingIsAccepted ==
    \A c \in admitted : widget[c].status = "closed" => status[c] = "closed"
=============================================================================
