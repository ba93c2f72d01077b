------------------------------- MODULE LiveFloor -------------------------------
(***************************************************************************)
(* How a change at the desk reaches the screens: the event hub of          *)
(* services/platform-api/app/realtime.py, what main.py publishes to whom   *)
(* when a web chat moves or is written in, and the lists and the message   *)
(* panel of apps/console/src/App.tsx.  The desk is CallDesk's; a message   *)
(* is one step here, which ChatThread justifies.                           *)
(*                                                                         *)
(* A handler publishes right after its commit, before another one runs.    *)
(* An event only makes a page read its lists anew; requests may fail, and  *)
(* answers may overtake one another.                                       *)
(***************************************************************************)
EXTENDS Naturals, Sequences, FiniteSets, FiniteSetsExt, SequencesExt, Functions

CONSTANTS Calls, Agents, Members, NoAgent, NoCall, \* as in CallDesk, all calls chats
          Supervisors, \* users that see every conversation (admins and QA too)
          Tabs,        \* browser tabs with the console
          Pages,       \* those of them whose lists and messages are modelled
          NoUser,      \* a tab that is closed
          MaxMessages, \* messages in all chats (a bound)
          MaxFetches,  \* requests a page has under way when it asks for more (a bound)
          MaxEvents    \* events waiting in a socket when another is published (a bound)

ASSUME FloorAssumption ==
    /\ Members \subseteq Agents /\ NoAgent \notin Agents /\ NoCall \notin Calls
    /\ Agents \cap Supervisors = {}
    /\ {NoAgent, NoUser} \cap (Agents \cup Supervisors) = {} /\ NoUser # NoAgent
    /\ Pages \subseteq Tabs

VARIABLES
    kind, rostered, status, assignee, disposition, summary, session, jobs,
    presence, current, \* CallDesk's
    said,      \* messages of a conversation
    owner,     \* who is logged in at a tab
    socket,    \* its WebSocket
    hub,       \* tabs whose connection the hub holds
    ring,      \* events sent to a page and not yet handled
    fetches,   \* requests a page awaits, oldest first
    screen,    \* status of the conversations on the page's lists
    selected,  \* selectedId of AgentView
    panel,     \* whose messages AgentView shows, and how many
    replies,   \* chats whose send a page awaits
    missed,    \* pages whose lists an event did not renew: it met no socket, the request
               \* failed, or an older answer was shown last (history)
    astray     \* pages that asked last for the messages of a chat they had left, or
               \* asked in vain (history)

deskVars == <<kind, rostered, status, assignee, disposition, summary, session, jobs,
              presence, current>>
hubVars == <<owner, socket, hub, ring, missed>>
pageVars == <<fetches, screen, selected, panel, replies, astray>>
vars == <<deskVars, said, hubVars, pageVars>>

Desk == INSTANCE CallDesk

Users == Agents \cup Supervisors
Statuses == {"none", "queued", "active", "wrap_up", "closed", "failed"}
Screens == [Calls -> Statuses]
Fetches == [what : {"lists", "panel"}, of : Calls \cup {NoCall}, served : BOOLEAN,
            lists : Screens, count : Nat]
Nothing == [c \in Calls |-> "none"]
NoPanel == [of |-> NoCall, count |-> 0]

TypeOK ==
    /\ Desk!TypeOK
    /\ said \in [Calls -> Nat]
    /\ owner \in [Tabs -> Users \cup {NoUser}]
    /\ socket \in [Tabs -> {"none", "opening", "up", "lost"}]
    /\ hub \subseteq Tabs /\ missed \subseteq Pages /\ astray \subseteq Pages
    /\ ring \in [Pages -> Nat]
    /\ fetches \in [Pages -> Seq(Fetches)]
    /\ screen \in [Pages -> Screens]
    /\ selected \in [Pages -> Calls \cup {NoCall}]
    /\ panel \in [Pages -> [of : Calls \cup {NoCall}, count : Nat]]
    /\ replies \in [Pages -> SUBSET Calls]

Init ==
    /\ Desk!Init
    /\ said = [c \in Calls |-> 0]
    /\ owner = [t \in Tabs |-> NoUser]
    /\ socket = [t \in Tabs |-> "none"]
    /\ hub = {} /\ missed = {} /\ astray = {}
    /\ ring = [p \in Pages |-> 0]
    /\ fetches = [p \in Pages |-> <<>>]
    /\ screen = [p \in Pages |-> Nothing]
    /\ selected = [p \in Pages |-> NoCall]
    /\ panel = [p \in Pages |-> NoPanel]
    /\ replies = [p \in Pages |-> {}]

-----------------------------------------------------------------------------
(* What a page asks for. *)

Fetch(what, c, served, lists, n) ==
    [what |-> what, of |-> c, served |-> served, lists |-> lists, count |-> n]

AskLists == Fetch("lists", NoCall, FALSE, Nothing, 0)
AskPanel(c) == Fetch("panel", c, FALSE, Nothing, 0)

HasRoom(p) == Len(fetches[p]) < MaxFetches

Ask(p, f) == fetches' = [fetches EXCEPT ![p] = Append(@, f)]

Unserved(p) == {i \in DOMAIN fetches[p] : ~fetches[p][i].served}

\* A list that is still to be read will show whatever has happened by then.
WillRead(p) == \E i \in Unserved(p) : fetches[p][i].what = "lists"

\* list_conversations and queued_work: all there are for a supervisor; an agent's
\* own, and what waits in the agent's queue.  (One request after the other; no
\* property tells the moment between them apart.)
ListsOf(u) ==
    [c \in Calls |->
        IF u \in Supervisors \/ assignee[c] = u THEN status[c]
        ELSE IF status[c] = "queued" /\ c \in rostered /\ u \in Members THEN "queued"
        ELSE "none"]

\* assigned.find(selectedId) of AgentView.
IsOwn(lists, c) == c # NoCall /\ lists[c] \notin {"none", "queued"}

-----------------------------------------------------------------------------
(* The hub. *)

\* Who hears of a conversation assigned to a.
Audience(a) == {t \in Tabs : owner[t] \in Supervisors \/ (a # NoAgent /\ owner[t] = a)}

\* RealtimeHub.publish: to each socket of the audience that is in the hub.
Publish(a) ==
    /\ \A p \in Pages : ring[p] < MaxEvents
    /\ ring' = [p \in Pages |->
                   IF p \in Audience(a) \cap hub THEN ring[p] + 1 ELSE ring[p]]
    /\ missed' = missed \cup {p \in Pages \cap Audience(a) : socket[p] # "up" /\ ~WillRead(p)}
    /\ UNCHANGED <<owner, socket, hub>>

\* RealtimeHub.connect, once the socket is accepted.
Connect(t) ==
    /\ socket[t] = "opening"
    /\ socket' = [socket EXCEPT ![t] = "up"]
    /\ hub' = hub \cup {t}
    /\ UNCHANGED <<deskVars, said, owner, ring, missed, pageVars>>

\* RealtimeHub.disconnect.
Disconnect(t) == hub' = hub \ {t}

\* f without what it holds of t.
Emptied(f, t, empty) == [p \in Pages |-> IF p = t THEN empty ELSE f[p]]

\* The socket is lost; the page does not notice and does not connect anew.
Drop(t) ==
    /\ socket[t] = "up"
    /\ socket' = [socket EXCEPT ![t] = "lost"]
    /\ Disconnect(t)
    /\ ring' = Emptied(ring, t, 0)
    /\ missed' = missed \cup {p \in Pages \cap {t} : ring[p] > 0 /\ ~WillRead(p)}
    /\ UNCHANGED <<deskVars, said, owner, pageVars>>

\* A tab opens for u: it asks for a socket, and for its lists.
Open(t, u) ==
    /\ owner[t] = NoUser
    /\ owner' = [owner EXCEPT ![t] = u]
    /\ socket' = [socket EXCEPT ![t] = "opening"]
    /\ IF t \in Pages THEN Ask(t, AskLists) ELSE UNCHANGED fetches
    /\ UNCHANGED <<deskVars, said, hub, ring, missed, screen, selected, panel, replies, astray>>

\* The tab is closed.
Close(t) ==
    /\ owner[t] # NoUser
    /\ socket' = [socket EXCEPT ![t] = "none"]
    /\ Disconnect(t)
    /\ owner' = [owner EXCEPT ![t] = NoUser]
    /\ ring' = Emptied(ring, t, 0)
    /\ missed' = missed \ {t}
    /\ fetches' = Emptied(fetches, t, <<>>)
    /\ screen' = Emptied(screen, t, Nothing)
    /\ selected' = Emptied(selected, t, NoCall)
    /\ panel' = Emptied(panel, t, NoPanel)
    /\ replies' = Emptied(replies, t, {})
    /\ astray' = astray \ {t}
    /\ UNCHANGED <<deskVars, said>>

-----------------------------------------------------------------------------
(* The desk's handlers, for chats, each with what it publishes. *)

\* start_public_chat, with the customer's first message.
StartChat(c) ==
    /\ Desk!CreateConversation(c, "chat", TRUE)
    /\ said' = [said EXCEPT ![c] = 1]
    /\ Publish(NoAgent)
    /\ UNCHANGED pageVars

\* assign_conversation: the previous assignee is not told.
Assign(c, a) ==
    /\ Desk!Assign(c, a)
    /\ Publish(a)
    /\ UNCHANGED <<said, pageVars>>

\* claim_conversation.
Claim(c, a) ==
    /\ Desk!Claim(c, a)
    /\ Publish(a)
    /\ UNCHANGED said

\* claim of AgentView: the chat is selected before the lists show it as own.
ClaimAtPage(p, c) ==
    /\ owner[p] \in Agents /\ screen[p][c] = "queued" /\ HasRoom(p)
    /\ Claim(c, owner[p])
    /\ selected' = [selected EXCEPT ![p] = c]
    /\ panel' = [panel EXCEPT ![p] = NoPanel]
    /\ Ask(p, AskLists)
    /\ UNCHANGED <<screen, replies, astray>>

\* wrap_up_conversation, by the assigned agent or a supervisor.
WrapUp(c) ==
    /\ Desk!WrapUp(c)
    /\ Publish(assignee[c])
    /\ UNCHANGED said

\* resolve of AgentView.
WrapUpAtPage(p) ==
    LET c == selected[p]
    IN /\ IsOwn(screen[p], c) /\ assignee[c] = owner[p] /\ HasRoom(p)
       /\ WrapUp(c)
       /\ selected' = [selected EXCEPT ![p] = NoCall]
       /\ panel' = [panel EXCEPT ![p] = NoPanel]
       /\ Ask(p, AskLists)
       /\ UNCHANGED <<screen, replies, astray>>

\* Mutant: a customer's message is published before the chat is assigned only.
SayToSupervisors(c) ==
    /\ status[c] \in {"queued", "active"} /\ SumFunction(said) < MaxMessages
    /\ said' = [said EXCEPT ![c] = @ + 1]
    /\ Publish(NoAgent)
    /\ UNCHANGED deskVars

\* send_customer_message, and send_agent_message while the chat is active.
Say(c) ==
    /\ status[c] \in {"queued", "active"} /\ SumFunction(said) < MaxMessages
    /\ said' = [said EXCEPT ![c] = @ + 1]
    /\ Publish(assignee[c])
    /\ UNCHANGED deskVars

\* send of AgentView posts the draft ...
SayAtPage(p) ==
    LET c == selected[p]
    IN /\ IsOwn(screen[p], c) /\ assignee[c] = owner[p] /\ status[c] = "active"
       /\ c \notin replies[p]
       /\ Say(c)
       /\ replies' = [replies EXCEPT ![p] = @ \cup {c}]
       /\ UNCHANGED <<fetches, screen, selected, panel, astray>>

\* ... and, when that is answered, reloads the messages of the chat it was written in,
\* whatever is selected by then.
Replied(p, c) ==
    /\ owner[p] # NoUser /\ c \in replies[p] /\ Len(fetches[p]) <= MaxFetches
    /\ replies' = [replies EXCEPT ![p] = @ \ {c}]
    /\ Ask(p, AskPanel(c))
    /\ astray' = IF selected[p] = c THEN astray ELSE astray \cup {p}
    /\ UNCHANGED <<deskVars, said, hubVars, screen, selected, panel>>

\* The answer is lost: nothing is reloaded.
Unanswered(p, c) ==
    /\ c \in replies[p]
    /\ replies' = [replies EXCEPT ![p] = @ \ {c}]
    /\ UNCHANGED <<deskVars, said, hubVars, fetches, screen, selected, panel, astray>>

-----------------------------------------------------------------------------
(* The page. *)

\* Mutant: an event asks for nothing while lists are under way.
DeliverOnce(p) ==
    /\ ring[p] > 0 /\ Len(fetches[p]) <= MaxFetches
    /\ ring' = [ring EXCEPT ![p] = @ - 1]
    /\ IF \E i \in DOMAIN fetches[p] : fetches[p][i].what = "lists"
       THEN UNCHANGED fetches
       ELSE Ask(p, AskLists)
    /\ UNCHANGED <<deskVars, said, owner, socket, hub, missed, screen, selected, panel,
                   replies, astray>>

\* An event: the lists are asked for again, whatever it says.
Deliver(p) ==
    /\ ring[p] > 0 /\ Len(fetches[p]) <= MaxFetches
    /\ ring' = [ring EXCEPT ![p] = @ - 1]
    /\ Ask(p, AskLists)
    /\ UNCHANGED <<deskVars, said, owner, socket, hub, missed, screen, selected, panel,
                   replies, astray>>

\* The refresh button.
Refresh(p) ==
    /\ owner[p] # NoUser /\ HasRoom(p)
    /\ Ask(p, AskLists)
    /\ UNCHANGED <<deskVars, said, hubVars, screen, selected, panel, replies, astray>>

\* Active work is selected in the list; the messages of the chat selected before
\* stay until its own arrive.
Select(p, c) ==
    /\ owner[p] \in Agents /\ screen[p][c] = "active" /\ selected[p] # c /\ HasRoom(p)
    /\ selected' = [selected EXCEPT ![p] = c]
    /\ Ask(p, AskPanel(c))
    /\ astray' = astray \ {p}
    /\ UNCHANGED <<deskVars, said, hubVars, screen, panel, replies>>

\* The API answers p's oldest request; the messages of a chat that is no longer
\* the agent's are refused.
Serve(p) ==
    /\ Unserved(p) # {}
    /\ LET i == Min(Unserved(p))
           f == fetches[p][i]
       IN IF f.what = "lists"
          THEN /\ fetches' = [fetches EXCEPT ![p] =
                     [@ EXCEPT ![i] = Fetch("lists", NoCall, TRUE, ListsOf(owner[p]), 0)]]
               /\ missed' = missed \ {p}
          ELSE /\ fetches' = [fetches EXCEPT ![p] =
                     IF assignee[f.of] # owner[p] THEN RemoveAt(@, i)
                     ELSE [@ EXCEPT ![i] = Fetch("panel", f.of, TRUE, Nothing, said[f.of])]]
               /\ UNCHANGED missed
    /\ UNCHANGED <<deskVars, said, owner, socket, hub, ring, screen, selected, panel,
                   replies, astray>>

\* The oldest request fails, and is not made again.  (Of the two reads that the lists
\* stand for the first may have been shown by then.)
Fail(p) ==
    /\ Unserved(p) # {}
    /\ LET i == Min(Unserved(p))
       IN /\ fetches' = [fetches EXCEPT ![p] = RemoveAt(@, i)]
          /\ IF fetches[p][i].what = "lists"
             THEN missed' = missed \cup {p} /\ UNCHANGED astray
             ELSE astray' = astray \cup {p} /\ UNCHANGED missed
    /\ UNCHANGED <<deskVars, said, owner, socket, hub, ring, screen, selected, panel, replies>>

\* Mutant: new lists do not reload the messages.
ListsArriveAlone(p, i) ==
    /\ screen' = [screen EXCEPT ![p] = fetches[p][i].lists]
    /\ fetches' = [fetches EXCEPT ![p] = RemoveAt(@, i)]
    /\ UNCHANGED <<panel, astray>>

\* New lists make AgentView load the messages of its selection anew, or clear
\* them if it is no longer the agent's.
ListsArrive(p, i) ==
    LET lists == fetches[p][i].lists
        own == IsOwn(lists, selected[p])
    IN /\ screen' = [screen EXCEPT ![p] = lists]
       /\ fetches' = [fetches EXCEPT ![p] =
              IF own THEN Append(RemoveAt(@, i), AskPanel(selected[p])) ELSE RemoveAt(@, i)]
       /\ panel' = IF own THEN panel ELSE [panel EXCEPT ![p] = NoPanel]
       /\ astray' = astray \ {p}

\* Messages are shown when they arrive, whatever is selected by then.
PanelArrives(p, i) ==
    LET f == fetches[p][i]
    IN /\ panel' = [panel EXCEPT ![p] = [of |-> f.of, count |-> f.count]]
       /\ fetches' = [fetches EXCEPT ![p] = RemoveAt(@, i)]
       /\ UNCHANGED <<screen, astray>>

\* An answer arrives, perhaps before an earlier one.
Arrive(p, i) ==
    /\ i \in DOMAIN fetches[p] /\ fetches[p][i].served
    /\ IF fetches[p][i].what = "lists" THEN ListsArrive(p, i) ELSE PanelArrives(p, i)
    /\ missed' = IF i > 1 THEN missed \cup {p} ELSE missed
    /\ UNCHANGED <<deskVars, said, owner, socket, hub, ring, selected, replies>>

-----------------------------------------------------------------------------

Next ==
    \/ \E c \in Calls :
          \/ StartChat(c)
          \/ \E a \in Agents : Assign(c, a) \/ (Claim(c, a) /\ UNCHANGED pageVars)
          \/ (WrapUp(c) \/ Say(c)) /\ UNCHANGED pageVars
    \/ \E t \in Tabs :
          \/ \E u \in Users : Open(t, u)
          \/ Connect(t) \/ Drop(t) \/ Close(t)
    \/ \E p \in Pages :
          \/ Deliver(p) \/ Refresh(p) \/ Serve(p) \/ Fail(p)
          \/ \E c \in Calls :
                ClaimAtPage(p, c) \/ Select(p, c) \/ Replied(p, c) \/ Unanswered(p, c)
          \/ WrapUpAtPage(p) \/ SayAtPage(p)
          \/ \E i \in DOMAIN fetches[p] : Arrive(p, i)

Spec == Init /\ [][Next]_vars

\* Events are handled, requests answered or given up, and answers arrive.
FairSpec ==
    Spec /\ \A p \in Pages :
        WF_vars(Deliver(p)) /\ WF_vars(Serve(p) \/ Fail(p)) /\ WF_vars(Arrive(p, 1))

-----------------------------------------------------------------------------
(* Properties. *)

AtRest(p) == owner[p] # NoUser /\ ring[p] = 0 /\ fetches[p] = <<>>

\* A page at rest that missed nothing shows every conversation of its user as it
\* is: each change was published to all who have it on their lists.
ListsAreCurrent ==
    \A p \in Pages \ missed : AtRest(p) =>
        \A c \in Calls : owner[p] \in Supervisors \cup {assignee[c]} => screen[p][c] = status[c]

\* ... and an agent's shows the messages of the chat that is selected, all of
\* them, and not those of another, unless it asked last for those of a chat it had
\* left, or its request failed.
PanelIsCurrent ==
    \A p \in Pages \ (missed \cup astray) :
        LET c == selected[p]
        IN AtRest(p) /\ c # NoCall /\ owner[p] = assignee[c] =>
               panel[p] = [of |-> c, count |-> said[c]]

\* Every message reaches the agent who has the chat selected, without a click.
Attends(p, c) == selected[p] = c /\ owner[p] = assignee[c] /\ p \notin missed \cup astray

AgentReadsAll ==
    \A p \in Pages, c \in Calls : \A n \in 1 .. MaxMessages :
        said[c] >= n /\ Attends(p, c)
            ~> (panel[p].of = c /\ panel[p].count >= n) \/ ~Attends(p, c)

\* What the proofs carry from step to step.  Requests are answered in the order
\* they were made, messages are asked of a conversation, the hub holds the sockets
\* that are up, and nothing is left in a tab that is closed.
PagesAreOrderly ==
    /\ hub = {t \in Tabs : socket[t] = "up"}
    /\ \A t \in Tabs : owner[t] = NoUser => socket[t] = "none"
    /\ \A p \in Pages :
          /\ socket[p] # "up" => ring[p] = 0
          /\ owner[p] = NoUser => fetches[p] = <<>> /\ selected[p] = NoCall
          /\ \A i, j \in DOMAIN fetches[p] :
                i < j /\ fetches[p][j].served => fetches[p][i].served
          /\ \A i \in DOMAIN fetches[p] :
                fetches[p][i].what = "panel" => fetches[p][i].of \in Calls

\* lists show every conversation of p's user as it is.
Shows(lists, p) ==
    \A c \in Calls : owner[p] \in Supervisors \cup {assignee[c]} => lists[c] = status[c]

IsLists(p, i) == i \in DOMAIN fetches[p] /\ fetches[p][i].what = "lists"

WillHear(p) == p \in missed \/ ring[p] > 0 \/ WillRead(p)

\* A page that will not hear more awaits lists that are current, or shows them ...
ListsAreComing ==
    \A p \in Pages : owner[p] # NoUser /\ ~WillHear(p) =>
        /\ \A i \in DOMAIN fetches[p] :
              IsLists(p, i) /\ (\A j \in DOMAIN fetches[p] : IsLists(p, j) => j <= i)
                  => Shows(fetches[p][i].lists, p)
        /\ (\A i \in DOMAIN fetches[p] : ~IsLists(p, i)) => Shows(screen[p], p)

\* ... and so with the messages of an agent's selection, which lists reload.
PanelIsComing ==
    \A p \in Pages \ astray, c \in Calls :
      selected[p] = c /\ owner[p] = assignee[c] /\ ~WillHear(p) =>
        LET n == Len(fetches[p])
        IN \/ \E i \in DOMAIN fetches[p] : IsLists(p, i)
           \/ /\ n > 0 /\ fetches[p][n].what = "panel" /\ fetches[p][n].of = c
              /\ fetches[p][n].served => fetches[p][n].count = said[c]
           \/ n = 0 /\ panel[p] = [of |-> c, count |-> said[c]]

IInv ==
    /\ TypeOK /\ Desk!SessionIsVoice /\ Desk!AssignedIffWorked
    /\ PagesAreOrderly /\ ListsAreComing /\ PanelIsComing

-----------------------------------------------------------------------------
(* What does not hold. *)

\* App.tsx:359, "New work will appear here.": nothing is published to an agent
\* about a chat that waits.
NewWorkAppears ==
    \A p \in Pages \ missed : \A c \in Calls :
        AtRest(p) /\ owner[p] \in Members /\ status[c] = "queued" => screen[p][c] = "queued"

\* The messages in view of a page at rest, none of whose requests failed or was
\* overtaken, are those of the conversation whose name stands above.
PanelIsOfSelected ==
    \A p \in Pages \ missed : AtRest(p) => panel[p].of \in {selected[p], NoCall}
=============================================================================
