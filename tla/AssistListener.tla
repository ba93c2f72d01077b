---------------------------- MODULE AssistListener ----------------------------
(***************************************************************************)
(* The realtime-assist listener, services/realtime-assist/ari_listener.py: *)
(* which calls get an audio tap and a UDP port, and what becomes of the    *)
(* caller's channel and of the calls row meanwhile.                        *)
(*                                                                         *)
(* The listener handles one ARI event at a time; each of its actions ends  *)
(* at an await, where Asterisk goes on.  A call and the channel that       *)
(* entered Stasis have one name: the dialplan passes the channel's         *)
(* UNIQUEID as the call id.  Asterisk is external: channels come and go as *)
(* they like, and its events arrive in the order it emitted them.  The     *)
(* mixing bridge is left out, it lives and dies with the two helper        *)
(* channels put into it.  What a tap hears is the subject of AudioTap.     *)
(***************************************************************************)
EXTENDS Naturals, Sequences, FiniteSets

CONSTANTS Channels,   \* the channels Asterisk may ever create
          SnoopOf,    \* the channel named snoop-<call_id>
          ExtMediaOf, \* the channel named extmedia-<call_id>
          Pool,       \* the UDP ports a fresh process starts with, 30 in the code
          NoPort, NoChannel,
          MaxEvents,  \* bounds a run: Asterisk pauses while so many events wait
          Faults      \* what may go wrong, some of FaultKinds

\* "rest": a request to Asterisk raises that sets up a tap or hands the caller
\* back.  "db": a statement raises.  "link": the websocket drops.  "crash": the
\* listener's process dies and is started again.
FaultKinds == {"rest", "db", "link", "crash"}

\* Channels that only the listener asks for; the others are callers.
Helpers == ({SnoopOf[c] : c \in Channels} \cup {ExtMediaOf[c] : c \in Channels}) \ {NoChannel}

Ports == {Pool[i] : i \in DOMAIN Pool}

ASSUME ListenerAssumption ==
    /\ Pool \in Seq(Ports)
    /\ \A i, j \in DOMAIN Pool : Pool[i] = Pool[j] => i = j
    /\ NoPort \notin Ports
    /\ NoChannel \notin Channels
    /\ SnoopOf \in [Channels -> Channels \cup {NoChannel}]
    /\ ExtMediaOf \in [Channels -> Channels \cup {NoChannel}]
    /\ MaxEvents \in Nat
    /\ Faults \subseteq FaultKinds

VARIABLES
    leg,       \* a channel in Asterisk: where it is
    events,    \* ARI events the listener has yet to handle
    connected, \* the websocket is up
    free,      \* _free_ports
    lent,      \* _active_calls and _channel_to_call: the port of a call's tap
    pc,        \* what the event loop is awaiting
    cur,       \* the channel whose event it handles
    held,      \* the port that handler has in a local variable
    row,       \* the calls row: absent, started, ended
    broken     \* history: the callers' events whose handler broke off

asteriskVars == <<leg, events, connected>>
handlerVars == <<pc, cur, held>>
vars == <<asteriskVars, free, lent, handlerVars, row, broken>>

Start(c) == [type |-> "StasisStart", channel |-> c]
Left(c) == [type |-> "StasisEnd", channel |-> c]
Destroyed(c) == [type |-> "ChannelDestroyed", channel |-> c]
Events == {Start(c) : c \in Channels} \cup {Left(c) : c \in Channels}
            \cup {Destroyed(c) : c \in Channels}

TypeOK ==
    /\ leg \in [Channels -> {"none", "created", "stasis", "dialplan", "gone"}]
    /\ events \in Seq(Events)
    /\ connected \in BOOLEAN
    /\ free \in Seq(Ports)
    /\ lent \in [Channels -> Ports \cup {NoPort}]
    /\ pc \in {"idle", "upserting", "snooping", "streaming", "bridging",
               "returning", "stopping", "unsnooping", "unstreaming", "marking"}
    /\ cur \in Channels \cup {NoChannel}
    /\ held \in Ports \cup {NoPort}
    /\ row \in [Channels -> {"none", "started", "ended"}]
    /\ broken \subseteq Events

Init ==
    /\ leg = [c \in Channels |-> "none"]
    /\ events = <<>>
    /\ connected = FALSE
    /\ free = Pool
    /\ lent = [c \in Channels |-> NoPort]
    /\ pc = "idle" /\ cur = NoChannel /\ held = NoPort
    /\ row = [c \in Channels |-> "none"]
    /\ broken = {}

-----------------------------------------------------------------------------
(* Asterisk. *)

\* Events reach the listener while the websocket is up, and are lost otherwise.
Emit(es) == events' = IF connected THEN events \o es ELSE events

Paced == Len(events) < MaxEvents

\* A caller reaches the Stasis line of the dialplan.  Without a registered
\* application Stasis fails and the dialplan goes on.
Arrive(c) ==
    /\ Paced /\ leg[c] = "none" /\ c \notin Helpers
    /\ leg' = [leg EXCEPT ![c] = IF connected THEN "stasis" ELSE "dialplan"]
    /\ Emit(<<Start(c)>>)
    /\ UNCHANGED <<connected, free, lent, handlerVars, row, broken>>

\* A helper channel enters the application it was created for.
HelperEnters(h) ==
    /\ Paced /\ leg[h] = "created"
    /\ leg' = [leg EXCEPT ![h] = "stasis"]
    /\ Emit(<<Start(h)>>)
    /\ UNCHANGED <<connected, free, lent, handlerVars, row, broken>>

Alive(c) == leg[c] \in {"created", "stasis", "dialplan"}

Hangup(c) ==
    /\ Paced /\ Alive(c)
    /\ leg' = [leg EXCEPT ![c] = "gone"]
    /\ Emit(<<Destroyed(c)>>)
    /\ UNCHANGED <<connected, free, lent, handlerVars, row, broken>>

-----------------------------------------------------------------------------
(* The event loop. *)

\* The loop reconnects when the closed socket has no message left to read.
Connect ==
    /\ ~connected /\ events = <<>> /\ pc = "idle"
    /\ connected' = TRUE
    /\ UNCHANGED <<leg, events, free, lent, handlerVars, row, broken>>

Disconnect ==
    /\ "link" \in Faults /\ connected
    /\ connected' = FALSE
    /\ UNCHANGED <<leg, events, free, lent, handlerVars, row, broken>>

Idle == pc' = "idle" /\ cur' = NoChannel /\ held' = NoPort

\* The event whose handler is at work.
InHand ==
    IF pc = "idle" THEN {}
    ELSE IF pc \in {"stopping", "unsnooping", "unstreaming", "marking"} THEN {Destroyed(cur)}
    ELSE {Start(cur)}

\* It is not handled, or not to the end; nothing takes it up again.
BreaksOff(es) == broken' = broken \cup {e \in es : e.channel \notin Helpers}

\* The process dies and is started anew; Asterisk keeps the channels.
Restart ==
    /\ "crash" \in Faults
    /\ connected' = FALSE
    /\ events' = <<>>
    /\ free' = Pool
    /\ lent' = [c \in Channels |-> NoPort]
    /\ Idle
    /\ BreaksOff({events[i] : i \in DOMAIN events} \cup InHand)
    /\ UNCHANGED <<leg, row>>

\* One of the helper channels of a registered call.
IsHelper(c) == \E k \in Channels : lent[k] # NoPort /\ c \in {SnoopOf[k], ExtMediaOf[k]}

\* Mutant: leaving Stasis, at `continue`, is taken for the hang-up.
EndsOnLeaving(e) == e.type \in {"StasisEnd", "ChannelDestroyed"}

Ends(e) == e.type = "ChannelDestroyed"

\* Events that need no await: other types, helpers that enter Stasis, and
\* channels without a registered call that are destroyed.
Ignore ==
    /\ pc = "idle" /\ events # <<>>
    /\ LET e == Head(events) IN
          \/ e.type = "StasisStart" /\ IsHelper(e.channel)
          \/ e.type # "StasisStart" /\ ~Ends(e)
          \/ Ends(e) /\ lent[e.channel] = NoPort
    /\ events' = Tail(events)
    /\ UNCHANGED <<leg, connected, free, lent, handlerVars, row, broken>>

\* _on_stasis_start, up to the upsert of the calls row.
TakeStart ==
    /\ pc = "idle" /\ events # <<>>
    /\ Head(events).type = "StasisStart"
    /\ ~IsHelper(Head(events).channel)
    /\ events' = Tail(events)
    /\ pc' = "upserting"
    /\ cur' = Head(events).channel
    /\ UNCHANGED <<leg, connected, free, lent, held, row, broken>>

\* Mutant: a call that finds no port is left where it is.
UpsertForgets ==
    /\ pc = "upserting"
    /\ row' = [row EXCEPT ![cur] = IF @ = "none" THEN "started" ELSE @]
    /\ IF free = <<>>
       THEN Idle /\ UNCHANGED free
       ELSE /\ pc' = "snooping"
            /\ held' = free[Len(free)]
            /\ free' = SubSeq(free, 1, Len(free) - 1)
            /\ UNCHANGED cur
    /\ UNCHANGED <<asteriskVars, lent, broken>>

\* The row is there (ON CONFLICT DO NOTHING); a port is popped if there is one.
Upsert ==
    /\ pc = "upserting"
    /\ row' = [row EXCEPT ![cur] = IF @ = "none" THEN "started" ELSE @]
    /\ UNCHANGED cur
    /\ IF free = <<>>
       THEN pc' = "returning" /\ UNCHANGED <<free, held>>
       ELSE /\ pc' = "snooping"
            /\ held' = free[Len(free)]
            /\ free' = SubSeq(free, 1, Len(free) - 1)
    /\ UNCHANGED <<asteriskVars, lent, broken>>

\* A statement of the handler raises; the event loop logs it and goes on.
DatabaseRaises ==
    /\ "db" \in Faults
    /\ pc \in {"upserting", "marking"}
    /\ Idle
    /\ BreaksOff(InHand)
    /\ UNCHANGED <<asteriskVars, free, lent, row>>

\* Asterisk creates a channel under a name that is not taken.
Fresh(h) == h \in Channels /\ leg[h] = "none"

MaySnoop == pc = "snooping" /\ Alive(cur) /\ Fresh(SnoopOf[cur])
MayStream == pc = "streaming" /\ Fresh(ExtMediaOf[cur])

\* POST snoop, then POST externalMedia.
CreateHelper ==
    /\ \/ MaySnoop /\ leg' = [leg EXCEPT ![SnoopOf[cur]] = "created"] /\ pc' = "streaming"
       \/ MayStream /\ leg' = [leg EXCEPT ![ExtMediaOf[cur]] = "created"] /\ pc' = "bridging"
    /\ UNCHANGED <<events, connected, free, lent, cur, held, row, broken>>

HelpersAlive == Alive(SnoopOf[cur]) /\ Alive(ExtMediaOf[cur])

\* The two helpers are bridged, the tap is bound to its port, and the call is
\* registered.
StartTap ==
    /\ pc = "bridging"
    /\ HelpersAlive
    /\ lent' = [lent EXCEPT ![cur] = held]
    /\ held' = NoPort
    /\ pc' = "returning"
    /\ UNCHANGED <<asteriskVars, free, cur, row, broken>>

\* Mutant: the exception handler keeps the port.
SetupKeepsPort ==
    /\ pc \in {"snooping", "streaming", "bridging"}
    /\ held' = NoPort
    /\ pc' = "returning"
    /\ UNCHANGED <<asteriskVars, free, lent, cur, row, broken>>

\* A setup request fails, because Asterisk refuses it or cannot fulfil it any
\* more: the port goes back to the pool, the helpers made so far stay.
SetupFails ==
    /\ pc \in {"snooping", "streaming", "bridging"}
    /\ "rest" \in Faults \/ ~(MaySnoop \/ MayStream \/ (pc = "bridging" /\ HelpersAlive))
    /\ free' = Append(free, held)
    /\ held' = NoPort
    /\ pc' = "returning"
    /\ UNCHANGED <<asteriskVars, lent, cur, row, broken>>

\* POST continue: the dialplan goes on.
HandBack ==
    /\ pc = "returning" /\ leg[cur] = "stasis"
    /\ leg' = [leg EXCEPT ![cur] = "dialplan"]
    /\ Emit(<<Left(cur)>>)
    /\ Idle
    /\ UNCHANGED <<connected, free, lent, row, broken>>

\* POST continue raises, for a channel that is gone or any other error; the
\* loop logs it and nothing asks again.
HandBackRaises ==
    /\ pc = "returning"
    /\ "rest" \in Faults \/ leg[cur] # "stasis"
    /\ Idle
    /\ BreaksOff(InHand)
    /\ UNCHANGED <<asteriskVars, free, lent, row>>

\* Mutant: the call is looked up, not popped.
TakeDestroyedKeeps ==
    /\ pc = "idle" /\ events # <<>>
    /\ LET e == Head(events) IN
          /\ Ends(e) /\ lent[e.channel] # NoPort
          /\ cur' = e.channel
          /\ held' = lent[e.channel]
    /\ events' = Tail(events)
    /\ pc' = "stopping"
    /\ UNCHANGED <<leg, connected, free, lent, row, broken>>

\* _on_channel_destroyed of a registered call, up to the stop of its tap.
TakeDestroyed ==
    /\ pc = "idle" /\ events # <<>>
    /\ LET e == Head(events) IN
          /\ Ends(e) /\ lent[e.channel] # NoPort
          /\ cur' = e.channel
          /\ held' = lent[e.channel]
          /\ lent' = [lent EXCEPT ![e.channel] = NoPort]
    /\ events' = Tail(events)
    /\ pc' = "stopping"
    /\ UNCHANGED <<leg, connected, free, row, broken>>

\* Mutant: the cancellation of the flush task is not caught.
StopTapRaises ==
    /\ pc = "stopping"
    /\ free' = Append(free, held)
    /\ Idle
    /\ UNCHANGED <<asteriskVars, lent, row, broken>>

\* tap.stop() cancels a callback under way and awaits a last flush, which may
\* hold audio; then the port is free.
StopTap ==
    /\ pc = "stopping"
    /\ free' = Append(free, held)
    /\ held' = NoPort
    /\ pc' = "unsnooping"
    /\ UNCHANGED <<asteriskVars, lent, cur, row, broken>>

\* A DELETE, which hangs up helper channel h and emits its event, or fails
\* without consequence.
Delete(h) ==
    \/ /\ h \in Channels /\ Alive(h)
       /\ leg' = [leg EXCEPT ![h] = "gone"]
       /\ Emit(<<Destroyed(h)>>)
    \/ UNCHANGED <<leg, events>>

DeleteHelpers ==
    /\ \/ pc = "unsnooping" /\ Delete(SnoopOf[cur]) /\ pc' = "unstreaming"
       \/ pc = "unstreaming" /\ Delete(ExtMediaOf[cur]) /\ pc' = "marking"
    /\ UNCHANGED <<connected, free, lent, cur, held, row, broken>>

MarkEnded ==
    /\ pc = "marking"
    /\ row' = [row EXCEPT ![cur] = IF @ = "none" THEN @ ELSE "ended"]
    /\ Idle
    /\ UNCHANGED <<asteriskVars, free, lent, broken>>

-----------------------------------------------------------------------------
LoopStep ==
    \/ Connect \/ Ignore \/ TakeStart \/ Upsert \/ CreateHelper \/ StartTap \/ SetupFails
    \/ HandBack \/ HandBackRaises \/ TakeDestroyed \/ StopTap \/ DeleteHelpers \/ MarkEnded

Next ==
    \/ LoopStep \/ DatabaseRaises \/ Disconnect \/ Restart
    \/ \E c \in Channels : Arrive(c) \/ HelperEnters(c) \/ Hangup(c)

Spec == Init /\ [][Next]_vars

\* The event loop is an endless `while True` around awaits that answer or
\* raise.  Nobody owes a call, a helper's arrival or a hang-up.
FairSpec == Spec /\ WF_vars(LoopStep)

-----------------------------------------------------------------------------
(* Safety. *)

\* No port is lent twice: the pool, the registered calls and the handler at
\* work never share one, whatever setups fail and calls end in between.
PortsExclusive ==
    /\ \A i, j \in DOMAIN free : free[i] = free[j] => i = j
    /\ \A i \in DOMAIN free : free[i] # held /\ \A c \in Channels : free[i] # lent[c]
    /\ \A c, d \in Channels : lent[c] # NoPort /\ lent[c] = lent[d] => c = d
    /\ \A c \in Channels : lent[c] # NoPort => lent[c] # held

\* No port is lost: the thirty-first call is refused a tap only while thirty
\* others have one.
PortsConserved ==
    \A p \in Ports :
        \/ held = p
        \/ \E i \in DOMAIN free : free[i] = p
        \/ \E c \in Channels : lent[c] = p

\* Both: each port is in one place, in the pool, lent or held, and in no other.
EachPortInOnePlace == PortsExclusive /\ PortsConserved

\* A call is marked ended only once its channel is gone and its tap closed, not
\* when the listener hands it back: the tap hears the whole conversation.
EndedCallIsOver ==
    \A c \in Channels : row[c] = "ended" => leg[c] = "gone" /\ lent[c] = NoPort

\* A caller waits in Stasis only while its StasisStart is queued or being
\* handled, or if that very handler broke off: its own row or `continue` raised,
\* or the process died.  No port, a tap that cannot be set up, a lost websocket
\* and the failures of other calls keep nobody from the dialplan.
HandedBack ==
    \A c \in Channels :
        leg[c] = "stasis" /\ c \notin Helpers =>
            \/ cur = c
            \/ \E i \in DOMAIN events : events[i] = Start(c)
            \/ Start(c) \in broken

(* Liveness. *)

\* A call whose tap was set up and whose channel is gone is marked ended, which
\* is what the scoring worker looks for, unless the one attempt to mark it
\* raised: whatever becomes of its helpers, its hand-back and other calls.
TappedCallIsEnded ==
    \A c \in Channels \ Helpers :
        lent[c] # NoPort /\ leg[c] = "gone" ~> row[c] = "ended" \/ Destroyed(c) \in broken

-----------------------------------------------------------------------------
(* The inductive invariant. *)

\* The handler has a port in hand between taking it and lending or returning it.
HeldWhileWorking ==
    /\ held # NoPort <=> pc \in {"snooping", "streaming", "bridging", "stopping"}
    /\ pc = "idle" <=> cur = NoChannel

\* Whoever is reported destroyed, or is being torn down, is gone.
DestroyedIsGone ==
    /\ \A i \in DOMAIN events : Ends(events[i]) => leg[events[i].channel] = "gone"
    /\ pc \in {"stopping", "unsnooping", "unstreaming", "marking"} => leg[cur] = "gone"

Entered(c) == leg[c] \notin {"none", "created"}

\* A channel enters Stasis once, so no call is set up, and given a port, twice.
StartedOnce ==
    /\ \A i, j \in DOMAIN events :
          events[i].type = "StasisStart" /\ events[i] = events[j] => i = j
    /\ \A i \in DOMAIN events : events[i].type = "StasisStart" =>
          LET c == events[i].channel IN Entered(c) /\ lent[c] = NoPort /\ c # cur
    /\ \A c \in Channels : lent[c] # NoPort \/ c = cur => Entered(c)
    /\ pc \in {"upserting", "snooping", "streaming", "bridging"} => lent[cur] = NoPort

\* Who is started, or is about to be, has not ended, and who is torn down has no tap.
EndedOnce ==
    /\ \A i \in DOMAIN events : events[i].type = "StasisStart" => row[events[i].channel] # "ended"
    /\ pc \in {"upserting", "snooping", "streaming", "bridging"} => row[cur] # "ended"
    /\ pc \in {"stopping", "unsnooping", "unstreaming", "marking"} => lent[cur] = NoPort

\* A channel that has yet to enter is one the listener asked for.
CreatedIsHelper == \A c \in Channels : leg[c] = "created" => c \in Helpers

IInv ==
    /\ TypeOK /\ HeldWhileWorking /\ PortsExclusive /\ PortsConserved
    /\ DestroyedIsGone /\ StartedOnce /\ EndedOnce /\ EndedCallIsOver /\ CreatedIsHelper

-----------------------------------------------------------------------------
(* What the code says, refuted by what it does. *)

\* ari_listener.py:141, "Skip our own snoop/external-media helper channels
\* re-entering Stasis": no helper channel is ever recorded as a call.
HelpersAreSkipped == \A h \in Helpers : row[h] = "none"

\* ari_listener.py:14, "Hand the original channel back to the dialplan ... so
\* the real Dial()/Playback() proceeds completely unaffected": a caller waits in
\* Stasis only while its StasisStart is queued or being handled.
CallersProceed ==
    \A c \in Channels :
        leg[c] = "stasis" /\ c \notin Helpers =>
            cur = c \/ \E i \in DOMAIN events : events[i] = Start(c)

\* qa-scoring/worker.py:36, "No audio was captured for this call (too short, or
\* the realtime-assist tap never attached) - needs manual review": a recorded
\* call that is gone, tapped or not, is marked ended and so comes up for review.
GoneCallIsEnded ==
    \A c \in Channels : row[c] = "started" /\ leg[c] = "gone" ~> row[c] = "ended"
=============================================================================
