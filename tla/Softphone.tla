------------------------------ MODULE Softphone -------------------------------
(***************************************************************************)
(* The agent's workspace of apps/console/src/App.tsx with its SIP phone    *)
(* (sip.ts) and call recorder (callCapture.ts), beside the desk of         *)
(* CallDesk, which serves its requests.                                    *)
(*                                                                         *)
(* The page runs one handler at a time, up to its next await.  A handler   *)
(* under way is an operation in ops; each of its requests is served, and   *)
(* its answer taken, in a step of its own where something may come between *)
(* that matters.  Any request may fail, before the desk has served it or   *)
(* after.  A call and the SIP leg that carries it share a name.            *)
(* Mute, hold, transfer and the chat panel change nothing told apart here. *)
(***************************************************************************)
EXTENDS Naturals, FiniteSets

CONSTANTS Calls,   \* conversations
          Me,      \* the agent
          NoAgent,
          NoCall,  \* a ref that is null
          MaxOps,  \* handlers under way when another starts (a bound)
          MaxChunks, \* live chunks under way when a segment ends (a bound)
          Trials   \* what the agent and the network put the console to

\* second_line: a caller rings while another leg exists.
\* hasty: a caller or the agent acts before the desk has answered.
\* swift: a leg changes before the panel shows the call the agent took.
\* impatient: Hang up is pressed while a hang-up is under way.
\* distracted: other work is taken or selected while a call is.
\* legless: a call is simulated, or dialled to a number the phone cannot call.
ASSUME SoftphoneAssumption ==
    /\ NoAgent # Me /\ NoCall \notin Calls
    /\ MaxOps \in Nat \ {0} /\ MaxChunks \in Nat
    /\ Trials \subseteq {"second_line", "hasty", "swift", "impatient", "distracted",
                       "legless"}

VARIABLES
    kind, rostered, status, assignee, disposition, summary, session, jobs,
    presence, current, \* the desk's
    recording, \* whose audio the Recording row of a call holds
    leg,       \* the SIP leg of each call
    outbound,  \* legs this phone dialled
    phone,     \* SipPhone.session
    selected,  \* selectedIdRef
    voice,     \* voiceRef.current: null, a session not ended, or ended
    pending,   \* pendingInboundIdRef
    alive,     \* incomingSipAliveRef
    ending,    \* endingRef
    capture,   \* captureRef: the leg whose media is recorded
    rolling,   \* the speakers whose segment its SpeakerCaptures are recording
    taped,     \* legs that ever were (history)
    transcript,\* whose audio the live transcript of a call holds
    spoilt,    \* legs whose audio met with one of the accidents below (history)
    unheeded,  \* legs that ended with nobody to finish their call (history)
    failed,    \* calls a request about which failed or was refused (history)
    ops        \* handlers under way

deskVars == <<kind, rostered, status, assignee, disposition, summary, session,
              jobs, presence, current>>
sipVars == <<leg, outbound, phone>>
refVars == <<selected, voice, pending, alive, ending>>
tapeVars == <<recording, capture, rolling, taped, transcript>>
pastVars == <<spoilt, unheeded, failed>>
vars == <<deskVars, sipVars, refVars, tapeVars, pastVars, ops>>

Desk == INSTANCE CallDesk WITH Agents <- {Me}, Members <- {Me}

Speakers == {"agent", "customer"}

\* An operation on call c that has come to at, with the audio it is to upload; a
\* speaker's segment, its chunk and the load after it say by whom.
Op(op, c, at, audio, by) == [op |-> op, call |-> c, at |-> at, audio |-> audio, by |-> by]
Ask(op, c) == Op(op, c, "sent", NoCall, "none")
Moved(o, at) == (ops \ {o}) \cup {Op(o.op, o.call, at, o.audio, o.by)}
Done(o) == ops \ {o}
IsAt(o, op, at) == o.op = op /\ o.at = at
Finishes(o) == o.op \in {"hangup", "remote"}

\* The agent or the page starts o, and nothing else happens yet.
Start(o) == ops' = ops \cup {o} /\ UNCHANGED <<deskVars, sipVars, refVars, tapeVars, pastVars>>

Fails(o, rest) == ops' = rest /\ failed' = failed \cup {o.call}

\* Request o is served by the step grant and answered, unless the answer is lost;
\* or it is refused, or does not get through.
Served(o, grant, refusal) ==
    /\ \/ grant /\ ops' = Moved(o, "granted") /\ UNCHANGED failed
       \/ (grant \/ UNCHANGED deskVars) /\ Fails(o, refusal)
    /\ UNCHANGED <<sipVars, refVars, tapeVars, spoilt, unheeded>>

OpStep ==
    {o \in [op : {"register", "claim", "reject", "dial", "wrapup", "load", "hangup", "remote",
                  "segment", "chunk"},
            call : Calls,
            at : {"sent", "granted", "refused", "ghost", "fetch", "drain", "put", "clear",
                  "hang", "timed", "last", "late"},
            audio : Calls \cup {NoCall}, by : Speakers \cup {"none"}] :
        /\ o.op = "segment" => o.by # "none"
        /\ o.op = "segment" \/ o.at \in {"drain", "put"} => o.audio # NoCall
        /\ o.by # "none" => o.op \in {"load", "segment", "chunk"}}
Ringing(c) == leg[c] = "ringing"
Talking(c) == leg[c] \in {"answered", "up"}

TypeOK ==
    /\ Desk!TypeOK
    /\ recording \in [Calls -> Calls \cup {NoCall}]
    /\ transcript \in [Calls -> SUBSET (Calls \cup {NoCall})]
    /\ leg \in [Calls -> {"none", "ringing", "answered", "up", "over"}]
    /\ outbound \subseteq Calls /\ taped \subseteq Calls
    /\ rolling \subseteq IF capture = NoCall THEN {} ELSE Speakers
    /\ spoilt \subseteq Calls /\ unheeded \subseteq Calls /\ failed \subseteq Calls
    /\ {phone, selected, pending, capture} \subseteq Calls \cup {NoCall}
    /\ voice \in {"null", "live", "ended"}
    /\ alive \in BOOLEAN /\ ending \in BOOLEAN
    /\ ops \subseteq OpStep

Init ==
    /\ Desk!Init
    /\ recording = [c \in Calls |-> NoCall]
    /\ leg = [c \in Calls |-> "none"] /\ outbound = {} /\ phone = NoCall
    /\ selected = NoCall /\ voice = "null" /\ pending = NoCall
    /\ alive = FALSE /\ ending = FALSE
    /\ capture = NoCall /\ rolling = {} /\ taped = {} /\ ops = {}
    /\ spoilt = {} /\ unheeded = {} /\ failed = {}
    /\ transcript = [c \in Calls |-> {}]

\* Live chunks come and go while the agent works; each reloads the panel.  A late one
\* is awaited by nobody.
Chunks == {o \in ops : o.by # "none" /\ o.at # "late"}
Room == Cardinality({o \in ops : o.by = "none"}) < MaxOps
Settled == Room /\ ("hasty" \notin Trials => ops \subseteq Chunks)
Shown == "swift" \notin Trials => \A o \in ops : o.op \notin {"claim", "dial", "load"}
Finishing == \E o \in ops : Finishes(o)
Absorbed == phone # NoCall \/ pending # NoCall \/ Finishing
Free(c) == kind[c] = "none" /\ leg[c] = "none" /\ \A o \in ops : o.call # c

-----------------------------------------------------------------------------
(* A call is about to be finished. *)

\* Calls finished twice at once, the second time without a recorder to stop, and
\* legs whose audio is taken for another call's.
Spoiling ==
    {o.call : o \in {p \in ops : Finishes(p) /\
                       \E q \in ops : Finishes(q) /\ q # p /\ q.call = p.call}}
      \cup {o.audio : o \in {p \in ops : Finishes(p) /\ p.audio \notin {p.call, NoCall}}}

\* stopCaptureAndUpload empties captureRef and stops what it held: of the speakers'
\* recorders those that are recording a segment, and these segments are awaited.
Finish(op, c) ==
    {Op(op, c, IF capture = NoCall THEN "hang" ELSE "drain", capture, "none")}
      \cup {Op("segment", capture, "last", capture, s) : s \in rolling}

-----------------------------------------------------------------------------
(* A SIP leg ends. *)

\* onEnded, run by the phone when any leg ends, with the refs as the handler
\* that ended it has left them and its requests in hand: it takes the agent's own
\* hang-up for done, else rejects the call on offer, else finishes the selected.
FinishesSelected(pend, end) ==
    ~end /\ pend = NoCall /\ selected # NoCall /\ voice = "live"
OpsOnEnd(pend, end, hand) ==
    hand \cup {Ask("reject", c) : c \in IF end THEN {} ELSE {pend} \ {NoCall}}
         \cup (IF FinishesSelected(pend, end) THEN Finish("remote", selected) ELSE {})

\* Mutant: the recorder's ref is not cleared.
OnEndedKeepsTape(pend, end, hand) ==
    /\ alive' = FALSE /\ ending' = FALSE
    /\ pending' = IF end THEN pend ELSE NoCall
    /\ UNCHANGED <<capture, rolling>>
    /\ ops' = OpsOnEnd(pend, end, hand)

\* Mutant: the flag of the agent's own hang-up is not reset.
OnEndedStaysEnding(pend, end, hand) ==
    /\ alive' = FALSE /\ ending' = end
    /\ pending' = IF end THEN pend ELSE NoCall
    /\ IF FinishesSelected(pend, end) THEN capture' = NoCall /\ rolling' = {}
       ELSE UNCHANGED <<capture, rolling>>
    /\ ops' = OpsOnEnd(pend, end, hand)

OnEnded(pend, end, hand) ==
    /\ alive' = FALSE /\ ending' = FALSE
    /\ pending' = IF end THEN pend ELSE NoCall
    /\ IF FinishesSelected(pend, end) THEN capture' = NoCall /\ rolling' = {}
       ELSE UNCHANGED <<capture, rolling>>
    /\ ops' = OpsOnEnd(pend, end, hand)

\* A leg ends while its call is being finished, or onEnded sees to it: it finishes the
\* call, or drops or rejects the offer.  Otherwise its end is overlooked.
Heeded(c, pend, end, hand) ==
    \/ \E o \in hand : Finishes(o) /\ o.call = c
    \/ FinishesSelected(pend, end) /\ selected = c
    \/ Ringing(c) /\ c \notin outbound /\ ~end
Heeding(c, pend, end, hand) ==
    unheeded' = IF Heeded(c, pend, end, hand) THEN unheeded ELSE unheeded \cup {c}

\* Mutant: the phone keeps a session that ended.
LegEndsKept(c, pend, end, hand) ==
    /\ leg' = [leg EXCEPT ![c] = "over"]
    /\ OnEnded(pend, end, hand) /\ Heeding(c, pend, end, hand)
    /\ UNCHANGED phone

\* The phone forgets its session whichever leg it was that ended.
LegEnds(c, pend, end, hand) ==
    /\ leg' = [leg EXCEPT ![c] = "over"]
    /\ phone' = NoCall
    /\ OnEnded(pend, end, hand) /\ Heeding(c, pend, end, hand)

\* SipPhone.hangup and reject: the event comes before terminate returns.
Terminate(pend, live, end, hand) ==
    IF phone # NoCall THEN LegEnds(phone, pend, end, hand)
    ELSE /\ pending' = pend /\ alive' = live /\ ending' = end /\ ops' = hand
         /\ UNCHANGED <<leg, phone, capture, rolling, unheeded>>

\* The far end hangs up, gives up ringing, or the leg fails.
RemoteEnds(c) ==
    /\ Shown
    /\ Ringing(c) \/ Talking(c)
    /\ LegEnds(c, pending, ending, ops)
    /\ spoilt' = spoilt \cup Spoiling'
    /\ UNCHANGED <<deskVars, outbound, selected, voice, recording, taped, transcript, failed>>

-----------------------------------------------------------------------------
(* A call comes in. *)

\* newRTCSession: the phone takes the leg for its session and onIncoming asks
\* the desk to register it.
Rings(c) ==
    /\ Settled
    /\ Free(c)
    /\ "second_line" \notin Trials => \A d \in Calls : ~Ringing(d) /\ ~Talking(d)
    /\ leg' = [leg EXCEPT ![c] = "ringing"]
    /\ phone' = c
    /\ alive' = TRUE
    /\ ops' = ops \cup {Ask("register", c)}
    /\ UNCHANGED <<deskVars, outbound, selected, voice, pending, ending, tapeVars, pastVars>>

RegisterServed(o) ==
    /\ IsAt(o, "register", "sent")
    /\ Served(o, Desk!RegisterLiveInbound(o.call, Me), Moved(o, "refused"))

\* The registered call is offered, or rejected if its leg is thought to be gone.
Offered(o) ==
    /\ IsAt(o, "register", "granted")
    /\ IF alive THEN pending' = o.call /\ ops' = Done(o)
       ELSE ops' = Moved(o, "ghost") /\ UNCHANGED pending
    /\ UNCHANGED <<deskVars, sipVars, selected, voice, alive, ending, tapeVars, pastVars>>

\* A call that was not registered, or whose rejection failed, is turned away: the
\* phone rejects its session, whatever that is by now.
TurnedAway(o) ==
    /\ IsAt(o, "register", "refused")
    /\ Terminate(pending, alive, ending, Done(o))
    /\ spoilt' = spoilt \cup Spoiling'
    /\ UNCHANGED <<deskVars, outbound, selected, voice, recording, taped, transcript, failed>>

\* Reject, in the overlay or in the queue.
RejectClick(c) ==
    /\ Settled
    /\ pending = c \/ (status[c] = "queued" /\ kind[c] = "voice")
    /\ IF pending = c
       THEN Terminate(NoCall, FALSE, ending, ops \cup {Ask("reject", c)})
       ELSE /\ ops' = ops \cup {Ask("reject", c)}
            /\ UNCHANGED <<leg, phone, pending, alive, ending, capture, rolling, unheeded>>
    /\ spoilt' = spoilt \cup Spoiling'
    /\ UNCHANGED <<deskVars, outbound, selected, voice, recording, taped, transcript, failed>>

\* rejectVoice; a failure is caught, by onIncoming's own handler for the ghost.
RejectServed(o) ==
    /\ IsAt(o, "reject", "sent") \/ IsAt(o, "register", "ghost")
    /\ LET refusal == IF o.op = "register" THEN Moved(o, "refused") ELSE Done(o)
       IN  \/ Desk!Reject(o.call, Me) /\ ops' = Done(o) /\ UNCHANGED failed
           \/ (Desk!Reject(o.call, Me) \/ UNCHANGED deskVars) /\ Fails(o, refusal)
    /\ UNCHANGED <<sipVars, refVars, tapeVars, spoilt, unheeded>>

-----------------------------------------------------------------------------
(* Work is taken. *)

\* Answer call, or Accept in the queue.
ClaimClick(c) ==
    /\ Settled
    /\ pending = c \/ status[c] = "queued"
    /\ "distracted" \notin Trials => pending = c \/ ~Absorbed
    /\ \A o \in ops : o.op # "claim"
    /\ Start(Ask("claim", c))

ClaimServed(o) ==
    /\ IsAt(o, "claim", "sent")
    /\ Served(o, Desk!Claim(o.call, Me), Done(o))

\* The claimed conversation is selected; until the list shows it, the panel
\* has no session.  If it is the call that rings, its session is fetched first.
ClaimReturns(o) ==
    /\ IsAt(o, "claim", "granted")
    /\ selected' = o.call
    /\ voice' \in {voice, "null"}
    /\ ops' = (IF pending = o.call THEN Moved(o, "fetch") ELSE Done(o))
                \cup {Ask("load", o.call)}
    /\ UNCHANGED <<deskVars, sipVars, pending, alive, ending, tapeVars, pastVars>>

\* SipPhone.answer: the incoming leg that is the phone's session; there may be none.
AnswerLeg ==
    leg' = [c \in Calls |-> IF c = phone /\ c \notin outbound /\ Ringing(c)
                            THEN "answered" ELSE leg[c]]

\* The call is answered: whatever incoming leg the phone's session is.
Answered(o) ==
    /\ IsAt(o, "claim", "fetch")
    /\ voice' = IF session[o.call] = "ended" THEN "ended" ELSE "live"
    /\ pending' = NoCall
    /\ alive' = TRUE
    /\ AnswerLeg
    /\ ops' = Done(o)
    /\ UNCHANGED <<deskVars, outbound, phone, selected, ending, tapeVars, pastVars>>

\* Or its session is not fetched: it rings on, taken and still on offer.
FetchFails(o) ==
    /\ IsAt(o, "claim", "fetch")
    /\ Fails(o, Done(o))
    /\ UNCHANGED <<deskVars, sipVars, refVars, tapeVars, spoilt, unheeded>>

\* dial, offered while nothing is selected and the phone is registered.
DialClick(c) ==
    /\ Settled
    /\ Free(c) /\ selected = NoCall /\ phone = NoCall
    /\ \A o \in ops : o.op # "dial"
    /\ Start(Ask("dial", c))

DialServed(o) ==
    /\ IsAt(o, "dial", "sent")
    /\ Served(o, Desk!Dial(o.call, Me), Done(o))

\* SipPhone.call: the leg rings at the far end and is the phone's session.
PlaceCall(c) ==
    /\ leg' = [leg EXCEPT ![c] = "ringing"]
    /\ outbound' = outbound \cup {c}
    /\ phone' = c

\* The call is placed, or cannot be: the number is not an internal extension.
DialReturns(o) ==
    /\ IsAt(o, "dial", "granted")
    /\ selected' = o.call
    /\ voice' \in {"live", "null"}
    /\ ops' = Done(o) \cup {Ask("load", o.call)}
    /\ \/ PlaceCall(o.call)
       \/ "legless" \in Trials /\ UNCHANGED sipVars
    /\ UNCHANGED <<deskVars, pending, alive, ending, tapeVars, pastVars>>

FarEndAnswers(c) ==
    /\ Ringing(c) /\ c \in outbound
    /\ leg' = [leg EXCEPT ![c] = "answered"]
    /\ UNCHANGED <<deskVars, outbound, phone, refVars, tapeVars, pastVars, ops>>

\* A CallCapture takes up both streams of the leg; too late for a recording, if the
\* call has ended or is being finished.
StartCapture(c) ==
    /\ capture' = c /\ rolling' = Speakers /\ taped' = taped \cup {c}
    /\ spoilt' = IF session[c] = "ended" \/ \E o \in ops : Finishes(o) /\ o.call = c
                 THEN spoilt \cup {c} ELSE spoilt

\* onMedia, once per leg: it is recorded if the panel has a session and nothing
\* else is being recorded.
Media(c) ==
    /\ Shown
    /\ leg[c] = "answered"
    /\ leg' = [leg EXCEPT ![c] = "up"]
    /\ IF voice # "null" /\ capture = NoCall
       THEN StartCapture(c)
       ELSE UNCHANGED <<capture, rolling, taped, spoilt>>
    /\ UNCHANGED <<deskVars, outbound, phone, refVars, recording, transcript, unheeded, failed,
                   ops>>

\* A speaker's recorder is stopped by the timer, or because its track has ended; it
\* is inactive from now on, but its segment is not there yet.  A segment comes only
\* when the speaker's one before has been dealt with (a bound, and MaxChunks).
SegmentEnds(s) ==
    /\ s \in rolling
    /\ Cardinality(Chunks) < MaxChunks
    /\ \A o \in ops : ~(o.audio = capture /\ o.by = s)
    /\ rolling' = rolling \ {s}
    /\ ops' = ops \cup {Op("segment", capture, "timed", capture, s)}
    /\ UNCHANGED <<deskVars, sipVars, refVars, recording, capture, taped, transcript, pastVars>>

\* onstop: the segment, unless it is empty, is sent for the conversation selected
\* now, and the next begins.  One that the timer stopped just before stop() came is
\* late: nobody awaits it.
ForSelected(op, at, o) == {Op(op, c, at, o.audio, o.by) : c \in {selected} \ {NoCall}}
Pending(o) ==
    IF o.at = "last" THEN "last" ELSE IF capture = o.audio THEN "sent" ELSE "late"

SegmentStops(o) ==
    /\ o.op = "segment"
    /\ \/ ops' = Done(o) \cup ForSelected("chunk", Pending(o), o)
       \/ ops' = Done(o)
    /\ rolling' = IF capture = o.audio /\ Talking(o.audio) THEN rolling \cup {o.by} ELSE rolling
    /\ UNCHANGED <<deskVars, sipVars, refVars, recording, capture, taped, transcript, pastVars>>

\* ingest_voice_chunk; then the panel is loaded anew.  A chunk that is refused, or
\* that the provider fails, is lost, and only the error line says so.
ChunkServed(o) ==
    /\ o.op = "chunk"
    /\ \/ /\ Desk!MayControl(o.call, Me)
          /\ transcript' = [transcript EXCEPT ![o.call] = @ \cup {o.audio}]
          /\ ops' \in {Done(o) \cup ForSelected("load", o.at, o), Done(o)}
       \/ ops' = Done(o) /\ UNCHANGED transcript
    /\ UNCHANGED <<deskVars, sipVars, refVars, recording, capture, rolling, taped, pastVars>>

-----------------------------------------------------------------------------
(* The panel follows the selection. *)

Select(c) ==
    /\ Settled
    /\ assignee[c] = Me /\ status[c] \in {"active", "wrap_up"} /\ selected # c
    /\ "distracted" \notin Trials => ~Absorbed
    /\ selected' = c
    /\ ops' = ops \cup {Ask("load", c)}
    /\ UNCHANGED <<deskVars, sipVars, voice, pending, alive, ending, tapeVars, pastVars>>

\* Any event of the desk makes the console list its work again.
Refresh ==
    /\ Settled
    /\ selected # NoCall
    /\ Start(Ask("load", selected))

\* loadConversation: the panel shows what it loaded, selected since or not, or what
\* it showed before if a request failed.
Loaded(o) ==
    /\ o.op = "load"
    /\ \/ /\ voice' = IF kind[o.call] = "chat" THEN "null"
                      ELSE IF session[o.call] = "ended" THEN "ended" ELSE "live"
          /\ ops' = Done(o) /\ UNCHANGED failed
       \/ Fails(o, Done(o)) /\ UNCHANGED voice
    /\ UNCHANGED <<deskVars, sipVars, selected, pending, alive, ending, tapeVars, spoilt, unheeded>>

-----------------------------------------------------------------------------
(* A call is finished: stop the recorder, upload, hang up, tell the desk. *)

\* Mutant: the call is hung up first, and the recorder found stopped.
HangUpFirst(c) ==
    /\ Room
    /\ selected = c /\ kind[c] = "voice" /\ voice # "ended"
    /\ IF Finishing THEN "impatient" \in Trials ELSE Settled
    /\ Terminate(pending, alive, TRUE, ops \cup {Op("hangup", c, "hang", NoCall, "none")})
    /\ spoilt' = spoilt \cup Spoiling'
    /\ UNCHANGED <<deskVars, outbound, selected, voice, recording, taped, transcript, failed>>

HangUpClick(c) ==
    /\ Room
    /\ selected = c /\ kind[c] = "voice" /\ voice # "ended"
    /\ IF Finishing THEN "impatient" \in Trials ELSE Settled
    /\ IF capture = NoCall
       THEN Terminate(pending, alive, TRUE, ops \cup Finish("hangup", c))
       ELSE /\ ending' = TRUE /\ capture' = NoCall /\ rolling' = {}
            /\ ops' = ops \cup Finish("hangup", c)
            /\ UNCHANGED <<leg, phone, pending, alive, unheeded>>
    /\ spoilt' = spoilt \cup Spoiling'
    /\ UNCHANGED <<deskVars, outbound, selected, voice, recording, taped, transcript, failed>>

Reaches(o, at) == Finishes(o) /\ o.at = at

\* CallCapture.stop has waited for the chunks that it found pending, the failed ones
\* too, and the reloads after them.  The browser fires the recorders' stop events in
\* the order of their stops, the full recorder's last: no segment is still to come.
CaptureStops(o) ==
    /\ Reaches(o, "drain")
    /\ \A x \in Chunks : x.audio # o.audio
    /\ ops' = Moved(o, "put")
    /\ UNCHANGED <<deskVars, sipVars, refVars, tapeVars, pastVars>>

\* upload_voice_recording: one recording, of a call that is still up.
UploadServed(o) ==
    /\ Reaches(o, "put")
    /\ \/ /\ Desk!MayControl(o.call, Me) /\ recording[o.call] = NoCall
          /\ recording' = [recording EXCEPT ![o.call] = o.audio]
          /\ (ops' = Moved(o, "clear") /\ UNCHANGED failed) \/ Fails(o, Done(o))
          /\ UNCHANGED spoilt
       \/ /\ spoilt' = spoilt \cup {o.audio}
          /\ Fails(o, Done(o))
          /\ UNCHANGED recording
    /\ UNCHANGED <<deskVars, sipVars, refVars, capture, rolling, taped, transcript, unheeded>>

\* A recording without a byte is not uploaded.
NothingToUpload(o) ==
    /\ Reaches(o, "put")
    /\ spoilt' = spoilt \cup {o.audio}
    /\ ops' = Moved(o, "clear")
    /\ UNCHANGED <<deskVars, sipVars, refVars, tapeVars, unheeded, failed>>

\* Mutant: the desk is told and the leg left up.
LegDownUnheard(o) ==
    /\ Reaches(o, "clear")
    /\ ops' = Moved(o, "hang")
    /\ UNCHANGED <<deskVars, sipVars, refVars, tapeVars, pastVars>>

\* Mutant: nothing is left to do when the far end was first.
LegDownForgets(o) ==
    /\ Reaches(o, "clear")
    /\ IF o.op = "hangup" /\ phone # NoCall
       THEN Terminate(pending, alive, ending, Moved(o, "hang"))
       ELSE /\ ops' = IF o.op = "hangup" THEN Done(o) ELSE Moved(o, "hang")
            /\ UNCHANGED <<leg, phone, pending, alive, ending, capture, rolling, unheeded>>
    /\ spoilt' = spoilt \cup Spoiling'
    /\ UNCHANGED <<deskVars, outbound, selected, voice, recording, taped, transcript, failed>>

\* After the upload the agent's hang-up ends the leg; the remote one has.
LegDown(o) ==
    /\ Reaches(o, "clear")
    /\ IF o.op = "hangup" THEN Terminate(pending, alive, ending, Moved(o, "hang"))
       ELSE /\ ops' = Moved(o, "hang")
            /\ UNCHANGED <<leg, phone, pending, alive, ending, capture, rolling, unheeded>>
    /\ spoilt' = spoilt \cup Spoiling'
    /\ UNCHANGED <<deskVars, outbound, selected, voice, recording, taped, transcript, failed>>

\* control's request, or the remote end's; if it fails, the panel goes on showing the
\* call as it did, and nothing asks again.
HangUpServed(o) ==
    /\ Reaches(o, "hang")
    /\ Served(o, Desk!HangUp(o.call, Me), Done(o))

\* The panel takes the answer for the call it shows, and loads: the agent's
\* hang-up the call it was pressed for, the remote one the call now selected.
HangUpReturns(o) ==
    /\ Reaches(o, "granted")
    /\ voice' = IF o.op = "remote" /\ selected = NoCall THEN "null" ELSE "ended"
    /\ ops' = Done(o) \cup {Ask("load", c) :
                  c \in (IF o.op = "hangup" THEN {o.call} ELSE {selected}) \ {NoCall}}
    /\ UNCHANGED <<deskVars, sipVars, selected, pending, alive, ending, tapeVars, pastVars>>

\* resolve, offered for a chat and for an ended call.
WrapUpClick(c) ==
    /\ Settled
    /\ selected = c /\ (kind[c] = "chat" \/ voice = "ended")
    /\ Start(Ask("wrapup", c))

WrapUpServed(o) ==
    /\ IsAt(o, "wrapup", "sent")
    /\ Served(o, Desk!WrapUp(o.call), Done(o))

\* Whatever has been selected meanwhile is selected no longer.
WrapUpReturns(o) ==
    /\ IsAt(o, "wrapup", "granted")
    /\ ops' = Done(o)
    /\ selected' = NoCall
    /\ voice' = "null"
    /\ UNCHANGED <<deskVars, sipVars, pending, alive, ending, tapeVars, pastVars>>

\* A chat, or a simulated call, which has no leg, enters the queue.
Queued(c) ==
    /\ Free(c)
    /\ \/ Desk!CreateConversation(c, "chat", TRUE)
       \/ "legless" \in Trials /\ Desk!RingInbound(c)
    /\ UNCHANGED <<sipVars, refVars, tapeVars, pastVars, ops>>

Continue(o) ==
    \/ RegisterServed(o) \/ Offered(o) \/ TurnedAway(o) \/ RejectServed(o)
    \/ ClaimServed(o) \/ ClaimReturns(o) \/ Answered(o) \/ FetchFails(o)
    \/ DialServed(o) \/ DialReturns(o) \/ Loaded(o)
    \/ SegmentStops(o) \/ ChunkServed(o)
    \/ CaptureStops(o) \/ UploadServed(o) \/ NothingToUpload(o) \/ LegDown(o)
    \/ HangUpServed(o) \/ HangUpReturns(o) \/ WrapUpServed(o) \/ WrapUpReturns(o)

Next ==
    \/ \E o \in ops : Continue(o)
    \/ Refresh
    \/ \E s \in Speakers : SegmentEnds(s)
    \/ \E c \in Calls :
          \/ Rings(c) \/ FarEndAnswers(c) \/ Media(c) \/ RemoteEnds(c) \/ Queued(c)
          \/ ClaimClick(c) \/ RejectClick(c) \/ DialClick(c) \/ Select(c)
          \/ HangUpClick(c) \/ WrapUpClick(c)

Spec == Init /\ [][Next]_vars

\* Requests are answered or fail, and promises are resolved.  Nothing is assumed of callers,
\* of the far end or of the agent.
FairSpec == Spec /\ WF_vars(\E o \in ops : Continue(o))

-----------------------------------------------------------------------------
(* Properties, with the trials under which each is to hold. *)

\* Whoever is on the line with the agent has a call at the desk that is up and
\* the agent's to hang up: never one that ended, was rejected, belongs to nobody
\* or was not registered.  Any trial but second_line and hasty.
TalkingCallIsLive == \A c \in Calls : Talking(c) => Desk!MayControl(c, Me)

\* The recording stored with a call, and its live transcript, which the finalizer
\* takes for the call's own (external_voice.py:80), are of that call's own audio,
\* although one recorder ref and one selection serve all calls, until the end of a
\* leg is overlooked.  No trial.
AudioIsOwn ==
    unheeded = {} => \A c \in Calls : {recording[c]} \cup transcript[c] \subseteq {c, NoCall}

\* The audio of a leg is in one place: with the recorder, with one handler that is
\* to upload it, or stored with one call (captureRef is read and emptied in one go,
\* App.tsx:319, although any handler and any leg's end may do it).  Every trial.
Holds(o) == Finishes(o) /\ o.at \in {"drain", "put"}

AudioKeptOnce ==
    /\ \A c, d \in Calls : recording[c] # NoCall /\ recording[c] = recording[d] => c = d
    /\ \A o, q \in ops : Holds(o) /\ Holds(q) /\ o.audio = q.audio => o = q
    /\ \A o \in ops, c \in Calls : Holds(o) => o.audio \notin {capture, recording[c]}
    /\ \A c \in Calls : capture # NoCall => recording[c] # capture

\* docs/DEPLOYMENT.md:22, "then uploads the complete recording before hangup": a
\* call that was recorded and has ended has its own recording, unless its audio met
\* with an accident: the upload failed or had nothing to send, the recorder was
\* stopped for another call or started too late, or the call was finished a second
\* time while it was being finished.  Every trial.
Recorded(c) == c \in taped /\ session[c] = "ended" => recording[c] = c

TapedIsRecorded == \A c \in Calls \ spoilt : Recorded(c)

\* The same as the document says it, without exception.
RecordingIsComplete == \A c \in Calls : Recorded(c)

\* The far end's hang-up is never overlooked (a stale endingRef, App.tsx:246, or a
\* panel without its session, :255) before a request has failed.  No trial.
EndsAreHeeded == failed = {} => unheeded = {}

\* When a leg is gone, whoever ended it, at whatever point of a hang-up or of its
\* answering, the desk comes to hold its call no longer for up, with nobody's help,
\* unless a request about the call failed or its end was overlooked; App.tsx:261
\* speaks of a remote hang-up that is finalized.  No trial.
GoneLegIsSettled ==
    \A c \in Calls :
        leg[c] = "over" ~> session[c] \notin Desk!Live \/ c \in failed \cup unheeded

\* What the proofs carry from step to step.  Under every trial, the phone's session
\* is a leg that exists, what is offered was registered, and what is selected or
\* taken is the agent's.
RefsAreRight ==
    /\ phone # NoCall => Ringing(phone) \/ Talking(phone)
    /\ pending # NoCall => session[pending] # "none"
    /\ selected # NoCall => assignee[selected] = Me
    /\ \A o \in ops : o.op \in {"load", "chunk", "hangup", "remote"} => assignee[o.call] = Me

\* What the desk has granted stands until the page has taken the answer.
GrantsStand ==
    \A o \in ops :
        /\ o.op \in {"claim", "dial"} /\ o.at \in {"granted", "fetch"} => assignee[o.call] = Me
        /\ o.op = "register" /\ o.at = "granted" => session[o.call] # "none"

\* A call that is being dialled has no leg yet, and no other is.
DialIsNew ==
    \A o \in ops : o.op = "dial" =>
        leg[o.call] = "none" /\ \A q \in ops : q.op = "dial" => q = o

\* With one line, and answers awaited, a leg is the phone's session ...
LineIsSole ==
    /\ \A c \in Calls : Ringing(c) \/ Talking(c) => phone = c
    /\ \A c \in outbound : leg[c] # "none" /\ (Ringing(c) => Desk!MayControl(c, Me))

\* ... one call is taken at a time, and none is dialled during a hang-up; ...
Takes(o) == o.op \in {"register", "claim", "dial"}

TakenInTurn ==
    /\ \A o, q \in ops : Takes(o) /\ Takes(q) => o = q
    /\ \A o, q \in ops : o.op = "dial" => q.op \notin {"hangup", "remote"}
    /\ \A o \in ops : o.op = "dial" /\ o.at = "granted" => Desk!MayControl(o.call, Me)

\* ... while a leg is up the desk is not told of a hang-up, and a leg that rings
\* is on offer or about to be, and is the one that a claim answers.
LegIsKnown ==
    phone # NoCall =>
        /\ \A o \in ops :
              /\ o.op \notin {"remote", "dial"}
              /\ o.op = "hangup" => o.at \notin {"hang", "granted"}
              /\ o.op = "register" => o.call = phone /\ alive /\ o.at # "ghost"
              /\ o.op = "claim" /\ o.at \in {"granted", "fetch"} =>
                    session[o.call] \in {"none"} \cup Desk!Live
              /\ o.op = "claim" /\ o.at = "fetch" => pending = o.call
        /\ Ringing(phone) /\ phone \notin outbound =>
              pending = phone \/ \E o \in ops : o.op = "register"

OneAtATime == {"second_line", "hasty"} \cap Trials = {}

\* Under every trial, audio is of a leg that was up, and what is not spoilt is still
\* recorded, or in the one hand that is to upload it before the call ends.
AudioIsOfLegs ==
    /\ \A c \in taped : leg[c] \in {"up", "over"}
    /\ capture \in taped \cup {NoCall}
    /\ \A c \in Calls : recording[c] \in taped \cup {NoCall}
    /\ \A o \in ops : Holds(o) => o.audio \in taped

TapeIsComing ==
    \A c \in taped \ spoilt :
        \/ recording[c] = c
        \/ /\ session[c] # "ended"
           /\ \/ capture = c /\ \A q \in ops : Finishes(q) => q.call # c
              \/ \E o \in ops : /\ Holds(o) /\ o.call = c /\ o.audio = c
                                /\ \A q \in ops : Finishes(q) /\ q.call = c => q = o

IInv ==
    /\ TypeOK /\ Desk!SessionIsVoice /\ Desk!AssignedIffWorked
    /\ RefsAreRight /\ GrantsStand
    /\ DialIsNew /\ AudioIsOfLegs /\ AudioKeptOnce /\ TapeIsComing
    /\ OneAtATime => LineIsSole /\ TakenInTurn /\ LegIsKnown /\ TalkingCallIsLive
=============================================================================
